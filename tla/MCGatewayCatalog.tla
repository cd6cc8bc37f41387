--------------------------- MODULE MCGatewayCatalog ---------------------------
(* Two upstreams under several prefixes, with names that hold separators. *)
EXTENDS GatewayCatalog, TLC

A == <<"a">>
B == <<"b">>
Config(name, prefix, enabled) == [name |-> name, prefix |-> prefix, enabled |-> enabled]

MCReads == "a.b" :> {"a.b", "axb"} @@ "c++" :> {}
MCDecode == "x%40y" :> "x@y"
MCEncode == "x@y" :> "x%40y"

MCWords == {"a", "b", "x", "t", "r", "p", "q", "u", "1", "2", "/", "_", "://", "?", "::",
            "a.b", "axb", "c++", "x@y", "x%40y", "%"}
            \union PathParams \union QueryParams

\* Prefixes of their own, one that holds a separator, one shared, one that matches the
\* other, and on stdio an empty one beside an upstream that is disabled.
MCSetups ==
  { <<Config(A, A, TRUE), Config(B, B, TRUE)>>,
    <<Config(B, <<"a", "_", "x">>, TRUE), Config(A, A, TRUE)>>,
    <<Config(A, A, TRUE), Config(B, A, TRUE)>>,
    <<Config(A, <<"a.b">>, TRUE), Config(B, <<"axb">>, TRUE)>> } \X {FALSE}
  \union {<< <<Config(A, <<>>, TRUE), Config(B, B, FALSE)>>, TRUE >>}

MCNames == {A, B}

MCOffers ==
  A :> [tool |-> << <<"x", "_", "t">> >>, resource |-> <<>>,
        prompt |-> << <<"x", "_", "p">> >>, template |-> << <<"u", "/", "{id}", "{?q}">> >>]
  @@ B :> [tool |-> << <<"t">> >>, resource |-> << <<"r">> >>, prompt |-> << <<"p">> >>,
           template |-> << <<"u", "/", "{id}">>, <<"u", "/", "%">>, <<"c++">> >>]

MCTasks == { <<"1", "::", "2">> }

MCUris ==
  { <<"a", "://", "u", "/", "x@y">>, <<"b", "://", "u", "/", "%", "?", "q">>,
    <<"axb", "://", "u", "/", "1">> }
===============================================================================
