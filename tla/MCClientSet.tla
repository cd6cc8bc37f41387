------------------------------ MODULE MCClientSet ------------------------------
(* One configured client, and one name met at run time, with reconnect. *)
EXTENDS ClientSet

MCConfigured == <<"a">>
MCMaxMade == [a |-> 1, b |-> 2]
===============================================================================
