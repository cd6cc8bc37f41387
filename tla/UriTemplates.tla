----------------------------- MODULE UriTemplates -----------------------------
(***************************************************************************)
(* Names put together from parts and taken apart again.  A name, a URI or  *)
(* a URI template is a sequence of tokens: words, separators, and in a     *)
(* template its path parameters and query expansions.  A segment of a URI  *)
(* that a parameter can stand for is one word.  Operators only.            *)
(***************************************************************************)
EXTENDS Naturals, Sequences, SequencesExt, Removal

CONSTANTS
  PathParams,    \* the tokens {name}
  QueryParams,   \* the tokens {?name,...}
  Reads,         \* words that are no plain text in a regular expression, and what each
                 \* matches there
  Broken,        \* words that make no regular expression
  Decode,        \* what percent-encoded words decode to
  Encode,        \* what words are encoded as that do not stand for themselves
  Malformed      \* words that cannot be decoded

\* Text before and after the first separator: indexOf and substring.
Before(text, separator) ==
  IF Contains(text, separator)
  THEN SubSeq(text, 1, SelectInSeq(text, LAMBDA t : t = separator) - 1) ELSE text

After(text, separator) ==
  IF Contains(text, separator)
  THEN SubSeq(text, SelectInSeq(text, LAMBDA t : t = separator) + 1, Len(text)) ELSE <<>>

DecodeURIComponent(word) == IF word \in DOMAIN Decode THEN Decode[word] ELSE word
EncodeURIComponent(word) == IF word \in DOMAIN Encode THEN Encode[word] ELSE word

Decoded(path) == [n \in DOMAIN path |-> DecodeURIComponent(path[n])]

\* parseTemplate: query expansions are taken out before the path is matched.
PathOf(template) == Without(template, QueryParams)

\* The fixed words are put into a regular expression as they are.
Matches(word, given) ==
  IF word \in DOMAIN Reads THEN given \in Reads[word] ELSE given = word

\* Its words that are not read as plain text.
Patterns == DOMAIN Reads \union Broken

\* A path parameter stands for one segment; a query never stops a match.
MatchUriTemplate(template, uri) ==
  LET path == PathOf(template)
      given == Before(uri, "?")
  IN  /\ Len(path) = Len(given)
      /\ \A n \in DOMAIN path : path[n] \in PathParams \/ Matches(path[n], given[n])

\* matchUriTemplate throws: for a template that makes no expression whatever the
\* URI, and for a match with a parameter that cannot be decoded.
Throws(template, uri) ==
  LET path == PathOf(template)
      given == Before(uri, "?")
  IN  \/ \E n \in DOMAIN path : path[n] \in Broken
      \/ /\ MatchUriTemplate(template, uri)
         /\ \E n \in DOMAIN path : path[n] \in PathParams /\ given[n] \in Malformed

\* Of a parameter that occurs twice the last value is kept.
Params(template, uri) ==
  LET path == PathOf(template)
      given == Before(uri, "?")
  IN  [p \in PathParams \intersect ToSet(path) |->
         DecodeURIComponent(given[SelectLastInSeq(path, LAMBDA t : t = p)])]

\* Path expansions only.
ExpandUriTemplate(template, params) ==
  LET path == PathOf(template)
  IN  [n \in DOMAIN path |->
         IF path[n] \in PathParams THEN EncodeURIComponent(params[path[n]]) ELSE path[n]]
===============================================================================
