------------------------------- MODULE Removal -------------------------------
(***************************************************************************)
(* What a loop over a Map or an array leaves of it that deletes some of    *)
(* the elements it meets, as ResponseCacheService.evictExpired and         *)
(* McpClientsService.removeConnection do, or what a filter keeps.  It is   *)
(* SelectSeq, written out for the proofs, to which SelectSeq is opaque.    *)
(***************************************************************************)
EXTENDS Naturals, Sequences

Without(s, gone) ==
  LET left[n \in 0 .. Len(s)] ==
        IF n = 0 THEN <<>>
        ELSE IF s[n] \in gone THEN left[n - 1]
        ELSE Append(left[n - 1], s[n])
  IN  left[Len(s)]

\* Array.filter
Keeping(s, kept) == Without(s, {s[n] : n \in DOMAIN s} \ kept)
=============================================================================
