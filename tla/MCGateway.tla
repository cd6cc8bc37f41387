------------------------------ MODULE MCGateway ------------------------------
(* Gateway with one upstream and a key that leads nowhere, for TLC. *)
EXTENDS Gateway

CONSTANTS u1, k1, k2, k3

MCUpstreams == {u1}
MCKeys == {k1, k2, k3}
MCRoute == [k \in MCKeys |-> IF k = k3 THEN None ELSE u1]
=============================================================================
