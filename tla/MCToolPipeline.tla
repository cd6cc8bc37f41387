---------------------------- MODULE MCToolPipeline ----------------------------
(***************************************************************************)
(* ToolPipeline on a few requests.  Both sessions number their requests    *)
(* from 1, as JSON-RPC clients do, so the first ids collide.               *)
(***************************************************************************)
EXTENDS ToolPipeline, TLC

CONSTANTS s1, s2

MCSessions == {s1, s2}
ThreeCalls == {<<s1, 1>>, <<s1, 2>>, <<s2, 1>>}
=============================================================================
