--------------------------- MODULE MCNativeShaders ---------------------------
(***************************************************************************)
(* Three pairs over two vertex and two pixel shaders, so that a shader of   *)
(* either kind is shared by two pairs, and two compile jobs, each in a      *)
(* process of its own.                                                      *)
(***************************************************************************)
EXTENDS NativeShaders

CONSTANTS v, w, p, q, j, k

MCPairs == {[vs |-> v, ps |-> p], [vs |-> w, ps |-> p], [vs |-> v, ps |-> q]}
MCPid == [job \in {j, k} |-> IF job = j THEN 1 ELSE 2]

=============================================================================
