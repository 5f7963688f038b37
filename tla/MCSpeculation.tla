--------------------------- MODULE MCSpeculation ----------------------------
(***************************************************************************)
(* Three requests and three rows: u2 and u3 are sampled, u1 is greedy.     *)
(***************************************************************************)
EXTENDS Speculation

CONSTANTS u1, u2, u3

Prompts == (u1 :> 3) @@ (u2 :> 1) @@ (u3 :> 2)
Chunks  == (u1 :> 3) @@ (u2 :> 1) @@ (u3 :> 2)
Limits  == (u1 :> 4) @@ (u2 :> 3) @@ (u3 :> 2)
=============================================================================
