---------------------------- MODULE MCScheduler -----------------------------
(***************************************************************************)
(* Small workloads for the scheduler: prompts of one to four pages over    *)
(* two tokens, sampling that may hit Eos at any step.                      *)
(***************************************************************************)
EXTENDS Scheduler

CONSTANTS r1, r2, r3, x, y, e

(* r1 and r2 have nothing in common; r3 shares its first page with r1, so   *)
(* that after r1 it matches, locks and protects what r1 left.               *)
MixedPrompts == (r1 :> <<x, x, x>>) @@ (r2 :> <<y, x, y>>) @@ (r3 :> <<x, x, y, x, y>>)
MixedTokens  == (r1 :> 3) @@ (r2 :> 2) @@ (r3 :> 3)

(* Requests that share their first page of four tokens and never decode     *)
(* across the end of a page.                                                *)
AbortPrompts == (r1 :> <<x, x, x, x, x>>) @@ (r2 :> <<x, x, x, x, y, x>>)
                  @@ (r3 :> <<y, y, y, y>>)
AbortTokens  == (r1 :> 3) @@ (r2 :> 2) @@ (r3 :> 3)

(* Requests that wait for the only row; the prompt of r3 is too long.       *)
QueuePrompts == (r1 :> <<x, x, x>>) @@ (r2 :> <<x, x, y, x, y>>)
                  @@ (r3 :> <<y, y, y, y, y, y, y, y>>)
QueueTokens  == (r1 :> 3) @@ (r2 :> 9) @@ (r3 :> 2)

(* Two requests that share their first page of two tokens.                  *)
TwinPrompts == (r1 :> <<x, x, y>>) @@ (r2 :> <<x, x, x>>)
TwinTokens  == (r1 :> 2) @@ (r2 :> 2)

(* When each request is sent: at any time, or r3 after r1.                  *)
AnyOrder   == [u \in Uid |-> {}]
ThirdAfter == [u \in Uid |-> IF u = r3 THEN {r1} ELSE {}]
=============================================================================
