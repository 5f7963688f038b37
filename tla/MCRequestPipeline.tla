------------------------- MODULE MCRequestPipeline --------------------------
(***************************************************************************)
(* Two clients and two tokenizer workers: the first may disconnect, the    *)
(* prompt of the second may be too long.  Tokens 1 and 2 of the first end  *)
(* inside a character, and what can be shown of its text shrinks: a CJK    *)
(* character, then one that is neither, each with the beginning of the     *)
(* next.  The second says a letter, a space, a letter and the beginning of *)
(* another, and ends with Eos.                                             *)
(***************************************************************************)
EXTENDS RequestPipeline

CONSTANTS t1, t2

Outputs   == (0 :> 3) @@ (1 :> 2)
Completes == (0 :> [n \in 0 .. 3 |-> n]) @@ (1 :> [n \in 0 .. 2 |-> IF n = 0 THEN 0 ELSE 3])
Partials  == (0 :> {1, 2}) @@ (1 :> {1, 2})
Kinds     == (0 :> <<"cjk", "other", "other">>) @@ (1 :> <<"other", "space", "other">>)

\* One client, and a text that a speculator's rounds cut where it shrinks.
AloneOutput   == 0 :> 6
AloneComplete == 0 :> [n \in 0 .. 6 |-> <<0, 1, 2, 2, 3, 3, 4>>[n + 1]]
AlonePartial  == 0 :> {3, 5}
AloneKind     == 0 :> <<"cjk", "cjk", "other", "other">>
=============================================================================
