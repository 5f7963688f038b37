---------------------------- MODULE MCStateSlots ----------------------------
(***************************************************************************)
(* Two rows, texts that share their first page, pages of three tokens and  *)
(* one draft token: rounds end before, at and behind the end of a page.    *)
(***************************************************************************)
EXTENDS StateSlots

CONSTANTS r1, r2, x, y

Texts   == {<<x, x, x, x, y, x, x, y>>, <<x, x, x, y, y, x, y>>, <<y, y, y, x, x>>}
Prompts == [t \in Text |-> IF Len(t) = 8 THEN 3 ELSE 4]
=============================================================================
