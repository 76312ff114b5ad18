----------------------------- MODULE MCKeyList ------------------------------
(***************************************************************************)
(* KeyList for TLC: two keys, on two SCAN pages if there are two; the text  *)
(* "a" selects the key ka, and SCAN returns a page's keys in a fixed order.*)
(***************************************************************************)
EXTENDS KeyList

CONSTANTS ka, kb

MCMatches(p) == IF p.text = "a" THEN {ka} ELSE Keys
MCPageOf(k) == IF k = ka THEN 0 ELSE LastPage
MCInOrder(S) == SetToSeq(S)

Symmetry == Permutations(Slots)
=============================================================================
