---------------------------- MODULE MCKeyDetail ----------------------------
(***************************************************************************)
(* KeyDetail for TLC: two keys, a string or document that expires and a    *)
(* list that does not; SCAN returns them in a fixed order.                 *)
(***************************************************************************)
EXTENDS KeyDetail

CONSTANTS k1, k2

MCInOrder(S) == SetToSeq(S)
MCAtStart ==
  {[k \in Keys |-> IF k = k1 THEN [type |-> t, ttl |-> MaxTTL] ELSE [type |-> "list", ttl |-> NoExpiry]]
     : t \in Editable}

Symmetry == Permutations(Slots)
==============================================================================
