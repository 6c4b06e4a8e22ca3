---------------------------- MODULE MCWriteTask ----------------------------
(***************************************************************************)
(* A block tree with two roots and four forks for the write task:          *)
(*                                                                         *)
(*      G --- a1 --- b2 --- c3 --- h4       h4 repeats a nullifier of a1   *)
(*      |      |      +---- g3              g3 repeats a spend of b2       *)
(*      |      +---- d2 --- e3 --- i4       d2 repeats it on another fork  *)
(*      +---- f1 --- k2                     k2 overdraws the value pool    *)
(*             +---- m2                     m2 spends an output of a1      *)
(*                                                                         *)
(* e3 draws what a1 paid into the pool, f1 has the work of three blocks,   *)
(* and c3 spends an output of its own block.                               *)
(***************************************************************************)
EXTENDS WriteTask

MCParent ==
  [a1 |-> "G", f1 |-> "G", b2 |-> "a1", d2 |-> "a1", k2 |-> "f1", m2 |-> "f1",
   c3 |-> "b2", g3 |-> "b2", e3 |-> "d2", h4 |-> "c3", i4 |-> "e3"]

MCBlock == DOMAIN MCParent

MCHeight ==
  [a1 |-> 1, f1 |-> 1, b2 |-> 2, d2 |-> 2, k2 |-> 2, m2 |-> 2,
   c3 |-> 3, g3 |-> 3, e3 |-> 3, h4 |-> 4, i4 |-> 4]

MCAncestors ==
  [a1 |-> {}, f1 |-> {}, b2 |-> {"a1"}, d2 |-> {"a1"}, k2 |-> {"f1"}, m2 |-> {"f1"},
   c3 |-> {"a1", "b2"}, g3 |-> {"a1", "b2"}, e3 |-> {"a1", "d2"},
   h4 |-> {"a1", "b2", "c3"}, i4 |-> {"a1", "d2", "e3"}]

MCBlockWork == [b \in MCBlock |-> IF b = "f1" THEN 3 ELSE 1]

MCHashOrder ==
  [a1 |-> 1, f1 |-> 7, b2 |-> 3, d2 |-> 4, k2 |-> 9, m2 |-> 10,
   c3 |-> 8, g3 |-> 2, e3 |-> 6, h4 |-> 5, i4 |-> 11]

MCOutPoint == {"o0", "o1", "o2"}

MCCreates ==
  [b \in MCBlock |-> CASE b = "a1" -> {"o1"} [] b = "c3" -> {"o2"} [] OTHER -> {}]

MCSpends ==
  [b \in MCBlock |-> CASE b \in {"b2", "d2", "g3", "m2"} -> {"o1"}
                       [] b = "c3" -> {"o0", "o2"}
                       [] OTHER -> {}]

MCReveals == [b \in MCBlock |-> IF b \in {"a1", "h4"} THEN {"n"} ELSE {}]

MCPoolChange ==
  [b \in MCBlock |-> CASE b = "a1" -> 1 [] b \in {"e3", "k2"} -> -1 [] OTHER -> 0]
=============================================================================
