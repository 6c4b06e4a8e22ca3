--------------------------- MODULE MCStateService ---------------------------
(***************************************************************************)
(* Requests for the blocks of a small tree:                                *)
(*                                                                         *)
(*      G --- a1 --- b2 --- c3 --- e4                                      *)
(*                    +---- d3 --- f4 --- g5                               *)
(*                                                                         *)
(* The configurations choose the requests and the checkpointed blocks.     *)
(***************************************************************************)
EXTENDS StateService

MCParent == [a1 |-> "G", b2 |-> "a1", c3 |-> "b2", d3 |-> "b2", e4 |-> "c3",
             f4 |-> "d3", g5 |-> "f4"]

MCBlock == DOMAIN MCParent

MCHeight == [a1 |-> 1, b2 |-> 2, c3 |-> 3, d3 |-> 3, e4 |-> 4, f4 |-> 4, g5 |-> 5]

MCAncestors ==
  [a1 |-> {}, b2 |-> {"a1"}, c3 |-> {"a1", "b2"}, d3 |-> {"a1", "b2"},
   e4 |-> {"a1", "b2", "c3"}, f4 |-> {"a1", "b2", "d3"},
   g5 |-> {"a1", "b2", "d3", "f4"}]

MCOne == [b \in MCBlock |-> 1]

MCZero == [b \in MCBlock |-> 0]

MCHashOrder == [a1 |-> 1, b2 |-> 2, c3 |-> 3, d3 |-> 4, e4 |-> 5, f4 |-> 6, g5 |-> 7]

MCNothing == [b \in MCBlock |-> {}]

(* The requests by name: kind, block, validity of the body.                *)
Table ==
  [k1bad |-> <<"checkpoint", "a1", FALSE>>, k1 |-> <<"checkpoint", "a1", TRUE>>,
   k2 |-> <<"checkpoint", "b2", TRUE>>, k2bad |-> <<"checkpoint", "b2", FALSE>>,
   a |-> <<"commit", "a1", TRUE>>, b |-> <<"commit", "b2", TRUE>>,
   bbad |-> <<"commit", "b2", FALSE>>,
   c |-> <<"commit", "c3", TRUE>>, cbad |-> <<"commit", "c3", FALSE>>,
   d |-> <<"commit", "d3", TRUE>>, e |-> <<"commit", "e4", TRUE>>,
   ebad |-> <<"commit", "e4", FALSE>>,
   f |-> <<"commit", "f4", TRUE>>, g |-> <<"commit", "g5", TRUE>>,
   invb |-> <<"invalidate", "b2", TRUE>>, recb |-> <<"reconsider", "b2", TRUE>>,
   inva |-> <<"invalidate", "a1", TRUE>>]

MCKind == [q \in Request |-> Table[q][1]]

MCBlockOf == [q \in Request |-> Table[q][2]]

MCBodyIsValid == [q \in Request |-> Table[q][3]]
=============================================================================
