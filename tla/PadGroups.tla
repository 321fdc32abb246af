----------------------------- MODULE PadGroups -----------------------------
(***************************************************************************)
(* What the nets of core/mod.c promise to the author of a tile: pads are   *)
(* tied together in groups, a pad is in one group at most, and pads that   *)
(* were tied together stay so.                                             *)
(***************************************************************************)
CONSTANT Pads

VARIABLE groups     \* the nets, as sets of pads

Init == groups = {}

\* Whole groups and single pads become one group, the others stay as they are.
Gather(g) == /\ g \subseteq Pads
             /\ \A h \in groups : h \cap g = {} \/ h \subseteq g
             /\ groups' = {h \in groups : h \cap g = {}} \cup {g}

Next == \E g \in groups' : Gather(g)

Spec == Init /\ [][Next]_groups
-----------------------------------------------------------------------------
\* A pad is in one group at most.
Disjoint == /\ groups \subseteq SUBSET Pads
            /\ \A g, h \in groups : g \cap h # {} => g = h

\* Pads tied together stay together.
NeverParted == [][\A g \in groups : \E h \in groups' : g \subseteq h]_groups
=============================================================================
