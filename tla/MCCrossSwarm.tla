---------------------------- MODULE MCCrossSwarm ----------------------------
(* Small instances of CrossSwarm. *)
EXTENDS CrossSwarm

CONSTANTS l1, l2, l3, l4, n1, n2

FourLeaders == {l1, l2, l3, l4}
TwoMembers == {n1, n2}

(* l1 - l2 - l3 - l4 *)
InALine ==
    [l \in Leader |-> CASE l = l1 -> {l2}
                       [] l = l2 -> {l1, l3}
                       [] l = l3 -> {l2, l4}
                       [] OTHER  -> {l3}]

(* A member asks for the last leader, the first leader for the member. *)
BothEnds == {<<n1, l4>>, <<l1, n1>>}
FirstToMember == {<<l1, n1>>}
==========================================================================
