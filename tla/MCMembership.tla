---------------------------- MODULE MCMembership ----------------------------
(* An instance of Membership for TLC. *)
EXTENDS Membership, TLC

CONSTANTS l, m

LeaderAndMember == {l, m}
OneLeader == {l}
==========================================================================
