-------------------------- MODULE CrossSwarmProofs --------------------------
(***************************************************************************)
(* Proofs about CrossSwarm, for every set of leaders and members and every *)
(* relation of which leader knows which.  OnlyAtLeaders needs the fact     *)
(* that members take none but leaders for their leader; the others follow  *)
(* from the types.                                                         *)
(***************************************************************************)
EXTENDS CrossSwarm, TLAPS

(* The leader a member knows is one. *)
LeaderIsLeader == \A n \in Member : currentLeader[n] \in Leader \cup {NoLeader}

IInv ==
    TypeOK /\ LeaderIsLeader /\ OnlyAtLeaders /\ NeverBackToSigner /\ StuckOnlyAsDestination

(* A broadcast goes to leaders other than the sender and the origin. *)
LEMMA BroadcastTo ==
    ASSUME NEW l \in Leader, NEW origin, NEW msg,
           NEW p \in BroadcastToOtherLeaders(l, msg, origin)
    PROVE  p.to \in Leader /\ p.to # origin /\ p.msg = msg /\ p = [to |-> p.to, msg |-> msg]
BY CrossAssumption DEF BroadcastToOtherLeaders, OtherLeaders

(* A new request has the shape of a request. *)
LEMMA NewRequestType ==
    ASSUME TypeOK, NEW n \in Drone, NEW d \in Drone, NEW s \in Leader \cup {NoLeader},
           requests[n] < MaxRequests
    PROVE  NewRequest(n, d, s) \in Request /\ requests[n] + 1 \in 0..MaxRequests
<1>1. requests[n] \in 0..MaxRequests /\ MaxRequests \in Nat
    BY CrossAssumption DEF TypeOK
<1>2. requests[n] + 1 \in 1..MaxRequests
    BY <1>1
<1> QED BY <1>2 DEF NewRequest, Request

(* The initial state satisfies the invariant. *)
LEMMA InitInv == Init => IInv
BY CrossAssumption
   DEF Init, IInv, TypeOK, LeaderIsLeader, OnlyAtLeaders, NeverBackToSigner,
       StuckOnlyAsDestination, Drone

(* Every step keeps it. *)
LEMMA NextInv == IInv /\ [Next]_vars => IInv'
<1> SUFFICES ASSUME IInv, [Next]_vars PROVE IInv'
    OBVIOUS
<1> USE DEF IInv
<1>1. ASSUME NEW n \in Member, NEW l \in Leader, LeaderHello(n, l) PROVE IInv'
    BY <1>1 DEF LeaderHello, TypeOK, LeaderIsLeader, OnlyAtLeaders, NeverBackToSigner,
                StuckOnlyAsDestination, Drone
<1>2. ASSUME NEW l \in Leader, NEW d \in Drone, LeaderAsks(l, d) PROVE IInv'
    <2> DEFINE m == NewRequest(l, d, l)
               out == BroadcastToOtherLeaders(l, m, l)
    <2>1. m \in Request /\ requests[l] + 1 \in 0..MaxRequests
        BY <1>2, NewRequestType DEF LeaderAsks, MakesRequest, Drone
    <2>2. /\ requests' = [requests EXCEPT ![l] = requests[l] + 1]
          /\ net' = net \cup out
          /\ UNCHANGED <<currentLeader, stuck, seen>>
        BY <1>2 DEF LeaderAsks, MakesRequest
    <2>3. \A p \in out : p \in Packet /\ p.to \in Leader /\ p.to # l /\ p.msg = m
        BY <2>1, BroadcastTo DEF Packet, Drone
    <2>4. m.forwardingLeader = l
        BY DEF NewRequest
    <2>5. TypeOK'
        BY <2>1, <2>2, <2>3 DEF TypeOK, Drone
    <2>6. (OnlyAtLeaders /\ NeverBackToSigner)'
        BY <2>2, <2>3, <2>4 DEF OnlyAtLeaders, NeverBackToSigner
    <2>7. (LeaderIsLeader /\ StuckOnlyAsDestination)'
        BY <2>2 DEF LeaderIsLeader, StuckOnlyAsDestination
    <2> QED BY <2>5, <2>6, <2>7
<1>3. ASSUME NEW n \in Member, NEW d \in Drone, MemberAsks(n, d) PROVE IInv'
    <2> DEFINE m == NewRequest(n, d, NoLeader)
               q == [to |-> currentLeader[n], msg |-> m]
    <2>1. m \in Request /\ requests[n] + 1 \in 0..MaxRequests
        BY <1>3, NewRequestType DEF MemberAsks, MakesRequest, Drone
    <2>2. /\ requests' = [requests EXCEPT ![n] = requests[n] + 1]
          /\ net' = net \cup {q}
          /\ UNCHANGED <<currentLeader, stuck, seen>>
        BY <1>3 DEF MemberAsks, MakesRequest
    <2>3. q \in Packet /\ q.to \in Leader
        BY <1>3, <2>1 DEF MemberAsks, LeaderIsLeader, Packet, Drone
    <2>4. q.msg.forwardingLeader # q.to
        BY <2>3, CrossAssumption DEF NewRequest, Drone
    <2>5. TypeOK'
        BY <2>1, <2>2, <2>3 DEF TypeOK, Drone
    <2>6. (OnlyAtLeaders /\ NeverBackToSigner)'
        BY <2>2, <2>3, <2>4 DEF OnlyAtLeaders, NeverBackToSigner
    <2>7. (LeaderIsLeader /\ StuckOnlyAsDestination)'
        BY <2>2 DEF LeaderIsLeader, StuckOnlyAsDestination
    <2> QED BY <2>5, <2>6, <2>7
<1>4. ASSUME NEW p \in net, Receive(p) PROVE IInv'
    <2> DEFINE l == p.to
    <2>1. l \in Leader /\ p \in Packet /\ p.msg \in Request
        BY DEF TypeOK, OnlyAtLeaders, Packet
    <2>2. /\ seen' = [seen EXCEPT ![l] = @ \cup {p.msg}]
          /\ UNCHANGED <<currentLeader, requests>>
        BY <1>4 DEF Receive, LeaderSigns, LeaderForwards, LeaderLocksItself, Handles
    <2>3. seen' \in [Leader -> SUBSET Request] /\ \A k \in Leader : seen[k] \subseteq seen'[k]
        BY <2>1, <2>2 DEF TypeOK
    <2>4. ASSUME NEW m \in Request, NEW origin, m.forwardingLeader = origin,
                 net' = (net \ {p}) \cup BroadcastToOtherLeaders(l, m, origin)
          PROVE  net' \subseteq Packet /\ OnlyAtLeaders' /\ NeverBackToSigner'
        <3>1. \A q \in BroadcastToOtherLeaders(l, m, origin) :
                  q \in Packet /\ q.to \in Leader /\ q.to # origin /\ q.msg = m
            BY <2>1, <2>4, BroadcastTo DEF Packet, Drone
        <3> QED BY <2>4, <3>1 DEF TypeOK, OnlyAtLeaders, NeverBackToSigner
    <2>5. CASE LeaderSigns(p)
        <3> DEFINE m == [p.msg EXCEPT !.forwardingLeader = l]
        <3>1. m \in Request /\ m.forwardingLeader = l
            BY <2>1 DEF Request
        <3>2. net' = (net \ {p}) \cup BroadcastToOtherLeaders(l, m, l) /\ stuck' = stuck
            BY <2>5 DEF LeaderSigns
        <3>3. net' \subseteq Packet /\ OnlyAtLeaders' /\ NeverBackToSigner'
            BY <3>1, <3>2, <2>4
        <3> QED BY <2>2, <2>3, <3>2, <3>3
                DEF TypeOK, LeaderIsLeader, StuckOnlyAsDestination
    <2>6. CASE LeaderForwards(p)
        <3>1. /\ net' = (net \ {p}) \cup
                        BroadcastToOtherLeaders(l, p.msg, p.msg.forwardingLeader)
              /\ stuck' = stuck
            BY <2>6 DEF LeaderForwards
        <3>2. net' \subseteq Packet /\ OnlyAtLeaders' /\ NeverBackToSigner'
            BY <2>1, <3>1, <2>4
        <3> QED BY <2>2, <2>3, <3>1, <3>2
                DEF TypeOK, LeaderIsLeader, StuckOnlyAsDestination
    <2>7. CASE LeaderLocksItself(p)
        <3>1. /\ net' = net \ {p} /\ stuck' = stuck \cup {l}
              /\ p.msg.dest = l /\ p.msg.forwardingLeader # l
            BY <2>7 DEF LeaderLocksItself, FromOtherLeader
        <3>2. p.msg \in seen'[l]
            BY <2>1, <2>2 DEF TypeOK
        <3>3. StuckOnlyAsDestination'
            BY <2>3, <3>1, <3>2 DEF TypeOK, StuckOnlyAsDestination
        <3>4. TypeOK' /\ LeaderIsLeader' /\ OnlyAtLeaders' /\ NeverBackToSigner'
            BY <2>1, <2>2, <2>3, <3>1
               DEF TypeOK, LeaderIsLeader, OnlyAtLeaders, NeverBackToSigner
        <3> QED BY <3>3, <3>4
    <2> QED BY <1>4, <2>5, <2>6, <2>7 DEF Receive
<1>5. CASE UNCHANGED vars
    BY <1>5 DEF vars, TypeOK, LeaderIsLeader, OnlyAtLeaders, NeverBackToSigner,
                StuckOnlyAsDestination
<1>6. ASSUME NEW w \in Wanted, LeaderAsks(w[1], w[2]) \/ MemberAsks(w[1], w[2]) PROVE IInv'
    <2>1. w[1] \in Drone /\ w[2] \in Drone
        BY CrossAssumption
    <2> QED BY <1>6, <1>2, <1>3, <2>1 DEF LeaderAsks, MemberAsks
<1> QED BY <1>1, <1>4, <1>5, <1>6 DEF Next

(* The invariant holds in every reachable state. *)
THEOREM Invariant == Spec => []IInv
BY InitInv, NextInv, PTL DEF Spec

(* Every variable keeps its shape. *)
THEOREM TypeCorrect == Spec => []TypeOK
<1>1. IInv => TypeOK
    BY DEF IInv
<1> QED BY Invariant, <1>1, PTL

(* Cross-swarm requests reach leaders only, so that the two lock orders of *)
(* routeRequestHandler and initCrossSwarmRouteDiscovery never meet.        *)
THEOREM LeadersOnly == Spec => []OnlyAtLeaders
<1>1. IInv => OnlyAtLeaders
    BY DEF IInv
<1> QED BY Invariant, <1>1, PTL

(* A request never comes back to the leader that signed it: what           *)
(* broadcastToOtherLeaders does achieve against loops.                     *)
THEOREM SignerLeftOut == Spec => []NeverBackToSigner
<1>1. IInv => NeverBackToSigner
    BY DEF IInv
<1> QED BY Invariant, <1>1, PTL

(* Only the destination of a request of another swarm locks itself up.     *)
THEOREM StuckAsDestination == Spec => []StuckOnlyAsDestination
<1>1. IInv => StuckOnlyAsDestination
    BY DEF IInv
<1> QED BY Invariant, <1>1, PTL
==========================================================================
