----------------------------- MODULE CrossSwarm -----------------------------
(***************************************************************************)
(* Route requests between swarms.  A drone that is not a leader sends its  *)
(* request unsigned to current_leader; that leader signs it and sends it   *)
(* to the leaders it knows; a leader that does not find the destination in *)
(* its swarm sends it on to the leaders it knows.                          *)
(*                                                                         *)
(* Requests are asked for on the IPC socket, so each drone handles them    *)
(* one after the other on its clientResponseThread (the worker) and        *)
(* visitedLeaders is local to one call of broadcastToOtherLeaders.         *)
(*                                                                         *)
(* swarmMembers is empty: a join request has no recvAddr and is dropped by *)
(* the dispatcher, so the one destination a leader finds in its swarm is   *)
(* itself.  There handleCrossSwarmRREQ locks routingTableMutex, which      *)
(* routeRequestHandler holds: a mutex of the C++ library then blocks for   *)
(* ever, and no cross-swarm reply is ever made.  Role and known leaders of *)
(* a drone come from its environment and never change.                     *)
(*                                                                         *)
(* Operators named ...Mutant are plausible wrong versions of the           *)
(* definition that follows them; nothing uses them but mutation testing.   *)
(***************************************************************************)
EXTENDS Naturals

CONSTANTS
    Leader,         \* drones with IS_LEADER
    Member,         \* drones without
    KnownLeaders,   \* OTHER_LEADERS of each leader
    NoLeader,       \* the empty address of a leader
    Wanted,         \* bound: which drone asks for a route to which
    MaxRequests     \* bound: requests each drone makes

Drone == Leader \cup Member

Request == [src : Drone, seq : 1..MaxRequests, dest : Drone,
            forwardingLeader : Leader \cup {NoLeader}]

Packet == [to : Drone, msg : Request]

ASSUME CrossAssumption ==
    /\ Leader \cap Member = {} /\ NoLeader \notin Drone
    /\ KnownLeaders \in [Leader -> SUBSET Leader]
    /\ Wanted \subseteq Drone \X Drone /\ MaxRequests \in Nat

VARIABLES
    currentLeader,  \* current_leader of each member; a leader's is not read here
    stuck,          \* leaders whose worker waits for a mutex it holds
    requests,       \* requests each drone has made
    net,            \* packets in flight
    seen            \* history: requests a leader has handled

vars == <<currentLeader, stuck, requests, net, seen>>

--------------------------------------------------------------------------
(* getOtherLeaderAddresses and broadcastToOtherLeaders *)

OtherLeaders(l) == KnownLeaders[l] \ {l}

(* Does not add the origin to visitedLeaders. *)
BroadcastToOtherLeadersMutant(l, msg, origin) ==
    {[to |-> k, msg |-> msg] : k \in OtherLeaders(l)}

BroadcastToOtherLeaders(l, msg, origin) ==
    {[to |-> k, msg |-> msg] : k \in OtherLeaders(l) \ {l, origin}}

--------------------------------------------------------------------------
Init ==
    /\ currentLeader = [n \in Member |-> NoLeader]
    /\ stuck = {}
    /\ requests = [n \in Drone |-> 0]
    /\ net = {}
    /\ seen = [l \in Leader |-> {}]

(* Every drone announces itself as a leader. *)
LeaderHelloMutant(n, l) ==
    /\ \E k \in Drone \ {n} : currentLeader' = [currentLeader EXCEPT ![n] = k]
    /\ UNCHANGED <<stuck, requests, net, seen>>

(* initMessageHandler: the hello that neighborDiscoveryHelper sends for    *)
(* leaders only.                                                           *)
LeaderHello(n, l) ==
    /\ currentLeader' = [currentLeader EXCEPT ![n] = l]
    /\ UNCHANGED <<stuck, requests, net, seen>>

--------------------------------------------------------------------------
(* initCrossSwarmRouteDiscovery *)

(* Numbers a request like the one before it. *)
NewRequestMutant(n, d, signer) ==
    [src |-> n, seq |-> requests[n], dest |-> d, forwardingLeader |-> signer]

NewRequest(n, d, signer) ==
    [src |-> n, seq |-> requests[n] + 1, dest |-> d, forwardingLeader |-> signer]

MakesRequest(n) ==
    /\ n \notin stuck
    /\ requests[n] < MaxRequests
    /\ requests' = [requests EXCEPT ![n] = @ + 1]
    /\ UNCHANGED <<currentLeader, stuck, seen>>

LeaderAsks(l, d) ==
    /\ l \in Leader
    /\ MakesRequest(l)
    /\ net' = net \cup BroadcastToOtherLeaders(l, NewRequest(l, d, l), l)

MemberAsks(n, d) ==
    /\ n \in Member
    /\ currentLeader[n] # NoLeader
    /\ MakesRequest(n)
    /\ net' = net \cup {[to |-> currentLeader[n], msg |-> NewRequest(n, d, NoLeader)]}

--------------------------------------------------------------------------
(* routeRequestHandler on a cross-swarm request at a leader *)

Handles(p) ==
    /\ p.to \in Leader \ stuck
    /\ seen' = [seen EXCEPT ![p.to] = @ \cup {p.msg}]
    /\ UNCHANGED <<currentLeader, requests>>

(* A request of a drone of its own swarm: the leader signs it. *)
LeaderSigns(p) ==
    LET signed == [p.msg EXCEPT !.forwardingLeader = p.to] IN
    /\ Handles(p)
    /\ p.msg.forwardingLeader = NoLeader
    /\ net' = (net \ {p}) \cup BroadcastToOtherLeaders(p.to, signed, p.to)
    /\ UNCHANGED stuck

FromOtherLeader(p) == p.msg.forwardingLeader \notin {NoLeader, p.to}

(* Drops what is not for its own swarm. *)
LeaderForwardsMutant(p) ==
    /\ Handles(p)
    /\ FromOtherLeader(p) /\ p.msg.dest # p.to
    /\ net' = net \ {p}
    /\ UNCHANGED stuck

(* handleCrossSwarmRREQ: the message goes on as it came. *)
LeaderForwards(p) ==
    /\ Handles(p)
    /\ FromOtherLeader(p) /\ p.msg.dest # p.to
    /\ net' = (net \ {p}) \cup
              BroadcastToOtherLeaders(p.to, p.msg, p.msg.forwardingLeader)
    /\ UNCHANGED stuck

(* Looks for the destination only after it has taken the mutex. *)
LeaderLocksItselfMutant(p) ==
    /\ Handles(p)
    /\ FromOtherLeader(p)
    /\ net' = net \ {p}
    /\ stuck' = stuck \cup {p.to}

LeaderLocksItself(p) ==
    /\ Handles(p)
    /\ FromOtherLeader(p) /\ p.msg.dest = p.to
    /\ net' = net \ {p}
    /\ stuck' = stuck \cup {p.to}

Receive(p) == LeaderSigns(p) \/ LeaderForwards(p) \/ LeaderLocksItself(p)

Next ==
    \/ \E n \in Member, l \in Leader : LeaderHello(n, l)
    \/ \E w \in Wanted : LeaderAsks(w[1], w[2]) \/ MemberAsks(w[1], w[2])
    \/ \E p \in net : Receive(p)

Spec == Init /\ [][Next]_vars

(* Every packet arrives, and a worker that is not stuck comes to handle it:*)
(* its queue is first in, first out.                                       *)
FairSpec ==
    /\ Spec
    /\ \A p \in {q \in Packet : <<q.msg.src, q.msg.dest>> \in Wanted} :
          WF_vars(p \in net /\ Receive(p))

--------------------------------------------------------------------------
(* Properties *)

(* Every variable has the shape the code gives it. *)
TypeOK ==
    /\ currentLeader \in [Member -> Drone \cup {NoLeader}]
    /\ stuck \subseteq Leader
    /\ requests \in [Drone -> 0..MaxRequests]
    /\ net \subseteq Packet
    /\ seen \in [Leader -> SUBSET Request]

(* Cross-swarm requests reach leaders only.  routeRequestHandler takes     *)
(* leaderMutex under routingTableMutex (1100, 1119) for an unsigned one    *)
(* that reaches a member, and initCrossSwarmRouteDiscovery takes them the  *)
(* other way round (895, 912): that a member and its application never     *)
(* wait for each other rests on this.                                      *)
OnlyAtLeaders == \A p \in net : p.to \in Leader

(* A request never comes back to the leader that signed it, however many   *)
(* leaders pass it on: that leader would take it for a request inside its  *)
(* own swarm.                                                              *)
NeverBackToSigner == \A p \in net : p.msg.forwardingLeader # p.to

(* Only a leader that another swarm asks for ends up waiting for itself:   *)
(* passing requests on never takes routingTableMutex a second time.        *)
StuckOnlyAsDestination ==
    \A l \in stuck : \E m \in seen[l] : m.dest = l /\ m.forwardingLeader # l

(* A signed request for a leader that is reached over other leaders only   *)
(* gets there.                                                             *)
ReachesDestination ==
    \A d \in Leader :
        (\E p \in net : p.msg.dest = d /\ p.msg.forwardingLeader \notin {NoLeader, d})
            ~> (\E l \in Leader : l \in stuck)

(* "Track this leader as visited to prevent routing loops"                 *)
(* (drone.cpp:2370): no leader handles the same request twice.             *)
NoLeaderTwice ==
    [][\A p \in net : Receive(p) => p.msg \notin seen[p.to]]_vars
==========================================================================
