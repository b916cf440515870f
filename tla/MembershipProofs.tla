-------------------------- MODULE MembershipProofs --------------------------
(* Proofs about Membership, for any drones, leaders and intervals.         *)
EXTENDS Membership, TLAPS

(***************************************************************************)
(* The certificate                                                         *)
(***************************************************************************)

StartUpType ==
    /\ stage \in [Node -> Stages]
    /\ timer \in [Node -> 0..(MaxDelay + 1)]
    /\ attempt \in [Node -> 0..(RetryEvery - 1)]
    /\ spoilt \in [Node -> BOOLEAN]
    /\ reachable \in [Node -> Nat]

(* How long the drone may have been waiting for a GCS that is there: the   *)
(* request in flight, the rest of a round, a request that failed before.   *)
Waited(n) ==
    CASE stage[n] = "off" -> 0
      [] stage[n] = "constructing" -> timer[n]
      [] stage[n] = "retrying" ->
            MaxDelay - timer[n] + (IF attempt[n] = 0 THEN RetryEvery ELSE attempt[n])
      [] stage[n] = "asking" ->
            timer[n] + (IF spoilt[n] THEN 0 ELSE MaxDelay + RetryEvery)
      [] OTHER -> RetryEvery + 2 * MaxDelay

CertificateInv ==
    /\ StartUpType
    /\ \A n \in Node :
          /\ stage[n] \in {"constructing", "asking"} => timer[n] <= MaxDelay
          /\ stage[n] = "retrying" => timer[n] <= 1
          /\ stage[n] = "asking" => attempt[n] = 0
          /\ reachable[n] <= Waited(n)
          /\ ~gcs => reachable[n] = 0

LEMMA Sizes == RetryEvery \in Nat /\ RetryEvery >= 1 /\ MaxDelay \in Nat
  BY MembershipAssumption DEF MembershipAssumption

LEMMA CertificateInit == Init => CertificateInv
  BY Sizes DEF Init, CertificateInv, StartUpType, Stages, Waited

(* A step of drone n leaves the others where they are. *)
LEMMA CertificateOfOne ==
    ASSUME CertificateInv, NEW n \in Node, StartUpType',
           \A k \in Node \ {n} :
              /\ stage'[k] = stage[k] /\ timer'[k] = timer[k] /\ attempt'[k] = attempt[k]
              /\ spoilt'[k] = spoilt[k],
           reachable' = reachable, gcs' = gcs,
           /\ stage'[n] \in {"constructing", "asking"} => timer'[n] <= MaxDelay
           /\ stage'[n] = "retrying" => timer'[n] <= 1
           /\ stage'[n] = "asking" => attempt'[n] = 0
           /\ reachable[n] <= Waited(n)'
    PROVE  CertificateInv'
<1>1. ASSUME NEW k \in Node
      PROVE  /\ stage'[k] \in {"constructing", "asking"} => timer'[k] <= MaxDelay
             /\ stage'[k] = "retrying" => timer'[k] <= 1
             /\ stage'[k] = "asking" => attempt'[k] = 0
             /\ reachable'[k] <= Waited(k)'
             /\ ~gcs' => reachable'[k] = 0
  <2>1. CASE k = n
    BY <2>1 DEF CertificateInv
  <2>2. CASE k # n
    BY <2>2 DEF CertificateInv, Waited
  <2> QED
    BY <2>1, <2>2
<1> QED
  BY <1>1 DEF CertificateInv

LEMMA CertificateStep == CertificateInv /\ [Next]_vars => CertificateInv'
<1> SUFFICES ASSUME CertificateInv, [Next]_vars PROVE CertificateInv'
  OBVIOUS
<1>0. StartUpType
  BY DEF CertificateInv
<1> USE Sizes
<1>1. CASE SwitchLink
  <2>1. StartUpType'
    BY <1>0, <1>1 DEF SwitchLink, StartUpType
  <2>2. ASSUME NEW n \in Node PROVE reachable'[n] = 0 /\ 0 <= Waited(n)'
    BY <1>0, <1>1, <2>2 DEF SwitchLink, StartUpType, Waited, CertificateInv
  <2> QED
    BY <1>1, <2>1, <2>2 DEF SwitchLink, CertificateInv
<1>2. CASE Tick
  <2>1. ASSUME NEW n \in Node
        PROVE  /\ stage'[n] = stage[n] /\ attempt'[n] = attempt[n] /\ spoilt'[n] = spoilt[n]
               /\ timer'[n] = CASE stage[n] \in {"retrying", "certified", "discovering"} -> timer[n] - 1
                                [] stage[n] \in {"constructing", "asking"} -> timer[n] + 1
                                [] OTHER -> timer[n]
               /\ reachable'[n] = IF gcs /\ stage[n] \in Uncertified THEN reachable[n] + 1 ELSE 0
               /\ ~Due(n)
    BY <1>2, <1>0 DEF Tick, StartUpType
  <2>2. ASSUME NEW n \in Node
        PROVE  /\ timer'[n] \in 0..(MaxDelay + 1) /\ reachable'[n] \in Nat
               /\ stage[n] \in {"constructing", "asking"} => timer'[n] <= MaxDelay
               /\ stage[n] = "retrying" => timer'[n] <= 1
               /\ reachable'[n] <= Waited(n)'
               /\ ~gcs => reachable'[n] = 0
    <3>1. timer[n] \in 0..(MaxDelay + 1) /\ reachable[n] \in Nat /\ reachable[n] <= Waited(n)
          /\ attempt[n] \in 0..(RetryEvery - 1) /\ stage[n] \in Stages
          /\ (stage[n] \in {"constructing", "asking"} => timer[n] <= MaxDelay)
          /\ (stage[n] = "retrying" => timer[n] <= 1)
      BY <1>0 DEF StartUpType, CertificateInv
    <3>2. CASE stage[n] = "constructing"
      BY <2>1, <3>1, <3>2 DEF Due, Waited, Uncertified
    <3>3. CASE stage[n] = "asking"
      BY <2>1, <3>1, <3>3 DEF Due, Waited, Uncertified
    <3>4. CASE stage[n] = "retrying"
      BY <2>1, <3>1, <3>4 DEF Due, Waited, Uncertified
    <3>5. CASE stage[n] \in {"certified", "discovering"}
      BY <2>1, <3>1, <3>5 DEF Due, Waited, Uncertified
    <3>6. CASE stage[n] \in {"off", "swarm"}
      BY <2>1, <3>1, <3>6 DEF Waited, Uncertified
    <3> QED
      BY <3>1, <3>2, <3>3, <3>4, <3>5, <3>6 DEF Stages
  <2>3. StartUpType'
    <3>1. timer' \in [Node -> 0..(MaxDelay + 1)]
      BY <1>2, <2>2 DEF Tick
    <3>2. reachable' \in [Node -> Nat]
      BY <1>2, <2>2 DEF Tick
    <3> QED
      BY <1>0, <1>2, <3>1, <3>2 DEF Tick, StartUpType
  <2> QED
    BY <1>2, <2>1, <2>2, <2>3 DEF Tick, CertificateInv
<1>3. ASSUME NEW n \in Node, Start(n) PROVE CertificateInv'
  <2>1. StartUpType'
    BY <1>0, <1>3 DEF Start, StartRequest, StartUpType, Stages
  <2> QED
    BY <1>0, <1>3, <2>1, CertificateOfOne
       DEF Start, StartRequest, StartUpType, CertificateInv, Waited
<1>4. ASSUME NEW n \in Node, ConstructorReturns(n) PROVE CertificateInv'
  <2>1. StartUpType'
    BY <1>0, <1>4 DEF ConstructorReturns, Discover, StartUpType, Stages
  <2>2. /\ timer[n] \in 0..MaxDelay /\ attempt[n] \in 0..(RetryEvery - 1)
        /\ reachable[n] \in Nat /\ reachable[n] <= timer[n]
    BY <1>0, <1>4 DEF ConstructorReturns, StartUpType, CertificateInv, Waited
  <2>3. reachable' = reachable /\ gcs' = gcs /\ spoilt' = [spoilt EXCEPT ![n] = FALSE]
    BY <1>4 DEF ConstructorReturns
  <2>4. CASE Obtained(n)
    <3>1. /\ stage' = [stage EXCEPT ![n] = "discovering"]
          /\ timer' = [timer EXCEPT ![n] = 1] /\ attempt' = [attempt EXCEPT ![n] = 0]
      BY <1>4, <2>4 DEF ConstructorReturns, Discover
    <3>2. stage'[n] = "discovering"
      BY <1>0, <3>1 DEF StartUpType
    <3>3. Waited(n)' = RetryEvery + 2 * MaxDelay
      BY <3>2 DEF Waited
    <3>4. reachable[n] <= Waited(n)'
      BY <3>3, <2>2
    <3> QED
      BY <1>0, <2>1, <2>3, <3>1, <3>2, <3>4, CertificateOfOne DEF StartUpType
  <2>5. CASE ~Obtained(n)
    <3>1. /\ stage' = [stage EXCEPT ![n] = "retrying"]
          /\ timer' = [timer EXCEPT ![n] = 0] /\ attempt' = attempt
      BY <1>4, <2>5 DEF ConstructorReturns
    <3>2. stage'[n] = "retrying" /\ timer'[n] = 0 /\ attempt'[n] = attempt[n]
      BY <1>0, <3>1 DEF StartUpType
    <3>3. Waited(n)' = MaxDelay + (IF attempt[n] = 0 THEN RetryEvery ELSE attempt[n])
      BY <3>2 DEF Waited
    <3>4. reachable[n] <= Waited(n)'
      BY <3>3, <2>2
    <3>5. /\ stage'[n] \notin {"constructing", "asking"} /\ timer'[n] <= 1
      BY <3>2
    <3> QED
      BY <1>0, <2>1, <2>3, <3>1, <3>4, <3>5, CertificateOfOne DEF StartUpType
  <2> QED
    BY <2>4, <2>5
<1>5. ASSUME NEW n \in Node, RequestCertificate(n) PROVE CertificateInv'
  <2>1. StartUpType'
    BY <1>0, <1>5 DEF RequestCertificate, StartRequest, StartUpType, Stages
  <2>2. /\ stage' = [stage EXCEPT ![n] = "asking"] /\ timer' = [timer EXCEPT ![n] = 0]
        /\ spoilt' = [spoilt EXCEPT ![n] = ~gcs]
        /\ attempt' = attempt /\ reachable' = reachable /\ gcs' = gcs
    BY <1>5 DEF RequestCertificate, StartRequest
  <2>3. attempt[n] = 0 /\ reachable[n] <= MaxDelay + RetryEvery /\ (~gcs => reachable[n] = 0)
    BY <1>0, <1>5 DEF RequestCertificate, RetryDue, StartUpType, CertificateInv, Waited
  <2>4. stage'[n] = "asking" /\ timer'[n] = 0 /\ attempt'[n] = 0
    BY <1>0, <2>2, <2>3 DEF StartUpType
  <2>5. spoilt'[n] <=> ~gcs
    BY <1>0, <2>2, Zenon DEF StartUpType
  <2>6. reachable[n] <= Waited(n)'
    <3>1. CASE gcs
      BY <2>3, <2>4, <2>5, <3>1 DEF Waited
    <3>2. CASE ~gcs
      BY <2>3, <2>4, <2>5, <3>2 DEF Waited
    <3> QED
      BY <3>1, <3>2
  <2> QED
    BY <1>0, <2>1, <2>2, <2>4, <2>6, CertificateOfOne DEF StartUpType
<1>6. ASSUME NEW n \in Node, AttemptWithoutRequest(n) PROVE CertificateInv'
  <2>1. StartUpType'
    BY <1>0, <1>6 DEF AttemptWithoutRequest, SleepAfterAttempt, NextAttempt, StartUpType, Stages
  <2> QED
    BY <1>0, <1>6, <2>1, CertificateOfOne
       DEF AttemptWithoutRequest, SleepAfterAttempt, NextAttempt, RetryDue, StartUpType,
           CertificateInv, Waited
<1>7. ASSUME NEW n \in Node, RequestReturns(n) PROVE CertificateInv'
  <2>1. StartUpType'
    BY <1>0, <1>7 DEF RequestReturns, SleepAfterAttempt, NextAttempt, StartUpType, Stages
  <2> QED
    BY <1>0, <1>7, <2>1, CertificateOfOne
       DEF RequestReturns, SleepAfterAttempt, NextAttempt, Obtained, StartUpType,
           CertificateInv, Waited
<1>8. ASSUME NEW n \in Node, StartThreads(n) PROVE CertificateInv'
  <2>1. StartUpType'
    BY <1>0, <1>8 DEF StartThreads, Discover, StartUpType, Stages
  <2> QED
    BY <1>0, <1>8, <2>1, CertificateOfOne
       DEF StartThreads, Discover, StartUpType, CertificateInv, Waited
<1>9. ASSUME NEW n \in Node, HelloLoop(n) PROVE CertificateInv'
  <2>1. StartUpType'
    BY <1>0, <1>9 DEF HelloLoop, StartUpType, Stages
  <2> QED
    BY <1>0, <1>9, <2>1, CertificateOfOne DEF HelloLoop, StartUpType, CertificateInv, Waited
<1>10. ASSUME UNCHANGED <<gcs, stage, starting, reachable>> PROVE CertificateInv'
  BY <1>0, <1>10 DEF starting, StartUpType, CertificateInv, Waited
<1>11. CASE \E n \in Node : SendJoinRequest(n) \/ LeaveSwarm(n) \/ ClientResponseThread(n)
  BY <1>10, <1>11 DEF SendJoinRequest, LeaveSwarm, ClientResponseThread
<1>12. CASE \E n, k \in Node : SendRouteMessage(n, k) \/ ChallengeTimeout(n, k)
  BY <1>10, <1>12 DEF SendRouteMessage, ChallengeTimeout
<1>13. CASE UNCHANGED vars
  BY <1>10, <1>13 DEF vars
<1> QED
  BY <1>1, <1>2, <1>3, <1>4, <1>5, <1>6, <1>7, <1>8, <1>9, <1>11, <1>12, <1>13
     DEF Next, StartUp

(* A drone has its certificate when the GCS has been there for a round of  *)
(* the retry loop and two requests.                                        *)
THEOREM CertificateAlwaysInTime == Spec => []CertificateInTime
<1>1. ASSUME CertificateInv PROVE CertificateInTime
  <2> SUFFICES ASSUME NEW n \in Node PROVE reachable[n] <= RetryEvery + 2 * MaxDelay
    BY DEF CertificateInTime
  <2> QED
    BY <1>1, Sizes DEF CertificateInv, StartUpType, Waited
<1> QED
  BY <1>1, CertificateInit, CertificateStep, PTL DEF Spec

(***************************************************************************)
(* The membership                                                          *)
(***************************************************************************)

DroneData ==
    [leader : Leader \cup {NoAddr}, joined : BOOLEAN, pending : SUBSET Node,
     timers : SUBSET (Node \X (0..ChallengeLife)), validated : SUBSET Node,
     members : SUBSET Node, routes : SUBSET Node]

(* The messages that ever travel: nothing answers a join request, and a    *)
(* challenge that is put on record is not sent.                            *)
Messages ==
    {Hello(n) : n \in Leader} \cup {RouteMessage(n) : n \in Node}
    \cup {JoinRequest(n) : n \in Node} \cup {Leave(n) : n \in Node}

MemberInv ==
    /\ data \in [Node -> DroneData]
    /\ inbox \in [Node -> SUBSET Messages]
    /\ NobodyJoins

LEMMA Names == NoAddr \notin Node /\ Leader \subseteq Node /\ ChallengeLife \in Nat
               /\ ChallengeLife >= 1
  BY MembershipAssumption DEF MembershipAssumption

LEMMA DeliveryInv ==
    ASSUME NEW box \in [Node -> SUBSET Messages], NEW sent,
           \A s \in sent : s[2] \in Messages
    PROVE  Delivered(box, sent) \in [Node -> SUBSET Messages]
  BY DEF Delivered

LEMMA ChallengedData ==
    ASSUME NEW d \in DroneData, NEW peer \in Node
    PROVE  /\ Challenged(d, peer) \in DroneData
           /\ Challenged(d, peer).validated = d.validated
           /\ Challenged(d, peer).members = d.members
           /\ Challenged(d, peer).joined = d.joined
           /\ Challenged(d, peer).routes = d.routes
           /\ Challenged(d, peer).pending = d.pending \cup {peer}
           /\ Challenged(d, peer).timers = d.timers \cup {<<peer, ChallengeLife>>}
<1>1. /\ d.pending \cup {peer} \in SUBSET Node
      /\ d.timers \cup {<<peer, ChallengeLife>>} \in SUBSET (Node \X (0..ChallengeLife))
  BY Names DEF DroneData
<1>2. Challenged(d, peer) = [d EXCEPT !.pending = d.pending \cup {peer},
                                      !.timers = d.timers \cup {<<peer, ChallengeLife>>}]
  BY DEF Challenged
<1> QED
  BY <1>1, <1>2 DEF DroneData

(* What becomes of the challenges on record and their timers. *)
OnRecord(d, e) ==
    \/ e.pending = d.pending /\ e.timers = d.timers
    \/ \E peer \in Node : /\ e.pending = d.pending \cup {peer}
                          /\ e.timers = d.timers \cup {<<peer, ChallengeLife>>}

(* Whatever arrives: nothing is sent, nobody joins, no route is lost.      *)
LEMMA DispatchedQuietly ==
    ASSUME NEW n \in Node, NEW d \in DroneData, NEW msg \in Messages,
           NEW recent \in BOOLEAN, NEW onCRL \in BOOLEAN,
           d.validated = {}, d.members = {}, ~d.joined,
           NEW result, result = Dispatched(n, d, msg, recent, onCRL)
    PROVE  /\ result.sent = {} /\ result.data \in DroneData
           /\ result.data.validated = {} /\ result.data.members = {} /\ ~result.data.joined
           /\ d.routes \subseteq result.data.routes
           /\ OnRecord(d, result.data)
<1>1. CASE \E k \in Leader : msg = Hello(k)
  <2>1. msg.type = "LEADER" /\ msg.src \in Leader
    BY <1>1 DEF Hello
  <2>2. result = HandleHello(n, d, msg)
    BY <2>1 DEF Dispatched
  <2> QED
    BY <2>1, <2>2 DEF HandleHello, Result, DroneData, OnRecord
<1>2. CASE \E k \in Node : msg = JoinRequest(k) \/ msg = Leave(k)
  <2>1. msg.type \in {"JOIN_REQUEST", "LEAVE"} /\ msg.recv = NoAddr
    BY <1>2 DEF JoinRequest, Leave
  <2>2. result = Validated(n, d, msg, recent, onCRL)
    BY <2>1 DEF Dispatched
  <2>3. result = Result(d, {})
    BY <2>1, <2>2 DEF Validated, Transmitter
  <2> QED
    BY <2>3 DEF Result, OnRecord
<1>3. CASE \E k \in Node : msg = RouteMessage(k)
  <2>1. msg.type = "ROUTE" /\ msg.recv \in Node /\ msg.recv # NoAddr
    BY <1>3, Names DEF RouteMessage
  <2> DEFINE d2 == IF msg.recv \in d.validated \cup {n} THEN d ELSE Challenged(d, msg.recv)
  <2>2. result = Validated(n, d, msg, recent, onCRL)
    BY <2>1 DEF Dispatched
  <2>3. result = Result(d, {}) \/ result = RouteHandler(d2, msg)
    BY <2>1, <2>2 DEF Validated, Transmitter
  <2>4. CASE result = Result(d, {})
    BY <2>4 DEF Result, OnRecord
  <2>5. CASE result = RouteHandler(d2, msg)
    <3>1. /\ d2 \in DroneData /\ d2.validated = d.validated /\ d2.members = d.members
          /\ d2.joined = d.joined /\ d2.routes = d.routes
      BY <2>1, ChallengedData
    <3>2. OnRecord(d, d2)
      BY <2>1, ChallengedData DEF OnRecord
    <3> HIDE DEF d2
    <3>3. result.data = [d2 EXCEPT !.routes = d2.routes \cup {msg.recv}] /\ result.sent = {}
      BY <2>5 DEF RouteHandler, Result
    <3>4. result.data.pending = d2.pending /\ result.data.timers = d2.timers
      BY <3>1, <3>3 DEF DroneData
    <3> QED
      BY <2>1, <3>1, <3>2, <3>3, <3>4 DEF DroneData, OnRecord
  <2> QED
    BY <2>3, <2>4, <2>5
<1> QED
  BY <1>1, <1>2, <1>3 DEF Messages

LEMMA MemberInit == Init => MemberInv
  BY DEF Init, MemberInv, Fresh, DroneData, NobodyJoins

LEMMA AnnouncementsSent == \A n \in Node : \A s \in Announcement(n) : s[2] \in Messages
  BY DEF Announcement, Broadcast, Messages

LEMMA MemberStep ==
    MemberInv /\ [Next]_vars =>
        MemberInv' /\ \A n \in Node : data[n].routes \subseteq data'[n].routes
<1> SUFFICES ASSUME MemberInv, [Next]_vars
             PROVE  MemberInv' /\ \A n \in Node : data[n].routes \subseteq data'[n].routes
  OBVIOUS
<1>1. CASE UNCHANGED <<data, inbox>>
  BY <1>1 DEF MemberInv, NobodyJoins
<1>2. CASE Tick
  <2>1. inbox' = inbox
        /\ data' = [n \in Node |-> [data[n] EXCEPT !.timers = {<<t[1], t[2] - 1>> : t \in @}]]
    BY <1>2 DEF Tick
  <2>2. ASSUME NEW n \in Node
        PROVE  /\ data'[n] \in DroneData /\ data'[n].routes = data[n].routes
               /\ data'[n].validated = {} /\ data'[n].members = {} /\ ~data'[n].joined
    <3>1. data[n] \in DroneData
      BY DEF MemberInv
    <3>2. \A t \in data[n].timers : t[1] \in Node /\ t[2] \in 0..ChallengeLife /\ t[2] > 0
      BY <1>2, <3>1 DEF Tick, DroneData
    <3>3. {<<t[1], t[2] - 1>> : t \in data[n].timers} \subseteq Node \X (0..ChallengeLife)
      BY <3>2, Names
    <3> QED
      BY <2>1, <3>1, <3>3 DEF DroneData, MemberInv, NobodyJoins
  <2> QED
    BY <2>1, <2>2 DEF MemberInv, NobodyJoins
<1>3. CASE UNCHANGED data /\ \E sent : /\ inbox' = Delivered(inbox, sent)
                                       /\ \A s \in sent : s[2] \in Messages
  BY <1>3, DeliveryInv DEF MemberInv, NobodyJoins
<1>4. ASSUME NEW n \in Node, LeaveSwarm(n)
      PROVE  MemberInv' /\ \A k \in Node : data[k].routes \subseteq data'[k].routes
  <2>1. \A s \in Broadcast(n, Leave(n)) : s[2] \in Messages
    BY DEF Broadcast, Messages
  <2>2. inbox' \in [Node -> SUBSET Messages]
    BY <1>4, <2>1, DeliveryInv DEF LeaveSwarm, MemberInv
  <2>3. data' = [data EXCEPT ![n].validated = {}]
    BY <1>4 DEF LeaveSwarm
  <2>4. ASSUME NEW k \in Node
        PROVE  /\ data'[k] \in DroneData /\ data'[k].routes = data[k].routes
               /\ data'[k].validated = {} /\ data'[k].members = {} /\ ~data'[k].joined
    <3>1. data[k] \in DroneData /\ data[k].validated = {} /\ data[k].members = {} /\ ~data[k].joined
      BY DEF MemberInv, NobodyJoins
    <3>2. data'[k] = IF k = n THEN [data[k] EXCEPT !.validated = {}] ELSE data[k]
      BY <2>3 DEF MemberInv
    <3> QED
      BY <3>1, <3>2 DEF DroneData
  <2>5. data' \in [Node -> DroneData]
    BY <2>3, <2>4 DEF MemberInv
  <2> QED
    BY <2>2, <2>4, <2>5 DEF MemberInv, NobodyJoins
<1>5. ASSUME NEW n \in Node, ClientResponseThread(n)
      PROVE  MemberInv' /\ \A k \in Node : data[k].routes \subseteq data'[k].routes
  <2>1. PICK msg \in inbox[n], recent \in BOOLEAN, onCRL \in BOOLEAN :
           LET result == Dispatched(n, data[n], msg, recent, onCRL) IN
           /\ data' = [data EXCEPT ![n] = result.data]
           /\ inbox' = Delivered([inbox EXCEPT ![n] = @ \ {msg}], result.sent)
    BY <1>5 DEF ClientResponseThread
  <2> DEFINE result == Dispatched(n, data[n], msg, recent, onCRL)
             box == [inbox EXCEPT ![n] = @ \ {msg}]
  <2>2. data' = [data EXCEPT ![n] = result.data] /\ inbox' = Delivered(box, result.sent)
    BY <2>1
  <2>3. msg \in Messages /\ data[n] \in DroneData /\ box \in [Node -> SUBSET Messages]
        /\ data[n].validated = {} /\ data[n].members = {} /\ ~data[n].joined
    BY DEF MemberInv, NobodyJoins
  <2> HIDE DEF result, box
  <2>4. /\ result.sent = {} /\ result.data \in DroneData
        /\ result.data.validated = {} /\ result.data.members = {} /\ ~result.data.joined
        /\ data[n].routes \subseteq result.data.routes
    BY <2>3, DispatchedQuietly DEF result
  <2>5. inbox' \in [Node -> SUBSET Messages]
    BY <2>2, <2>3, <2>4, DeliveryInv
  <2> QED
    BY <2>2, <2>4, <2>5 DEF MemberInv, NobodyJoins
<1>6. ASSUME NEW n \in Node, NEW k \in Node, SendRouteMessage(n, k)
      PROVE  UNCHANGED data /\ \E sent : /\ inbox' = Delivered(inbox, sent)
                                         /\ \A s \in sent : s[2] \in Messages
  <2>1. \A s \in To(k, RouteMessage(n)) : s[2] \in Messages
    BY DEF To, Messages
  <2> QED
    BY <1>6, <2>1 DEF SendRouteMessage
<1>7. ASSUME NEW n \in Node, SendJoinRequest(n)
      PROVE  UNCHANGED data /\ (UNCHANGED inbox \/ \E sent : /\ inbox' = Delivered(inbox, sent)
                                         /\ \A s \in sent : s[2] \in Messages)
  <2>1. \A s \in To(data[n].leader, JoinRequest(n)) : s[2] \in Messages
    BY DEF To, Messages
  <2> QED
    BY <1>7, <2>1 DEF SendJoinRequest
<1>8. ASSUME NEW n \in Node, StartUp(n)
      PROVE  UNCHANGED data /\ (UNCHANGED inbox \/ \E sent : /\ inbox' = Delivered(inbox, sent)
                                         /\ \A s \in sent : s[2] \in Messages)
  BY <1>8, AnnouncementsSent
     DEF StartUp, ConstructorReturns, RequestCertificate, AttemptWithoutRequest, RequestReturns,
         StartThreads, HelloLoop, HelloAgain, Discover, SleepAfterAttempt
<1>9. ASSUME NEW n \in Node, NEW k \in Node, ChallengeTimeout(n, k)
      PROVE  MemberInv' /\ \A j \in Node : data[j].routes \subseteq data'[j].routes
  <2>1. inbox' = inbox /\ data' = [data EXCEPT ![n] = Forgotten(data[n], k)]
    BY <1>9 DEF ChallengeTimeout, MemberInv
  <2>2. data[n] \in DroneData
    BY DEF MemberInv
  <2>3. /\ Forgotten(data[n], k) \in DroneData
        /\ Forgotten(data[n], k).validated = data[n].validated
        /\ Forgotten(data[n], k).members = data[n].members
        /\ Forgotten(data[n], k).joined = data[n].joined
        /\ Forgotten(data[n], k).routes = data[n].routes
    BY <2>2 DEF Forgotten, DroneData
  <2> QED
    BY <2>1, <2>3 DEF MemberInv, NobodyJoins
<1>10. CASE \E n \in Node : Start(n)
  BY <1>1, <1>10 DEF Start
<1>11. CASE SwitchLink \/ UNCHANGED vars
  BY <1>1, <1>11 DEF SwitchLink, vars
<1> QED
  BY <1>1, <1>2, <1>3, <1>4, <1>5, <1>6, <1>7, <1>8, <1>9, <1>10, <1>11 DEF Next

(* The dispatcher lets nothing through that would change the membership.   *)
THEOREM NobodyEverJoins == Spec => []NobodyJoins
<1>1. MemberInv => NobodyJoins
  BY DEF MemberInv
<1> QED
  BY <1>1, MemberInit, MemberStep, PTL DEF Spec

(* A drone that leaves stays in the routing tables of the others.          *)
THEOREM LeavingForgetsNoRoute == Spec => LeaveForgetsNoRoute
<1>1. MemberInv /\ [Next]_vars => [\A n \in Node : data[n].routes \subseteq data'[n].routes]_vars
  BY MemberStep
<1>2. MemberInv /\ [Next]_vars => MemberInv'
  BY MemberStep
<1> QED
  BY <1>1, <1>2, MemberInit, PTL DEF Spec, LeaveForgetsNoRoute

(* A challenge on record keeps a timer. *)
LEMMA TimedStep == MemberInv /\ ChallengeIsTimed /\ [Next]_vars => ChallengeIsTimed'
<1> SUFFICES ASSUME MemberInv, ChallengeIsTimed, [Next]_vars PROVE ChallengeIsTimed'
  OBVIOUS
<1>1. CASE UNCHANGED data
  BY <1>1 DEF ChallengeIsTimed
<1>2. CASE Tick
  <2> SUFFICES ASSUME NEW n \in Node, NEW peer \in data'[n].pending
               PROVE  \E t \in data'[n].timers : t[1] = peer
    BY DEF ChallengeIsTimed
  <2>1. data'[n] = [data[n] EXCEPT !.timers = {<<t[1], t[2] - 1>> : t \in data[n].timers}]
    BY <1>2 DEF Tick
  <2>2. data'[n].pending = data[n].pending
        /\ data'[n].timers = {<<t[1], t[2] - 1>> : t \in data[n].timers}
    BY <2>1 DEF MemberInv, DroneData
  <2>3. PICK t \in data[n].timers : t[1] = peer
    BY <2>2 DEF ChallengeIsTimed
  <2>4. <<t[1], t[2] - 1>> \in data'[n].timers
    BY <2>2
  <2> QED
    BY <2>3, <2>4
<1>3. ASSUME NEW n \in Node, NEW d, data' = [data EXCEPT ![n] = d],
             \A peer \in d.pending : \E t \in d.timers : t[1] = peer
      PROVE  ChallengeIsTimed'
  BY <1>3 DEF ChallengeIsTimed, MemberInv
<1>4. ASSUME NEW n \in Node, LeaveSwarm(n) PROVE ChallengeIsTimed'
  <2>1. data' = [data EXCEPT ![n] = [data[n] EXCEPT !.validated = {}]]
    BY <1>4 DEF LeaveSwarm
  <2>2. data[n] \in DroneData
    BY DEF MemberInv
  <2> DEFINE d == [data[n] EXCEPT !.validated = {}]
  <2>3. d.pending = data[n].pending /\ d.timers = data[n].timers
    BY <2>2 DEF DroneData
  <2> HIDE DEF d
  <2>4. \A peer \in d.pending : \E t \in d.timers : t[1] = peer
    BY <2>3 DEF ChallengeIsTimed
  <2> QED
    BY <1>3, <2>1, <2>4 DEF d
<1>5. ASSUME NEW n \in Node, ClientResponseThread(n) PROVE ChallengeIsTimed'
  <2>1. PICK msg \in inbox[n], recent \in BOOLEAN, onCRL \in BOOLEAN :
           data' = [data EXCEPT ![n] = Dispatched(n, data[n], msg, recent, onCRL).data]
    BY <1>5 DEF ClientResponseThread
  <2>2. msg \in Messages /\ data[n] \in DroneData
        /\ data[n].validated = {} /\ data[n].members = {} /\ ~data[n].joined
    BY DEF MemberInv, NobodyJoins
  <2> DEFINE d == Dispatched(n, data[n], msg, recent, onCRL).data
  <2>3. OnRecord(data[n], d)
    BY <2>2, DispatchedQuietly
  <2>4. data' = [data EXCEPT ![n] = d]
    BY <2>1
  <2> HIDE DEF d
  <2>5. \A peer \in data[n].pending : \E t \in data[n].timers : t[1] = peer
    BY DEF ChallengeIsTimed
  <2>6. CASE d.pending = data[n].pending /\ d.timers = data[n].timers
    <3>1. \A k \in d.pending : \E t \in d.timers : t[1] = k
      BY <2>5, <2>6
    <3> QED
      BY <1>3, <2>4, <3>1
  <2>7. ASSUME NEW peer \in Node, d.pending = data[n].pending \cup {peer},
               d.timers = data[n].timers \cup {<<peer, ChallengeLife>>}
        PROVE  ChallengeIsTimed'
    <3>1. <<peer, ChallengeLife>> \in d.timers /\ <<peer, ChallengeLife>>[1] = peer
      BY <2>7
    <3>2. \A k \in d.pending : \E t \in d.timers : t[1] = k
      BY <2>5, <2>7, <3>1
    <3> QED
      BY <1>3, <2>4, <3>2
  <2> QED
    BY <2>3, <2>6, <2>7 DEF OnRecord
<1>6. ASSUME NEW n \in Node, NEW k \in Node, ChallengeTimeout(n, k) PROVE ChallengeIsTimed'
  <2>1. data' = [data EXCEPT ![n] = Forgotten(data[n], k)]
    BY <1>6 DEF ChallengeTimeout, MemberInv
  <2> DEFINE d == Forgotten(data[n], k)
  <2>2. data[n] \in DroneData
    BY DEF MemberInv
  <2>3. d.pending = data[n].pending \ {k} /\ d.timers = data[n].timers \ {<<k, 0>>}
    BY <2>2 DEF Forgotten, DroneData
  <2> HIDE DEF d
  <2>4. ASSUME NEW peer \in d.pending PROVE \E t \in d.timers : t[1] = peer
    <3>1. PICK t \in data[n].timers : t[1] = peer
      BY <2>3 DEF ChallengeIsTimed
    <3>2. t # <<k, 0>>
      BY <2>3, <3>1
    <3> QED
      BY <2>3, <3>1, <3>2
  <2> QED
    BY <1>3, <2>1, <2>4 DEF d
<1>7. CASE \/ SwitchLink \/ UNCHANGED vars
           \/ \E n \in Node : Start(n) \/ StartUp(n) \/ SendJoinRequest(n)
           \/ \E n, k \in Node : SendRouteMessage(n, k)
  BY <1>1, <1>7
     DEF SwitchLink, vars, Start, StartUp, SendJoinRequest, SendRouteMessage, ConstructorReturns,
         RequestCertificate, AttemptWithoutRequest, RequestReturns, StartThreads, HelloLoop,
         SleepAfterAttempt
<1> QED
  BY <1>2, <1>4, <1>5, <1>6, <1>7 DEF Next

(* However many timers run for one drone, none takes a challenge off the   *)
(* record and leaves another without a timer.                              *)
THEOREM ChallengesStayTimed == Spec => []ChallengeIsTimed
<1>1. Init => ChallengeIsTimed
  BY DEF Init, Fresh, ChallengeIsTimed
<1> QED
  BY <1>1, MemberInit, MemberStep, TimedStep, PTL DEF Spec

(***************************************************************************)
(* Types                                                                   *)
(***************************************************************************)

ClockInv ==
    /\ gcs \in BOOLEAN
    /\ window \in [Node -> 0..Window]
    /\ spoken \subseteq Node
    /\ joinTimer \in [Node -> 0..JoinEvery]
    /\ overlap \in [Node -> BOOLEAN]
    /\ \A n \in Node : stage[n] # "swarm" => window[n] < Window

LEMMA ClockStep == StartUpType /\ ClockInv /\ [Next]_vars => ClockInv'
<1> SUFFICES ASSUME StartUpType, ClockInv, [Next]_vars PROVE ClockInv'
  OBVIOUS
<1>0. Window \in Nat /\ Window >= 1 /\ JoinEvery \in Nat /\ JoinEvery >= 1
  BY MembershipAssumption DEF MembershipAssumption
<1>1. CASE SwitchLink
  BY <1>1 DEF SwitchLink, ClockInv
<1>2. CASE Tick
  <2>1. joinTimer' \in [Node -> 0..JoinEvery]
    BY <1>0, <1>2 DEF Tick, ClockInv
  <2>2. overlap' \in [Node -> BOOLEAN]
    BY <1>2 DEF Tick, ClockInv
  <2> QED
    BY <1>2, <2>1, <2>2 DEF Tick, ClockInv
<1>3. ASSUME NEW n \in Node, NEW s \in Stages \ {"swarm"}, stage[n] # "swarm",
             stage' = [stage EXCEPT ![n] = s], UNCHANGED <<gcs, window, joinTimer, spoken, overlap>>
      PROVE  ClockInv'
  BY <1>3 DEF ClockInv, StartUpType
<1>4. CASE \E n \in Node : \/ Start(n) \/ ConstructorReturns(n) \/ RequestCertificate(n)
                           \/ AttemptWithoutRequest(n) \/ RequestReturns(n) \/ StartThreads(n)
  BY <1>3, <1>4
     DEF Start, ConstructorReturns, RequestCertificate, AttemptWithoutRequest, RequestReturns,
         StartThreads, Discover, StartRequest, SleepAfterAttempt, Stages
<1>5. ASSUME NEW n \in Node, HelloLoop(n) PROVE ClockInv'
  BY <1>0, <1>5 DEF HelloLoop, ClockInv, StartUpType
<1>6. ASSUME NEW n \in Node, SendJoinRequest(n) PROVE ClockInv'
  BY <1>0, <1>6 DEF SendJoinRequest, starting, ClockInv
<1>7. CASE \E n, k \in Node : SendRouteMessage(n, k) \/ LeaveSwarm(n)
  BY <1>7 DEF SendRouteMessage, LeaveSwarm, Speak, starting, ClockInv
<1>8. CASE \/ UNCHANGED vars
           \/ \E n, k \in Node : ClientResponseThread(n) \/ ChallengeTimeout(n, k)
  BY <1>8 DEF ClientResponseThread, ChallengeTimeout, vars, starting, ClockInv
<1> QED
  BY <1>1, <1>2, <1>4, <1>5, <1>6, <1>7, <1>8 DEF Next, StartUp

(* Every counter stays in its range, whatever the intervals are.           *)
THEOREM TypeCorrect == Spec => []TypeOK
<1>1. Init => ClockInv
  BY MembershipAssumption DEF MembershipAssumption, Init, ClockInv
<1>2. CertificateInv => StartUpType
  BY DEF CertificateInv
<1>3. StartUpType /\ ClockInv /\ MemberInv => TypeOK
  BY DEF StartUpType, ClockInv, MemberInv, DroneData, TypeOK
<1> QED
  BY <1>1, <1>2, <1>3, CertificateInit, CertificateStep, MemberInit, MemberStep, ClockStep, PTL
     DEF Spec

(***************************************************************************)
(* Leaders                                                                 *)
(***************************************************************************)

Knows(n) == data[n].leader \in Leader

AnnouncementWaits(n) == \E l \in Leader : Hello(l) \in inbox[n]

(* An announcement that will come before the next tick *)
AnnouncementDue(n) == \E l \in Leader \ {n} : stage[l] = "discovering" /\ timer[l] = 0

(* The phase does not end before the next tick. *)
StillListens(n) ==
    /\ stage[n] \notin {"off", "swarm"}
    /\ stage[n] = "discovering" => timer[n] = 1 \/ window[n] + 1 < Window

(* A drone that has been in its phase for a tick got the last announcement *)
(* of a leader that has made one since; a drone whose phase has overlapped *)
(* with that of a leader knows it, or will be told in time.                *)
LearnInv ==
    /\ \A n \in Node : stage[n] = "discovering" => timer[n] \in {0, 1}
    /\ \A n \in Node : stage[n] \notin Running => window[n] = 0
    /\ \A n \in Node : \A l \in Leader \ {n} :
          /\ stage[n] = "discovering" /\ (timer[n] = 0 \/ window[n] > 0)
          /\ stage[l] = "discovering" /\ timer[l] = 1
          => Knows(n) \/ AnnouncementWaits(n)
    /\ \A n \in Node : overlap[n] =>
          \/ Knows(n)
          \/ StillListens(n) /\ (AnnouncementWaits(n) \/ AnnouncementDue(n))

(* Delivery takes nothing out of an inbox and brings everything to drones  *)
(* that are there.                                                         *)
LEMMA DeliveryBrings ==
    ASSUME NEW box \in [Node -> SUBSET Messages], NEW sent, NEW k \in Node
    PROVE  /\ box[k] \subseteq Delivered(box, sent)[k]
           /\ \A msg : <<k, msg>> \in sent /\ stage[k] # "off" => msg \in Delivered(box, sent)[k]
<1>1. Delivered(box, sent)[k] =
         box[k] \cup {s[2] : s \in {x \in sent : x[1] = k /\ stage[k] # "off"}}
  BY DEF Delivered
<1>2. ASSUME NEW msg, <<k, msg>> \in sent, stage[k] # "off"
      PROVE  msg \in {s[2] : s \in {x \in sent : x[1] = k /\ stage[k] # "off"}}
  <2>1. <<k, msg>> \in {x \in sent : x[1] = k /\ stage[k] # "off"} /\ <<k, msg>>[2] = msg
    BY <1>2
  <2> QED
    BY <2>1
<1> QED
  BY <1>1, <1>2

(* The leader's announcement changes what a drone knows while it is in its *)
(* phase; nothing else does.                                               *)
LEMMA DispatchedLeader ==
    ASSUME NEW n \in Node, NEW d \in DroneData, NEW msg \in Messages,
           NEW recent \in BOOLEAN, NEW onCRL \in BOOLEAN,
           d.validated = {},
           NEW result, result = Dispatched(n, d, msg, recent, onCRL)
    PROVE  \/ /\ \E l \in Leader : msg = Hello(l)
              /\ stage[n] = "discovering" => result.data.leader \in Leader
              /\ stage[n] # "discovering" => result.data.leader = d.leader
           \/ /\ \A l \in Leader : msg # Hello(l)
              /\ result.data.leader = d.leader
<1>1. CASE \E k \in Leader : msg = Hello(k)
  <2>1. msg.type = "LEADER" /\ msg.src \in Leader
    BY <1>1 DEF Hello
  <2>2. result = HandleHello(n, d, msg)
    BY <2>1 DEF Dispatched
  <2> QED
    BY <1>1, <2>1, <2>2 DEF HandleHello, Result, DroneData
<1>2. CASE \E k \in Node : msg = JoinRequest(k) \/ msg = Leave(k)
  <2>1. msg.type \in {"JOIN_REQUEST", "LEAVE"} /\ msg.recv = NoAddr
    BY <1>2 DEF JoinRequest, Leave
  <2>2. result = Validated(n, d, msg, recent, onCRL)
    BY <2>1 DEF Dispatched
  <2>3. result = Result(d, {})
    BY <2>1, <2>2 DEF Validated, Transmitter
  <2> QED
    BY <2>1, <2>3 DEF Result, Hello
<1>3. CASE \E k \in Node : msg = RouteMessage(k)
  <2>1. msg.type = "ROUTE" /\ msg.recv \in Node /\ msg.recv # NoAddr
    BY <1>3, Names DEF RouteMessage
  <2> DEFINE d2 == IF msg.recv \in d.validated \cup {n} THEN d ELSE Challenged(d, msg.recv)
  <2>2. result = Validated(n, d, msg, recent, onCRL)
    BY <2>1 DEF Dispatched
  <2>3. result = Result(d, {}) \/ result = RouteHandler(d2, msg)
    BY <2>1, <2>2 DEF Validated, Transmitter
  <2>4. d2.leader = d.leader /\ d2 \in DroneData
    BY <2>1, ChallengedData DEF Challenged, DroneData
  <2> HIDE DEF d2
  <2>5. result.data.leader = d.leader
    BY <2>3, <2>4 DEF Result, RouteHandler, DroneData
  <2> QED
    BY <2>1, <2>5 DEF Hello
<1> QED
  BY <1>1, <1>2, <1>3 DEF Messages

(* A leader that is known stays known, and an announcement that waits is   *)
(* handled in the phase or goes unheard after it.                          *)
LEMMA HeardStep ==
    ASSUME MemberInv, [Next]_vars, NEW n \in Node
    PROVE  /\ Knows(n) => Knows(n)'
           /\ AnnouncementWaits(n) => \/ AnnouncementWaits(n)'
                                      \/ stage[n] = "discovering" /\ Knows(n)'
                                      \/ stage[n] = "swarm"
<1>1. ASSUME data'[n].leader = data[n].leader, inbox[n] \subseteq inbox'[n]
      PROVE  /\ Knows(n) => Knows(n)'
             /\ AnnouncementWaits(n) => AnnouncementWaits(n)'
  BY <1>1 DEF Knows, AnnouncementWaits
<1>2. data[n] \in DroneData /\ data \in [Node -> DroneData] /\ inbox \in [Node -> SUBSET Messages]
  BY DEF MemberInv
<1>3. ASSUME NEW sent PROVE inbox[n] \subseteq Delivered(inbox, sent)[n]
  BY <1>2, DeliveryBrings
<1>4. CASE Tick
  <2>1. inbox' = inbox /\ data'[n] = [data[n] EXCEPT !.timers = {<<t[1], t[2] - 1>> : t \in @}]
    BY <1>4 DEF Tick
  <2>2. data'[n].leader = data[n].leader
    BY <1>2, <2>1 DEF DroneData
  <2> QED
    BY <1>1, <2>1, <2>2
<1>5. ASSUME NEW k \in Node, LeaveSwarm(k)
      PROVE  data'[n].leader = data[n].leader /\ inbox[n] \subseteq inbox'[n]
  <2>1. inbox' = Delivered(inbox, Broadcast(k, Leave(k))) /\ data' = [data EXCEPT ![k].validated = {}]
    BY <1>5 DEF LeaveSwarm
  <2>2. data'[n].leader = data[n].leader
    BY <1>2, <2>1 DEF DroneData
  <2> QED
    BY <1>3, <2>1, <2>2
<1>6. ASSUME NEW k \in Node, ClientResponseThread(k)
      PROVE  /\ Knows(n) => Knows(n)'
             /\ AnnouncementWaits(n) => \/ AnnouncementWaits(n)'
                                        \/ stage[n] = "discovering" /\ Knows(n)'
                                        \/ stage[n] = "swarm"
  <2>1. PICK msg \in inbox[k], recent \in BOOLEAN, onCRL \in BOOLEAN :
           LET result == Dispatched(k, data[k], msg, recent, onCRL) IN
           /\ data' = [data EXCEPT ![k] = result.data]
           /\ inbox' = Delivered([inbox EXCEPT ![k] = @ \ {msg}], result.sent)
    BY <1>6 DEF ClientResponseThread
  <2> DEFINE result == Dispatched(k, data[k], msg, recent, onCRL)
             box == [inbox EXCEPT ![k] = @ \ {msg}]
  <2>2. data' = [data EXCEPT ![k] = result.data] /\ inbox' = Delivered(box, result.sent)
    BY <2>1
  <2>3. msg \in Messages /\ data[k] \in DroneData /\ box \in [Node -> SUBSET Messages]
        /\ data[k].validated = {}
    BY DEF MemberInv, NobodyJoins
  <2>4. /\ k # n => box[n] = inbox[n]
        /\ k = n => box[n] = inbox[n] \ {msg}
    BY <1>2
  <2>5. k # n => data'[n] = data[n]
    BY <1>2, <2>2
  <2>6. k = n => data'[n] = result.data
    BY <1>2, <2>2
  <2> HIDE DEF result, box
  <2>7. box[n] \subseteq inbox'[n]
    BY <2>2, <2>3, DeliveryBrings
  <2>8. \/ /\ \E l \in Leader : msg = Hello(l)
           /\ stage[k] = "discovering" => result.data.leader \in Leader
           /\ stage[k] # "discovering" => result.data.leader = data[k].leader
        \/ /\ \A l \in Leader : msg # Hello(l)
           /\ result.data.leader = data[k].leader
    BY <2>3, DispatchedLeader DEF result
  <2>9. stage[k] \in {"discovering", "swarm"}
    BY <1>6 DEF ClientResponseThread, Running
  <2>10. CASE k # n
    BY <2>4, <2>5, <2>7, <2>10, <1>1
  <2>11. CASE k = n
    BY <2>4, <2>6, <2>7, <2>8, <2>9, <2>11 DEF Knows, AnnouncementWaits
  <2> QED
    BY <2>10, <2>11
<1>7. ASSUME NEW k \in Node, NEW j \in Node, ChallengeTimeout(k, j)
      PROVE  data'[n].leader = data[n].leader /\ inbox[n] \subseteq inbox'[n]
  <2>1. inbox' = inbox /\ data' = [data EXCEPT ![k] = Forgotten(data[k], j)]
    BY <1>7, <1>2 DEF ChallengeTimeout
  <2>2. Forgotten(data[n], j).leader = data[n].leader
    BY <1>2 DEF Forgotten, DroneData
  <2> QED
    BY <1>2, <2>1, <2>2
<1>8. ASSUME UNCHANGED data, UNCHANGED inbox \/ \E sent : inbox' = Delivered(inbox, sent)
      PROVE  data'[n].leader = data[n].leader /\ inbox[n] \subseteq inbox'[n]
  BY <1>8, <1>3
<1>9. CASE \E k \in Node : SendJoinRequest(k) \/ \E j \in Node : SendRouteMessage(k, j)
  BY <1>9, <1>8, <1>1 DEF SendJoinRequest, SendRouteMessage
<1>10. CASE \E k \in Node : StartUp(k)
  BY <1>10, <1>8, <1>1
     DEF StartUp, ConstructorReturns, RequestCertificate, AttemptWithoutRequest, RequestReturns,
         StartThreads, HelloLoop, Discover, SleepAfterAttempt
<1>11. CASE (\E k \in Node : Start(k)) \/ SwitchLink \/ UNCHANGED vars
  BY <1>11, <1>8, <1>1 DEF Start, SwitchLink, vars
<1> QED
  BY <1>1, <1>4, <1>5, <1>6, <1>7, <1>9, <1>10, <1>11 DEF Next

LEMMA HelloArrives ==
    ASSUME MemberInv, NEW l \in Leader, NEW n \in Node \ {l}, stage[n] # "off",
           inbox' = Delivered(inbox, Announcement(l))
    PROVE  AnnouncementWaits(n)'
<1>1. <<n, Hello(l)>> \in Announcement(l)
  BY DEF Announcement, Broadcast
<1>2. inbox \in [Node -> SUBSET Messages]
  BY DEF MemberInv
<1> QED
  BY <1>1, <1>2, DeliveryBrings DEF AnnouncementWaits

(* The four parts of LearnInv for one drone *)
Learning(n) ==
    /\ stage[n] = "discovering" => timer[n] \in {0, 1}
    /\ stage[n] \notin Running => window[n] = 0
    /\ \A l \in Leader \ {n} :
          /\ stage[n] = "discovering" /\ (timer[n] = 0 \/ window[n] > 0)
          /\ stage[l] = "discovering" /\ timer[l] = 1
          => Knows(n) \/ AnnouncementWaits(n)
    /\ overlap[n] =>
          \/ Knows(n)
          \/ StillListens(n) /\ (AnnouncementWaits(n) \/ AnnouncementDue(n))

LEMMA LearningOfAll == (LearnInv <=> \A n \in Node : Learning(n))
                       /\ (LearnInv' <=> \A n \in Node : Learning(n)')
  BY DEF LearnInv, Learning

(* A step of a drone k that is not in its phase, before or after: nothing  *)
(* that counts changes.                                                    *)
LEMMA QuietStep ==
    ASSUME MemberInv, [Next]_vars, NEW n \in Node, Learning(n),
           \A k \in Node : \/ stage'[k] = stage[k] /\ timer'[k] = timer[k]
                           \/ stage[k] \notin Running /\ stage'[k] \notin Running \cup {"off"},
           UNCHANGED <<window, overlap>>
    PROVE  Learning(n)'
<1>1. /\ Knows(n) => Knows(n)'
      /\ AnnouncementWaits(n) => \/ AnnouncementWaits(n)'
                                 \/ stage[n] = "discovering" /\ Knows(n)'
                                 \/ stage[n] = "swarm"
  BY HeardStep
<1>2. ASSUME NEW k \in Node
      PROVE  (stage[k] = "discovering" \/ stage'[k] = "discovering")
             => stage'[k] = stage[k] /\ timer'[k] = timer[k]
  BY DEF Running
<1>3. Leader \subseteq Node
  BY Names
<1>4. /\ stage'[n] = "discovering" => timer'[n] \in {0, 1}
      /\ stage'[n] \notin Running => window'[n] = 0
  BY <1>2 DEF Learning, Running
<1>5. ASSUME NEW l \in Leader \ {n},
             stage'[n] = "discovering" /\ (timer'[n] = 0 \/ window'[n] > 0),
             stage'[l] = "discovering" /\ timer'[l] = 1
      PROVE  Knows(n)' \/ AnnouncementWaits(n)'
  BY <1>1, <1>2, <1>3, <1>5 DEF Learning
<1>6. AnnouncementDue(n) => AnnouncementDue(n)'
  BY <1>2, <1>3 DEF AnnouncementDue
<1>7. StillListens(n) => StillListens(n)'
  BY <1>2 DEF StillListens, Running
<1>8. ASSUME overlap'[n]
      PROVE  \/ Knows(n)'
             \/ StillListens(n)' /\ (AnnouncementWaits(n)' \/ AnnouncementDue(n)')
  BY <1>1, <1>6, <1>7, <1>8 DEF Learning, StillListens
<1> QED
  BY <1>4, <1>5, <1>8 DEF Learning

(* A drone k begins its phase, with an announcement if it leads. *)
LEMMA DiscoverStep ==
    ASSUME MemberInv, StartUpType, [Next]_vars, \A n \in Node : Learning(n),
           NEW k \in Node, stage[k] \in {"constructing", "certified"}, Discover(k),
           UNCHANGED <<window, overlap>>, NEW n \in Node
    PROVE  Learning(n)'
<1>1. /\ Knows(n) => Knows(n)'
      /\ AnnouncementWaits(n) => \/ AnnouncementWaits(n)'
                                 \/ stage[n] = "discovering" /\ Knows(n)'
                                 \/ stage[n] = "swarm"
  BY HeardStep
<1>2. /\ inbox' = Delivered(inbox, Announcement(k))
      /\ stage'[k] = "discovering" /\ timer'[k] = 1
      /\ \A j \in Node \ {k} : stage'[j] = stage[j] /\ timer'[j] = timer[j]
  BY DEF Discover, StartUpType
<1>3. Leader \subseteq Node /\ window' = window /\ overlap' = overlap
  BY Names
<1>4. window[k] = 0
  BY DEF Learning, Running
<1>5. /\ stage'[n] = "discovering" => timer'[n] \in {0, 1}
      /\ stage'[n] \notin Running => window'[n] = 0
  BY <1>2, <1>3 DEF Learning, Running
<1>6. ASSUME NEW l \in Leader \ {n},
             stage'[n] = "discovering" /\ (timer'[n] = 0 \/ window'[n] > 0),
             stage'[l] = "discovering" /\ timer'[l] = 1
      PROVE  Knows(n)' \/ AnnouncementWaits(n)'
  <2>1. n # k
    BY <1>2, <1>3, <1>4, <1>6
  <2>2. CASE l = k
    BY <1>2, <1>6, <2>1, <2>2, HelloArrives
  <2>3. CASE l # k
    BY <1>1, <1>2, <1>3, <1>6, <2>1, <2>3 DEF Learning
  <2> QED
    BY <2>2, <2>3
<1>7. AnnouncementDue(n) => AnnouncementDue(n)'
  BY <1>2, <1>3 DEF AnnouncementDue
<1>8. StillListens(n) => StillListens(n)'
  BY <1>2, <1>3 DEF StillListens
<1>9. ASSUME overlap'[n]
      PROVE  \/ Knows(n)'
             \/ StillListens(n)' /\ (AnnouncementWaits(n)' \/ AnnouncementDue(n)')
  BY <1>1, <1>3, <1>7, <1>8, <1>9 DEF Learning, StillListens
<1> QED
  BY <1>5, <1>6, <1>9 DEF Learning

(* A drone k makes its next announcement, maybe the last one. *)
LEMMA HelloStep ==
    ASSUME MemberInv, StartUpType, ClockInv, [Next]_vars, \A n \in Node : Learning(n),
           NEW k \in Node, HelloLoop(k), NEW n \in Node
    PROVE  Learning(n)'
<1>1. /\ Knows(n) => Knows(n)'
      /\ AnnouncementWaits(n) => \/ AnnouncementWaits(n)'
                                 \/ stage[n] = "discovering" /\ Knows(n)'
                                 \/ stage[n] = "swarm"
  BY HeardStep
<1>2. /\ inbox' = Delivered(inbox, Announcement(k)) /\ overlap' = overlap
      /\ stage[k] = "discovering" /\ timer[k] = 0
      /\ window'[k] = window[k] + 1
      /\ \/ window[k] + 1 < Window /\ stage'[k] = "discovering" /\ timer'[k] = 1
         \/ ~(window[k] + 1 < Window) /\ stage'[k] = "swarm"
      /\ \A j \in Node \ {k} : /\ stage'[j] = stage[j] /\ timer'[j] = timer[j]
                               /\ window'[j] = window[j]
  BY DEF HelloLoop, HelloAgain, StartUpType, ClockInv
<1>3. Leader \subseteq Node
  BY Names
<1>4. /\ stage'[n] = "discovering" => timer'[n] \in {0, 1}
      /\ stage'[n] \notin Running => window'[n] = 0
  BY <1>2 DEF Learning, Running
<1>5. ASSUME NEW l \in Leader \ {n},
             stage'[n] = "discovering" /\ (timer'[n] = 0 \/ window'[n] > 0),
             stage'[l] = "discovering" /\ timer'[l] = 1
      PROVE  Knows(n)' \/ AnnouncementWaits(n)'
  <2>1. CASE l = k
    BY <1>2, <1>5, <2>1, HelloArrives
  <2>2. CASE l # k
    BY <1>1, <1>2, <1>3, <1>5, <2>2 DEF Learning
  <2> QED
    BY <2>1, <2>2
<1>6. ASSUME overlap'[n]
      PROVE  \/ Knows(n)'
             \/ StillListens(n)' /\ (AnnouncementWaits(n)' \/ AnnouncementDue(n)')
  <2>1. CASE ~Knows(n)
    <3>1. StillListens(n) /\ (AnnouncementWaits(n) \/ AnnouncementDue(n))
      BY <1>2, <1>6, <2>1 DEF Learning
    <3>2. StillListens(n)'
      BY <1>2, <3>1 DEF StillListens
    <3>3. CASE AnnouncementWaits(n)
      BY <1>1, <3>1, <3>2, <3>3 DEF StillListens
    <3>4. CASE AnnouncementDue(n)
      <4>1. PICK l \in Leader \ {n} : stage[l] = "discovering" /\ timer[l] = 0
        BY <3>4 DEF AnnouncementDue
      <4>2. CASE l = k
        BY <1>2, <3>1, <3>2, <4>1, <4>2, HelloArrives DEF StillListens
      <4>3. CASE l # k
        BY <1>2, <1>3, <3>2, <4>1, <4>3 DEF AnnouncementDue
      <4> QED
        BY <4>2, <4>3
    <3> QED
      BY <3>1, <3>3, <3>4
  <2> QED
    BY <1>1, <2>1
<1> QED
  BY <1>4, <1>5, <1>6 DEF Learning

(* The clock goes on: an overlap begins to count.  A phase of two units or *)
(* more is the reason why a drone whose phase ends at once has heard of    *)
(* the leader before.                                                      *)
LEMMA OverlapStep ==
    ASSUME MemberInv, StartUpType, ClockInv, [Next]_vars, \A n \in Node : Learning(n),
           Window >= 2, Tick, NEW n \in Node
    PROVE  Learning(n)'
<1>1. Knows(n) => Knows(n)'
  BY HeardStep
<1>2. /\ inbox' = inbox /\ stage' = stage /\ window' = window
      /\ \A k \in Node : ~Due(k) /\ (stage[k] \in Running => inbox[k] = {})
      /\ \A k \in Node : stage[k] = "discovering" => timer'[k] = timer[k] - 1
      /\ overlap'[n] <=> \/ overlap[n]
                         \/ stage[n] \notin {"off", "swarm"} /\ Discovering(Leader \ {n})
  BY DEF Tick, ClockInv
<1>3. Leader \subseteq Node /\ Window \in Nat /\ window[n] \in Nat
  BY Names, MembershipAssumption DEF MembershipAssumption, ClockInv
<1>4. ASSUME NEW k \in Node, stage[k] = "discovering"
      PROVE  timer[k] = 1 /\ timer'[k] = 0 /\ ~AnnouncementWaits(k)
  BY <1>2, <1>4 DEF Due, Learning, Running, AnnouncementWaits
<1>5. /\ stage'[n] = "discovering" => timer'[n] \in {0, 1}
      /\ stage'[n] \notin Running => window'[n] = 0
  BY <1>2, <1>4 DEF Learning
<1>6. ASSUME NEW l \in Leader \ {n} PROVE ~(stage'[l] = "discovering" /\ timer'[l] = 1)
  BY <1>2, <1>3, <1>4
<1>7. ASSUME overlap'[n], ~Knows(n)
      PROVE  StillListens(n)' /\ (AnnouncementWaits(n)' \/ AnnouncementDue(n)')
  <2>1. CASE overlap[n]
    <3>1. StillListens(n) /\ (AnnouncementWaits(n) \/ AnnouncementDue(n))
      BY <1>7, <2>1 DEF Learning
    <3>2. ~AnnouncementDue(n)
      BY <1>3, <1>4 DEF AnnouncementDue
    <3>3. stage[n] # "discovering"
      BY <1>4, <3>1, <3>2
    <3> QED
      BY <1>2, <3>1, <3>2, <3>3 DEF StillListens, AnnouncementWaits
  <2>2. CASE ~overlap[n]
    <3>1. stage[n] \notin {"off", "swarm"} /\ Discovering(Leader \ {n})
      BY <1>2, <1>7, <2>2
    <3>2. PICK l \in Leader \ {n} : stage[l] = "discovering"
      BY <3>1 DEF Discovering
    <3>3. timer[l] = 1 /\ timer'[l] = 0
      BY <1>3, <1>4, <3>2
    <3>4. AnnouncementDue(n)'
      BY <1>2, <3>2, <3>3 DEF AnnouncementDue
    <3>5. stage[n] = "discovering" => window[n] + 1 < Window
      <4> SUFFICES ASSUME stage[n] = "discovering" PROVE window[n] + 1 < Window
        OBVIOUS
      <4>1. ~(window[n] > 0)
        BY <1>4, <1>7, <3>2, <3>3 DEF Learning
      <4> QED
        BY <1>3, <4>1
    <3> QED
      BY <1>2, <3>1, <3>4, <3>5 DEF StillListens
  <2> QED
    BY <2>1, <2>2
<1> QED
  BY <1>1, <1>5, <1>6, <1>7 DEF Learning

LEMMA LearnStep ==
    ASSUME Window >= 2
    PROVE  MemberInv /\ StartUpType /\ ClockInv /\ LearnInv /\ [Next]_vars => LearnInv'
<1> SUFFICES ASSUME MemberInv, StartUpType, ClockInv, LearnInv, [Next]_vars, NEW n \in Node
             PROVE  Learning(n)'
  BY LearningOfAll
<1>1. \A k \in Node : Learning(k)
  BY LearningOfAll
<1>2. CASE Tick
  BY <1>1, <1>2, OverlapStep
<1>3. CASE \E k \in Node : HelloLoop(k)
  BY <1>1, <1>3, HelloStep
<1>4. ASSUME NEW k \in Node, StartThreads(k) PROVE Learning(n)'
  BY <1>1, <1>4, DiscoverStep DEF StartThreads
<1>5. ASSUME NEW k \in Node, ConstructorReturns(k) PROVE Learning(n)'
  <2>1. CASE Obtained(k)
    BY <1>1, <1>5, <2>1, DiscoverStep DEF ConstructorReturns
  <2>2. CASE ~Obtained(k)
    BY <1>1, <1>5, <2>2, QuietStep DEF ConstructorReturns, StartUpType, Running
  <2> QED
    BY <2>1, <2>2
<1>6. ASSUME NEW k \in Node, Start(k) \/ RequestCertificate(k) PROVE Learning(n)'
  BY <1>1, <1>6, QuietStep
     DEF Start, RequestCertificate, StartRequest, StartUpType, Running
<1>7. ASSUME NEW k \in Node, AttemptWithoutRequest(k) \/ RequestReturns(k) PROVE Learning(n)'
  BY <1>1, <1>7, QuietStep
     DEF AttemptWithoutRequest, RequestReturns, SleepAfterAttempt, StartUpType, Running
<1>8. ASSUME UNCHANGED <<stage, timer, window, overlap>> PROVE Learning(n)'
  BY <1>1, <1>8, QuietStep
<1>9. CASE SwitchLink \/ UNCHANGED vars
  BY <1>8, <1>9 DEF SwitchLink, vars, starting
<1>10. ASSUME NEW k \in Node, SendJoinRequest(k) \/ LeaveSwarm(k) \/ ClientResponseThread(k)
       PROVE  Learning(n)'
  BY <1>8, <1>10 DEF SendJoinRequest, LeaveSwarm, ClientResponseThread, starting
<1>11. ASSUME NEW k \in Node, NEW j \in Node, SendRouteMessage(k, j) \/ ChallengeTimeout(k, j)
       PROVE  Learning(n)'
  BY <1>8, <1>11 DEF SendRouteMessage, ChallengeTimeout, starting
<1> QED
  BY <1>2, <1>3, <1>4, <1>5, <1>6, <1>7, <1>9, <1>10, <1>11 DEF Next, StartUp

(* Phases that overlap by a tick are enough, for any number of drones and  *)
(* leaders, when a phase lasts for two announcements or more.  A phase of  *)
(* five seconds is too short: a drone that starts after the leader's first *)
(* announcement may leave its phase just before the second one.            *)
THEOREM LeaderIsLearnt == Window >= 2 => (Spec => []LearnsLeader)
<1> SUFFICES ASSUME Window >= 2 PROVE Spec => []LearnsLeader
  OBVIOUS
<1>1. Init => ClockInv /\ LearnInv
  BY MembershipAssumption DEF MembershipAssumption, Init, ClockInv, LearnInv, Running
<1>2. CertificateInv => StartUpType
  BY DEF CertificateInv
<1>3. LearnInv => LearnsLeader
  BY DEF LearnInv, LearnsLeader, StillListens, Knows
<1> QED
  BY <1>1, <1>2, <1>3, CertificateInit, CertificateStep, MemberInit, MemberStep, ClockStep,
     LearnStep, PTL DEF Spec
=============================================================================
