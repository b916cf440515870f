--------------------------- MODULE PendingRoutes ---------------------------
(***************************************************************************)
(* Messages of one drone that wait for a route.  Two threads share         *)
(* pendingRoutes: the application, which calls drone::send, and the        *)
(* clientResponseThread, which starts the discoveries asked for on the IPC *)
(* socket and handles route replies.  Every access of the deque is one     *)
(* critical section of pendingRoutesMutex; between two of them the other   *)
(* thread may run, except that routeReplyHandler holds routingTableMutex   *)
(* throughout and initRouteDiscovery takes it for a moment.  To a drone    *)
(* outside the swarm send runs initCrossSwarmRouteDiscovery instead, which *)
(* treats the deque alike.                                                 *)
(*                                                                         *)
(* Operators named ...Mutant are plausible wrong versions of the           *)
(* definition that follows them; nothing uses them but mutation testing.   *)
(***************************************************************************)
EXTENDS Integers, Sequences, FiniteSets

CONSTANTS
    Dest,               \* addresses a route may be needed to
    Msg,                \* messages the application sends, each once
    NoMsg,              \* the empty message initRouteDiscovery queues
    MaxPending,         \* MAX_PENDING_ROUTES
    CleanupThreshold,   \* CLEANUP_THRESHOLD
    Timeout,            \* timeout_sec
    MaxTime,            \* bound: ticks of the clock
    MaxDiscoveries      \* bound: discoveries the IPC socket asks for

ASSUME PendingAssumption ==
    /\ NoMsg \notin Msg
    /\ MaxPending \in Nat \ {0} /\ CleanupThreshold \in 0..MaxPending
    /\ Timeout \in Nat \ {0} /\ MaxTime \in Nat /\ MaxDiscoveries \in Nat

VARIABLES
    now,        \* steady_clock
    routed,     \* destinations in the routing table
    pending,    \* pendingRoutes
    app,        \* the application thread inside send
    worker,     \* the clientResponseThread
    batch,      \* routesToProcess of processPendingRoutes
    unsent,     \* messages the application has not sent yet
    sent,       \* what was handed to the next hop, in order
    asked       \* discoveries asked for on the IPC socket

vars == <<now, routed, pending, app, worker, batch, unsent, sent, asked>>

Route == [dest : Dest, msg : Msg \cup {NoMsg}, exp : Nat]

Idle == [pc |-> "idle"]

(* Reckons the timeout backwards. *)
NewRouteMutant(d, m) == [dest |-> d, msg |-> m, exp |-> now - Timeout]

NewRoute(d, m) == [dest |-> d, msg |-> m, exp |-> now + Timeout]

Alive(r) == now < r.exp

(* cleanupExpiredRoutes: std::remove_if keeps the others in their order.   *)
(* A recursive function, where SelectSeq would do for TLC: the provers     *)
(* know nothing of SelectSeq.                                              *)
Cleaned(routes) ==
    LET kept[i \in 0..Len(routes)] ==
            IF i = 0 THEN <<>>
            ELSE IF Alive(routes[i]) THEN Append(kept[i - 1], routes[i])
            ELSE kept[i - 1]
    IN  kept[Len(routes)]

(* addPendingRoute: expired routes are removed only from the threshold on; *)
(* at the limit a route is refused even when its destination is queued.    *)
Swept(routes) == IF Len(routes) >= CleanupThreshold THEN Cleaned(routes) ELSE routes

(* Lets one more in. *)
RefusedMutant(routes) == Len(Swept(routes)) > MaxPending

Refused(routes) == Len(Swept(routes)) >= MaxPending

Positions(routes, d) == {i \in 1..Len(routes) : routes[i].dest = d}

AddPendingRoute(routes, r) ==
    LET swept == Swept(routes) IN
    IF Refused(routes) THEN swept
    ELSE IF Positions(swept, r.dest) = {} THEN Append(swept, r)
    ELSE [i \in 1..Len(swept) |->
             IF i = (CHOOSE j \in Positions(swept, r.dest) :
                        \A k \in Positions(swept, r.dest) : j <= k)
             THEN r ELSE swept[i]]

--------------------------------------------------------------------------
Init ==
    /\ now = 0
    /\ routed = {}
    /\ pending = <<>>
    /\ app = Idle
    /\ worker = Idle
    /\ batch = <<>>
    /\ unsent = Msg
    /\ sent = <<>>
    /\ asked = 0

Tick ==
    /\ now < MaxTime
    /\ now' = now + 1
    /\ UNCHANGED <<routed, pending, app, worker, batch, unsent, sent, asked>>

--------------------------------------------------------------------------
(* drone::send, on the application's thread *)

Send(d, m) ==
    /\ app = Idle /\ m \in unsent
    /\ unsent' = unsent \ {m}
    /\ IF d \in routed
       THEN /\ sent' \in {sent, Append(sent, m)}        \* sendData may fail
            /\ UNCHANGED app
       ELSE /\ app' = [pc |-> "queue", dest |-> d, msg |-> m]
            /\ UNCHANGED sent
    /\ UNCHANGED <<now, routed, pending, worker, batch, asked>>

SendQueue ==
    /\ app.pc = "queue"
    /\ pending' = AddPendingRoute(pending, NewRoute(app.dest, app.msg))
    /\ app' = IF Refused(pending) THEN Idle ELSE [pc |-> "discover", dest |-> app.dest]
    /\ UNCHANGED <<now, routed, worker, batch, unsent, sent, asked>>

(* initRouteDiscovery: it looks the destination up under                   *)
(* routingTableMutex, then queues an empty message and broadcasts.  With   *)
(* the hash chain used up, or no leader to ask, it gives up before.        *)
SendGiveUp ==
    /\ app.pc = "discover"
    /\ app' = Idle
    /\ UNCHANGED <<now, routed, pending, worker, batch, unsent, sent, asked>>

SendDiscover ==
    /\ app.pc = "discover"
    /\ worker.pc \notin {"reply", "taken", "process"}
    /\ app' = [app EXCEPT !.pc = "placeholder"]
    /\ UNCHANGED <<now, routed, pending, worker, batch, unsent, sent, asked>>

SendPlaceholder ==
    /\ app.pc = "placeholder"
    /\ pending' = AddPendingRoute(pending, NewRoute(app.dest, NoMsg))
    /\ app' = Idle
    /\ UNCHANGED <<now, routed, worker, batch, unsent, sent, asked>>

--------------------------------------------------------------------------
(* the clientResponseThread *)

Discover(d) ==
    /\ worker = Idle
    /\ asked < MaxDiscoveries
    /\ asked' = asked + 1
    /\ worker' \in {Idle, [pc |-> "placeholder", dest |-> d]}
    /\ UNCHANGED <<now, routed, pending, app, batch, unsent, sent>>

DiscoverPlaceholder ==
    /\ worker.pc = "placeholder"
    /\ pending' = AddPendingRoute(pending, NewRoute(worker.dest, NoMsg))
    /\ worker' = Idle
    /\ UNCHANGED <<now, routed, app, batch, unsent, sent, asked>>

(* routeReplyHandler at the requester enters the route (to the replier and *)
(* to the neighbour the reply came from), then processPendingRoutes copies *)
(* and clears the deque ...                                                *)
Reply(ds) ==
    /\ worker = Idle
    /\ routed' = routed \cup ds
    /\ worker' = [pc |-> "reply"]
    /\ UNCHANGED <<now, pending, app, batch, unsent, sent, asked>>

(* Copies the deque and leaves it as it is. *)
TakePendingMutant ==
    /\ worker.pc = "reply"
    /\ pending' = Cleaned(pending)
    /\ batch' = Cleaned(pending)
    /\ worker' = [pc |-> "taken"]
    /\ UNCHANGED <<now, routed, app, unsent, sent, asked>>

TakePending ==
    /\ worker.pc = "reply"
    /\ pending' = <<>>
    /\ batch' = Cleaned(pending)
    /\ worker' = [pc |-> "taken"]
    /\ UNCHANGED <<now, routed, app, unsent, sent, asked>>

(* ... reads the clock, by which routes may have expired since ... *)
ReadClock ==
    /\ worker.pc = "taken"
    /\ worker' = [pc |-> "process", since |-> now]
    /\ UNCHANGED <<now, routed, pending, app, batch, unsent, sent, asked>>

(* ... and goes through the copy with the mutex free. *)
Requeue(r) == pending' = AddPendingRoute(pending, r) /\ UNCHANGED sent

ProcessOne ==
    LET r == Head(batch) IN
    /\ worker.pc = "process" /\ batch # <<>>
    /\ batch' = Tail(batch)
    /\ \/ worker.since >= r.exp /\ UNCHANGED <<pending, sent>>
       \/ /\ worker.since < r.exp /\ r.dest \in routed
          /\ \/ sent' = Append(sent, r.msg) /\ UNCHANGED pending
             \/ Requeue(r)                              \* sendData failed
       \/ /\ worker.since < r.exp /\ r.dest \notin routed
          /\ Requeue(r)
    /\ UNCHANGED <<now, routed, app, worker, unsent, asked>>

EndReply ==
    /\ worker.pc = "process" /\ batch = <<>>
    /\ worker' = Idle
    /\ UNCHANGED <<now, routed, pending, app, batch, unsent, sent, asked>>

Next ==
    \/ Tick
    \/ \E d \in Dest, m \in Msg : Send(d, m)
    \/ SendQueue \/ SendGiveUp \/ SendDiscover \/ SendPlaceholder
    \/ \E d \in Dest : Discover(d)
    \/ DiscoverPlaceholder
    \/ \E ds \in SUBSET Dest \ {{}} : Reply(ds)
    \/ TakePending \/ ReadClock \/ ProcessOne \/ EndReply

Spec == Init /\ [][Next]_vars

--------------------------------------------------------------------------
(* Properties *)

ThreadState ==
    {Idle, [pc |-> "reply"], [pc |-> "taken"]}
      \cup [pc : {"queue"}, dest : Dest, msg : Msg]
      \cup [pc : {"discover", "placeholder"}, dest : Dest]
      \cup [pc : {"process"}, since : Nat]

(* Every variable has the shape the code gives it. *)
TypeOK ==
    /\ now \in 0..MaxTime
    /\ routed \subseteq Dest
    /\ pending \in Seq(Route) /\ batch \in Seq(Route)
    /\ app \in ThreadState /\ worker \in ThreadState
    /\ unsent \subseteq Msg
    /\ sent \in Seq(Msg \cup {NoMsg})
    /\ asked \in 0..MaxDiscoveries

(* No two waiting routes have the same destination, though send, the       *)
(* discoveries and the re-queueing of processPendingRoutes add to the      *)
(* deque from two threads.                                                 *)
OneRoutePerDest ==
    \A i, j \in 1..Len(pending) : pending[i].dest = pending[j].dest => i = j

(* pendingRoutes never exceeds MAX_PENDING_ROUTES, re-queued routes        *)
(* included.                                                               *)
WithinLimit == Len(pending) <= MaxPending

Holds(routes, m) == \E i \in 1..Len(routes) : routes[i].msg = m

(* No message goes to the next hop twice: one that is waiting or being     *)
(* processed has not been handed over, and none is handed over again.      *)
SentOnce ==
    \A m \in Msg :
        /\ Cardinality({i \in 1..Len(sent) : sent[i] = m}) <= 1
        /\ Holds(pending, m) => ~Holds(batch, m)
        /\ (\E i \in 1..Len(sent) : sent[i] = m) => ~Holds(pending, m) /\ ~Holds(batch, m)

(* "Route still not found, but not expired - re-queue" (drone.cpp:665): a  *)
(* waiting message whose time has not passed is not lost.                  *)
KeptUntilExpiry ==
    [][\A i \in 1..Len(pending) :
          pending[i].msg # NoMsg /\ Alive(pending[i]) =>
             \/ \E j \in 1..Len(pending') : pending'[j] = pending[i]
             \/ \E j \in 1..Len(batch') : batch'[j] = pending[i]]_vars
==========================================================================
