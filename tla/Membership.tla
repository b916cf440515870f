----------------------------- MODULE Membership -----------------------------
(***************************************************************************)
(* How drones come up and form a swarm: every drone waits for a            *)
(* certificate from the ground control station (GCS), then says hello for  *)
(* a while, leaders announcing themselves with it; afterwards a drone that *)
(* is no leader asks the last leader it heard of to take it in, until that *)
(* happens.  The clientResponseThread sends what comes in through the      *)
(* dispatcher, which reads the field recvAddr of every message about       *)
(* routes or membership.  Only messages about routes have one: the others  *)
(* end in an exception.  The handlers behind it are here all the same, and *)
(* NobodyJoins says that none of them has had an effect.                   *)
(*                                                                         *)
(* Time is discrete, in units of five seconds.  Whatever is due happens    *)
(* before the clock goes on, and so does the handling of what has arrived: *)
(* handlers take far less than five seconds.  Nothing is lost.             *)
(*                                                                         *)
(* Operators named ...Mutant are plausible wrong versions of the           *)
(* definition that follows them; nothing uses them but mutation testing.   *)
(***************************************************************************)
EXTENDS Integers

CONSTANTS
    Node, Leader,   \* all drones, and those with IS_LEADER set
    NoAddr,         \* no address
    RetryEvery,     \* attempts between two requests for a certificate (12)
    MaxDelay,       \* the longest such a request takes
    Window,         \* DISCOVERY_INTERVAL
    JoinEvery,      \* pause between two join requests (30 seconds)
    ChallengeLife   \* how long a challenge is kept (30 seconds)

ASSUME MembershipAssumption ==
    /\ Leader \subseteq Node /\ NoAddr \notin Node
    /\ RetryEvery \in Nat \ {0} /\ MaxDelay \in Nat /\ Window \in Nat \ {0}
    /\ JoinEvery \in Nat \ {0} /\ ChallengeLife \in Nat \ {0}

VARIABLES
    gcs,        \* the GCS can be reached, and issues certificates
    stage,      \* how far start() and the helper thread of a drone are
    timer,      \* of that thread: ticks left to sleep, or spent on a request
    attempt,    \* waitForCertificate: attempts since the last request
    spoilt,     \* the request in flight met a time without GCS
    window,     \* length of the discovery phase so far
    joinTimer,  \* ticks until the next join request
    data,       \* what the handlers of a drone read and write
    inbox,      \* messages in a drone's sockets and its queue
    spoken,     \* drones that have used up their bound: one message of their
                \* own accord in a tick
    reachable,  \* history: how long a drone waits while the GCS is there
    overlap     \* history: a tick before the end of a drone's discovery phase
                \* was one of a leader's discovery phase

starting == <<timer, attempt, spoilt, window>>
vars == <<gcs, stage, starting, joinTimer, data, inbox, spoken, reachable, overlap>>

(* Stages: the constructor asks for a certificate; so does the retry loop, *)
(* which sleeps five seconds after every attempt, also after a good one.   *)
Stages == {"off", "constructing", "retrying", "asking", "certified",
           "discovering", "swarm"}
Uncertified == {"constructing", "retrying", "asking"}
Running == {"discovering", "swarm"}

Fresh == [leader |-> NoAddr, joined |-> FALSE, pending |-> {}, timers |-> {},
          validated |-> {}, members |-> {}, routes |-> {}]

Init ==
    /\ gcs \in BOOLEAN
    /\ stage = [n \in Node |-> "off"]
    /\ timer = [n \in Node |-> 0]
    /\ attempt = [n \in Node |-> 0]
    /\ spoilt = [n \in Node |-> FALSE]
    /\ window = [n \in Node |-> 0]
    /\ joinTimer = [n \in Node |-> 0]
    /\ data = [n \in Node |-> Fresh]
    /\ inbox = [n \in Node |-> {}]
    /\ spoken = {}
    /\ reachable = [n \in Node |-> 0]
    /\ overlap = [n \in Node |-> FALSE]

--------------------------------------------------------------------------
(* Messages.  A socket is there from the constructor on: what reaches a    *)
(* drone that still waits for its certificate is handled later.            *)

Hello(n) == [type |-> "LEADER", src |-> n, recv |-> NoAddr]
RouteMessage(n) == [type |-> "ROUTE", src |-> n, recv |-> n]
JoinRequest(n) == [type |-> "JOIN_REQUEST", src |-> n, recv |-> NoAddr]
JoinResponse(n, nodes) ==
    [type |-> "JOIN_RESPONSE", src |-> n, recv |-> NoAddr, nodes |-> nodes]
Challenge(n) == [type |-> "CHALLENGE", src |-> n, recv |-> NoAddr]
Response(n) == [type |-> "RESPONSE", src |-> n, recv |-> NoAddr]
Leave(n) == [type |-> "LEAVE", src |-> n, recv |-> NoAddr]

To(n, msg) == {<<n, msg>>}
Broadcast(n, msg) == (Node \ {n}) \X {msg}

Delivered(box, sent) ==
    [n \in Node |-> box[n] \cup {s[2] : s \in {x \in sent : x[1] = n /\ stage[n] # "off"}}]

--------------------------------------------------------------------------
(* The environment *)

SwitchLink ==
    /\ gcs' = ~gcs
    /\ spoilt' = [n \in Node |-> stage[n] \in {"constructing", "asking"}]
    /\ reachable' = [n \in Node |-> 0]
    /\ UNCHANGED <<stage, timer, attempt, window, joinTimer, data, inbox, spoken, overlap>>

Speak(n) == n \notin spoken /\ spoken' = spoken \cup {n}

(* A route request, reply or error of n for d, see RouteDiscovery. *)
SendRouteMessage(n, d) ==
    /\ stage[n] \in Running /\ n # d
    /\ Speak(n)
    /\ inbox' = Delivered(inbox, To(d, RouteMessage(n)))
    /\ UNCHANGED <<gcs, stage, starting, joinTimer, data, reachable, overlap>>

(* leaveSwarm, on a command of the terminal *)
LeaveSwarm(n) ==
    /\ stage[n] \in Running
    /\ Speak(n)
    /\ inbox' = Delivered(inbox, Broadcast(n, Leave(n)))
    /\ data' = [data EXCEPT ![n].validated = {}]
    /\ UNCHANGED <<gcs, stage, starting, joinTimer, reachable, overlap>>

Due(n) ==
    CASE stage[n] \in {"retrying", "certified", "discovering"} -> timer[n] = 0
      [] stage[n] \in {"constructing", "asking"} -> timer[n] = MaxDelay
      [] stage[n] = "swarm" -> joinTimer[n] = 0 /\ n \notin Leader /\ ~data[n].joined
      [] OTHER -> FALSE

Discovering(S) == \E n \in S : stage[n] = "discovering"

Tick ==
    /\ \A n \in Node :
          /\ ~Due(n)
          /\ stage[n] \in Running => inbox[n] = {}
          /\ \A t \in data[n].timers : t[2] > 0
    /\ timer' = [n \in Node |->
          CASE stage[n] \in {"retrying", "certified", "discovering"} -> timer[n] - 1
            [] stage[n] \in {"constructing", "asking"} -> timer[n] + 1
            [] OTHER -> timer[n]]
    /\ joinTimer' = [n \in Node |-> IF joinTimer[n] > 0 THEN joinTimer[n] - 1 ELSE 0]
    /\ data' = [n \in Node |-> [data[n] EXCEPT !.timers = {<<t[1], t[2] - 1>> : t \in @}]]
    /\ reachable' = [n \in Node |->
          IF gcs /\ stage[n] \in Uncertified THEN reachable[n] + 1 ELSE 0]
    /\ overlap' = [n \in Node |->
          \/ overlap[n]
          \/ stage[n] \notin {"off", "swarm"} /\ Discovering(Leader \ {n})]
    /\ spoken' = {}
    /\ UNCHANGED <<gcs, stage, attempt, spoilt, window, inbox>>

--------------------------------------------------------------------------
(* The certificate: PKIClient's constructor and waitForCertificate *)

StartRequest(n, s) ==
    /\ stage' = [stage EXCEPT ![n] = s]
    /\ timer' = [timer EXCEPT ![n] = 0]
    /\ spoilt' = [spoilt EXCEPT ![n] = ~gcs]

Start(n) ==
    /\ stage[n] = "off"
    /\ StartRequest(n, "constructing")
    /\ UNCHANGED <<gcs, attempt, window, joinTimer, data, inbox, spoken, reachable, overlap>>

(* A request that found the GCS there all the time succeeds. *)
Obtained(n) == ~spoilt[n]

NextAttemptMutant(k) == IF k + 1 < RetryEvery THEN k + 1 ELSE k

(* attempt == 0 || attempt % 12 == 0 is the test: kept modulo 12 *)
NextAttempt(k) == IF k + 1 = RetryEvery THEN 0 ELSE k + 1

RetryDue(n) == attempt[n] = 0

AnnouncementMutant(n) == Broadcast(n, Hello(n))

(* The helper thread begins with a broadcast, leaders with another one.    *)
Announcement(n) == IF n \in Leader THEN Broadcast(n, Hello(n)) ELSE {}

Discover(n) ==
    /\ stage' = [stage EXCEPT ![n] = "discovering"]
    /\ timer' = [timer EXCEPT ![n] = 1]
    /\ attempt' = [attempt EXCEPT ![n] = 0]
    /\ inbox' = Delivered(inbox, Announcement(n))

ConstructorReturns(n) ==
    /\ stage[n] = "constructing"
    /\ IF Obtained(n)
       THEN Discover(n)
       ELSE /\ stage' = [stage EXCEPT ![n] = "retrying"]
            /\ timer' = [timer EXCEPT ![n] = 0]
            /\ UNCHANGED <<attempt, inbox>>
    /\ spoilt' = [spoilt EXCEPT ![n] = FALSE]
    /\ UNCHANGED <<gcs, window, joinTimer, data, spoken, reachable, overlap>>

RequestCertificate(n) ==
    /\ stage[n] = "retrying" /\ timer[n] = 0 /\ RetryDue(n)
    /\ StartRequest(n, "asking")
    /\ UNCHANGED <<gcs, attempt, window, joinTimer, data, inbox, spoken, reachable, overlap>>

SleepAfterAttempt(n, s) ==
    /\ stage' = [stage EXCEPT ![n] = s]
    /\ timer' = [timer EXCEPT ![n] = 1]
    /\ attempt' = [attempt EXCEPT ![n] = NextAttempt(@)]
    /\ spoilt' = [spoilt EXCEPT ![n] = FALSE]
    /\ UNCHANGED <<gcs, window, joinTimer, data, inbox, spoken, reachable, overlap>>

AttemptWithoutRequest(n) ==
    /\ stage[n] = "retrying" /\ timer[n] = 0 /\ ~RetryDue(n)
    /\ SleepAfterAttempt(n, "retrying")

RequestReturns(n) ==
    /\ stage[n] = "asking"
    /\ SleepAfterAttempt(n, IF Obtained(n) THEN "certified" ELSE "retrying")

StartThreads(n) ==
    /\ stage[n] = "certified" /\ timer[n] = 0
    /\ Discover(n)
    /\ UNCHANGED <<gcs, spoilt, window, joinTimer, data, spoken, reachable, overlap>>

--------------------------------------------------------------------------
(* neighborDiscoveryHelper and the join thread *)

HelloAgainMutant(n) == {}

(* Every five seconds, the last time at the end of the phase *)
HelloAgain(n) == Announcement(n)

HelloLoop(n) ==
    /\ stage[n] = "discovering" /\ timer[n] = 0
    /\ inbox' = Delivered(inbox, HelloAgain(n))
    /\ window' = [window EXCEPT ![n] = @ + 1]
    /\ IF window[n] + 1 < Window
       THEN timer' = [timer EXCEPT ![n] = 1] /\ UNCHANGED stage
       ELSE stage' = [stage EXCEPT ![n] = "swarm"] /\ UNCHANGED timer
    /\ UNCHANGED <<gcs, attempt, spoilt, joinTimer, data, spoken, reachable, overlap>>

JoinThreadRunsMutant(n) == FALSE

(* The loop's test; swarmPhase is set before the thread is started. *)
JoinThreadRuns(n) == stage[n] = "swarm" /\ n \notin Leader /\ ~data[n].joined

SendJoinRequest(n) ==
    /\ JoinThreadRuns(n) /\ joinTimer[n] = 0
    /\ inbox' = IF data[n].leader = NoAddr THEN inbox
                ELSE Delivered(inbox, To(data[n].leader, JoinRequest(n)))
    /\ joinTimer' = [joinTimer EXCEPT ![n] = JoinEvery]
    /\ UNCHANGED <<gcs, stage, starting, data, spoken, reachable, overlap>>

--------------------------------------------------------------------------
(* The handlers, as functions of what they find: own data d of drone n     *)
(* and a message.  Each returns the new data and what is sent.             *)

Result(d, sent) == [data |-> d, sent |-> sent]

(* storePendingChallenge: every challenge starts a timer of its own. *)
Challenged(d, peer) ==
    [d EXCEPT !.pending = @ \cup {peer}, !.timers = @ \cup {<<peer, ChallengeLife>>}]

(* initMessageHandler for an announcement, once the phase is checked *)
HandleHello(n, d, msg) ==
    Result(IF stage[n] = "discovering" THEN [d EXCEPT !.leader = msg.src] ELSE d, {})

(* The dispatcher's two branches for CERTIFICATE_VALIDATION *)
HandleChallenge(n, d, msg) == Result(d, To(msg.src, Response(n)))

HandleResponse(d, msg, recent) ==
    Result(IF recent THEN [d EXCEPT !.validated = @ \cup {msg.src}] ELSE d, {})

(* The list of valid drones goes to the one that joined, and to all when   *)
(* it is new (a second later: propagateValidNodeList).                     *)
JoinRequestHandler(n, d, msg, recent) ==
    IF n \notin Leader \/ ~recent THEN Result(d, {})
    ELSE IF msg.src \notin d.validated
    THEN Result(Challenged(d, msg.src), To(msg.src, Challenge(n)))
    ELSE LET list == JoinResponse(n, d.validated \cup {n})
             everyone == IF msg.src \in d.members THEN {} ELSE d.members \ {n}
         IN  Result([d EXCEPT !.members = @ \cup {msg.src}],
                    (everyone \cup {msg.src}) \X {list})

JoinResponseHandler(d, msg, recent) ==
    Result(IF recent /\ msg.src = d.leader
           THEN [d EXCEPT !.joined = TRUE, !.members = @ \cup msg.nodes] ELSE d, {})

LeaveHandler(d, msg, recent) ==
    Result(IF recent THEN [d EXCEPT !.routes = @ \ {msg.src}, !.validated = @ \ {msg.src}]
           ELSE d, {})

(* The handlers of route messages enter a route to the transmitter.        *)
RouteHandler(d, msg) == Result([d EXCEPT !.routes = @ \cup {msg.recv}], {})

--------------------------------------------------------------------------
(* The dispatcher *)

TransmitterMutant(msg) == msg.src

Transmitter(msg) == msg.recv

(* Without recvAddr the look-up throws.  The revocation list is asked only *)
(* by a leader that knows a leader: others have no list of drones.  A      *)
(* sender that is not validated gets a challenge on record, which is not   *)
(* sent, and its message is handled.                                       *)
Validated(n, d, msg, recent, onCRL) ==
    LET sender == Transmitter(msg)
        d2 == IF sender \in d.validated \cup {n} THEN d ELSE Challenged(d, sender)
    IN  IF sender = NoAddr \/ (onCRL /\ n \in Leader /\ d.leader # NoAddr)
        THEN Result(d, {})
        ELSE CASE msg.type = "ROUTE" -> RouteHandler(d2, msg)
               [] msg.type = "LEAVE" -> LeaveHandler(d2, msg, recent)
               [] msg.type = "JOIN_REQUEST" -> JoinRequestHandler(n, d2, msg, recent)
               [] msg.type = "JOIN_RESPONSE" -> JoinResponseHandler(d2, msg, recent)

Dispatched(n, d, msg, recent, onCRL) ==
    CASE msg.type = "LEADER" -> HandleHello(n, d, msg)
      [] msg.type = "CHALLENGE" -> HandleChallenge(n, d, msg)
      [] msg.type = "RESPONSE" -> HandleResponse(d, msg, recent)
      [] OTHER -> Validated(n, d, msg, recent, onCRL)

ClientResponseThread(n) ==
    /\ stage[n] \in Running
    /\ \E msg \in inbox[n], recent, onCRL \in BOOLEAN :
          LET result == Dispatched(n, data[n], msg, recent, onCRL) IN
          /\ data' = [data EXCEPT ![n] = result.data]
          /\ inbox' = Delivered([inbox EXCEPT ![n] = @ \ {msg}], result.sent)
    /\ UNCHANGED <<gcs, stage, starting, joinTimer, spoken, reachable, overlap>>

ForgottenMutant(d, peer) ==
    [d EXCEPT !.timers = {t \in @ : t[1] # peer}]

(* A timer's thread erases whatever challenge its peer has by then. *)
Forgotten(d, peer) ==
    [d EXCEPT !.pending = @ \ {peer}, !.timers = @ \ {<<peer, 0>>}]

ChallengeTimeout(n, peer) ==
    /\ <<peer, 0>> \in data[n].timers
    /\ data' = [data EXCEPT ![n] = Forgotten(@, peer)]
    /\ UNCHANGED <<gcs, stage, starting, joinTimer, inbox, spoken, reachable, overlap>>

--------------------------------------------------------------------------
StartUp(n) ==
    \/ ConstructorReturns(n) \/ RequestCertificate(n) \/ AttemptWithoutRequest(n)
    \/ RequestReturns(n) \/ StartThreads(n) \/ HelloLoop(n)

Next ==
    \/ SwitchLink
    \/ Tick
    \/ \E n \in Node :
          \/ Start(n) \/ StartUp(n) \/ SendJoinRequest(n) \/ LeaveSwarm(n)
          \/ ClientResponseThread(n)
          \/ \E m \in Node : SendRouteMessage(n, m) \/ ChallengeTimeout(n, m)

Spec == Init /\ [][Next]_vars

(* Threads run and time goes on; nothing is assumed of the GCS, of the     *)
(* order of start-up or of other messages.                                 *)
FairSpec ==
    /\ Spec
    /\ WF_vars(Tick)
    /\ \A n \in Node :
          /\ WF_vars(StartUp(n)) /\ WF_vars(SendJoinRequest(n))
          /\ WF_vars(ClientResponseThread(n))
          /\ \A m \in Node : WF_vars(ChallengeTimeout(n, m))

--------------------------------------------------------------------------
(* Properties *)

(* Timers, counters and addresses are in their ranges.  attempt is kept    *)
(* modulo 12; a thread's timer never runs past the end of its sleep.       *)
TypeOK ==
    /\ gcs \in BOOLEAN
    /\ stage \in [Node -> Stages]
    /\ timer \in [Node -> 0..(MaxDelay + 1)]
    /\ attempt \in [Node -> 0..(RetryEvery - 1)]
    /\ spoilt \in [Node -> BOOLEAN]
    /\ window \in [Node -> 0..Window]
    /\ spoken \subseteq Node
    /\ joinTimer \in [Node -> 0..JoinEvery]
    /\ overlap \in [Node -> BOOLEAN]
    /\ data \in [Node -> [leader : Leader \cup {NoAddr}, joined : BOOLEAN,
                         pending : SUBSET Node, timers : SUBSET (Node \X (0..ChallengeLife)),
                         validated : SUBSET Node, members : SUBSET Node,
                         routes : SUBSET Node]]

(* A drone that waits for its certificate has it at the latest when the    *)
(* GCS has been there for one round of the retry loop and two requests:    *)
(* one that failed, one that succeeds.  A request every twelfth attempt is *)
(* all waitForCertificate makes.                                           *)
CertificateInTime == \A n \in Node : reachable[n] <= RetryEvery + 2 * MaxDelay

(* Discovery phases that overlap by a tick are enough for a drone to know  *)
(* a leader when its own phase ends, whoever started first and whoever had *)
(* to wait for a certificate, if a phase takes two units or more: not with *)
(* a DISCOVERY_INTERVAL of five seconds.  After it announcements are       *)
(* ignored.                                                                *)
LearnsLeader ==
    \A n \in Node : stage[n] = "swarm" /\ overlap[n] => data[n].leader \in Leader

(* A challenge on record has a timer that will take it off again, although *)
(* timers of older challenges of the same drone run at the same time.      *)
ChallengeIsTimed ==
    \A n \in Node : \A peer \in data[n].pending : \E t \in data[n].timers : t[1] = peer

(* What the dispatcher lets through leaves the membership as it was at the *)
(* start: no drone is ever validated, a member of a swarm or joined.  The  *)
(* cross-swarm handlers, which look destinations up in swarmMembers, find  *)
(* nothing there (CrossSwarm takes the set as empty).                      *)
NobodyJoins ==
    \A n \in Node : data[n].validated = {} /\ data[n].members = {} /\ ~data[n].joined

(* A drone that leaves the swarm is not forgotten: no entry of a routing   *)
(* table goes (RouteDiscovery takes this for granted).                     *)
LeaveForgetsNoRoute == [][\A n \in Node : data[n].routes \subseteq data'[n].routes]_vars

(* A drone that knows its leader keeps asking: another join request is     *)
(* always still to come.                                                   *)
KeepsAsking ==
    \A n \in Node \ Leader :
        stage[n] = "swarm" /\ data[n].leader # NoAddr
            ~> \E l \in Leader : JoinRequest(n) \in inbox[l]
=============================================================================
