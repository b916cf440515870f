# Drone routing: TLA+ models, model checking and proofs

This directory verifies the routing program of this repository
(`src/drone_security_protocol/DroneRouting`, called *D* below): drones that
authenticate each other with hash chains and TESLA keys, discover routes on
demand inside a swarm, ask the leaders of other swarms for drones outside it,
and turn to a ground control station (GCS) for certificates and for the list of
revoked ones (CRL). Line numbers without a file are those of `D/src/drone.cpp`.

- [Inventory](#inventory) – components, state, operations, interaction
- [Modules](#modules) – what models what
- [Runs](#runs) – what TLC checks, bounds, fairness
- [Proofs](#proofs) – what TLAPS proves and how
- [Disagreements](#disagreements-between-code-and-documentation)
- [Not modelled](#not-modelled) and [Plan](#plan)

## Inventory

| Component | State | Operations | What makes it correct |
|---|---|---|---|
| Hash chain (`neighborDiscoveryFunction`, `getHashFromChain`, `sha256`) | `hashChainCache` | generate, look up by sequence number and hop, verify by repeated hashing | what a sender picks and how often a receiver hashes it agree at every hop |
| Route discovery (`routeRequestHandler`, `routeReplyHandler`, `routeErrorHandler`, `initMessageHandler`, `initRouteDiscovery`, `neighborDiscoveryHelper`) | `tesla.routingTable`, `seqNum`, discovery phase | hello, request, reply, error | next hops in range, replies find back, freshness, errors turn back, requests end |
| TESLA (`tesla.cpp`) | key chain, disclosed key, `nonce_map` | init, current key | a key disclosed is compared with the right entry |
| Pending routes (`send`, `addPendingRoute`, `processPendingRoutes`) | `pendingRoutes` | add, expire, process on a reply | nothing lost before its time-out, nothing sent twice, limit kept |
| Message queue (`start`, `neighborDiscoveryFunction`, `handleIPCMessage`, `clientResponseThread`) | `messageQueue`, `queueMutex`, `cv` | push from UDP, TCP, IPC; pop | order, no lost wake-up, bounded loss |
| Cross-swarm routing (`initCrossSwarmRouteDiscovery`, `handleCrossSwarmRREQ`, `handleCrossSwarmRREP`, `broadcastToOtherLeaders`) | `current_leader`, `knownLeaders`, `visitedLeaders` | ask, sign, pass on, answer | requests reach their destination, do not circulate, no deadlock |
| Swarm membership (`sendJoinRequest`, `joinRequestHandler`, `joinResponseHandler`, `leaveSwarm`, `leaveHandler`, `propagateValidNodeList`) | `swarmMembers`, `validatedNodes`, `hasJoinedSwarm` | announce, join, challenge, leave, list propagation | a drone that hears a leader keeps asking it; who is a member changes by these messages only – which, as it turns out, is never |
| CRL check (`isNodeOnCRL`, `refreshCRLCache`) | `crlCache`, `crlCacheLastRefreshed` | query, refresh | a change of the list is noticed in bounded time although old answers may be stored after new ones; the cache never expires |
| PKI client (`pki_client.cpp`) | certificate, `pending_challenges` | request with retries, sign, validate, time out a challenge | waiting for a certificate is bounded; every pending challenge is taken off again |
| Hash tree (`hashTree.cpp`) | tree of hops, `addSelfCache` | build, extend, verify | the root a relay computes is the root the next drone verifies, and stands for the path; the cache does not change results |
| Data forwarding (`dataHandler`) | – | forward along the table | a failing hop is reported to the source |
| Terminal and IPC (`main.cpp`, `ipc_client.hpp`, `ipc_server.hpp`) | one socket, `autoDiscoverThread`, `running` | commands, auto-discover | order kept, no answer left over, no thread waits for ever without need |
| Network adapters | sockets | send, receive | – |
| Revocation list (`src/gcs/crl_manager.py`, look-ups in `gcs.py`) | `revoked_certificates`, `_lock`, `drone_crl.json` | add, remove, load, look up | a listed drone is refused, a change survives a restart – neither is so, see [Disagreements](#disagreements-between-code-and-documentation) |
| Ground control station, the rest (`src/gcs`) | certificates | issue, list drones | – |
| Simulation driver, deployment (`src/run.py`, `src/etc`, Docker) | Kubernetes objects | – | – |

**Interaction.** Within a drone, the UDP loop, one thread for every TCP
connection and the IPC callback push raw messages on one queue;
`clientResponseThread` takes them off and runs every handler, one at a time.
So handlers of one drone never interleave with one another; what does
interleave are the producers of the queue, the thread of an application that
calls `send`, the neighbour discovery helper, and the clock. Between drones
there are UDP broadcasts (hellos, requests) and TCP connections for one message
each (replies, errors, cross-swarm requests): they overtake each other and get
lost. Leaders are fixed by environment variables.

**What is hard.** The hash check couples a sequence number, a hop count, an
index into the sender's chain and a number of iterations at the receiver, over
entries that hellos, requests and replies fill in any order. Reverse routes of
crossing discoveries overwrite each other. A relay reads its chain unchecked.
Two threads share the waiting routes, with mutexes released in between. The
producers notify the queue's condition variable after they have released the
mutex. Cross-swarm handlers nest mutexes, and leaders pass requests around. Two
threads of a leader write the CRL cache with answers of the GCS that may be
older than what is there, while the GCS is cut off, hangs on its own lock, or
starts again with another list. Two threads of the terminal read answers from one
socket. Start-up waits for a GCS that comes and goes while other drones are
already announcing themselves. A relay extends a hash tree of which it has seen
only a part.
`PROJECT.json` lists these hazards line by line with the properties that look
at them.

Facts read from the code that shape the models:

- `running` never becomes false once the threads run: there is no shutdown.
- No route is ever removed but by `routeErrorHandler` (and by `leaveHandler`,
  which no message reaches).
- The dispatcher reads `recvAddr` of every message (213); DATA, LEAVE,
  JOIN_REQUEST and JOIN_RESPONSE do not carry it, so they are dropped with an
  exception, and `swarmMembers` stays empty.
- A drone that is challenged is never told: the dispatcher records a challenge
  (246) and logs that it was sent. Messages of unvalidated drones are handled.
- The CRL is asked only by a drone that knows a leader and has the list of
  drones, which only leaders fetch (2574): a leader that has heard another one.
- The list of drones is fetched once, and has serial numbers for keys while
  `isNodeOnCRL` looks addresses up (1018, 2018).
- What gets on the revocation list through `CRLManager` are serial numbers; what
  drones have looked up are the texts of certificates (`gcs.py:157`, 192; 1049,
  2438). A revoked serial number therefore never matches.
- A look-up of one certificate has its text in the path (1049, 2505). Base64
  mostly contains a `/`, and such a path matches no route of the GCS
  (`gcs.py:148`): 404, which both threads of a drone take for "not revoked". Only
  requests for several certificates, which carry them in the body, always get
  through.
- `add_revoked_cert` and `remove_cert_from_crl` take `_lock` twice
  (`crl_manager.py:31`, 35, 65): they change the list in memory, never return,
  and every look-up after them hangs. Nothing in the repository calls them. The
  list changes without harm only by its file, when the GCS starts; in the
  container `pki_gen.py` writes an empty one first.
- A discovery asked for over IPC runs `initRouteDiscovery` twice (172-190 and
  198-203) and uses up two sequence numbers.
- Sequence numbers are unsigned in messages and signed in entries, so the -1 of
  an entry made by a TESLA hello rejects every request of that drone.
- The ad-hoc UDP interface, the one compiled in, skips a drone's own broadcasts.
  `kube_udp_interface.hpp`, which is not compiled in, would deliver them.

## Modules

| Module | Models | Source |
|---|---|---|
| `HashChain` | chain elements by index; sender's look-up and receiver's iterations | 765-775, 1178-1185, 1823-1834, 1910-1925 |
| `RouteDiscovery` | the intra-swarm protocol between any drones over any topology | 172-203, 671-740, 747-822, 953-983, 1088-1396, 1493-1746, 1850-1908, `tesla.cpp`, `routingMap.hpp`, `routingTableEntry.hpp`, `messages.hpp` |
| `PendingRoutes` | waiting messages of one drone, its two threads and the clock | 480-632, 634-669, 777-822 |
| `MessageQueue` | queue, mutex, condition variable, producers, consumer | 57-82, 446-472, 1932-1951, 2603-2624 |
| `LossyFifo` | what the queue promises: first in first out, may skip one when full | abstract |
| `CrossSwarm` | requests between swarms, hello of leaders | 824-951, 1108-1155, 1398-1439, 2340-2400 |
| `HashTree` | the tree of a request as an algorithm, and a Merkle tree to compare it with | `hashTree.cpp` |
| `RouteTree` | `RouteDiscovery` composed with `HashTree`: requests carry a tree, drones have a cache | 777-822, 1207-1221, 1335-1350, `hashTree.cpp` |
| `RevocationList` | the list, its lock, and the look-ups in it | `crl_manager.py`, `gcs.py` 148-204, 279-293, `pki_gen.py` |
| `CrlCache` | look-ups and refreshes of the CRL cache on two threads, the requests to the GCS, the clock | 226-232, 1007-1085, 1954-2028, 2402-2559, 2574-2589 |
| `Membership` | start-up, certificate, announcements, dispatcher, challenges, join and leave | 84-347, 970-976, 1850-1906, 2073-2292, 2565-2593, `pki_client.cpp` |
| `Terminal` | the terminal's two threads, the socket, the IPC server, the queue | 57-90, 446-472, `main.cpp`, `ipc_client.hpp`, `ipc_server.hpp` |
| `MCRouteDiscovery`, `MCRouteTree`, `MCPendingRoutes`, `MCMessageQueue`, `MCCrossSwarm`, `MCCrlCache`, `MCMembership`, `MCTerminal` | instances for TLC | – |
| `RouteDiscoveryProofs`, `RouteTreeProofs`, `MessageQueueProofs`, `CrossSwarmProofs`, `CrlCacheProofs`, `MembershipProofs`, `TerminalProofs`, `PendingRoutesProofs` | proofs | – |

`MessageQueue` refines `LossyFifo`. `RouteDiscovery` is built on `HashChain`,
and `RouteTree` on `RouteDiscovery` and `HashTree`. `CrlCache` extends
`RevocationList`: drones and the list they ask about. What one module takes for
granted another one shows: `RouteDiscovery` that trees are verified and that
leaves remove no route (`RouteTree.AlwaysVerified`,
`Membership.LeaveForgetsNoRoute`), `CrossSwarm` that `swarmMembers` is empty and
that members may know their leader (`Membership.NobodyJoins`, `LearnsLeader`),
`Membership` that the verdict of `isNodeOnCRL` is one or the other (`CrlCache`).
`PendingRoutes` and `MessageQueue` stand beside `RouteDiscovery`: the first
takes "a reply came and these destinations are routed now" as a step of the
environment, the second carries opaque messages. Loss in the queue and refusals
of the waiting routes appear in `RouteDiscovery` as messages that are not
delivered.

### RouteDiscovery

State: `phase`, `up`, `seqNum`, `epoch` (the index of the TESLA key in use),
`table` and `net`. `up[n]` turns false where the code dies: on a null
dereference at 1296, and on a read beyond the hash chain at 1331. Each handler
is one action for every way it can end:

| Code | Actions |
|---|---|
| `neighborDiscoveryHelper` | `TeslaHello`, `AuthHello`, `EndDiscovery` |
| `getCurrentHash` | `DiscloseKey` |
| dispatcher, hello | `IgnoreHello`, `InitMessageHandler` |
| `initRouteDiscovery` | `InitRouteDiscovery` (once or twice) |
| `routeRequestHandler` | `DropRequest`, `AnswerRequest`, `RelayRequest`, `ChainExhausted` |
| `routeReplyHandler` | `DropReply`, `AcceptReply`, `RelayReply` |
| `routeErrorHandler` | `DropError`, `RouteErrorHandler` |

A hash is an owner and an index into the owner's chain; hashing adds one to the
index. That is what makes the check decidable without modelling SHA-256: two
elements are equal exactly when owner and index are, collisions apart. A TESLA
key is an owner and an epoch. The garbage a relay may read beyond its chain is
a value of its own and never verifies. `Int` appears in entry fields because
the -1 of a default entry is part of the behaviour.

### PendingRoutes

One application thread (`app`) and the worker share `pending`. Each critical
section of `pendingRoutesMutex` is one step, and so is the step between
queueing a message and starting the discovery, and that between taking the
deque, reading the clock and re-queueing its elements: the age of a route counts
from the clock read after the mutex is free again (650), so that a route may
expire between the two. `sent` is the history of what went to the
next hop.

### MessageQueue and LossyFifo

Messages are numbered in the order of arrival, which is enough to state order,
loss and progress. The consumer is at the test of the predicate, asleep or in a
handler; spurious wake-ups are allowed.

### CrossSwarm

Role, known leaders and topology of leaders are constants. A member learns its
leader from leader hellos, any number of times. The destination's leader locks
`routingTableMutex` twice (1100, then 1434) and is stuck from then on; what the
code does after that is not reached and so not modelled. `seen` is a history
variable.

### HashTree and RouteTree

SHA-256 is symbolic: a hash is the sequence of what was hashed, so two hashes
are equal exactly when their inputs are. `RebuiltTree` is the constructor for a
received message, `WithSelf` what `addSelf` computes, `addSelf` in `RouteTree`
the same with the cache in front. Loops and recursion of the code are recursive
functions: `recalculate` goes down in `visit`, one step for each level, and comes
back up in `result`. `carried` holds for every request in flight what it says of
its tree and, as history, the drones that transmitted it; each action of
`RouteTree` is one of `RouteDiscovery` together with what happens to the trees
(`TreeRefinesDiscovery`).

### CrlCache

The heading covers `RevocationList` too. A certificate is two strings to it,
`Text(c)` and `Serial(c)`. `listed` is the set in memory, `locked` says that a
call holds `_lock` and waits for itself. The constant `Listable` says which strings may get on the list: serial numbers are
what the operations of `CRLManager` are written for, texts what the look-ups
need and what a file may well contain. The theorems assume no more of it than
`ListAssumption`, `NobodyIsRefused` apart.
`ListChanges` is `add_revoked_cert`, `remove_cert_from_crl`, or `Start` with any
list: the file as it was, which is without the changes since, as an operator has
edited it, or emptied by `pki_gen.py`. The GCS is out of reach while it starts.

`worker` is the `clientResponseThread` in `isNodeOnCRL`, `refresher` the thread
that calls `refreshCRLCache`. A request is sent, answered by the GCS and handled
in three steps, because neither `crlCacheMutex` nor `networkNodesMutex` is held
over it. How it ends:

| Request | Answered by the list | 404 | No answer in time |
|---|---|---|---|
| worker, one certificate (1049) | text in `Slashless`, list not `locked`: `WorkerAnswered`, `WorkerStores` | text with a `/`: `WorkerFails`, nothing stored | cut off or `locked`: `WorkerFails`, nothing stored |
| refresher, several (2438) | list not `locked`: `RefresherAnswered`, `RefresherStores` | – | `RefresherFails`: "valid" stored for all |
| refresher, one (2505) | text in `Slashless`, list not `locked`: the same | `RefresherAnswered` with an empty list: "valid" stored | `RefresherFails`: "valid" stored |

`Routed` says that the refresher's request gets to a look-up, which it does not
in the 404 column. The refresher also asks one by one after an exception in the
handling of a bulk answer (2491), which needs an answer with status 200 that is
not what `gcs.py` sends; that path is left out.

`since` is history: the time since a certificate's text got on or off the list,
the drones were listed, or a refresh failed. So `NoticedInTime` speaks of
changes that happened while the refresher's requests were answered, and
`FailsOpen` of what happens otherwise.

### Membership

| Code | Actions |
|---|---|
| `PKIClient` constructor, `requestCertificate` | `Start`, `ConstructorReturns`, `RequestCertificate`, `RequestReturns` |
| `waitForCertificate` | `AttemptWithoutRequest`, and the above |
| `start` | `StartThreads` |
| `neighborDiscoveryHelper` | `HelloLoop`, `SendJoinRequest` (the join thread) |
| `clientResponseThread` and the handlers behind it | `ClientResponseThread` |
| `storePendingChallenge`, its detached threads | `Challenged`, `ChallengeTimeout` |
| `leaveSwarm` | `LeaveSwarm` |

The handlers of join, leave and certificate messages are functions from what a
drone knows to what it knows and sends then; `Dispatched` chooses one of them,
or none where the code throws. That none of them is reached is not built in: it
follows from `Transmitter`, the one expression at line 213, and its mutant – the
sender's address, as the name of the variable there suggests – lets them all run.
TESLA and authenticator hellos are in `RouteDiscovery` and not repeated.

### Terminal

Commands are numbered in the order of sending; `by` says which thread sent
which. `wire` and `acks` are the two directions of the socket, `batch` is what
the server has read and not yet answered. `left` counts what auto-discover has
still to send; a count of 0, "infinite", is one larger than what a run has time
for, and the theorems hold for every count.

## Runs

All configurations switch deadlock checking off: instances have bounds, and a
bounded system stops when the bounds are used up.

| Run | Instance | Shows |
|---|---|---|
| `RouteKite` | 4 drones, A, B and C in range of each other, D of C only, `TRIGGER_RERR` on, two requests of A for D on the air at once, hop limit 3 | `FirstHopInRange`, `AuthenticRelayAccepted`, `ErrorsTurnBack`: with duplicate paths and overtaking the hash check accepts what is genuine, and an error removes a route only at a drone that routes through its sender |
| `RouteCold` | A–B–C, start-up included, keys change when the air is quiet | `ReplyHasNextHop` while hellos are late or lost and entries half filled |
| `RouteTree` | 9 drones: two parallel relays and a tail of five drones behind them, two discoveries, one after the other, fair handlers | `AlwaysVerified`, `RootNamesPath`, `SeventhForgetsFifth`, `CacheHitIsRecomputation` of the hash tree, `RelayedOnce`, `NeverRoutesToItself`, `ChainLastsForItsRequests`, and `RouteFound`: a discovery ends with a route |
| `PendingQueue` | 3 destinations, 2 messages, limit 2, time-out 2 ticks of 3 | `SentOnce`, `WithinLimit` |
| `QueueFifo` | 2 receivers, capacity 3, 6 arrivals | `ImplementsFifo`, `NoLostWakeUp`, `EventuallyPast` |
| `CrossSwarm` | 4 leaders in a line, 2 members, requests from both ends | `OnlyAtLeaders`, `NeverBackToSigner`, `StuckOnlyAsDestination`, `ReachesDestination` |
| `CrlCache` | 2 drones, one that may be listed by its text, without `/`, and one that may be by its serial number; period 3, requests of up to 2 ticks; a GCS that comes and goes, hangs, and starts again with any list | `NoticedInTime`: the cache agrees with the list in bounded time, whether a drone was added or taken off. `RefusedInTime`: from then on a listed text is refused although look-ups fail. `NoticedInTheEnd`, if the GCS stays in reach and is not hung; `FailsOpen`, if it does not: everybody is let in |
| `Membership` | a leader and a member, a request every third attempt, phases of 2 ticks | `CertificateInTime`, `LearnsLeader`, `KeepsAsking`, `ChallengeIsTimed`, `NobodyJoins` |
| `Terminal` | 5 lines of input, counts of up to 3 | `NoStaleAnswer`, `OneGoesOn`, `LostInPairs` |

**Bounds.** `MaxIssued`, `MaxEpoch`, `Wanted`, `MaxTime`, `MaxDiscoveries`,
`MaxArrivals`, `MaxRequests`, `MaxLines` and `MaxCount` bound the environment
and are marked in the modules. `MaxHop` and `MaxSeq` are parameters of the program. The instances are
chosen so that the interesting thing happens: a kite is the smallest topology
with two paths between neighbours and a drone behind them, so that copies of a
request overtake each other on the way to a destination several hops away; a
line of three from a cold start has a relay between the requester's and the
destination's side; a diamond has two disjoint paths. The tail behind it makes the longest
path seven transmitters: the tree grows twice, is filled at every kind of place
up to the sixth, and the seventh is the first to lose a leaf; the second discovery meets the caches the first one has left. A
capacity of three lets the queue fill up, drop, and go on. Four leaders in a
line are the fewest with two leaders that can pass a request back and forth.
Requests of up to two ticks in a period of three let a look-up and a refresh
overlap in every way, so that the older answer is stored last. Durations in
`Membership` are scaled down (a request every third attempt instead of every
twelfth); a drone speaks of its own accord once in a tick (`spoken`), which
bounds the inboxes. Two lines of input are needed to meet an auto-discover that
is still running, five to stop it and to go on afterwards.

Warm starts in `MCRouteDiscovery` begin with the neighbour entries that a
finished discovery phase leaves behind: `AfterHellos` with nothing on the air,
`OvertakingSpec` with two requests of one drone, as a command over IPC sends
them. `RouteCold` covers the phase itself.

**What holds only in some instances.** Some things a reader may expect of route
discovery hold on small lines and triangles and fail elsewhere; what the code
guarantees of them is this.

- *Loops.* Next hops may form a loop, when the discoveries of two drones cross
  on a line of five, and on a kite even with one discovery at a time: a reply
  that comes late is entered whatever the entry holds by then (1597-1606), and a
  request that is heard first over a detour replaces the direct route (1326),
  against `routingTableEntry.hpp:14`, "srcAddr = destAddr if neighbor".
  No property claims the contrary; a packet caught in a loop is a reply that
  does not arrive.
- *Entries for oneself.* `NeverRoutesToItself` is checked, and proved, where
  discoveries do not overlap. On a kite, when a drone has two requests for different
  destinations on the air, the reply of one of them can come back to the drone
  that sent it, which then enters itself.
- *Relaying twice.* `RelayedOnce` is checked, and proved, where discoveries do
  not overlap and begin when the hellos are over. A late reply sets the sequence
  number of an entry back, and the relay takes a request it has passed on for a
  new one; so does an AUTH hello (979), which a drone still in its discovery
  phase handles between two copies of a request.
- *Errors.* An error removes the route of the drone next to its sender and then
  goes back to its sender (`ErrorsTurnBack`): it never travels on to the drone
  whose request failed.

`RouteFound` is
stated for one discovery at a time: two discoveries of one drone share its
sequence numbers, and the second request may overtake the first. `RootNamesPath`
is true of paths of up to six transmitters: a relay knows of the right half of
the tree only the leaf before its own. The seventh transmitter computes a root
in which the sixth stands in the place of the fifth (`SeventhForgetsFifth`), so
that two paths which differ in their fifth drone end in one root – and the next
drone accepts it all the same: `AlwaysVerified` does not depend on the length.

**Fairness.** `RouteTree` assumes that some message in flight is handled as long
as there is one (so none is lost in the end) and that drones run; the liveness
it shows is that of the protocol over a working network. `QueueFifo` assumes that the consumer, once runnable,
runs, that handlers return and that a thread that has pushed notifies; nothing
is assumed about arrivals. Handlers return because none of them waits for a
message – except the one `CrossSwarm` is about. `CrossSwarm` assumes that a
packet is delivered and handled by a worker that is not stuck; queues are first
in, first out. `CrlCache` assumes that threads run, that requests end – the HTTP
client has time-outs of 2 to 10 seconds – and strongly that the clock goes on,
since a drone may be flooded with messages but time passes all the same. Of the
GCS nothing is assumed: that it stays in reach and is not hung is the premise of
`NoticedInTheEnd`, that it is one or the other that of `FailsOpen`. `Membership`
assumes threads and the clock, nothing of the GCS or of when drones start.
`Terminal` assumes that threads which can go on do, nothing of the input.

**Mutants.** Operators named `…Mutant` are plausible bugs: a missing guard, an
index off by one, a forgotten field. Each property of a passing run is violated
when one of them takes the place of its original.

## Proofs

| Module | Theorem | Statement |
|---|---|---|
| `RouteDiscoveryProofs` | `TypeCorrect` | `Spec => []TypeOK` |
| | `HashNeverRejected` | `Spec => []AuthenticRelayAccepted` |
| | `FirstHopAlwaysInRange` | `Spec => []FirstHopInRange` |
| | `ReplyAlwaysHasNextHop` | `Spec => []ReplyHasNextHop` |
| | `ErrorsAlwaysTurnBack` | `Spec => []ErrorsTurnBack` |
| | `ChainAlwaysLasts` | `Spec => []ChainLastsForItsRequests` |
| | `NeverEntersItself` | `SequentialSpec => []NeverRoutesToItself` |
| | `AnsweringIsSafe` | `SequentialSpec => [][AnswersAlive]_vars` |
| `RouteTreeProofs` | `TreeRefinesDiscovery` | `TreeSpec => Spec` |
| | `TreesComeAlong` | `TreeSpec => []EveryRequestHasTree` |
| | `VerifiedAlways` | `TreeSpec => []AlwaysVerified` |
| | `CacheNeverLies` | `TreeSpec => []CacheHitIsRecomputation` |
| | `RootAlwaysNamesPath` | `TreeSpec => []RootNamesPath` |
| | `SeventhAlwaysForgets` | `TreeSpec => []SeventhForgetsFifth` |
| | `RootAlwaysTellsPathsApart` | `TreeSpec => []RootTellsPathsApart` |
| | `NeverRelaysTwice` | `SettledTreeSpec => [](~TriggerRerr => RelayedOnce)` |
| `PendingRoutesProofs` | `TypeCorrect`, `OneEachAlways`, `LimitKept`, `HandedOverOnce` | `TypeOK`, `OneRoutePerDest`, `WithinLimit`, `SentOnce` |
| `MessageQueueProofs` | `TypeCorrect` | `Spec => []TypeOK` |
| | `WakeUpNeverLost` | `Spec => []NoLostWakeUp` |
| | `OrderKept` | `Spec => SkipsOnlyWhenFull` |
| | `RefinesFifo` | `Spec => Abstract!SafeFifo` |
| `CrossSwarmProofs` | `TypeCorrect`, `LeadersOnly`, `SignerLeftOut`, `StuckAsDestination` | the four invariants of the run |
| `CrlCacheProofs` | `TypeCorrect`, `AlwaysNoticed`, `AlwaysRefused`, `NeverForASerial`, `CacheNeverExpires` | `TypeOK`, `NoticedInTime`, `RefusedInTime`, `SerialRefusesNobody`, `NeverExpires` |
| | `NobodyIsRefused` | if only serial numbers get on the list, `isNodeOnCRL` never refuses a drone |
| `MembershipProofs` | `TypeCorrect`, `CertificateAlwaysInTime`, `NobodyEverJoins`, `ChallengesStayTimed` | `TypeOK`, `CertificateInTime`, `NobodyJoins`, `ChallengeIsTimed` |
| | `LeavingForgetsNoRoute` | `Spec => LeaveForgetsNoRoute` |
| | `LeaderIsLearnt` | `Window >= 2 => (Spec => []LearnsLeader)` |
| `TerminalProofs` | `TypeCorrect`, `NoAnswerLeft`, `ReadAlwaysFits`, `OneIsAlwaysAnswered`, `OrderKept`, `AlwaysLostInPairs` | `TypeOK`, `NoStaleAnswer`, `ReadFits`, `NeverBothForgotten`, `InOrder`, `LostInPairs` |

`OneRoutePerDest`, `SkipsOnlyWhenFull`, `SerialRefusesNobody`, `NeverExpires`,
`LeaveForgetsNoRoute`, `ReadFits`, `NeverBothForgotten` and `InOrder` are proved
for every value of the constants and not repeated in a run.

They hold for every number of drones, topology, hop limit, chain length, queue
capacity, duration and bound, under the assumptions named in the modules
(`ChainAssumption` or `RouteAssumption`: links are symmetric and irreflexive
and the special values differ from each other; `QueueAssumption`: a capacity of
at least two; `CrossAssumption`; `ListAssumption`: what is listed are texts and
serial numbers of certificates; `CrlAssumption`: a request takes less than half a
lifetime; `MembershipAssumption`: leaders are drones, durations are positive;
`PendingAssumption`: a limit and a time-out of at least one, a clean-up threshold
within the limit; `TerminalAssumption`). `LeaderIsLearnt` has the hypothesis
`Window >= 2`, that the discovery phase lasts two units of five seconds or more:
`config.env` sets 360 seconds, of which 104 are left in eight bits. For a window
of one unit TLC shows that the statement fails, since the first announcement of
a leader that starts last comes when the other phase is over.

- *Hash check.* `AuthenticRelayAccepted` is not inductive. `ChainInv` adds that
  every authenticator in a table and in a hello is the element of its owner's
  chain at the far end, and that every element in flight belongs to the drone
  that transmitted it, at the index its sequence number and hop count name. The
  arithmetic that index plus iterations is the length of the chain is a lemma.
- *Next hops.* `RangeInv` adds that the drone which transmitted a packet in
  flight is in range of the one it is addressed to; a next hop is always such a
  transmitter.
- *Replies.* `PathInv` says that the drone which transmitted a message knows the
  drone the message comes from (`PathBehind`), that the next hop of an entry
  knows the entry's drone itself (`PathAhead`), and rests on a lemma that no
  entry is forgotten while there are no route errors.
- *Errors.* `KeyInv` says whose key is whose: that of a request or reply is its
  transmitter's, so that of an entry is the key of the drone the entry is for or
  of its next hop. An error carries its sender's key and is never about its
  sender, so it verifies only at a drone whose next hop is the sender; `RangeInv`
  excludes that this is the sender itself.
- *Chain length.* `ChainLastsForItsRequests` is inductive once the lemma
  `ChainIsLongEnough` has shown that the index of every hop within the limit, of
  every sequence number but the last, is below the length of the chain.
- *Entries for oneself.* Not true of `Spec` in general, so the theorem has an
  assumption on the users of the swarm, in `SequentialNext`: while requests or
  replies are on the air, only the same discovery is started over again. (The
  run `RouteTree` waits for a quiet air, which is more.) `SequentialInv` then
  says that there is a group of drones, the requester among them and the drone
  asked for not, which the discovery does not leave: every request on the air
  was transmitted from within, every reply is addressed into it, and who is in
  it has the next hop towards the requester in it. A drone joins by relaying the
  request. So no reply comes back to the drone that gave it. Entries for the
  requester that are older than the discovery may point anywhere, which is why
  the invariant speaks of a group and not of every drone.
- *Relaying once.* Again with assumptions, in `SettledNext`: what
  `SequentialNext` says, and no discovery before every discovery phase is over.
  With `TRIGGER_RERR` off, `OnceInv` says that every drone on the path of a
  request is its source or has `Recorded` it, as an entry with a number at
  which it refuses the request. That it stays so while the request is on the air
  needs all the ways an entry changes: hellos are not handled any more
  (`HellosOver`), errors do not exist (`PathInv`), a reply changes no entry for
  the requester since the requester transmits none (`RequesterOnlyReceives`) and
  is not the replier (`SequentialInv`), and another request of the requester is
  taken only with a higher number.
- *Hash tree.* `TreeInv` says of every request in flight that its hashes are
  `Genuine`: the root is the hash of the left half, whose hash comes next, and of
  a right half that ends in the leaf of the transmitter, as many levels down as
  the constructor puts it; and of every cache entry that it was made from genuine
  hashes. Root and hop count then determine the left half and the transmitter,
  and so all that the constructor rebuilds (`RootDetermines`) – which is what
  makes the key of the cache sufficient although it leaves the other hashes out.
  That `addSelf` keeps it so needs that the bisection of `recalculate` never runs
  out of indices before it reaches the leaves (`Halving`: the range at a node
  holds as many indices as there are leaves below) and that no node it leaves
  behind has an empty hash (`Whole`), without which the tree would be read back
  with a piece missing. The recursive functions are treated as in
  `PendingRoutesProofs`.
- *What a root names.* `NamedInv`, on top of `TreeInv`: every request has as many
  hops as transmitters, its last transmitter is the one it names, and up to seven
  of them its root is `Committed` to them, a term for each length. The bound
  makes the depth of every tree concrete (`SmallLevels`), so the recursion of
  `recalculate` unrolls to one or two calls (`OneLevel`, `TwoLevels`) and
  `CommittedGrows` shows, length by length, that a relay which rebuilds a tree
  from the hashes it was sent computes the next term. `MerkleRoot` unrolls in the
  same way (`PairedRowEntries`), to the same terms up to six
  (`CommittedIsMerkle`), and to another one for seven (`MerkleOfSeven`).
  The terms of two different paths of one length up to six differ
  (`CommittedTellsApart`), so that root and hop count determine the way a request
  has come (`RootTellsPathsApart`). Of eight and more transmitters nothing is
  claimed.
- *Waiting routes.* What `cleanupExpiredRoutes` keeps is a recursive function
  over the deque. Its existence and its value need induction over the length,
  which the provers cannot take from the library's theorems; instead
  `LeastNumber` derives from the theorem that inclusion of finite sets is well
  founded that a set of numbers at which a claim fails has a least element. From
  it follows that the result picks elements of the deque in their order
  (`Picks`). `QueueInv` joins type, one route for each destination and limit,
  which need each other; `PlaceInv` says that a message is in one place only –
  with the application, inside `send`, waiting, in the copy being processed, or
  handed over – and that is what excludes sending it twice.
- *Queue.* The consumer goes to sleep only on an empty queue, and every push
  leaves its thread in `notifying`. With `Consecutive` (the queue holds the
  numbers from `handled + 1` to `arrived` without a gap) each step maps to a
  step or a stutter of `LossyFifo`.
- *Cross-swarm.* `LeaderIsLeader` – members take none but leaders for their
  leader – is what `OnlyAtLeaders` needs.
- *CRL cache.* `OlderAnswers` says, of answers in either direction, that one
  which differs from the list is no younger than the change, so that it has been
  stored before `MaxDelay` is over. `RefreshComes` bounds, for every listed drone
  of which the cache says something else than the list, the time since the
  change by how far the refresher's next answer is away; a refresh that fails
  starts the time anew. `AgeBound` relates `age` to the refresher's sleep in the
  same way: the lifetime is never over before the next refresh; `Stamped` adds
  that a cache with entries has a time stamp. So the cache serves every look-up
  once a change is old enough, and a look-up that fails and lets a drone in was
  begun before (`AskedEarly`). `OnlyTexts` follows "revoked" from the list
  through the answers into the cache; with nothing but serial numbers on the
  list it gives `NobodyIsRefused`.
- *Membership.* `CertificateInv` relates how long a drone has waited with the GCS
  in reach to the attempts it has made since the last request. `MemberInv` says
  that no handler behind the dispatcher has changed anything, and of messages
  that their transmitter's address is there for routes only. `ChallengeIsTimed`
  is inductive with it: a timer that runs out erases the challenge with all that
  made it pending. `ClockInv` holds the ranges of the remaining variables.
  `LearnInv` follows an announcement: a drone that has been in its phase for a
  tick has in its inbox, or has handled, what a leader in its phase announced in
  that tick; and one whose phase has overlapped with a leader's knows the leader,
  or goes on listening for one tick more with an announcement waiting or due.
- *Terminal.* `Owed` counts: commands on the wire and answers in the server or in
  the socket are together never more than threads that wait. That both wait
  while nothing is to come is excluded because a thread begins to wait by putting
  a command on the wire, and answers are taken only by a thread that stops.
  `Ordered` strings `handled`, queue, batch and wire together in the order of
  their numbers.
  `LossInv` adds that they are consecutive on the wire and within what one read
  returned, and that as long as auto-discover has sent nothing no read returns
  two: so a command that is lost was read with its predecessor or its successor.

Only model-checked: liveness (`RouteFound`, `EventuallyPast`,
`ReachesDestination`, `NoticedInTheEnd`, `FailsOpen`, `KeepsAsking`, `OneGoesOn`, the fairness
part of `ImplementsFifo`), which is out of the prover's reach. Every safety
property of a passing run is the subject of a theorem.

## Disagreements between code and documentation

Each is a run that TLC is expected to find violated.

| Run | The text | The code |
|---|---|---|
| `PendingKeptViolation` | 665 "Route still not found, but not expired - re-queue" | `initRouteDiscovery` replaces the waiting message by an empty one (811-815) |
| `CrlSerialViolation` | `crl_manager.py:39` "Check if a certificate is revoked", by the serial number it is given (38) | the look-ups of drones give it the text of the certificate (`gcs.py:157`, 192), which equals no serial number |
| `CrossLoopViolation` | 2370 "Track this leader as visited to prevent routing loops" | the set is local to the leader and cleared (2399) |

Others met on the way and not given a run:

- `routingTableEntry.hpp:15` calls `seqNum` the "Destination SeqNum"; a
  neighbour that relays a reply is entered with the replier's number (1605).
- `messages.hpp:265` calls `ttl` the "Max number of hops allowed for RREQ"; it is
  tested only for requesters that are known already (1168-1204).
- 1092 "If the seqNum is less than the seqNum already received, drop the
  packet": an AUTH hello sets the number back to 0 (979).
- A cross-swarm request that reaches the leader it is for blocks that leader for
  ever (1434, see `StuckOnlyAsDestination`).
- JOIN messages do not pass the dispatcher (213, see `NobodyJoins`), against the
  repository's `README.md` ("Authentication Flow"); nor do LEAVE and DATA.
- A terminal that is given a second auto-discover, or closed, while the first
  one waits for an answer the main thread has read hangs for ever
  (`main.cpp:44`, `105`): in `Terminal` the state `main = "joining"` need not
  end.
- `run.py` sets `OTHER_SWARM_LEADERS` while the program reads `OTHER_LEADERS`,
  and `config.env` shows it separated by blanks while the program splits at
  commas; intervals are kept in eight bits, so the documented 360 seconds become
  104.
- `crl_manager.py:34` "Automatically save the updated CRL": saving waits for the
  lock that the caller holds (31, 65), so a change is gone after the next start
  and nothing is looked up before it (`add_revoked_cert` in `RevocationList`).
- A drone asks `/check_crl/<certificate>` about one certificate, and gets 404 for
  almost every one (1049, 2505; `gcs.py:148`; see `Slashless`).
- A refresh that fails replaces what the cache knew by "valid" for all (2446,
  "allowing all connections"; see `FailsOpen`).

## Not modelled

- Data forwarding (`dataHandler`): behind the dispatcher's `recvAddr` look-up,
  which no data message passes, so that it never runs. Sending data is in
  `PendingRoutes`.
- The rest of the ground control station – issuing certificates, its list of
  drones, its HTTP server: `CrlCache` and `Membership` see a service that answers
  or does not. Its revocation list is modelled.
- Refreshing one by one after a bulk answer that cannot be parsed (2491).
- `ENABLE_LEADERSHIP=false` (1894), in which the join thread never starts:
  `KeepsAsking` is for the default.
- That a failed relay is broadcast twice (1358, 1376): the air of
  `RouteDiscovery` is a set and keeps one copy. The other is dropped by a drone
  that has recorded the first (1171); a drone that has not, or has lost the entry
  in between, is not seen to handle it again.
- `verifyRouteHandler`, `EXIT` messages and reconnection of terminal and server.
- The cache of `addSelf` is pruned at 1000 entries, which no run reaches.
- `cost`, `ttl` of entries and `destSeqNum` of replies: no handler reads them.
- The reply handlers of cross-swarm routing (1441-1491, 1748-1803), behind a
  lock that is never released.
- The start-up race between the generation of the hash chain and the first
  messages (2592-2593), and data races on containers (532, 967, 1900): undefined
  behaviour outside the state of the models.
- Sockets, HTTP, logging, SHA-256, signatures, certificates, `run.py`, scripts.

## Plan

Modules, in the order they were written: `HashChain`, `RouteDiscovery`,
`PendingRoutes`, `MessageQueue` with `LossyFifo`, `CrossSwarm`, `HashTree` with
`RouteTree`, `CrlCache` with `RevocationList`, `Membership`, `Terminal`.

The proofs cover every safety property that a passing run checks. What is left is
outside of the provers' reach (liveness), or of the models: see
[Not modelled](#not-modelled).
