------------------------------ MODULE CrlCache ------------------------------
(***************************************************************************)
(* How a leader learns which certificates are on the GCS's revocation list *)
(* (RevocationList).  Three threads: one fetches the list of certificates  *)
(* from the GCS once; one refreshes crlCache for all of them every half    *)
(* lifetime, in one request when they are several; the                     *)
(* clientResponseThread (worker) asks isNodeOnCRL about the sender of a    *)
(* message, and looks into the cache first.  A request to the GCS is three *)
(* steps: sent, answered there, handled here; the mutexes that guard the   *)
(* cache and the list of drones are free in between.                       *)
(*                                                                         *)
(* A request for one certificate has its text in the path, and is answered *)
(* with 404 unless it is Slashless.  404 is "not revoked": the worker does *)
(* not cache it, the refresher does.  A request that fails (no connection, *)
(* or no answer because the list is locked) is "not revoked" too: for all  *)
(* certificates, in the cache, when it is the refresher's.  The exception  *)
(* after which refreshCRLCache goes on one by one (2491) takes an answer   *)
(* with status 200 that is not what gcs.py sends, and is left out.         *)
(*                                                                         *)
(* Time is discrete.  A thread that has slept its time goes on before the  *)
(* clock does, and no request takes longer than MaxDelay (the time-outs of *)
(* the HTTP client, 2 to 10 seconds against a period of 5 minutes).        *)
(***************************************************************************)
EXTENDS Integers, RevocationList

CONSTANTS
    Addressed,      \* certificates of drones whose serial number is their
                    \* address: networkNodes has serial numbers, is asked for
                    \* addresses
    Period,         \* crlCacheLifetime / 2
    InitialDelay,   \* the refresher's first sleep
    MaxDelay        \* the longest a request takes

ASSUME CrlAssumption ==
    /\ Addressed \subseteq Cert
    /\ Period \in Nat /\ InitialDelay \in 0..Period
    /\ MaxDelay \in Nat /\ MaxDelay < Period

Lifetime == 2 * Period

VARIABLES
    up,         \* the GCS can be reached
    nodes,      \* certificates in networkNodes
    cache,      \* crlCache
    age,        \* time since crlCacheLastRefreshed, Never before the first time
    worker,     \* the clientResponseThread
    refresher,  \* the thread that calls refreshCRLCache
    since       \* history: time since the text got on or off the list, the
                \* drones were listed or a refresh failed, whichever was last

vars == <<listVars, up, nodes, cache, age, worker, refresher, since>>

Never == Lifetime + 1

Idle == [pc |-> "idle"]
Asking(c) == [pc |-> "asking", cert |-> c, t |-> 0]
Decided(c, onCRL) == [pc |-> "decided", cert |-> c, onCRL |-> onCRL]
Sleep(t) == [pc |-> "sleep", t |-> t]

(* By then a change of the list is noticed: a request on its way when it   *)
(* happened, a sleep, another request.                                     *)
Deadline == Period + 2 * MaxDelay
LongAgo == Deadline + MaxDelay + 1

Waiting(thread) == thread.pc \in {"asking", "answered"}

Init ==
    /\ InitList
    /\ up \in BOOLEAN
    /\ nodes = {}
    /\ cache = [c \in Cert |-> "unknown"]
    /\ age = Never
    /\ worker = Idle
    /\ refresher = Sleep(InitialDelay)
    /\ since = [c \in Cert |-> 0]

--------------------------------------------------------------------------
(* The environment: the GCS and the clock *)

ListChanges ==
    /\ \/ \E s \in Listable : add_revoked_cert(s) \/ remove_cert_from_crl(s)
       \/ ~up /\ \E content \in SUBSET Listable : Start(content)
    /\ since' = [c \in Cert |-> IF Text(c) \in listed <=> Text(c) \in listed'
                                THEN since[c] ELSE 0]
    /\ UNCHANGED <<up, nodes, cache, age, worker, refresher>>

SwitchLink ==
    /\ up' = ~up
    /\ UNCHANGED <<listVars, nodes, cache, age, worker, refresher, since>>

Older(thread) == IF Waiting(thread) THEN [thread EXCEPT !.t = @ + 1] ELSE thread

Tick ==
    /\ Waiting(worker) => worker.t < MaxDelay
    /\ worker.pc # "decided"
    /\ Waiting(refresher) => refresher.t < MaxDelay
    /\ refresher.pc = "sleep" => refresher.t > 0
    /\ age' = IF age < Lifetime THEN age + 1 ELSE age
    /\ worker' = Older(worker)
    /\ refresher' = IF refresher.pc = "sleep" THEN Sleep(refresher.t - 1) ELSE Older(refresher)
    /\ since' = [c \in Cert |-> IF since[c] < LongAgo THEN since[c] + 1 ELSE since[c]]
    /\ UNCHANGED <<listVars, up, nodes, cache>>

--------------------------------------------------------------------------
(* requestNetworkNodesIfLeader asks until it has an answer, and never      *)
(* again: a drone that gets its certificate later is not on the list, and  *)
(* after an empty answer nobody ever is.  The GCS takes no lock for it.    *)
FetchNodes(issued) ==
    /\ up /\ nodes = {}
    /\ nodes' = issued
    /\ since' = [c \in Cert |-> 0]
    /\ UNCHANGED <<listVars, up, cache, age, worker, refresher>>

--------------------------------------------------------------------------
(* isNodeOnCRL, on the clientResponseThread *)

cacheValid == age < Lifetime

UnknownNode(c) ==
    /\ worker = Idle
    /\ c \notin nodes \cap Addressed
    /\ worker' = Decided(c, FALSE)
    /\ UNCHANGED <<listVars, up, nodes, cache, age, refresher, since>>

CacheHit(c) ==
    /\ worker = Idle
    /\ c \in nodes \cap Addressed
    /\ cacheValid /\ cache[c] # "unknown"
    /\ worker' = Decided(c, cache[c] = "revoked")
    /\ UNCHANGED <<listVars, up, nodes, cache, age, refresher, since>>

(* Goes to the GCS without a look into the cache. *)
CacheMissMutant(c) ==
    /\ worker = Idle
    /\ c \in nodes \cap Addressed
    /\ worker' = Asking(c)
    /\ UNCHANGED <<listVars, up, nodes, cache, age, refresher, since>>

CacheMiss(c) ==
    /\ worker = Idle
    /\ c \in nodes \cap Addressed
    /\ ~cacheValid \/ cache[c] = "unknown"
    /\ worker' = Asking(c)
    /\ UNCHANGED <<listVars, up, nodes, cache, age, refresher, since>>

(* The path with the text in it reaches the look-up, which needs _lock. *)
WorkerAnswered ==
    /\ worker.pc = "asking" /\ up
    /\ worker.cert \in Slashless /\ ~locked
    /\ worker' = [pc |-> "answered", cert |-> worker.cert, t |-> worker.t,
                  onCRL |-> IsRevoked(worker.cert)]
    /\ UNCHANGED <<listVars, up, nodes, cache, age, refresher, since>>

WorkerStores ==
    /\ worker.pc = "answered"
    /\ cache' = [cache EXCEPT ![worker.cert] = IF worker.onCRL THEN "revoked" ELSE "valid"]
    /\ age' = 0
    /\ worker' = Decided(worker.cert, worker.onCRL)
    /\ UNCHANGED <<listVars, up, nodes, refresher, since>>

(* No connection, the read times out behind _lock, or the answer is 404:   *)
(* the drone is taken for not revoked, and nothing is stored.              *)
WorkerFails ==
    /\ \/ Waiting(worker) /\ ~up
       \/ worker.pc = "asking" /\ (worker.cert \in Slashless => locked)
    /\ worker' = Decided(worker.cert, FALSE)
    /\ UNCHANGED <<listVars, up, nodes, cache, age, refresher, since>>

(* The dispatcher drops the message, or hands it to its handler. *)
Proceed ==
    /\ worker.pc = "decided"
    /\ worker' = Idle
    /\ UNCHANGED <<listVars, up, nodes, cache, age, refresher, since>>

--------------------------------------------------------------------------
(* refreshCRLCache, on a thread of its own *)

(* The refresher's request reaches a look-up: it asks for several          *)
(* certificates in bulk, or for one by a path that matches.                *)
Routed == \A c \in nodes : nodes = {c} => c \in Slashless

WakeUp ==
    /\ refresher = Sleep(0)
    /\ refresher' = IF nodes = {} THEN Sleep(Period) ELSE [pc |-> "asking", t |-> 0]
    /\ UNCHANGED <<listVars, up, nodes, cache, age, worker, since>>

(* A single request answered with 404 is an answer like any other. *)
RefresherAnswered ==
    /\ refresher.pc = "asking" /\ up
    /\ Routed => ~locked
    /\ refresher' = [pc |-> "answered", t |-> refresher.t,
                     list |-> IF Routed THEN BulkCheck(nodes) ELSE {}]
    /\ UNCHANGED <<listVars, up, nodes, cache, age, worker, since>>

(* Keeps what the cache has: an older answer wins over a newer one. *)
RefreshedMutant(list) ==
    [c \in Cert |-> IF c \in nodes /\ cache[c] = "unknown"
                    THEN IF c \in list THEN "revoked" ELSE "valid" ELSE cache[c]]

Refreshed(list) ==
    [c \in Cert |-> IF c \in nodes
                    THEN IF c \in list THEN "revoked" ELSE "valid" ELSE cache[c]]

(* Sleeps for a whole lifetime. *)
RefresherStoresMutant ==
    /\ refresher.pc = "answered"
    /\ cache' = Refreshed(refresher.list)
    /\ age' = 0
    /\ refresher' = Sleep(Lifetime)
    /\ UNCHANGED <<listVars, up, nodes, worker, since>>

RefresherStores ==
    /\ refresher.pc = "answered"
    /\ cache' = Refreshed(refresher.list)
    /\ age' = 0
    /\ refresher' = Sleep(Period)
    /\ UNCHANGED <<listVars, up, nodes, worker, since>>

(* Returns, and leaves the cache as it is. *)
RefresherFailsMutant ==
    /\ \/ Waiting(refresher) /\ ~up
       \/ refresher.pc = "asking" /\ Routed /\ locked
    /\ refresher' = Sleep(Period)
    /\ since' = [c \in Cert |-> IF c \in nodes THEN 0 ELSE since[c]]
    /\ UNCHANGED <<listVars, up, nodes, cache, age, worker>>

RefresherFails ==
    /\ \/ Waiting(refresher) /\ ~up
       \/ refresher.pc = "asking" /\ Routed /\ locked
    /\ cache' = Refreshed({})
    /\ age' = 0
    /\ refresher' = Sleep(Period)
    /\ since' = [c \in Cert |-> IF c \in nodes THEN 0 ELSE since[c]]
    /\ UNCHANGED <<listVars, up, nodes, worker>>

--------------------------------------------------------------------------
IsNodeOnCRL == (\E c \in Cert : UnknownNode(c) \/ CacheHit(c) \/ CacheMiss(c))
                  \/ WorkerAnswered \/ WorkerStores \/ WorkerFails \/ Proceed

RefreshCRLCache == WakeUp \/ RefresherAnswered \/ RefresherStores \/ RefresherFails

Next ==
    \/ ListChanges
    \/ SwitchLink
    \/ Tick
    \/ \E issued \in SUBSET Cert \ {{}} : FetchNodes(issued)
    \/ IsNodeOnCRL
    \/ RefreshCRLCache

Spec == Init /\ [][Next]_vars

(* Time goes on (a flood of messages does not stop it: strong fairness),   *)
(* the threads run, and requests end.  Nothing is assumed of the GCS, the  *)
(* link to it and the messages that come in.                               *)
FairSpec ==
    /\ Spec
    /\ SF_vars(Tick)
    /\ WF_vars(WorkerAnswered \/ WorkerStores \/ WorkerFails \/ Proceed)
    /\ WF_vars(RefreshCRLCache)

--------------------------------------------------------------------------
(* Properties *)

(* Every variable has the shape the code gives it. *)
TypeOK ==
    /\ TypeOKList
    /\ up \in BOOLEAN
    /\ nodes \subseteq Cert
    /\ cache \in [Cert -> {"unknown", "valid", "revoked"}]
    /\ age \in 0..Never
    /\ worker \in {Idle} \cup [pc : {"asking"}, cert : Cert, t : 0..MaxDelay]
                     \cup [pc : {"answered"}, cert : Cert, t : 0..MaxDelay, onCRL : BOOLEAN]
                     \cup [pc : {"decided"}, cert : Cert, onCRL : BOOLEAN]
    /\ refresher \in [pc : {"sleep"}, t : 0..Period]
                     \cup [pc : {"asking"}, t : 0..MaxDelay]
                     \cup [pc : {"answered"}, t : 0..MaxDelay, list : SUBSET Cert]
    /\ since \in [Cert -> 0..LongAgo]

Status(c) == IF Text(c) \in listed THEN "revoked" ELSE "valid"

(* What the cache says of a listed drone is what the list says of the text *)
(* of its certificate, half a lifetime and two requests after the list     *)
(* changed or a refresh failed: answers of either thread that are older    *)
(* than the change may be stored after newer ones, but do not last.  Not   *)
(* so for a lone drone whose certificate the path does not match.          *)
NoticedInTime ==
    \A c \in nodes : Routed /\ since[c] > Deadline => cache[c] = Status(c)

(* From then on, and the time of a request later, isNodeOnCRL takes no     *)
(* message of a drone whose text is on the list: although a look-up of its *)
(* own that fails is taken for "not revoked", it makes none by then.       *)
RefusedInTime ==
    worker.pc = "decided" /\ ~worker.onCRL =>
        LET c == worker.cert IN
        ~(c \in nodes \cap Addressed /\ Routed /\ Text(c) \in listed /\ since[c] = LongAgo)

(* Drones are refused only by the text of their certificate: a drone whose *)
(* serial number is on the list, as the operations of CRLManager have it,  *)
(* is taken for valid by both threads.                                     *)
SerialRefusesNobody ==
    worker.pc = "decided" /\ worker.onCRL => Text(worker.cert) \in Listable

(* Once it has a time stamp the cache does not expire before it is         *)
(* refreshed: the lifetime test (1035) never sends the worker, which holds *)
(* leaderMutex, to the GCS again, however the look-ups of one certificate  *)
(* renew the time stamp of all.                                            *)
NeverExpires == age # Never => cacheValid

(* Once the GCS stays reachable and no change of the list hangs it, the    *)
(* cache and the list agree for good.                                      *)
NoticedInTheEnd ==
    \A c \in Cert : <>[](up /\ ~locked /\ c \in nodes /\ Routed) => <>[](cache[c] = Status(c))

(* While the GCS does not answer, out of reach or hung by a revocation,    *)
(* the cache comes to say "valid" of every drone, those it knew to be      *)
(* revoked included (drone.cpp:2446, "allowing all connections"), however  *)
(* late the answers that were on their way are stored.                     *)
FailsOpen ==
    \A c \in Cert : <>[](c \in nodes /\ (~up \/ locked)) => <>[](cache[c] = "valid")

--------------------------------------------------------------------------
(* What the documentation of the list says, and the program does not do *)

(* "Check if a certificate is revoked" (crl_manager.py:39), by its serial  *)
(* number (38): while the station is reachable and answers, a listed drone *)
(* is known to be revoked in the end.                                      *)
SerialNoticedInTheEnd ==
    \A c \in Cert :
        <>[](up /\ ~locked /\ c \in nodes /\ Routed /\ Serial(c) \in listed)
            => <>[](cache[c] = "revoked")
==========================================================================
