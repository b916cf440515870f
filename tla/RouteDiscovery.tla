-------------------------- MODULE RouteDiscovery --------------------------
(***************************************************************************)
(* Route discovery inside one swarm: neighbour discovery with TESLA and    *)
(* AUTH hellos, route requests (RREQ) flooded by UDP broadcast, route      *)
(* replies (RREP) and route errors (RERR) sent hop by hop over TCP.        *)
(*                                                                         *)
(* Every handler of a drone runs on its single clientResponseThread and    *)
(* touches only that drone's state, so a handler is one action.  Messages  *)
(* in flight are a set: they may overtake one another and may be lost      *)
(* (never received).  Links are the pairs of drones that can come into     *)
(* radio range; a send to any other drone fails.                           *)
(*                                                                         *)
(* Init is the state after start() has generated the hash chain.  Left     *)
(* out: the leader hello, cross-swarm messages, the fields cost, ttl and   *)
(* destSeqNum of an entry or reply, which no handler reads, and the        *)
(* messages waiting for a route (module PendingRoutes).  The hash tree of  *)
(* a request counts as verified here: RouteTree carries it and shows so.   *)
(*                                                                         *)
(* Operators named ...Mutant are plausible wrong versions of the           *)
(* definition that follows them; nothing uses them but mutation testing.   *)
(***************************************************************************)
EXTENDS HashChain, FiniteSets

CONSTANTS
    Node,           \* drones, by address
    Links,          \* symmetric set of pairs of drones in range of each other
    TriggerRerr,    \* the TRIGGER_RERR environment variable
    NoRoute,        \* "not in the routing table"
    NoAddr,         \* the address "ERR" of a default entry
    NoHash,         \* the empty hash of an entry
    Garbage,        \* what a read beyond the hash chain may return
    NoKey,          \* the TESLA key "ERR" of a default entry
    EmptyKey,       \* the TESLA key "" of an entry made by an AUTH hello
    Wanted,         \* bound: which drone asks for a route to which
    MaxIssued,      \* bound: the last sequence number each drone issues
    MaxEpoch        \* bound: TESLA keys disclosed after the first one

VARIABLES
    phase,      \* how far neighborDiscoveryHelper has come
    up,         \* FALSE once the process has crashed
    seqNum,     \* drone::seqNum
    epoch,      \* which TESLA key getCurrentHash returns
    table,      \* tesla.routingTable, NoRoute where there is no entry
    net         \* packets in flight

vars == <<phase, up, seqNum, epoch, table, net>>

Phases == {"start", "tesla", "auth", "done"}

Keys == [owner : Node, epoch : 0..MaxEpoch]

Hashes == [owner : Node, index : Int] \cup {Garbage}

Entry == [inter : Node \cup {NoAddr}, seq : Int,
          hash : Hashes \cup {NoHash}, key : Keys \cup {NoKey, EmptyKey}]

Hello == [type : {"HELLO"}, mode : {"TESLA"}, src : Node, key : Keys]
           \cup [type : {"HELLO"}, mode : {"AUTH"}, src : Node, hash : Hashes]

Rreq == [type : {"RREQ"}, src : Node, dest : Node, recv : Node, seq : Nat \ {0},
         hop : Nat, ttl : Int, hash : Hashes, key : Keys]

Rrep == [type : {"RREP"}, src : Node, dest : Node, recv : Node, seq : Nat \ {0},
         hop : Nat, hash : Hashes, key : Keys]

Rerr == [type : {"RERR"}, dst : Node, ret : Node, src : Node, recv : Node,
         key : Keys]

Message == Hello \cup Rreq \cup Rrep \cup Rerr

Packet == [to : Node, msg : Message]

ASSUME RouteAssumption ==
    /\ Links \subseteq Node \X Node
    /\ \A a, b \in Node : <<a, b>> \in Links => <<b, a>> \in Links /\ a # b
    /\ TriggerRerr \in BOOLEAN
    /\ Wanted \subseteq {w \in Node \X Node : w[1] # w[2]}
    /\ MaxIssued \in [Node -> Nat] /\ MaxEpoch \in Nat
    /\ NoRoute \notin Entry /\ NoAddr \notin Node
    /\ NoHash \notin Hashes /\ Garbage \notin [owner : Node, index : Int]
    /\ NoKey \notin Keys /\ EmptyKey \notin Keys /\ NoKey # EmptyKey

--------------------------------------------------------------------------
(* The network.  UDP broadcast reaches drones in range and, as the ad-hoc  *)
(* interface skips what comes from its own address, never the sender;      *)
(* sendData makes a TCP connection, which fails out of range.              *)

Neighbours(n) == {m \in Node : <<n, m>> \in Links}

Broadcast(n, m) == {[to |-> p, msg |-> m] : p \in Neighbours(n)}

SendData(n, to, m) == IF to \in Neighbours(n) THEN {[to |-> to, msg |-> m]} ELSE {}

CurrentKey(n) == [owner |-> n, epoch |-> epoch[n]]

--------------------------------------------------------------------------
(* The routing table. *)

DefaultEntry == [inter |-> NoAddr, seq |-> -1, hash |-> NoHash, key |-> NoKey]

RouteEntry(inter, seq, key) ==
    [inter |-> inter, seq |-> seq, hash |-> NoHash, key |-> key]

(* RoutingMap::insert overwrites every field but an authenticator that the *)
(* new entry does not bring.                                               *)
InsertRoute(old, new) ==
    IF old # NoRoute /\ new.hash = NoHash THEN [new EXCEPT !.hash = old.hash] ELSE new

(* operator[] creates a default entry for an unknown address. *)
SetTeslaInfo(old, key) ==
    [(IF old = NoRoute THEN DefaultEntry ELSE old) EXCEPT !.key = key]

Known(n, a) == table[n][a] # NoRoute

(* Takes a request again with the number it has recorded. *)
NotNewerMutant(msgSeq, entrySeq) == entrySeq = -1 \/ msgSeq < entrySeq

(* Messages carry unsigned sequence numbers, entries signed ones: the -1   *)
(* of a default entry compares as the largest unsigned long.               *)
NotNewer(msgSeq, entrySeq) == entrySeq = -1 \/ msgSeq <= entrySeq

Older(msgSeq, entrySeq) == entrySeq = -1 \/ msgSeq < entrySeq

(* Both handlers hash the received element back to the authenticator of    *)
(* the drone that transmitted the message.                                 *)
HashVerifies(m, entry) ==
    /\ m.hash # Garbage
    /\ HashTimes(m.hash, HashIterations(m.seq, m.hop)) = entry.hash

--------------------------------------------------------------------------
Init ==
    /\ phase = [n \in Node |-> "start"]
    /\ up = [n \in Node |-> TRUE]
    /\ seqNum = [n \in Node |-> 1]
    /\ epoch = [n \in Node |-> 0]
    /\ table = [n \in Node |-> [a \in Node |-> NoRoute]]
    /\ net = {}

(* neighborDiscoveryHelper: one TESLA hello, then AUTH hellos until        *)
(* DISCOVERY_INTERVAL has passed, then the discovery phase is over.        *)
TeslaHello(n) ==
    /\ up[n] /\ phase[n] = "start"
    /\ phase' = [phase EXCEPT ![n] = "tesla"]
    /\ net' = net \cup Broadcast(n, [type |-> "HELLO", mode |-> "TESLA", src |-> n,
                                     key |-> [owner |-> n, epoch |-> 0]])
    /\ UNCHANGED <<up, seqNum, epoch, table>>

AuthHello(n) ==
    /\ up[n] /\ phase[n] \in {"tesla", "auth"}
    /\ phase' = [phase EXCEPT ![n] = "auth"]
    /\ net' = net \cup Broadcast(n, [type |-> "HELLO", mode |-> "AUTH", src |-> n,
                                     hash |-> Authenticator(n)])
    /\ UNCHANGED <<up, seqNum, epoch, table>>

EndDiscovery(n) ==
    /\ up[n] /\ phase[n] = "auth"
    /\ phase' = [phase EXCEPT ![n] = "done"]
    /\ UNCHANGED <<up, seqNum, epoch, table, net>>

(* getCurrentHash: time moves on to the next key of the TESLA chain. *)
DiscloseKey(n) ==
    /\ epoch[n] < MaxEpoch
    /\ epoch' = [epoch EXCEPT ![n] = @ + 1]
    /\ UNCHANGED <<phase, up, seqNum, table, net>>

(* The dispatcher hands a hello to initMessageHandler only during the      *)
(* discovery phase.                                                        *)
IgnoreHello(p) ==
    /\ up[p.to] /\ p.msg.type = "HELLO"
    /\ phase[p.to] = "done"
    /\ net' = net \ {p}
    /\ UNCHANGED <<phase, up, seqNum, epoch, table>>

InitMessageHandler(p) ==
    LET n == p.to
        m == p.msg IN
    /\ up[n] /\ m.type = "HELLO"
    /\ phase[n] # "done"
    /\ table' = [table EXCEPT ![n][m.src] =
                    IF m.mode = "TESLA"
                    THEN SetTeslaInfo(@, m.key)
                    ELSE InsertRoute(@, [inter |-> m.src, seq |-> 0,
                                         hash |-> m.hash, key |-> EmptyKey])]
    /\ net' = net \ {p}
    /\ UNCHANGED <<phase, up, seqNum, epoch>>

--------------------------------------------------------------------------
(* initRouteDiscovery.  A request from the IPC socket runs it twice: once  *)
(* in the IPC block of the dispatcher and once more in the if-chain below  *)
(* it; one that arrives over TCP, or send() of the program, runs it once.  *)

RequestOf(n, d, s) ==
    [type |-> "RREQ", src |-> n, dest |-> d, recv |-> n, seq |-> s, hop |-> 1,
     ttl |-> MaxHop, hash |-> Element(n, ChainIndex(s, 1)), key |-> CurrentKey(n)]

InitRouteDiscovery(n, d, runs) ==
    /\ up[n]
    /\ seqNum[n] + runs <= MaxIssued[n]
    /\ seqNum' = [seqNum EXCEPT ![n] = @ + runs]
    /\ net' = net \cup UNION {Broadcast(n, RequestOf(n, d, s)) :
                 s \in {k \in seqNum[n] + 1 .. seqNum[n] + runs : InChain(k, 1)}}
    /\ UNCHANGED <<phase, up, epoch, table>>

--------------------------------------------------------------------------
(* routeRequestHandler *)

(* Takes its own request. *)
OwnRequestMutant(n, m) ==
    Known(n, m.src) =>
       /\ ~NotNewer(m.seq, table[n][m.src].seq)
       /\ Known(n, m.recv) => HashVerifies(m, table[n][m.recv])
       /\ m.ttl > 0
       /\ m.hop < MaxHop

RequestAccepted(n, m) ==
    /\ m.src # n
    /\ Known(n, m.src) =>
          /\ ~NotNewer(m.seq, table[n][m.src].seq)
          /\ Known(n, m.recv) => HashVerifies(m, table[n][m.recv])
          /\ m.ttl > 0
          /\ m.hop < MaxHop

DropRequest(p) ==
    /\ up[p.to] /\ p.msg.type = "RREQ"
    /\ ~RequestAccepted(p.to, p.msg)
    /\ net' = net \ {p}
    /\ UNCHANGED <<phase, up, seqNum, epoch, table>>

(* The destination replies with its own current sequence number.  It       *)
(* records the way back only when its own address is not in its table, and *)
(* then looks the way back up unless the requester transmitted directly:   *)
(* with no entry for the requester that is a null dereference.             *)
ReverseRoutes(n, m) ==
    IF Known(n, n) THEN table[n]
    ELSE [table[n] EXCEPT ![m.src] = InsertRoute(@, RouteEntry(m.recv, m.seq, m.key))]

(* Replies with the sequence number before its own. *)
ReplyOfMutant(n, m) ==
    [type |-> "RREP", src |-> n, dest |-> m.src, recv |-> n, seq |-> seqNum[n] - 1,
     hop |-> 1, hash |-> Element(n, ChainIndex(seqNum[n], 1)), key |-> CurrentKey(n)]

ReplyOf(n, m) ==
    [type |-> "RREP", src |-> n, dest |-> m.src, recv |-> n, seq |-> seqNum[n],
     hop |-> 1, hash |-> Element(n, ChainIndex(seqNum[n], 1)), key |-> CurrentKey(n)]

AnswerRequest(p) ==
    LET n == p.to
        m == p.msg
        routes == ReverseRoutes(n, m)
        lost == m.hop # 1 /\ routes[m.src] = NoRoute
        nextHop == IF m.hop = 1 THEN m.src ELSE routes[m.src].inter IN
    /\ up[n] /\ m.type = "RREQ"
    /\ RequestAccepted(n, m)
    /\ m.dest = n
    /\ table' = [table EXCEPT ![n] = routes]
    /\ up' = [up EXCEPT ![n] = ~(InChain(seqNum[n], 1) /\ lost)]
    /\ net' = (net \ {p}) \cup
              (IF InChain(seqNum[n], 1) /\ ~lost THEN SendData(n, nextHop, ReplyOf(n, m)) ELSE {})
    /\ UNCHANGED <<phase, seqNum, epoch>>

(* A relay answers for the message with its own chain.  getHashFromChain   *)
(* is used, and throws beyond the end, for sequence number 1 only; for     *)
(* others the deque is read unchecked: the process may crash or go on with *)
(* garbage.                                                                *)
RelayHashes(n, seq, hop) ==
    IF InChain(seq, hop) THEN {Element(n, ChainIndex(seq, hop))}
    ELSE IF seq = 1 THEN {} ELSE {Garbage}

(* Leaves the previous transmitter in the message. *)
RelayedRequestMutant(n, m, h) ==
    [m EXCEPT !.hop = @ + 1, !.ttl = @ - 1, !.hash = h, !.key = CurrentKey(n)]

RelayedRequest(n, m, h) ==
    [m EXCEPT !.hop = @ + 1, !.ttl = @ - 1, !.hash = h, !.recv = n, !.key = CurrentKey(n)]

RouteErrorOf(n, m) ==
    [type |-> "RERR", dst |-> m.src, ret |-> m.src, src |-> n, recv |-> n,
     key |-> CurrentKey(n)]

(* With TRIGGER_RERR and a known destination the request goes to the next  *)
(* hop only; when that fails it is broadcast and a RERR goes back.  (It is *)
(* broadcast twice, before and after the RERR; net keeps one copy.)        *)
Transmissions(n, m, relayed) ==
    IF TriggerRerr /\ Known(n, m.dest)
    THEN LET nextHop == table[n][m.dest].inter
             failure == Broadcast(n, relayed) \cup SendData(n, m.recv, RouteErrorOf(n, m))
         IN  {failure} \cup (IF nextHop \in Neighbours(n)
                             THEN {SendData(n, nextHop, relayed)} ELSE {})
    ELSE {Broadcast(n, relayed)}

(* Does not record the way back to the requester. *)
RelayEffectMutant(p) ==
    /\ up[p.to] /\ p.msg.type = "RREQ"
    /\ RequestAccepted(p.to, p.msg)
    /\ p.msg.dest # p.to
    /\ UNCHANGED <<table, phase, seqNum, epoch>>

RelayEffect(p) ==
    LET n == p.to
        m == p.msg IN
    /\ up[n] /\ m.type = "RREQ"
    /\ RequestAccepted(n, m)
    /\ m.dest # n
    /\ table' = [table EXCEPT ![n][m.src] =
                    InsertRoute(@, RouteEntry(m.recv, m.seq, m.key))]
    /\ UNCHANGED <<phase, seqNum, epoch>>

RelayRequest(p) ==
    /\ RelayEffect(p)
    /\ UNCHANGED up
    /\ \E h \in RelayHashes(p.to, p.msg.seq, p.msg.hop + 1) :
          \E sent \in Transmissions(p.to, p.msg, RelayedRequest(p.to, p.msg, h)) :
             net' = (net \ {p}) \cup sent

ChainExhausted(p) ==
    /\ RelayEffect(p)
    /\ ~InChain(p.msg.seq, p.msg.hop + 1)
    /\ net' = net \ {p}
    /\ up' = [up EXCEPT ![p.to] = (p.msg.seq = 1)]

--------------------------------------------------------------------------
(* routeReplyHandler *)

ReplyAccepted(n, m) ==
    /\ Known(n, m.recv)
    /\ HashVerifies(m, table[n][m.recv])
    /\ ~Older(m.seq, table[n][m.recv].seq)

DropReply(p) ==
    /\ up[p.to] /\ p.msg.type = "RREP"
    /\ ~ReplyAccepted(p.to, p.msg)
    /\ net' = net \ {p}
    /\ UNCHANGED <<phase, up, seqNum, epoch, table>>

(* The replier and then the drone that transmitted the reply are entered,  *)
(* both with the replier's sequence number.                                *)
RoutesFromReply(n, m) ==
    [table[n] EXCEPT ![m.src] = InsertRoute(@, RouteEntry(m.recv, m.seq, m.key)),
                     ![m.recv] = InsertRoute(@, RouteEntry(m.recv, m.seq, m.key))]

AcceptReply(p) ==
    LET n == p.to
        m == p.msg IN
    /\ up[n] /\ m.type = "RREP"
    /\ ReplyAccepted(n, m)
    /\ m.dest = n
    /\ table' = [table EXCEPT ![n] = RoutesFromReply(n, m)]
    /\ net' = net \ {p}
    /\ UNCHANGED <<phase, up, seqNum, epoch>>

(* Discloses the next element but keeps the hop count. *)
RelayedReplyMutant(n, m) ==
    [m EXCEPT !.hash = Element(n, ChainIndex(m.seq, m.hop + 1)),
              !.recv = n, !.key = CurrentKey(n)]

RelayedReply(n, m) ==
    [m EXCEPT !.hop = @ + 1, !.hash = Element(n, ChainIndex(m.seq, m.hop + 1)),
              !.recv = n, !.key = CurrentKey(n)]

(* A relay keeps a route to the replier it already has. *)
RelayReply(p) ==
    LET n == p.to
        m == p.msg
        routes == IF Known(n, m.src) THEN table[n] ELSE RoutesFromReply(n, m) IN
    /\ up[n] /\ m.type = "RREP"
    /\ ReplyAccepted(n, m)
    /\ m.dest # n
    /\ table' = [table EXCEPT ![n] = routes]
    /\ net' = (net \ {p}) \cup
              (IF InChain(m.seq, m.hop + 1) /\ routes[m.dest] # NoRoute
               THEN SendData(n, routes[m.dest].inter, RelayedReply(n, m)) ELSE {})
    /\ UNCHANGED <<phase, up, seqNum, epoch>>

--------------------------------------------------------------------------
(* routeErrorHandler: the key the sender disclosed must be the one         *)
(* recorded for the drone the error is returned to.                        *)

(* Does not compare the keys. *)
ErrorVerifiedMutant(n, m) == Known(n, m.dst) /\ Known(n, m.ret)

ErrorVerified(n, m) ==
    /\ Known(n, m.dst)
    /\ Known(n, m.ret)
    /\ table[n][m.ret].key = m.key

DropError(p) ==
    /\ up[p.to] /\ p.msg.type = "RERR"
    /\ ~ErrorVerified(p.to, p.msg)
    /\ net' = net \ {p}
    /\ UNCHANGED <<phase, up, seqNum, epoch, table>>

RouteErrorHandler(p) ==
    LET n == p.to
        m == p.msg
        nextHop == table[n][m.ret].inter IN
    /\ up[n] /\ m.type = "RERR"
    /\ ErrorVerified(n, m)
    /\ table' = [table EXCEPT ![n][m.ret] = NoRoute]
    /\ net' = (net \ {p}) \cup SendData(n, IF nextHop = n THEN m.ret ELSE nextHop, m)
    /\ UNCHANGED <<phase, up, seqNum, epoch>>

--------------------------------------------------------------------------
(* All the ends of a handler but the one that passes a request on *)
Settle(p) ==
    \/ IgnoreHello(p) \/ InitMessageHandler(p)
    \/ DropRequest(p) \/ AnswerRequest(p) \/ ChainExhausted(p)
    \/ DropReply(p) \/ AcceptReply(p) \/ RelayReply(p)
    \/ DropError(p) \/ RouteErrorHandler(p)

Receive(p) == Settle(p) \/ RelayRequest(p)

(* What a drone does without having received anything *)
OwnStep(n) == TeslaHello(n) \/ AuthHello(n) \/ EndDiscovery(n) \/ DiscloseKey(n)

Next ==
    \/ \E n \in Node : OwnStep(n)
    \/ \E w \in Wanted, runs \in {1, 2} : InitRouteDiscovery(w[1], w[2], runs)
    \/ \E p \in net : Receive(p)

Spec == Init /\ [][Next]_vars

--------------------------------------------------------------------------
(* Properties *)

(* Every variable, table entry and packet has the shape the code gives it. *)
TypeOK ==
    /\ phase \in [Node -> Phases]
    /\ up \in [Node -> BOOLEAN]
    /\ seqNum \in [Node -> Nat \ {0}]
    /\ epoch \in [Node -> 0..MaxEpoch]
    /\ table \in [Node -> [Node -> Entry \cup {NoRoute}]]
    /\ net \subseteq Packet

Routed(p) == p.msg.type \in {"RREQ", "RREP"}

(* The hash check of routeRequestHandler (1178-1194) and routeReplyHandler *)
(* (1541-1555) never rejects a message for its hash when the receiver      *)
(* holds the transmitter's authenticator: whichever relay, sequence number *)
(* and hop count, the element the sender picked from its chain and the     *)
(* number of times the receiver hashes it belong together.                 *)
AuthenticRelayAccepted ==
    \A p \in net :
        LET entry == table[p.to][p.msg.recv] IN
        Routed(p) /\ p.msg.hash # Garbage /\ entry # NoRoute /\ entry.hash # NoHash
            => HashVerifies(p.msg, entry)

(* intermediateAddr of every entry is a drone in range of its owner, so    *)
(* that the owner can make the TCP connection of the first hop itself.     *)
FirstHopInRange ==
    \A n, a \in Node : Known(n, a) =>
        table[n][a].inter \in Neighbours(n) \cup {NoAddr}

(* Without route errors a relay that receives a reply always has a route   *)
(* to the requester: the "No route entry found" return (1717-1720) of      *)
(* routeReplyHandler is dead, however requests, replies and hellos of      *)
(* several discoveries interleave.                                         *)
ReplyHasNextHop ==
    ~TriggerRerr => \A p \in net :
        p.msg.type = "RREP" /\ p.to # p.msg.dest => Known(p.to, p.msg.dest)

(* Where discoveries do not overlap, no drone enters itself in its routing *)
(* table.  routeRequestHandler looks its own address up (1251) and, should *)
(* it find it, leaves the requester out and dereferences the missing entry *)
(* (1296).  Two requests of one drone that are on the air together suffice *)
(* to bring a reply back to its sender, which then enters itself.          *)
NeverRoutesToItself == \A n \in Node : ~Known(n, n)

(* Route errors turn back.  The key disclosed in an error is the sender's  *)
(* own; the entry it is compared with (694-700) holds the key of the drone *)
(* that transmitted what the entry was made from.  So only a drone that    *)
(* routes to the requester through the very drone that reports the failure *)
(* verifies the error: it removes that route, sends the error back to      *)
(* where it came from (715-719), and there it ends.                        *)
ErrorsTurnBack ==
    \A p \in net :
        p.msg.type = "RERR" /\ ErrorVerified(p.to, p.msg) =>
            /\ table[p.to][p.msg.ret].inter = p.msg.src
            /\ p.to # p.msg.src

(* A read beyond the hash chain can only happen for a request on the last  *)
(* sequence number the chain was made for, or one beyond its hop limit.    *)
ChainLastsForItsRequests ==
    \A p \in net : p.msg.type = "RREQ" /\ p.msg.hash = Garbage
        => p.msg.seq >= MaxSeq \/ p.msg.hop > MaxHop
==========================================================================
