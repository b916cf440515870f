---------------------- MODULE RouteDiscoveryProofs ----------------------
(***************************************************************************)
(* Machine-checked proofs about RouteDiscovery, for every swarm, topology, *)
(* chain length and bound.                                                 *)
(***************************************************************************)
EXTENDS RouteDiscovery, TLAPS

--------------------------------------------------------------------------
(* Facts about the data. *)

(* The type field decides which kind of message a message is. *)
LEMMA MessageKinds ==
    ASSUME NEW m \in Message
    PROVE  /\ m.type = "RREQ" => m \in Rreq
           /\ m.type = "RREP" => m \in Rrep
           /\ m.type = "RERR" => m \in Rerr
           /\ m.type = "HELLO" => m \in Hello
           /\ m.type \in {"RREQ", "RREP", "RERR", "HELLO"}
  BY DEF Message, Rreq, Rrep, Rerr, Hello

LEMMA HelloKinds ==
    ASSUME NEW m \in Hello
    PROVE  /\ m.src \in Node
           /\ m.mode = "TESLA" => m.key \in Keys
           /\ m.mode # "TESLA" => m.mode = "AUTH" /\ m.hash \in Hashes
  BY DEF Hello

(* getHashFromChain and the verifiers' loops agree on the arithmetic: the  *)
(* element picked for (seq, hop), hashed as often as the verifier does, is *)
(* the authenticator.                                                      *)
LEMMA ChainArithmetic ==
    ASSUME NEW o, NEW seq \in Nat \ {0}, NEW hop \in Nat
    PROVE  HashTimes(Element(o, ChainIndex(seq, hop)), HashIterations(seq, hop))
              = Authenticator(o)
<1>1. ChainIndex(seq, hop) = HashIterations(seq, hop)
  BY ChainAssumption DEF ChainIndex, HashIterations
<1>2. ChainIndex(seq, hop) \in Int
  BY ChainAssumption DEF ChainIndex
<1> QED
  BY <1>1, <1>2 DEF HashTimes, Element, Authenticator

LEMMA ElementType ==
    ASSUME NEW o \in Node, NEW i \in Int
    PROVE  Element(o, i) \in Hashes
  BY DEF Element, Hashes

LEMMA ChainIndexType ==
    ASSUME NEW seq \in Nat, NEW hop \in Nat
    PROVE  ChainIndex(seq, hop) \in Int
  BY ChainAssumption DEF ChainIndex

LEMMA InsertType ==
    ASSUME NEW old \in Entry \cup {NoRoute}, NEW new \in Entry
    PROVE  InsertRoute(old, new) \in Entry
  BY RouteAssumption DEF InsertRoute, Entry

LEMMA RouteEntryType ==
    ASSUME NEW i \in Node, NEW s \in Int, NEW k \in Keys
    PROVE  RouteEntry(i, s, k) \in Entry
  BY DEF RouteEntry, Entry

LEMMA TeslaInfoType ==
    ASSUME NEW old \in Entry \cup {NoRoute}, NEW k \in Keys
    PROVE  SetTeslaInfo(old, k) \in Entry
  BY RouteAssumption DEF SetTeslaInfo, DefaultEntry, Entry

LEMMA BroadcastType ==
    ASSUME NEW n \in Node, NEW m \in Message
    PROVE  Broadcast(n, m) \subseteq Packet
<1> SUFFICES ASSUME NEW q \in Broadcast(n, m) PROVE q \in Packet
  OBVIOUS
<1>1. PICK p \in Neighbours(n) : q = [to |-> p, msg |-> m]
  BY DEF Broadcast
<1> QED
  BY <1>1 DEF Neighbours, Packet

LEMMA SendDataType ==
    ASSUME NEW n \in Node, NEW to, NEW m \in Message
    PROVE  SendData(n, to, m) \subseteq Packet
  BY DEF SendData, Neighbours, Packet

LEMMA KeyType == ASSUME TypeOK, NEW n \in Node PROVE CurrentKey(n) \in Keys
  BY DEF TypeOK, CurrentKey, Keys

(* What the handlers send is a message. *)
LEMMA RequestType ==
    ASSUME TypeOK, NEW n \in Node, NEW d \in Node, NEW s \in Nat \ {0}
    PROVE  RequestOf(n, d, s) \in Rreq
<1>1. Element(n, ChainIndex(s, 1)) \in Hashes
  BY ElementType, ChainIndexType
<1> QED
  BY <1>1, KeyType, ChainAssumption DEF RequestOf, Rreq

LEMMA ReplyType ==
    ASSUME TypeOK, NEW n \in Node, NEW m \in Rreq
    PROVE  ReplyOf(n, m) \in Rrep
<1>1. seqNum[n] \in Nat \ {0}
  BY DEF TypeOK
<1>2. Element(n, ChainIndex(seqNum[n], 1)) \in Hashes
  BY <1>1, ElementType, ChainIndexType
<1> QED
  BY <1>1, <1>2, KeyType DEF ReplyOf, Rrep, Rreq

LEMMA RelayedRequestType ==
    ASSUME TypeOK, NEW n \in Node, NEW m \in Rreq, NEW h \in Hashes
    PROVE  RelayedRequest(n, m, h) \in Rreq
<1>1. m.hop + 1 \in Nat /\ m.ttl - 1 \in Int
  BY DEF Rreq
<1>2. CurrentKey(n) \in Keys
  BY KeyType
<1> QED
  BY <1>1, <1>2 DEF RelayedRequest, Rreq

LEMMA RelayedReplyType ==
    ASSUME TypeOK, NEW n \in Node, NEW m \in Rrep
    PROVE  RelayedReply(n, m) \in Rrep
<1>1. m.seq \in Nat /\ m.hop + 1 \in Nat
  BY DEF Rrep
<1>2. Element(n, ChainIndex(m.seq, m.hop + 1)) \in Hashes
  BY <1>1, ElementType, ChainIndexType
<1>3. CurrentKey(n) \in Keys
  BY KeyType
<1> QED
  BY <1>1, <1>2, <1>3 DEF RelayedReply, Rrep

LEMMA RouteErrorType ==
    ASSUME TypeOK, NEW n \in Node, NEW m \in Rreq
    PROVE  RouteErrorOf(n, m) \in Rerr
  BY KeyType DEF RouteErrorOf, Rerr, Rreq

LEMMA RelayHashType ==
    ASSUME NEW n \in Node, NEW seq \in Nat, NEW hop \in Nat
    PROVE  RelayHashes(n, seq, hop) \subseteq Hashes
  BY ElementType, ChainIndexType DEF RelayHashes, Hashes

LEMMA TransmissionType ==
    ASSUME TypeOK, NEW n \in Node, NEW m \in Rreq, NEW r \in Rreq,
           NEW sent \in Transmissions(n, m, r)
    PROVE  sent \subseteq Packet
<1>1. r \in Message /\ RouteErrorOf(n, m) \in Message
  BY RouteErrorType DEF Message
<1> QED
  BY <1>1, BroadcastType, SendDataType DEF Transmissions

(* The routes a handler leaves behind. *)
LEMMA ReverseRoutesType ==
    ASSUME TypeOK, NEW n \in Node, NEW m \in Rreq
    PROVE  ReverseRoutes(n, m) \in [Node -> Entry \cup {NoRoute}]
<1>1. RouteEntry(m.recv, m.seq, m.key) \in Entry
  BY RouteEntryType DEF Rreq
<1>2. m.src \in Node /\ table[n] \in [Node -> Entry \cup {NoRoute}]
  BY DEF Rreq, TypeOK
<1>3. InsertRoute(table[n][m.src], RouteEntry(m.recv, m.seq, m.key)) \in Entry
  BY <1>1, <1>2, InsertType
<1> QED
  BY <1>2, <1>3 DEF ReverseRoutes

LEMMA RoutesFromReplyType ==
    ASSUME TypeOK, NEW n \in Node, NEW m \in Rrep
    PROVE  RoutesFromReply(n, m) \in [Node -> Entry \cup {NoRoute}]
<1> DEFINE e == RouteEntry(m.recv, m.seq, m.key)
           first == [table[n] EXCEPT ![m.src] = InsertRoute(@, e)]
<1>1. e \in Entry
  BY RouteEntryType DEF Rrep
<1>2. m.src \in Node /\ m.recv \in Node /\ table[n] \in [Node -> Entry \cup {NoRoute}]
  BY DEF Rrep, TypeOK
<1>3. InsertRoute(table[n][m.src], e) \in Entry
  BY <1>1, <1>2, InsertType
<1>4. first \in [Node -> Entry \cup {NoRoute}]
  BY <1>2, <1>3
<1>5. InsertRoute(first[m.recv], e) \in Entry
  BY <1>1, <1>2, <1>4, InsertType
<1> QED
  BY <1>2, <1>4, <1>5 DEF RoutesFromReply

--------------------------------------------------------------------------
(* Type correctness. *)

LEMMA PacketParts ==
    ASSUME TypeOK, NEW p \in net
    PROVE  p.to \in Node /\ p.msg \in Message
  BY DEF TypeOK, Packet

LEMMA RowUpdateType ==
    ASSUME TypeOK, NEW n \in Node, NEW row \in [Node -> Entry \cup {NoRoute}]
    PROVE  [table EXCEPT ![n] = row] \in [Node -> [Node -> Entry \cup {NoRoute}]]
  BY DEF TypeOK

LEMMA EntryUpdateType ==
    ASSUME TypeOK, NEW n \in Node, NEW x \in Node, NEW e \in Entry \cup {NoRoute}
    PROVE  [table EXCEPT ![n][x] = e] \in [Node -> [Node -> Entry \cup {NoRoute}]]
  BY DEF TypeOK

LEMMA TypeInit == Init => TypeOK
  BY RouteAssumption DEF Init, TypeOK, Phases

LEMMA HelloSendType ==
    ASSUME TypeOK, NEW n \in Node, TeslaHello(n) \/ AuthHello(n)
    PROVE  TypeOK'
<1>1. [type |-> "HELLO", mode |-> "TESLA", src |-> n, key |-> [owner |-> n, epoch |-> 0]]
         \in Message
  BY RouteAssumption DEF Message, Hello, Keys
<1>2. [type |-> "HELLO", mode |-> "AUTH", src |-> n, hash |-> Authenticator(n)] \in Message
  BY ElementType DEF Message, Hello, Authenticator
<1>3. net' \subseteq Packet
  BY <1>1, <1>2, BroadcastType DEF TypeOK, TeslaHello, AuthHello
<1>4. phase' \in [Node -> Phases]
  BY DEF TypeOK, TeslaHello, AuthHello, Phases
<1> QED
  BY <1>3, <1>4 DEF TypeOK, TeslaHello, AuthHello

LEMMA ClockType ==
    ASSUME TypeOK, NEW n \in Node, EndDiscovery(n) \/ DiscloseKey(n)
    PROVE  TypeOK'
<1>1. CASE EndDiscovery(n)
  BY <1>1 DEF TypeOK, EndDiscovery, Phases
<1>2. CASE DiscloseKey(n)
  <2>1. epoch' \in [Node -> 0..MaxEpoch]
    BY <1>2, RouteAssumption DEF TypeOK, DiscloseKey
  <2> QED
    BY <1>2, <2>1 DEF TypeOK, DiscloseKey
<1> QED
  BY <1>1, <1>2

LEMMA InitRouteDiscoveryType ==
    ASSUME TypeOK, NEW w \in Wanted, NEW runs \in {1, 2},
           InitRouteDiscovery(w[1], w[2], runs)
    PROVE  TypeOK'
<1>1. w[1] \in Node /\ w[2] \in Node
  BY RouteAssumption
<1>2. seqNum[w[1]] \in Nat \ {0}
  BY <1>1 DEF TypeOK
<1>3. seqNum' \in [Node -> Nat \ {0}]
  BY <1>1, <1>2 DEF TypeOK, InitRouteDiscovery
<1>4. ASSUME NEW s \in seqNum[w[1]] + 1 .. seqNum[w[1]] + runs
      PROVE  Broadcast(w[1], RequestOf(w[1], w[2], s)) \subseteq Packet
  <2>1. s \in Nat \ {0}
    BY <1>2
  <2> QED
    BY <1>1, <2>1, RequestType, BroadcastType DEF Message
<1>5. net' \subseteq Packet
  BY <1>4 DEF TypeOK, InitRouteDiscovery
<1> QED
  BY <1>3, <1>5 DEF TypeOK, InitRouteDiscovery

LEMMA InitMessageHandlerType ==
    ASSUME TypeOK, NEW p \in net, InitMessageHandler(p)
    PROVE  TypeOK'
<1> DEFINE n == p.to
           m == p.msg
           old == table[n][m.src]
           auth == [inter |-> m.src, seq |-> 0, hash |-> m.hash, key |-> EmptyKey]
<1>1. n \in Node /\ m \in Hello
  BY PacketParts, MessageKinds DEF InitMessageHandler
<1>2. m.src \in Node /\ old \in Entry \cup {NoRoute}
  BY <1>1, HelloKinds DEF TypeOK
<1>3. CASE m.mode = "TESLA"
  <2>1. SetTeslaInfo(old, m.key) \in Entry
    BY <1>1, <1>2, <1>3, HelloKinds, TeslaInfoType
  <2>2. table' = [table EXCEPT ![n][m.src] = SetTeslaInfo(old, m.key)]
    BY <1>3 DEF InitMessageHandler
  <2>3. table' \in [Node -> [Node -> Entry \cup {NoRoute}]]
    BY <1>1, <1>2, <2>1, <2>2, EntryUpdateType
  <2> QED
    BY <2>3 DEF TypeOK, InitMessageHandler
<1>4. CASE m.mode # "TESLA"
  <2>1. auth \in Entry
    BY <1>1, <1>2, <1>4, HelloKinds DEF Entry
  <2>2. InsertRoute(old, auth) \in Entry
    BY <1>2, <2>1, InsertType
  <2>3. table' = [table EXCEPT ![n][m.src] = InsertRoute(old, auth)]
    BY <1>4 DEF InitMessageHandler
  <2>4. table' \in [Node -> [Node -> Entry \cup {NoRoute}]]
    BY <1>1, <1>2, <2>2, <2>3, EntryUpdateType
  <2> QED
    BY <2>4 DEF TypeOK, InitMessageHandler
<1> QED
  BY <1>3, <1>4

LEMMA DropType ==
    ASSUME TypeOK, NEW p \in net,
           IgnoreHello(p) \/ DropRequest(p) \/ DropReply(p) \/ DropError(p)
    PROVE  TypeOK'
  BY DEF TypeOK, IgnoreHello, DropRequest, DropReply, DropError

LEMMA AnswerRequestType ==
    ASSUME TypeOK, NEW p \in net, AnswerRequest(p)
    PROVE  TypeOK'
<1> DEFINE n == p.to
           m == p.msg
<1>1. n \in Node /\ m \in Rreq
  BY PacketParts, MessageKinds DEF AnswerRequest
<1>2. table' \in [Node -> [Node -> Entry \cup {NoRoute}]]
  BY <1>1, ReverseRoutesType, RowUpdateType DEF AnswerRequest
<1>3. ReplyOf(n, m) \in Message
  BY <1>1, ReplyType DEF Message
<1>4. \A to : SendData(n, to, ReplyOf(n, m)) \subseteq Packet
  BY <1>1, <1>3, SendDataType
<1>5. net' \subseteq Packet
  BY <1>4 DEF TypeOK, AnswerRequest
<1> QED
  BY <1>2, <1>5 DEF TypeOK, AnswerRequest

LEMMA RelayEffectType ==
    ASSUME TypeOK, NEW p \in net, RelayEffect(p)
    PROVE  table' \in [Node -> [Node -> Entry \cup {NoRoute}]]
<1> DEFINE n == p.to
           m == p.msg
           new == InsertRoute(table[n][m.src], RouteEntry(m.recv, m.seq, m.key))
<1>1. n \in Node /\ m \in Rreq
  BY PacketParts, MessageKinds DEF RelayEffect
<1>2. m.src \in Node /\ table[n][m.src] \in Entry \cup {NoRoute}
  BY <1>1 DEF Rreq, TypeOK
<1>3. RouteEntry(m.recv, m.seq, m.key) \in Entry
  BY <1>1, RouteEntryType DEF Rreq
<1>4. new \in Entry
  BY <1>2, <1>3, InsertType
<1>5. table' = [table EXCEPT ![n][m.src] = new]
  BY DEF RelayEffect
<1> QED
  BY <1>1, <1>2, <1>4, <1>5, EntryUpdateType

LEMMA RelayRequestType ==
    ASSUME TypeOK, NEW p \in net, RelayRequest(p) \/ ChainExhausted(p)
    PROVE  TypeOK'
<1> DEFINE n == p.to
           m == p.msg
<1>1. n \in Node /\ m \in Rreq
  BY PacketParts, MessageKinds DEF RelayRequest, ChainExhausted, RelayEffect
<1>2. table' \in [Node -> [Node -> Entry \cup {NoRoute}]]
  BY RelayEffectType DEF RelayRequest, ChainExhausted
<1>3. CASE RelayRequest(p)
  <2>1. PICK h \in RelayHashes(n, m.seq, m.hop + 1) :
          \E sent \in Transmissions(n, m, RelayedRequest(n, m, h)) :
             net' = (net \ {p}) \cup sent
    BY <1>3 DEF RelayRequest
  <2>2. m.seq \in Nat /\ m.hop + 1 \in Nat
    BY <1>1 DEF Rreq
  <2>3. h \in Hashes
    BY <1>1, <2>2, RelayHashType
  <2>4. PICK sent \in Transmissions(n, m, RelayedRequest(n, m, h)) :
          net' = (net \ {p}) \cup sent
    BY <2>1
  <2>5. sent \subseteq Packet
    BY <1>1, <2>3, RelayedRequestType, TransmissionType
  <2> QED
    BY <1>2, <1>3, <2>4, <2>5 DEF TypeOK, RelayRequest, RelayEffect
<1>4. CASE ChainExhausted(p)
  BY <1>2, <1>4 DEF TypeOK, ChainExhausted, RelayEffect
<1> QED
  BY <1>3, <1>4

LEMMA ReplyHandlerType ==
    ASSUME TypeOK, NEW p \in net, AcceptReply(p) \/ RelayReply(p)
    PROVE  TypeOK'
<1> DEFINE n == p.to
           m == p.msg
<1>1. n \in Node /\ m \in Rrep
  BY PacketParts, MessageKinds DEF AcceptReply, RelayReply
<1>2. RoutesFromReply(n, m) \in [Node -> Entry \cup {NoRoute}]
  BY <1>1, RoutesFromReplyType
<1>3. CASE AcceptReply(p)
  <2>1. table' \in [Node -> [Node -> Entry \cup {NoRoute}]]
    BY <1>1, <1>2, <1>3, RowUpdateType DEF AcceptReply
  <2> QED
    BY <1>3, <2>1 DEF TypeOK, AcceptReply
<1>4. CASE RelayReply(p)
  <2>1. (IF Known(n, m.src) THEN table[n] ELSE RoutesFromReply(n, m))
           \in [Node -> Entry \cup {NoRoute}]
    BY <1>1, <1>2 DEF TypeOK
  <2>2. table' \in [Node -> [Node -> Entry \cup {NoRoute}]]
    BY <1>1, <1>4, <2>1, RowUpdateType DEF RelayReply
  <2>3. RelayedReply(n, m) \in Message
    BY <1>1, RelayedReplyType DEF Message
  <2>4. \A to : SendData(n, to, RelayedReply(n, m)) \subseteq Packet
    BY <1>1, <2>3, SendDataType
  <2>5. net' \subseteq Packet
    BY <1>4, <2>4 DEF TypeOK, RelayReply
  <2> QED
    BY <1>4, <2>2, <2>5 DEF TypeOK, RelayReply
<1> QED
  BY <1>3, <1>4

LEMMA RouteErrorHandlerType ==
    ASSUME TypeOK, NEW p \in net, RouteErrorHandler(p)
    PROVE  TypeOK'
<1> DEFINE n == p.to
           m == p.msg
<1>1. n \in Node /\ m \in Rerr /\ m \in Message
  BY PacketParts, MessageKinds DEF RouteErrorHandler
<1>2. table' \in [Node -> [Node -> Entry \cup {NoRoute}]]
  BY <1>1, EntryUpdateType DEF RouteErrorHandler, Rerr
<1>3. \A to : SendData(n, to, m) \subseteq Packet
  BY <1>1, SendDataType
<1>4. net' \subseteq Packet
  BY <1>3 DEF TypeOK, RouteErrorHandler
<1> QED
  BY <1>2, <1>4 DEF TypeOK, RouteErrorHandler

LEMMA TypeStep == TypeOK /\ [Next]_vars => TypeOK'
<1> SUFFICES ASSUME TypeOK, [Next]_vars PROVE TypeOK'
  OBVIOUS
<1>1. CASE UNCHANGED vars
  BY <1>1 DEF TypeOK, vars
<1>2. ASSUME NEW n \in Node,
             TeslaHello(n) \/ AuthHello(n) \/ EndDiscovery(n) \/ DiscloseKey(n)
      PROVE  TypeOK'
  BY <1>2, HelloSendType, ClockType
<1>3. ASSUME NEW w \in Wanted, NEW runs \in {1, 2}, InitRouteDiscovery(w[1], w[2], runs)
      PROVE  TypeOK'
  BY <1>3, InitRouteDiscoveryType
<1>4. ASSUME NEW p \in net, Receive(p)
      PROVE  TypeOK'
  BY <1>4, DropType, InitMessageHandlerType, AnswerRequestType, RelayRequestType,
     ReplyHandlerType, RouteErrorHandlerType DEF Receive, Settle
<1> QED
  BY <1>1, <1>2, <1>3, <1>4 DEF Next, OwnStep

(* Type correctness: no handler of initMessageHandler, routeRequestHandler, *)
(* routeReplyHandler and routeErrorHandler leaves a malformed entry behind  *)
(* or sends a malformed message.                                            *)
THEOREM TypeCorrect == Spec => []TypeOK
  BY TypeInit, TypeStep, PTL DEF Spec

(***************************************************************************)
(* Safety.  The properties rest on two facts about one step: what it can   *)
(* enter in a routing table (StepEntries) and what it can send             *)
(* (StepPackets).                                                          *)
(***************************************************************************)

(* What a step can enter in a table. *)

TeslaEntry(n, x, e) ==
    \E p \in net :
        /\ p.to = n /\ p.msg.type = "HELLO" /\ p.msg.mode = "TESLA" /\ p.msg.src = x
        /\ p.msg.key \in Keys /\ phase[n] # "done"
        /\ e = SetTeslaInfo(table[n][x], p.msg.key)

GreetingEntry(n, x, e) ==
    \E p \in net :
        /\ p.to = n /\ p.msg.type = "HELLO" /\ p.msg.mode = "AUTH" /\ p.msg.src = x
        /\ phase[n] # "done"
        /\ e = InsertRoute(table[n][x], [inter |-> x, seq |-> 0, hash |-> p.msg.hash,
                                         key |-> EmptyKey])

RoutedEntry(n, x, e) ==
    \E p \in net :
        /\ p.to = n /\ Routed(p) /\ x \in {p.msg.src, p.msg.recv}
        /\ p.msg.type = "RREQ" => x = p.msg.src /\ RequestAccepted(n, p.msg)
        /\ e = InsertRoute(table[n][x], RouteEntry(p.msg.recv, p.msg.seq, p.msg.key))

Removed(e) == e = NoRoute /\ \E p \in net : p.msg.type = "RERR"

EnteredBy(n, x, e) ==
    \/ e = table[n][x]
    \/ TeslaEntry(n, x, e) \/ GreetingEntry(n, x, e) \/ RoutedEntry(n, x, e)
    \/ Removed(e)

LEMMA InsertTwice ==
    ASSUME NEW old \in Entry \cup {NoRoute}, NEW e \in Entry
    PROVE  InsertRoute(InsertRoute(old, e), e) = InsertRoute(old, e)
  BY RouteAssumption DEF InsertRoute, Entry

LEMMA HelloEntries ==
    ASSUME TypeOK, NEW p \in net, InitMessageHandler(p), NEW n \in Node, NEW x \in Node
    PROVE  EnteredBy(n, x, table'[n][x])
<1>1. p.msg \in Hello /\ p.to \in Node
  BY PacketParts, MessageKinds DEF InitMessageHandler
<1>2. CASE n # p.to \/ x # p.msg.src
  BY <1>1, <1>2 DEF TypeOK, InitMessageHandler, EnteredBy
<1>3. CASE n = p.to /\ x = p.msg.src /\ p.msg.mode = "TESLA"
  <2>1. table'[n][x] = SetTeslaInfo(table[n][x], p.msg.key)
    BY <1>1, <1>3 DEF TypeOK, InitMessageHandler
  <2>2. p.msg.type = "HELLO" /\ phase[p.to] # "done"
    BY DEF InitMessageHandler
  <2> QED
    BY <1>1, <1>3, <2>1, <2>2, HelloKinds DEF EnteredBy, TeslaEntry
<1>4. CASE n = p.to /\ x = p.msg.src /\ p.msg.mode # "TESLA"
  <2>1. table'[n][x] = InsertRoute(table[n][x], [inter |-> x, seq |-> 0,
                                      hash |-> p.msg.hash, key |-> EmptyKey])
    BY <1>1, <1>4 DEF TypeOK, InitMessageHandler
  <2>2. p.msg.type = "HELLO" /\ p.msg.mode = "AUTH" /\ phase[p.to] # "done"
    BY <1>1, <1>4, HelloKinds DEF InitMessageHandler
  <2> QED
    BY <1>4, <2>1, <2>2 DEF EnteredBy, GreetingEntry
<1> QED
  BY <1>2, <1>3, <1>4

LEMMA RequestEntries ==
    ASSUME TypeOK, NEW p \in net, AnswerRequest(p) \/ RelayEffect(p),
           NEW n \in Node, NEW x \in Node
    PROVE  EnteredBy(n, x, table'[n][x])
<1> DEFINE e == RouteEntry(p.msg.recv, p.msg.seq, p.msg.key)
<1>1. p.msg \in Rreq /\ p.to \in Node /\ p.msg.src \in Node /\ Routed(p)
  BY PacketParts, MessageKinds DEF AnswerRequest, RelayEffect, Rreq, Routed
<1>2. RequestAccepted(p.to, p.msg)
  BY DEF AnswerRequest, RelayEffect
<1>3. table'[n][x] = table[n][x]
        \/ (n = p.to /\ x = p.msg.src /\ table'[n][x] = InsertRoute(table[n][x], e))
  <2>1. table \in [Node -> [Node -> Entry \cup {NoRoute}]]
    BY DEF TypeOK
  <2>2. CASE AnswerRequest(p)
    <3>1. table' = [table EXCEPT ![p.to] = ReverseRoutes(p.to, p.msg)]
      BY <2>2 DEF AnswerRequest
    <3> QED
      BY <1>1, <2>1, <3>1 DEF ReverseRoutes
  <2>3. CASE RelayEffect(p)
    <3>1. table' = [table EXCEPT ![p.to][p.msg.src] = InsertRoute(@, e)]
      BY <2>3 DEF RelayEffect
    <3> QED
      BY <1>1, <2>1, <3>1
  <2> QED
    BY <2>2, <2>3
<1> QED
  BY <1>1, <1>2, <1>3 DEF EnteredBy, RoutedEntry

LEMMA ReplyEntries ==
    ASSUME TypeOK, NEW p \in net, AcceptReply(p) \/ RelayReply(p),
           NEW n \in Node, NEW x \in Node
    PROVE  EnteredBy(n, x, table'[n][x])
<1> DEFINE m == p.msg
           e == RouteEntry(m.recv, m.seq, m.key)
           first == [table[p.to] EXCEPT ![m.src] = InsertRoute(@, e)]
<1>1. /\ m \in Rrep /\ p.to \in Node /\ m.src \in Node /\ m.recv \in Node
      /\ Routed(p) /\ m.type = "RREP"
  BY PacketParts, MessageKinds DEF AcceptReply, RelayReply, Rrep, Routed
<1>2. e \in Entry
  BY <1>1, RouteEntryType DEF Rrep
<1>3. table[p.to] \in [Node -> Entry \cup {NoRoute}]
  BY <1>1 DEF TypeOK
<1>4. RoutesFromReply(p.to, m) = [first EXCEPT ![m.recv] = InsertRoute(@, e)]
  BY DEF RoutesFromReply
<1>5. \A y \in Node : RoutesFromReply(p.to, m)[y] =
         IF y \in {m.src, m.recv} THEN InsertRoute(table[p.to][y], e) ELSE table[p.to][y]
  <2> SUFFICES ASSUME NEW y \in Node
               PROVE  RoutesFromReply(p.to, m)[y] =
                        IF y \in {m.src, m.recv} THEN InsertRoute(table[p.to][y], e)
                        ELSE table[p.to][y]
    OBVIOUS
  <2>1. table[p.to][y] \in Entry \cup {NoRoute}
    BY <1>3
  <2>2. InsertRoute(InsertRoute(table[p.to][y], e), e) = InsertRoute(table[p.to][y], e)
    BY <1>2, <2>1, InsertTwice
  <2>3. first \in [Node -> {first[z] : z \in Node}] /\ DOMAIN first = Node
    BY <1>3
  <2>4. first[y] = IF y = m.src THEN InsertRoute(table[p.to][y], e) ELSE table[p.to][y]
    BY <1>1, <1>3
  <2>5. RoutesFromReply(p.to, m)[y] = IF y = m.recv THEN InsertRoute(first[y], e) ELSE first[y]
    BY <1>1, <1>4, <2>3
  <2> QED
    BY <2>2, <2>4, <2>5
<1>6. \/ table'[n][x] = table[n][x]
      \/ n = p.to /\ table'[n][x] = RoutesFromReply(p.to, m)[x]
  BY <1>1 DEF TypeOK, AcceptReply, RelayReply
<1> QED
  BY <1>1, <1>5, <1>6 DEF EnteredBy, RoutedEntry

LEMMA ErrorEntries ==
    ASSUME TypeOK, NEW p \in net, RouteErrorHandler(p), NEW n \in Node, NEW x \in Node
    PROVE  EnteredBy(n, x, table'[n][x])
<1>1. p.msg \in Rerr /\ p.to \in Node /\ p.msg.ret \in Node
  BY PacketParts, MessageKinds DEF RouteErrorHandler, Rerr
<1>2. table'[n][x] \in {table[n][x], NoRoute}
  BY <1>1 DEF TypeOK, RouteErrorHandler
<1> QED
  BY <1>2 DEF EnteredBy, Removed, RouteErrorHandler

LEMMA StepEntries ==
    ASSUME TypeOK, [Next]_vars, NEW n \in Node, NEW x \in Node
    PROVE  EnteredBy(n, x, table'[n][x])
<1>1. CASE UNCHANGED table
  BY <1>1 DEF EnteredBy
<1>2. ASSUME NEW p \in net, Receive(p)
      PROVE  EnteredBy(n, x, table'[n][x])
  <2>1. CASE IgnoreHello(p) \/ DropRequest(p) \/ DropReply(p) \/ DropError(p)
    BY <1>1, <2>1 DEF IgnoreHello, DropRequest, DropReply, DropError
  <2>2. CASE InitMessageHandler(p)
    BY <2>2, HelloEntries
  <2>3. CASE AnswerRequest(p) \/ RelayRequest(p) \/ ChainExhausted(p)
    BY <2>3, RequestEntries DEF RelayRequest, ChainExhausted
  <2>4. CASE AcceptReply(p) \/ RelayReply(p)
    BY <2>4, ReplyEntries
  <2>5. CASE RouteErrorHandler(p)
    BY <2>5, ErrorEntries
  <2> QED
    BY <1>2, <2>1, <2>2, <2>3, <2>4, <2>5 DEF Receive, Settle
<1> QED
  BY <1>1, <1>2 DEF Next, OwnStep, vars, TeslaHello, AuthHello, EndDiscovery, DiscloseKey,
                    InitRouteDiscovery

--------------------------------------------------------------------------
(* What a step can send.  The conjuncts about the table are for the proof  *)
(* that replies find their way back.                                       *)

HelloSent(n, q) ==
    /\ q.msg.type = "HELLO" /\ q.msg.src = n
    /\ q.msg.mode = "TESLA" => q.msg.key.owner = n
    /\ q.msg.mode = "AUTH" => q.msg.hash = Authenticator(n)

RequestSent(n, q) == \E x \in Node, s \in Nat \ {0} : q.msg = RequestOf(n, x, s)

ReplySent(n, q) ==
    \E p \in net :
        /\ p.to = n /\ p.msg \in Rreq /\ q.msg = ReplyOf(n, p.msg) /\ p.msg.src # n
        /\ \/ q.to = p.msg.src
           \/ table'[n][p.msg.src] # NoRoute /\ q.to = table'[n][p.msg.src].inter

RequestRelayed(n, q) ==
    \E p \in net :
        /\ p.to = n /\ p.msg \in Rreq
        /\ \E h \in RelayHashes(n, p.msg.seq, p.msg.hop + 1) :
              q.msg = RelayedRequest(n, p.msg, h)
        /\ table'[n][p.msg.src] # NoRoute

ReplyRelayed(n, q) ==
    \E p \in net :
        /\ p.to = n /\ p.msg \in Rrep /\ q.msg = RelayedReply(n, p.msg) /\ p.msg.dest # n
        /\ table'[n][p.msg.src] # NoRoute
        /\ table'[n][p.msg.dest] # NoRoute /\ q.to = table'[n][p.msg.dest].inter

ErrorSent(n, q) ==
    /\ q.msg.type = "RERR"
    /\ \/ TriggerRerr /\ \E m \in Rreq : m.src # n /\ q.msg = RouteErrorOf(n, m)
       \/ \E p \in net : q.msg = p.msg

SentBy(n, q) ==
    /\ q.to \in Neighbours(n)
    /\ \/ HelloSent(n, q) \/ RequestSent(n, q) \/ ReplySent(n, q)
       \/ RequestRelayed(n, q) \/ ReplyRelayed(n, q) \/ ErrorSent(n, q)

Sent(q) == q \in net \/ \E n \in Node : SentBy(n, q)

LEMMA AnswerSends ==
    ASSUME TypeOK, NEW p \in net, AnswerRequest(p), NEW q \in net'
    PROVE  Sent(q)
<1> DEFINE n == p.to
           m == p.msg
           routes == ReverseRoutes(n, m)
           nextHop == IF m.hop = 1 THEN m.src ELSE routes[m.src].inter
<1>1. m \in Rreq /\ n \in Node /\ m.src \in Node /\ m.src # n
  BY PacketParts, MessageKinds DEF AnswerRequest, RequestAccepted, Rreq
<1>2. table'[n] = routes
  BY <1>1 DEF TypeOK, AnswerRequest
<1>3. q \in net \/ (q \in SendData(n, nextHop, ReplyOf(n, m))
                   /\ (m.hop = 1 \/ routes[m.src] # NoRoute))
  BY DEF AnswerRequest
<1>4. CASE q \in SendData(n, nextHop, ReplyOf(n, m)) /\ (m.hop = 1 \/ routes[m.src] # NoRoute)
  <2>1. q.to = nextHop /\ nextHop \in Neighbours(n) /\ q.msg = ReplyOf(n, m)
    BY <1>4 DEF SendData
  <2>2. ReplySent(n, q)
    BY <1>1, <1>2, <1>4, <2>1 DEF ReplySent
  <2> QED
    BY <1>1, <2>1, <2>2 DEF Sent, SentBy
<1> QED
  BY <1>3, <1>4 DEF Sent

LEMMA RelaySends ==
    ASSUME TypeOK, NEW p \in net, RelayRequest(p), NEW q \in net'
    PROVE  Sent(q)
<1> DEFINE n == p.to
           m == p.msg
           new == InsertRoute(table[n][m.src], RouteEntry(m.recv, m.seq, m.key))
<1>1. m \in Rreq /\ n \in Node /\ m.src \in Node
  BY PacketParts, MessageKinds DEF RelayRequest, RelayEffect, Rreq
<1>2. table'[n][m.src] = new
  BY <1>1 DEF TypeOK, RelayRequest, RelayEffect
<1>3. new # NoRoute
  <2>1. RouteEntry(m.recv, m.seq, m.key) \in Entry
    BY <1>1, RouteEntryType DEF Rreq
  <2>2. table[n][m.src] \in Entry \cup {NoRoute}
    BY <1>1 DEF TypeOK
  <2>3. new \in Entry
    BY <2>1, <2>2, InsertType
  <2> QED
    BY <2>3, RouteAssumption
<1>4. PICK h \in RelayHashes(n, m.seq, m.hop + 1) :
         \E sent \in Transmissions(n, m, RelayedRequest(n, m, h)) : net' = (net \ {p}) \cup sent
  BY DEF RelayRequest
<1> DEFINE r == RelayedRequest(n, m, h)
<1>5. \/ q \in net
      \/ q.to \in Neighbours(n) /\ q.msg = r
      \/ TriggerRerr /\ q.to \in Neighbours(n) /\ q.msg = RouteErrorOf(n, m)
  BY <1>4 DEF Transmissions, Broadcast, SendData
<1>6. ASSUME q.to \in Neighbours(n), q.msg = r PROVE Sent(q)
  <2>1. RequestRelayed(n, q)
    BY <1>1, <1>2, <1>3, <1>6 DEF RequestRelayed
  <2> QED
    BY <1>1, <1>6, <2>1 DEF Sent, SentBy
<1>7. ASSUME TriggerRerr, q.to \in Neighbours(n), q.msg = RouteErrorOf(n, m) PROVE Sent(q)
  <2>1. m.src # n
    BY DEF RelayRequest, RelayEffect, RequestAccepted
  <2>2. ErrorSent(n, q)
    BY <1>1, <1>7, <2>1 DEF ErrorSent, RouteErrorOf
  <2> QED
    BY <1>1, <1>7, <2>2 DEF Sent, SentBy
<1> QED
  BY <1>5, <1>6, <1>7 DEF Sent

LEMMA ReplySends ==
    ASSUME TypeOK, NEW p \in net, RelayReply(p), NEW q \in net'
    PROVE  Sent(q)
<1> DEFINE n == p.to
           m == p.msg
           routes == IF Known(n, m.src) THEN table[n] ELSE RoutesFromReply(n, m)
<1>1. /\ m \in Rrep /\ n \in Node /\ m.src \in Node /\ m.recv \in Node
      /\ m.dest \in Node /\ m.dest # n
  BY PacketParts, MessageKinds DEF RelayReply, Rrep
<1>2. table'[n] = routes
  BY <1>1 DEF TypeOK, RelayReply
<1>3. routes[m.src] # NoRoute
  <2>1. table[n] \in [Node -> Entry \cup {NoRoute}]
    BY <1>1 DEF TypeOK
  <2>2. RoutesFromReply(n, m)[m.src] # NoRoute
    <3> DEFINE e == RouteEntry(m.recv, m.seq, m.key)
               first == [table[n] EXCEPT ![m.src] = InsertRoute(@, e)]
    <3>1. e \in Entry
      BY <1>1, RouteEntryType DEF Rrep
    <3>2. InsertRoute(table[n][m.src], e) \in Entry
      BY <1>1, <2>1, <3>1, InsertType
    <3>3. first[m.src] \in Entry /\ DOMAIN first = Node
      BY <1>1, <2>1, <3>2
    <3>4. InsertRoute(first[m.src], e) \in Entry
      BY <3>1, <3>3, InsertType
    <3>5. RoutesFromReply(n, m) = [first EXCEPT ![m.recv] = InsertRoute(@, e)]
      BY DEF RoutesFromReply
    <3>6. RoutesFromReply(n, m)[m.src] \in Entry
      BY <1>1, <3>3, <3>4, <3>5
    <3> QED
      BY <3>6, RouteAssumption
  <2> QED
    BY <2>2 DEF Known
<1>4. q \in net \/ (q \in SendData(n, routes[m.dest].inter, RelayedReply(n, m))
                   /\ routes[m.dest] # NoRoute)
  BY DEF RelayReply
<1>5. CASE q \in SendData(n, routes[m.dest].inter, RelayedReply(n, m))
             /\ routes[m.dest] # NoRoute
  <2>1. q.to = routes[m.dest].inter /\ q.to \in Neighbours(n) /\ q.msg = RelayedReply(n, m)
    BY <1>5 DEF SendData
  <2>2. ReplyRelayed(n, q)
    BY <1>1, <1>2, <1>3, <1>5, <2>1 DEF ReplyRelayed
  <2> QED
    BY <1>1, <2>1, <2>2 DEF Sent, SentBy
<1> QED
  BY <1>4, <1>5 DEF Sent

LEMMA ErrorSends ==
    ASSUME TypeOK, NEW p \in net, RouteErrorHandler(p), NEW q \in net'
    PROVE  Sent(q)
<1>1. p.to \in Node /\ p.msg.type = "RERR"
  BY PacketParts DEF RouteErrorHandler
<1>2. q \in net \/ (q.to \in Neighbours(p.to) /\ q.msg = p.msg)
  BY DEF RouteErrorHandler, SendData
<1>3. ASSUME q.to \in Neighbours(p.to), q.msg = p.msg PROVE Sent(q)
  BY <1>1, <1>3 DEF Sent, SentBy, ErrorSent
<1> QED
  BY <1>2, <1>3 DEF Sent

LEMMA StepPackets ==
    ASSUME TypeOK, [Next]_vars, NEW q \in net'
    PROVE  Sent(q)
<1>1. CASE net' \subseteq net
  BY <1>1 DEF Sent
<1>2. ASSUME NEW n \in Node, TeslaHello(n) \/ AuthHello(n) PROVE Sent(q)
  <2>1. q \in net \/ (q.to \in Neighbours(n) /\ HelloSent(n, q))
    BY <1>2 DEF TeslaHello, AuthHello, Broadcast, HelloSent
  <2> QED
    BY <2>1 DEF Sent, SentBy
<1>3. ASSUME NEW w \in Wanted, NEW runs \in {1, 2}, InitRouteDiscovery(w[1], w[2], runs)
      PROVE  Sent(q)
  <2>1. w[1] \in Node /\ w[2] \in Node /\ seqNum[w[1]] \in Nat \ {0}
    BY RouteAssumption DEF TypeOK
  <2>2. \/ q \in net
        \/ \E s \in seqNum[w[1]] + 1 .. seqNum[w[1]] + runs :
              q \in Broadcast(w[1], RequestOf(w[1], w[2], s))
    BY <1>3 DEF InitRouteDiscovery
  <2>3. \A s \in seqNum[w[1]] + 1 .. seqNum[w[1]] + runs : s \in Nat \ {0}
    BY <2>1
  <2>4. q \in net \/ (q.to \in Neighbours(w[1]) /\ RequestSent(w[1], q))
    BY <2>1, <2>2, <2>3 DEF Broadcast, RequestSent
  <2> QED
    BY <2>1, <2>4 DEF Sent, SentBy
<1>4. ASSUME NEW p \in net, Receive(p) PROVE Sent(q)
  <2>1. CASE IgnoreHello(p) \/ InitMessageHandler(p) \/ DropRequest(p) \/ ChainExhausted(p)
               \/ DropReply(p) \/ AcceptReply(p) \/ DropError(p)
    BY <1>1, <2>1 DEF IgnoreHello, InitMessageHandler, DropRequest, ChainExhausted,
                      DropReply, AcceptReply, DropError
  <2> QED
    BY <1>4, <2>1, AnswerSends, RelaySends, ReplySends, ErrorSends DEF Receive, Settle
<1> QED
  BY <1>1, <1>2, <1>3, <1>4 DEF Next, OwnStep, vars, EndDiscovery, DiscloseKey

--------------------------------------------------------------------------
(* The first invariant: what is on the air and in the tables belongs to    *)
(* the hash chains.  A routed message carries the element of its           *)
(* transmitter's chain for its sequence number and hop count, an AUTH      *)
(* hello its sender's authenticator, and so does the entry it made.        *)

HashIsChained(m) ==
    /\ m.type \in {"RREQ", "RREP"} =>
          m.hash \in {Garbage, Element(m.recv, ChainIndex(m.seq, m.hop))}
    /\ m.type = "HELLO" /\ m.mode = "AUTH" => m.hash = Authenticator(m.src)

HashBelongs(x, e) == e = NoRoute \/ e.hash \in {NoHash, Authenticator(x)}

ChainInv ==
    /\ \A p \in net : HashIsChained(p.msg)
    /\ \A n, x \in Node : HashBelongs(x, table[n][x])

LEMMA InsertedHash ==
    ASSUME NEW x, NEW old \in Entry \cup {NoRoute}, NEW e \in Entry,
           HashBelongs(x, old), e.hash \in {NoHash, Authenticator(x)}
    PROVE  HashBelongs(x, InsertRoute(old, e))
  BY DEF HashBelongs, InsertRoute, Entry

LEMMA ChainInvEntries ==
    ASSUME TypeOK, ChainInv, NEW n \in Node, NEW x \in Node, NEW e, EnteredBy(n, x, e)
    PROVE  HashBelongs(x, e)
<1>1. table[n][x] \in Entry \cup {NoRoute} /\ HashBelongs(x, table[n][x])
  BY DEF TypeOK, ChainInv
<1>2. CASE TeslaEntry(n, x, e)
  BY <1>1, <1>2 DEF TeslaEntry, SetTeslaInfo, DefaultEntry, HashBelongs, Entry
<1>3. CASE GreetingEntry(n, x, e)
  <2>1. PICK p \in net :
          /\ p.to = n /\ p.msg.type = "HELLO" /\ p.msg.mode = "AUTH" /\ p.msg.src = x
          /\ e = InsertRoute(table[n][x], [inter |-> x, seq |-> 0, hash |-> p.msg.hash,
                                           key |-> EmptyKey])
    BY <1>3 DEF GreetingEntry
  <2> DEFINE g == [inter |-> x, seq |-> 0, hash |-> p.msg.hash, key |-> EmptyKey]
  <2>2. g.hash = Authenticator(x) /\ g.hash \in Hashes
    BY <2>1, ElementType DEF ChainInv, HashIsChained, Authenticator
  <2>3. g \in Entry
    BY <2>2 DEF Entry
  <2> QED
    BY <1>1, <2>1, <2>2, <2>3, InsertedHash
<1>4. CASE RoutedEntry(n, x, e)
  <2>1. PICK p \in net :
          /\ p.to = n /\ Routed(p) /\ x \in {p.msg.src, p.msg.recv}
          /\ e = InsertRoute(table[n][x], RouteEntry(p.msg.recv, p.msg.seq, p.msg.key))
    BY <1>4 DEF RoutedEntry
  <2>2. p.msg \in Rreq \cup Rrep
    BY <2>1, PacketParts, MessageKinds DEF Routed
  <2>3. RouteEntry(p.msg.recv, p.msg.seq, p.msg.key) \in Entry
    BY <2>2, RouteEntryType DEF Rreq, Rrep
  <2>4. RouteEntry(p.msg.recv, p.msg.seq, p.msg.key).hash = NoHash
    BY DEF RouteEntry
  <2> QED
    BY <1>1, <2>1, <2>3, <2>4, InsertedHash
<1> QED
  BY <1>1, <1>2, <1>3, <1>4 DEF EnteredBy, Removed, HashBelongs

LEMMA ChainInvPackets ==
    ASSUME TypeOK, ChainInv, NEW n \in Node, NEW q, SentBy(n, q)
    PROVE  HashIsChained(q.msg)
<1>1. CASE HelloSent(n, q)
  BY <1>1 DEF HelloSent, HashIsChained
<1>2. CASE RequestSent(n, q)
  BY <1>2 DEF RequestSent, RequestOf, HashIsChained
<1>3. CASE ReplySent(n, q)
  BY <1>3 DEF ReplySent, ReplyOf, HashIsChained
<1>4. CASE RequestRelayed(n, q)
  <2>1. PICK p \in net, h \in Hashes :
          /\ p.msg \in Rreq /\ q.msg = RelayedRequest(n, p.msg, h)
          /\ h \in {Garbage, Element(n, ChainIndex(p.msg.seq, p.msg.hop + 1))}
    <3>1. PICK p \in net : p.msg \in Rreq /\
             \E h \in RelayHashes(n, p.msg.seq, p.msg.hop + 1) :
                q.msg = RelayedRequest(n, p.msg, h)
      BY <1>4 DEF RequestRelayed
    <3>2. p.msg.seq \in Nat /\ p.msg.hop + 1 \in Nat
      BY <3>1 DEF Rreq
    <3>3. RelayHashes(n, p.msg.seq, p.msg.hop + 1) \subseteq Hashes
      BY <3>2, RelayHashType
    <3> QED
      BY <3>1, <3>3 DEF RelayHashes
  <2>2. /\ q.msg.type = "RREQ" /\ q.msg.hash = h /\ q.msg.recv = n
        /\ q.msg.seq = p.msg.seq /\ q.msg.hop = p.msg.hop + 1
    BY <2>1 DEF RelayedRequest, Rreq
  <2> QED
    BY <2>1, <2>2 DEF HashIsChained
<1>5. CASE ReplyRelayed(n, q)
  <2>1. PICK p \in net : p.msg \in Rrep /\ q.msg = RelayedReply(n, p.msg)
    BY <1>5 DEF ReplyRelayed
  <2>2. /\ q.msg.type = "RREP" /\ q.msg.recv = n
        /\ q.msg.hash = Element(n, ChainIndex(p.msg.seq, p.msg.hop + 1))
        /\ q.msg.seq = p.msg.seq /\ q.msg.hop = p.msg.hop + 1
    BY <2>1 DEF RelayedReply, Rrep
  <2> QED
    BY <2>2 DEF HashIsChained
<1>6. CASE ErrorSent(n, q)
  BY <1>6 DEF ErrorSent, HashIsChained
<1> QED
  BY <1>1, <1>2, <1>3, <1>4, <1>5, <1>6 DEF SentBy

LEMMA ChainInvStep == TypeOK /\ ChainInv /\ [Next]_vars => ChainInv'
<1> SUFFICES ASSUME TypeOK, ChainInv, [Next]_vars PROVE ChainInv'
  OBVIOUS
<1>1. ASSUME NEW q \in net' PROVE HashIsChained(q.msg)
  BY StepPackets, ChainInvPackets DEF Sent, ChainInv
<1>2. ASSUME NEW n \in Node, NEW x \in Node PROVE HashBelongs(x, table'[n][x])
  BY StepEntries, ChainInvEntries
<1> QED
  BY <1>1, <1>2 DEF ChainInv, HashIsChained, HashBelongs

LEMMA ChainInvInit == Init => ChainInv
  BY DEF Init, ChainInv, HashBelongs

LEMMA ChainInvSuffices == TypeOK /\ ChainInv => AuthenticRelayAccepted
<1> SUFFICES ASSUME TypeOK, ChainInv, NEW p \in net, Routed(p), p.msg.hash # Garbage,
                    table[p.to][p.msg.recv] # NoRoute,
                    table[p.to][p.msg.recv].hash # NoHash
             PROVE  HashVerifies(p.msg, table[p.to][p.msg.recv])
  BY DEF AuthenticRelayAccepted
<1>1. p.to \in Node /\ p.msg \in Rreq \cup Rrep
  BY PacketParts, MessageKinds DEF Routed
<1>2. p.msg.recv \in Node /\ p.msg.seq \in Nat \ {0} /\ p.msg.hop \in Nat
  BY <1>1 DEF Rreq, Rrep
<1>3. p.msg.hash = Element(p.msg.recv, ChainIndex(p.msg.seq, p.msg.hop))
  BY DEF ChainInv, HashIsChained, Routed
<1>4. table[p.to][p.msg.recv].hash = Authenticator(p.msg.recv)
  BY <1>1, <1>2 DEF ChainInv, HashBelongs
<1> QED
  BY <1>2, <1>3, <1>4, ChainArithmetic DEF HashVerifies

(* A drone that holds the transmitter's authenticator never rejects a      *)
(* route request or reply for its hash (drone.cpp 1178-1194, 1541-1555):   *)
(* true for every max_hop_count and max_seq_count, however far the chain   *)
(* is used up.                                                             *)
THEOREM HashNeverRejected == Spec => []AuthenticRelayAccepted
  BY TypeCorrect, ChainInvInit, ChainInvStep, ChainInvSuffices, PTL DEF Spec

--------------------------------------------------------------------------
(* The second invariant: a message names as its transmitter a drone in     *)
(* range of the one it is for.                                             *)

FromNeighbour(p) ==
    /\ p.msg.type = "HELLO" => p.msg.src \in Neighbours(p.to)
    /\ Routed(p) => p.msg.recv \in Neighbours(p.to)

InRange(n, e) == e = NoRoute \/ e.inter \in Neighbours(n) \cup {NoAddr}

RangeInv ==
    /\ \A p \in net : FromNeighbour(p)
    /\ \A n, x \in Node : InRange(n, table[n][x])

(* The first hop of an entry is the one the inserted entry brings. *)
LEMMA InsertedHop ==
    ASSUME NEW old, NEW e \in Entry
    PROVE  InsertRoute(old, e).inter = e.inter
  BY DEF InsertRoute, Entry

LEMMA EntryHop ==
    ASSUME TypeOK, NEW n \in Node, NEW x \in Node, NEW e, EnteredBy(n, x, e)
    PROVE  \/ e = NoRoute
           \/ table[n][x] # NoRoute /\ e.inter = table[n][x].inter
           \/ e.inter = NoAddr
           \/ \E p \in net : /\ p.to = n /\ p.msg.type = "HELLO" /\ p.msg.src = x
                            /\ e.inter = x
           \/ \E p \in net : /\ p.to = n /\ Routed(p) /\ x \in {p.msg.src, p.msg.recv}
                            /\ e.inter = p.msg.recv
<1>1. table[n][x] \in Entry \cup {NoRoute}
  BY DEF TypeOK
<1>2. CASE TeslaEntry(n, x, e)
  BY <1>1, <1>2 DEF TeslaEntry, SetTeslaInfo, DefaultEntry, Entry
<1>3. CASE GreetingEntry(n, x, e)
  <2>1. PICK p \in net :
          /\ p.to = n /\ p.msg.type = "HELLO" /\ p.msg.mode = "AUTH" /\ p.msg.src = x
          /\ e = InsertRoute(table[n][x], [inter |-> x, seq |-> 0, hash |-> p.msg.hash,
                                           key |-> EmptyKey])
    BY <1>3 DEF GreetingEntry
  <2>2. p.msg \in Hello
    BY <2>1, PacketParts, MessageKinds
  <2>3. p.msg.hash \in Hashes
    BY <2>1, <2>2, HelloKinds
  <2>4. [inter |-> x, seq |-> 0, hash |-> p.msg.hash, key |-> EmptyKey] \in Entry
    BY <2>3 DEF Entry
  <2> QED
    BY <2>1, <2>4, InsertedHop
<1>4. CASE RoutedEntry(n, x, e)
  <2>1. PICK p \in net :
          /\ p.to = n /\ Routed(p) /\ x \in {p.msg.src, p.msg.recv}
          /\ e = InsertRoute(table[n][x], RouteEntry(p.msg.recv, p.msg.seq, p.msg.key))
    BY <1>4 DEF RoutedEntry
  <2>2. p.msg \in Rreq \cup Rrep
    BY <2>1, PacketParts, MessageKinds DEF Routed
  <2>3. RouteEntry(p.msg.recv, p.msg.seq, p.msg.key) \in Entry
    BY <2>2, RouteEntryType DEF Rreq, Rrep
  <2>4. e.inter = p.msg.recv
    BY <2>1, <2>3, InsertedHop DEF RouteEntry
  <2> QED
    BY <2>1, <2>4
<1> QED
  BY <1>2, <1>3, <1>4 DEF EnteredBy, Removed

LEMMA TransmitterOf ==
    ASSUME NEW n \in Node, NEW q, SentBy(n, q)
    PROVE  /\ q.msg.type = "HELLO" => q.msg.src = n
           /\ Routed(q) => q.msg.recv = n
<1>1. CASE HelloSent(n, q)
  BY <1>1 DEF HelloSent, Routed
<1>2. CASE RequestSent(n, q)
  BY <1>2 DEF RequestSent, RequestOf
<1>3. CASE ReplySent(n, q)
  BY <1>3 DEF ReplySent, ReplyOf
<1>4. CASE RequestRelayed(n, q)
  BY <1>4 DEF RequestRelayed, RelayedRequest, Rreq
<1>5. CASE ReplyRelayed(n, q)
  BY <1>5 DEF ReplyRelayed, RelayedReply, Rrep
<1>6. CASE ErrorSent(n, q)
  BY <1>6 DEF ErrorSent, Routed
<1> QED
  BY <1>1, <1>2, <1>3, <1>4, <1>5, <1>6 DEF SentBy

LEMMA RangeInvStep == TypeOK /\ RangeInv /\ [Next]_vars => RangeInv'
<1> SUFFICES ASSUME TypeOK, RangeInv, [Next]_vars PROVE RangeInv'
  OBVIOUS
<1>1. ASSUME NEW q \in net' PROVE FromNeighbour(q)
  <2>1. CASE q \in net
    BY <2>1 DEF RangeInv
  <2>2. ASSUME NEW n \in Node, SentBy(n, q) PROVE FromNeighbour(q)
    <3>1. n \in Neighbours(q.to)
      BY <2>2, RouteAssumption DEF SentBy, Neighbours
    <3> QED
      BY <2>2, <3>1, TransmitterOf DEF FromNeighbour
  <2> QED
    BY <2>1, <2>2, StepPackets DEF Sent
<1>2. ASSUME NEW n \in Node, NEW x \in Node PROVE InRange(n, table'[n][x])
  BY StepEntries, EntryHop DEF RangeInv, InRange, FromNeighbour
<1> QED
  BY <1>1, <1>2 DEF RangeInv, FromNeighbour, InRange, Routed

LEMMA RangeInvInit == Init => RangeInv
  BY DEF Init, RangeInv, InRange

LEMMA RangeInvSuffices == RangeInv => FirstHopInRange
  BY DEF RangeInv, InRange, FirstHopInRange, Known

(* intermediateAddr is always a drone the owner of the entry can connect   *)
(* to, for every topology: a route reply or a data message leaves the      *)
(* drone that looks the entry up.                                          *)
THEOREM FirstHopAlwaysInRange == Spec => []FirstHopInRange
  BY TypeCorrect, RangeInvInit, RangeInvStep, RangeInvSuffices, PTL DEF Spec

--------------------------------------------------------------------------
(* The third invariant, without route errors: the drone a message or an    *)
(* entry names as the next one knows the far end itself, and nothing a     *)
(* table knows is ever forgotten.                                          *)

PathBehind(p) ==
    /\ p.msg.type # "RERR"
    /\ Routed(p) /\ p.msg.recv # p.msg.src => table[p.msg.recv][p.msg.src] # NoRoute
    /\ p.msg.type = "RREP" /\ p.to # p.msg.dest => table[p.to][p.msg.dest] # NoRoute

PathAhead(n, x) ==
    table[n][x] # NoRoute /\ table[n][x].inter \notin {x, NoAddr}
        => table[table[n][x].inter][x] # NoRoute

PathInv ==
    ~TriggerRerr => (\A p \in net : PathBehind(p)) /\ (\A n, x \in Node : PathAhead(n, x))

LEMMA InsertKnown ==
    ASSUME NEW old \in Entry \cup {NoRoute}, NEW e \in Entry
    PROVE  InsertRoute(old, e) # NoRoute
  BY InsertType, RouteAssumption

LEMMA EntryForgotten ==
    ASSUME TypeOK, NEW n \in Node, NEW x \in Node, table[n][x] # NoRoute,
           EnteredBy(n, x, NoRoute)
    PROVE  \E p \in net : p.msg.type = "RERR"
<1>1. table[n][x] \in Entry
  BY DEF TypeOK
<1>2. ~TeslaEntry(n, x, NoRoute)
  BY <1>1, TeslaInfoType, RouteAssumption DEF TeslaEntry
<1>3. ~GreetingEntry(n, x, NoRoute)
  <2> SUFFICES ASSUME NEW p \in net, p.msg.type = "HELLO", p.msg.mode = "AUTH",
                      NoRoute = InsertRoute(table[n][x], [inter |-> x, seq |-> 0,
                                   hash |-> p.msg.hash, key |-> EmptyKey])
               PROVE  FALSE
    BY DEF GreetingEntry
  <2>1. p.msg.hash \in Hashes
    BY PacketParts, MessageKinds, HelloKinds
  <2>2. [inter |-> x, seq |-> 0, hash |-> p.msg.hash, key |-> EmptyKey] \in Entry
    BY <2>1 DEF Entry
  <2> QED
    BY <1>1, <2>2, InsertKnown
<1>4. ~RoutedEntry(n, x, NoRoute)
  <2> SUFFICES ASSUME NEW p \in net, Routed(p),
                      NoRoute = InsertRoute(table[n][x],
                                   RouteEntry(p.msg.recv, p.msg.seq, p.msg.key))
               PROVE  FALSE
    BY DEF RoutedEntry
  <2>1. p.msg \in Rreq \cup Rrep
    BY PacketParts, MessageKinds DEF Routed
  <2>2. RouteEntry(p.msg.recv, p.msg.seq, p.msg.key) \in Entry
    BY <2>1, RouteEntryType DEF Rreq, Rrep
  <2> QED
    BY <1>1, <2>2, InsertKnown
<1> QED
  BY <1>2, <1>3, <1>4 DEF EnteredBy, Removed

LEMMA PathInvStep == TypeOK /\ PathInv /\ [Next]_vars => PathInv'
<1> SUFFICES ASSUME TypeOK, PathInv, [Next]_vars, ~TriggerRerr
             PROVE  (\A q \in net' : PathBehind(q)') /\ (\A n, x \in Node : PathAhead(n, x)')
  BY DEF PathInv
<1>1. ASSUME NEW p \in net PROVE PathBehind(p)
  BY DEF PathInv
<1>2. ASSUME NEW n \in Node, NEW x \in Node, table[n][x] # NoRoute
      PROVE  table'[n][x] # NoRoute
  BY <1>1, <1>2, StepEntries, EntryForgotten DEF PathBehind
<1>3. TypeOK'
  BY TypeStep
<1>4. ASSUME NEW n \in Node, NEW x \in Node, table'[n][x] # NoRoute,
             table'[n][x].inter \notin {x, NoAddr}
      PROVE  table'[table'[n][x].inter][x] # NoRoute
  <2> DEFINE e == table'[n][x]
  <2>1. CASE table[n][x] # NoRoute /\ e.inter = table[n][x].inter
    <3>1. table[e.inter][x] # NoRoute
      BY <1>4, <2>1 DEF PathInv, PathAhead
    <3>2. e.inter \in Node
      BY <1>3, <1>4 DEF TypeOK, Entry
    <3> QED
      BY <1>2, <3>1, <3>2
  <2>2. ASSUME NEW p \in net, Routed(p), x \in {p.msg.src, p.msg.recv}, e.inter = p.msg.recv
        PROVE  table'[e.inter][x] # NoRoute
    <3>1. p.msg.recv # p.msg.src /\ x = p.msg.src
      BY <1>4, <2>2
    <3>2. table[p.msg.recv][x] # NoRoute
      BY <1>1, <2>2, <3>1 DEF PathBehind
    <3>3. p.msg.recv \in Node
      BY <1>3, <1>4, <2>2 DEF TypeOK, Entry
    <3> QED
      BY <1>2, <2>2, <3>2, <3>3
  <2> QED
    BY <1>4, <2>1, <2>2, StepEntries, EntryHop
<1>5. ASSUME NEW q \in net' PROVE PathBehind(q)'
  <2>1. CASE q \in net
    <3>1. PathBehind(q) /\ q.to \in Node /\ q.msg \in Message
      BY <1>1, <2>1, PacketParts
    <3>2. Routed(q) => q.msg.recv \in Node /\ q.msg.src \in Node /\ q.msg.dest \in Node
      BY <3>1, MessageKinds DEF Routed, Rreq, Rrep
    <3> QED
      BY <1>2, <3>1, <3>2 DEF PathBehind, Routed
  <2>2. ASSUME NEW n \in Node, SentBy(n, q) PROVE PathBehind(q)'
    <3>0. q.to \in Node
      BY <2>2 DEF SentBy, Neighbours
    <3>1. CASE HelloSent(n, q)
      BY <3>1 DEF HelloSent, PathBehind, Routed
    <3>2. CASE RequestSent(n, q)
      BY <3>2 DEF RequestSent, RequestOf, PathBehind, Routed
    <3>3. CASE ReplySent(n, q)
      <4>1. PICK p \in net :
              /\ p.to = n /\ p.msg \in Rreq /\ q.msg = ReplyOf(n, p.msg)
              /\ \/ q.to = p.msg.src
                 \/ table'[n][p.msg.src] # NoRoute /\ q.to = table'[n][p.msg.src].inter
        BY <3>3 DEF ReplySent
      <4>2. /\ q.msg.type = "RREP" /\ q.msg.recv = n /\ q.msg.src = n
            /\ q.msg.dest = p.msg.src /\ p.msg.src \in Node
        BY <4>1 DEF ReplyOf, Rreq
      <4>3. q.to # p.msg.src => table'[q.to][p.msg.src] # NoRoute
        BY <1>4, <3>0, <4>1, <4>2, RouteAssumption
      <4> QED
        BY <4>2, <4>3 DEF PathBehind, Routed
    <3>4. CASE RequestRelayed(n, q)
      <4>1. PICK p \in net :
              /\ p.msg \in Rreq /\ table'[n][p.msg.src] # NoRoute
              /\ \E h : q.msg = RelayedRequest(n, p.msg, h)
        BY <3>4 DEF RequestRelayed
      <4>2. q.msg.type = "RREQ" /\ q.msg.recv = n /\ q.msg.src = p.msg.src
        BY <4>1 DEF RelayedRequest, Rreq
      <4> QED
        BY <4>1, <4>2 DEF PathBehind, Routed
    <3>5. CASE ReplyRelayed(n, q)
      <4>1. PICK p \in net :
              /\ p.msg \in Rrep /\ q.msg = RelayedReply(n, p.msg)
              /\ table'[n][p.msg.src] # NoRoute
              /\ table'[n][p.msg.dest] # NoRoute /\ q.to = table'[n][p.msg.dest].inter
        BY <3>5 DEF ReplyRelayed
      <4>2. /\ q.msg.type = "RREP" /\ q.msg.recv = n /\ q.msg.src = p.msg.src
            /\ q.msg.dest = p.msg.dest /\ p.msg.dest \in Node
        BY <4>1 DEF RelayedReply, Rrep
      <4>3. q.to # p.msg.dest => table'[q.to][p.msg.dest] # NoRoute
        BY <1>4, <3>0, <4>1, <4>2, RouteAssumption
      <4> QED
        BY <4>1, <4>2, <4>3 DEF PathBehind, Routed
    <3>6. ~ErrorSent(n, q)
      BY <1>1 DEF ErrorSent, PathBehind
    <3> QED
      BY <2>2, <3>1, <3>2, <3>3, <3>4, <3>5, <3>6 DEF SentBy
  <2> QED
    BY <2>1, <2>2, StepPackets DEF Sent
<1> QED
  BY <1>4, <1>5 DEF PathAhead

LEMMA PathInvInit == Init => PathInv
  BY DEF Init, PathInv, PathAhead

LEMMA PathInvSuffices == PathInv => ReplyHasNextHop
  BY DEF PathInv, PathBehind, ReplyHasNextHop, Known

(* With TRIGGER_RERR off a relay that gets a reply has a route to the      *)
(* requester (drone.cpp 1717-1720 is dead), for every swarm and topology   *)
(* and however many discoveries run at once.                               *)
THEOREM ReplyAlwaysHasNextHop == Spec => []ReplyHasNextHop
  BY TypeCorrect, PathInvInit, PathInvStep, PathInvSuffices, PTL DEF Spec

--------------------------------------------------------------------------
(* The fourth invariant: whose key is whose.  A hello brings its sender's  *)
(* key, a request or reply its transmitter's, an error its sender's; so    *)
(* the key of an entry is that of the drone it is for or of its first hop. *)

KeyIsSenders(m) ==
    /\ m.type = "HELLO" /\ m.mode = "TESLA" => m.key.owner = m.src
    /\ m.type \in {"RREQ", "RREP"} => m.key.owner = m.recv
    /\ m.type = "RERR" => m.key.owner = m.src /\ m.ret # m.src

KeyBelongs(x, e) ==
    e # NoRoute /\ e.key \in Keys => e.key.owner \in {x, e.inter}

KeyInv ==
    /\ \A p \in net : KeyIsSenders(p.msg)
    /\ \A n, x \in Node : KeyBelongs(x, table[n][x])

LEMMA InsertedKey ==
    ASSUME NEW x, NEW old, NEW e \in Entry, e.key \in Keys => e.key.owner \in {x, e.inter}
    PROVE  KeyBelongs(x, InsertRoute(old, e))
<1>1. InsertRoute(old, e).key = e.key /\ InsertRoute(old, e).inter = e.inter
  BY DEF InsertRoute, Entry
<1> QED
  BY <1>1 DEF KeyBelongs

LEMMA KeyInvEntries ==
    ASSUME TypeOK, KeyInv, NEW n \in Node, NEW x \in Node, NEW e, EnteredBy(n, x, e)
    PROVE  KeyBelongs(x, e)
<1>1. table[n][x] \in Entry \cup {NoRoute} /\ KeyBelongs(x, table[n][x])
  BY DEF TypeOK, KeyInv
<1>2. CASE TeslaEntry(n, x, e)
  <2>1. PICK p \in net :
          /\ p.msg.type = "HELLO" /\ p.msg.mode = "TESLA" /\ p.msg.src = x
          /\ p.msg.key \in Keys /\ e = SetTeslaInfo(table[n][x], p.msg.key)
    BY <1>2 DEF TeslaEntry
  <2>2. e.key = p.msg.key
    BY <1>1, <2>1 DEF SetTeslaInfo, DefaultEntry, Entry
  <2>3. p.msg.key.owner = x
    BY <2>1 DEF KeyInv, KeyIsSenders
  <2> QED
    BY <2>2, <2>3 DEF KeyBelongs
<1>3. CASE GreetingEntry(n, x, e)
  <2>1. PICK p \in net :
          /\ p.msg.type = "HELLO" /\ p.msg.mode = "AUTH"
          /\ e = InsertRoute(table[n][x], [inter |-> x, seq |-> 0, hash |-> p.msg.hash,
                                           key |-> EmptyKey])
    BY <1>3 DEF GreetingEntry
  <2>2. p.msg.hash \in Hashes
    BY <2>1, PacketParts, MessageKinds, HelloKinds
  <2> DEFINE g == [inter |-> x, seq |-> 0, hash |-> p.msg.hash, key |-> EmptyKey]
  <2>3. g \in Entry /\ g.key \notin Keys
    BY <2>2, RouteAssumption DEF Entry
  <2> QED
    BY <2>1, <2>3, InsertedKey
<1>4. CASE RoutedEntry(n, x, e)
  <2>1. PICK p \in net :
          /\ Routed(p) /\ x \in {p.msg.src, p.msg.recv}
          /\ e = InsertRoute(table[n][x], RouteEntry(p.msg.recv, p.msg.seq, p.msg.key))
    BY <1>4 DEF RoutedEntry
  <2>2. p.msg \in Rreq \cup Rrep
    BY <2>1, PacketParts, MessageKinds DEF Routed
  <2> DEFINE g == RouteEntry(p.msg.recv, p.msg.seq, p.msg.key)
  <2>3. g \in Entry
    BY <2>2, RouteEntryType DEF Rreq, Rrep
  <2>4. g.key = p.msg.key /\ g.inter = p.msg.recv
    BY DEF RouteEntry
  <2>5. g.key.owner = g.inter
    BY <2>1, <2>4 DEF KeyInv, KeyIsSenders, Routed
  <2> HIDE DEF g
  <2> QED
    BY <2>1, <2>3, <2>5, InsertedKey DEF g
<1> QED
  BY <1>1, <1>2, <1>3, <1>4 DEF EnteredBy, Removed, KeyBelongs

LEMMA KeyInvPackets ==
    ASSUME TypeOK, KeyInv, NEW n \in Node, NEW q, SentBy(n, q)
    PROVE  KeyIsSenders(q.msg)
<1>0. CurrentKey(n).owner = n
  BY DEF CurrentKey
<1>1. CASE HelloSent(n, q)
  BY <1>1 DEF HelloSent, KeyIsSenders
<1>2. CASE RequestSent(n, q)
  BY <1>0, <1>2 DEF RequestSent, RequestOf, KeyIsSenders
<1>3. CASE ReplySent(n, q)
  BY <1>0, <1>3 DEF ReplySent, ReplyOf, KeyIsSenders
<1>4. CASE RequestRelayed(n, q)
  <2>1. PICK p \in net :
            p.msg \in Rreq /\ \E h : q.msg = RelayedRequest(n, p.msg, h)
    BY <1>4 DEF RequestRelayed
  <2>2. q.msg.type = "RREQ" /\ q.msg.recv = n /\ q.msg.key = CurrentKey(n)
    BY <2>1 DEF RelayedRequest, Rreq
  <2> QED
    BY <1>0, <2>2 DEF KeyIsSenders
<1>5. CASE ReplyRelayed(n, q)
  <2>1. PICK p \in net : p.msg \in Rrep /\ q.msg = RelayedReply(n, p.msg)
    BY <1>5 DEF ReplyRelayed
  <2>2. q.msg.type = "RREP" /\ q.msg.recv = n /\ q.msg.key = CurrentKey(n)
    BY <2>1 DEF RelayedReply, Rrep
  <2> QED
    BY <1>0, <2>2 DEF KeyIsSenders
<1>6. CASE ErrorSent(n, q)
  <2>1. CASE \E m \in Rreq : m.src # n /\ q.msg = RouteErrorOf(n, m)
    BY <1>0, <2>1 DEF RouteErrorOf, KeyIsSenders
  <2>2. CASE \E p \in net : q.msg = p.msg
    BY <2>2 DEF KeyInv
  <2> QED
    BY <1>6, <2>1, <2>2 DEF ErrorSent
<1> QED
  BY <1>1, <1>2, <1>3, <1>4, <1>5, <1>6 DEF SentBy

LEMMA KeyInvStep == TypeOK /\ KeyInv /\ [Next]_vars => KeyInv'
<1> SUFFICES ASSUME TypeOK, KeyInv, [Next]_vars PROVE KeyInv'
  OBVIOUS
<1>1. ASSUME NEW q \in net' PROVE KeyIsSenders(q.msg)
  BY StepPackets, KeyInvPackets DEF Sent, KeyInv
<1>2. ASSUME NEW n \in Node, NEW x \in Node PROVE KeyBelongs(x, table'[n][x])
  BY StepEntries, KeyInvEntries
<1> QED
  BY <1>1, <1>2 DEF KeyInv, KeyIsSenders, KeyBelongs

LEMMA KeyInvInit == Init => KeyInv
  BY DEF Init, KeyInv, KeyBelongs

LEMMA KeyInvSuffices == TypeOK /\ KeyInv /\ RangeInv => ErrorsTurnBack
<1> SUFFICES ASSUME TypeOK, KeyInv, RangeInv, NEW p \in net, p.msg.type = "RERR",
                    ErrorVerified(p.to, p.msg)
             PROVE  table[p.to][p.msg.ret].inter = p.msg.src /\ p.to # p.msg.src
  BY DEF ErrorsTurnBack
<1> DEFINE e == table[p.to][p.msg.ret]
<1>1. p.to \in Node /\ p.msg \in Rerr
  BY PacketParts, MessageKinds
<1>2. p.msg.ret \in Node /\ p.msg.src \in Node /\ p.msg.key \in Keys
  BY <1>1 DEF Rerr
<1>3. p.msg.key.owner = p.msg.src /\ p.msg.ret # p.msg.src
  BY DEF KeyInv, KeyIsSenders
<1>4. e # NoRoute /\ e.key = p.msg.key
  BY DEF ErrorVerified, Known
<1>5. KeyBelongs(p.msg.ret, e) /\ InRange(p.to, e)
  BY <1>1, <1>2 DEF KeyInv, RangeInv
<1>6. e.inter = p.msg.src
  BY <1>2, <1>3, <1>4, <1>5 DEF KeyBelongs
<1>7. p.msg.src \in Neighbours(p.to)
  BY <1>2, <1>4, <1>5, <1>6, RouteAssumption DEF InRange
<1> QED
  BY <1>1, <1>2, <1>6, <1>7, RouteAssumption DEF Neighbours

(* Route errors turn back, for every swarm and topology: a drone verifies  *)
(* one only when its route to the requester leads through the drone that   *)
(* sent the error, to which it returns it; that drone does not verify it.  *)
THEOREM ErrorsAlwaysTurnBack == Spec => []ErrorsTurnBack
  BY TypeCorrect, RangeInvInit, RangeInvStep, KeyInvInit, KeyInvStep, KeyInvSuffices, PTL
     DEF Spec

--------------------------------------------------------------------------
(* Last, the length of the chain: garbage is only read for an element the  *)
(* chain does not have, which takes the last sequence number or a hop      *)
(* count beyond the limit.                                                 *)

LEMMA ChainIsLongEnough ==
    ASSUME NEW seq \in Nat \ {0}, NEW hop \in Nat, seq < MaxSeq, hop <= MaxHop
    PROVE  InChain(seq, hop)
<1>1. MaxSeq \in Nat /\ MaxHop \in Nat \ {0} /\ seq + 1 <= MaxSeq
  BY ChainAssumption
<1>2. (MaxSeq - seq - 1) * MaxHop >= 0
  BY <1>1
<1>3. MaxSeq * MaxHop = (MaxSeq - seq - 1) * MaxHop + (seq - 1) * MaxHop + 2 * MaxHop
  BY <1>1
<1>4. (MaxSeq - seq - 1) * MaxHop \in Int /\ (seq - 1) * MaxHop \in Int
  BY <1>1
<1> QED
  BY <1>1, <1>2, <1>3, <1>4 DEF InChain, ChainIndex, ChainLength

LEMMA ChainLastsStep == TypeOK /\ ChainLastsForItsRequests /\ [Next]_vars
                            => ChainLastsForItsRequests'
<1> SUFFICES ASSUME TypeOK, ChainLastsForItsRequests, [Next]_vars, NEW q \in net',
                    q.msg.type = "RREQ", q.msg.hash = Garbage
             PROVE  q.msg.seq >= MaxSeq \/ q.msg.hop > MaxHop
  BY DEF ChainLastsForItsRequests
<1>1. CASE q \in net
  BY <1>1 DEF ChainLastsForItsRequests
<1>2. ASSUME NEW n \in Node, SentBy(n, q)
      PROVE  q.msg.seq >= MaxSeq \/ q.msg.hop > MaxHop
  <2>1. ~RequestSent(n, q)
    <3> SUFFICES ASSUME NEW x \in Node, NEW s \in Nat \ {0}, q.msg = RequestOf(n, x, s)
                 PROVE  FALSE
      BY DEF RequestSent
    <3>1. Garbage = Element(n, ChainIndex(s, 1)) /\ ChainIndex(s, 1) \in Int
      BY ChainIndexType DEF RequestOf
    <3> QED
      BY <3>1, RouteAssumption DEF Element
  <2>2. ~HelloSent(n, q) /\ ~ReplySent(n, q) /\ ~ReplyRelayed(n, q)
    <3>a. ASSUME NEW m PROVE ReplyOf(n, m).type = "RREP"
      BY DEF ReplyOf
    <3>1. ~HelloSent(n, q) /\ ~ReplySent(n, q)
      BY <3>a DEF HelloSent, ReplySent
    <3>2. ASSUME NEW m \in Rrep PROVE RelayedReply(n, m).type = "RREP"
      BY DEF RelayedReply, Rrep
    <3>3. ~ReplyRelayed(n, q)
      BY <3>2 DEF ReplyRelayed
    <3> QED
      BY <3>1, <3>3
  <2>3. CASE RequestRelayed(n, q)
    <3>1. PICK p \in net : p.msg \in Rreq /\
             \E h \in RelayHashes(n, p.msg.seq, p.msg.hop + 1) :
                q.msg = RelayedRequest(n, p.msg, h)
      BY <2>3 DEF RequestRelayed
    <3>2. PICK h \in RelayHashes(n, p.msg.seq, p.msg.hop + 1) :
             q.msg = RelayedRequest(n, p.msg, h)
      BY <3>1
    <3>a. p.msg.seq \in Nat \ {0} /\ p.msg.hop + 1 \in Nat
      BY <3>1 DEF Rreq
    <3>b. ASSUME NEW m \in Rreq
          PROVE  LET r == RelayedRequest(n, m, h)
                 IN  r.seq = m.seq /\ r.hop = m.hop + 1 /\ r.hash = h
      BY DEF RelayedRequest, Rreq
    <3>3. /\ p.msg.seq \in Nat \ {0} /\ p.msg.hop + 1 \in Nat
          /\ q.msg.seq = p.msg.seq /\ q.msg.hop = p.msg.hop + 1 /\ q.msg.hash = h
      BY <3>1, <3>2, <3>a, <3>b
    <3>4. ~InChain(q.msg.seq, q.msg.hop)
      <4>1. ChainIndex(p.msg.seq, p.msg.hop + 1) \in Int
        BY <3>3, ChainIndexType
      <4>2. Element(n, ChainIndex(p.msg.seq, p.msg.hop + 1)) # Garbage
        BY <4>1, RouteAssumption DEF Element
      <4> QED
        BY <3>2, <3>3, <4>2 DEF RelayHashes
    <3> QED
      BY <3>3, <3>4, ChainIsLongEnough, ChainAssumption
  <2>4. ~ErrorSent(n, q)
    BY DEF ErrorSent
  <2> QED
    BY <1>2, <2>1, <2>2, <2>3, <2>4 DEF SentBy
<1> QED
  BY <1>1, <1>2, StepPackets DEF Sent

(* hashChainCache is never read beyond its end for a request whose         *)
(* sequence number is not the last one and whose hop count is within the   *)
(* limit, for every max_hop_count and max_seq_count (drone.cpp 1329-1331). *)
THEOREM ChainAlwaysLasts == Spec => []ChainLastsForItsRequests
<1>1. Init => ChainLastsForItsRequests
  BY DEF Init, ChainLastsForItsRequests
<1> QED
  BY <1>1, TypeCorrect, ChainLastsStep, PTL DEF Spec
--------------------------------------------------------------------------
(* Discoveries that do not overlap.  A drone enters itself in its table,   *)
(* and crashes on the next request for it, when the reply to one request   *)
(* is led back to the replier by routes of another.  The assumption on the *)
(* users of the swarm, weaker than OneAtATime: while a request or a reply  *)
(* is on the air, a drone starts only the same discovery over again.       *)

Discovery(m) == IF m.type = "RREQ" THEN <<m.src, m.dest>> ELSE <<m.dest, m.src>>

SequentialNext ==
    \/ \E n \in Node : OwnStep(n)
    \/ \E w \in Wanted, runs \in {1, 2} :
          /\ \A p \in net : Routed(p) => Discovery(p.msg) = w
          /\ InitRouteDiscovery(w[1], w[2], runs)
    \/ \E p \in net : Receive(p)

SequentialSpec == Init /\ [][SequentialNext]_vars

LEMMA SequentialStep == [SequentialNext]_vars => [Next]_vars
  BY DEF SequentialNext, Next

(* The drones that have transmitted the request of s for d, s included,    *)
(* are closed under the way back to s: a reply stays among them, and so    *)
(* never reaches d again.                                                  *)
WayBack(y, s, group) ==
    table[y][s] = NoRoute \/ table[y][s].inter \in group \cup {NoAddr}

Within(p, s, d, group) ==
    /\ Routed(p) => Discovery(p.msg) = <<s, d>>
    /\ p.msg.type = "RREQ" => p.msg.recv \in group
    /\ p.msg.type = "RREP" => p.to \in group

Closed(s, d, group) ==
    /\ s \in group /\ d \notin group /\ s \in Node /\ d \in Node
    /\ \A p \in net : Within(p, s, d, group)
    /\ \A y \in group \ {s} : WayBack(y, s, group)

SequentialInv ==
    (\E p \in net : Routed(p)) =>
        \E s, d \in Node : \E group \in SUBSET Node : Closed(s, d, group)

LEMMA SequentialInit == Init => NeverRoutesToItself /\ SequentialInv
  BY DEF Init, NeverRoutesToItself, Known, SequentialInv

(* No step enters a drone in its own table. *)
LEMMA SelfStep ==
    ASSUME TypeOK, RangeInv, NeverRoutesToItself, SequentialInv, [Next]_vars
    PROVE  NeverRoutesToItself'
<1> SUFFICES ASSUME NEW n \in Node PROVE table'[n][n] = NoRoute
  BY DEF NeverRoutesToItself, Known
<1>1. table[n][n] = NoRoute /\ n \notin Neighbours(n)
  BY RouteAssumption DEF NeverRoutesToItself, Known, Neighbours
<1>2. ~TeslaEntry(n, n, table'[n][n]) /\ ~GreetingEntry(n, n, table'[n][n])
  BY <1>1 DEF TeslaEntry, GreetingEntry, RangeInv, FromNeighbour
<1>3. ~RoutedEntry(n, n, table'[n][n])
  <2> SUFFICES ASSUME NEW p \in net, p.to = n, Routed(p), n \in {p.msg.src, p.msg.recv},
                      p.msg.type = "RREQ" => p.msg.src # n
               PROVE  FALSE
    BY DEF RoutedEntry, RequestAccepted
  <2>1. p.msg.type = "RREP" /\ p.msg.src = n
    BY <1>1 DEF RangeInv, FromNeighbour, Routed
  <2>2. PICK s \in Node, d \in Node, group \in SUBSET Node : Closed(s, d, group)
    BY DEF SequentialInv
  <2>3. Within(p, s, d, group) /\ d \notin group
    BY <2>2 DEF Closed
  <2>4. p.msg.src = d /\ p.to \in group
    BY <2>1, <2>3 DEF Within, Discovery, Routed
  <2> QED
    BY <2>1, <2>3, <2>4
<1> QED
  BY <1>1, <1>2, <1>3, StepEntries DEF EnteredBy, Removed

(* The way back stays within a group that is closed. *)
LEMMA WayBackStep ==
    ASSUME TypeOK, [Next]_vars, NEW s, NEW d, NEW group \in SUBSET Node,
           Closed(s, d, group), NEW y \in group \ {s}
    PROVE  WayBack(y, s, group)'
<1>1. y \in Node /\ s \in Node /\ s \in group /\ d \notin group
  BY DEF Closed
<1>2. EnteredBy(y, s, table'[y][s])
  BY <1>1, StepEntries
<1>3. CASE table[y][s] # NoRoute /\ table'[y][s].inter = table[y][s].inter
  BY <1>3 DEF Closed, WayBack
<1>4. ASSUME NEW p \in net, Routed(p), s \in {p.msg.src, p.msg.recv},
             table'[y][s].inter = p.msg.recv
      PROVE  WayBack(y, s, group)'
  <2>1. Within(p, s, d, group)
    BY DEF Closed
  <2>2. p.msg.recv \in group
    BY <1>1, <1>4, <2>1 DEF Within, Discovery, Routed
  <2> QED
    BY <1>4, <2>2 DEF WayBack
<1> QED
  BY <1>1, <1>2, <1>3, <1>4, EntryHop DEF WayBack

(* What stays on the air and what else a group lets on the air leave it    *)
(* closed.                                                                 *)
LEMMA ClosedStep ==
    ASSUME TypeOK, [Next]_vars, NEW s, NEW d, NEW group \in SUBSET Node,
           Closed(s, d, group), \A q \in net' : q \in net \/ Within(q, s, d, group)
    PROVE  Closed(s, d, group)'
<1>1. \A q \in net' : Within(q, s, d, group)
  BY DEF Closed
<1>2. \A y \in group \ {s} : WayBack(y, s, group)'
  BY WayBackStep
<1> QED
  BY <1>1, <1>2 DEF Closed, Within, Discovery, Routed

LEMMA QuietStep ==
    ASSUME TypeOK, SequentialInv, [Next]_vars,
           \A q \in net' : q \in net \/ ~Routed(q)
    PROVE  SequentialInv'
<1> SUFFICES ASSUME NEW p \in net', Routed(p)
             PROVE  \E s, d \in Node : \E group \in SUBSET Node : Closed(s, d, group)'
  BY DEF SequentialInv, Routed
<1>1. PICK s \in Node, d \in Node, group \in SUBSET Node : Closed(s, d, group)
  BY DEF SequentialInv
<1>2. \A q \in net' : q \in net \/ Within(q, s, d, group)
  BY DEF Within, Routed
<1> QED
  BY <1>1, <1>2, ClosedStep

LEMMA StartStep ==
    ASSUME TypeOK, SequentialInv, [Next]_vars, NEW w \in Wanted, NEW runs \in {1, 2},
           \A p \in net : Routed(p) => Discovery(p.msg) = w,
           InitRouteDiscovery(w[1], w[2], runs)
    PROVE  SequentialInv'
<1>1. w[1] \in Node /\ w[2] \in Node /\ w[1] # w[2] /\ w = <<w[1], w[2]>>
  BY RouteAssumption
<1>2. ASSUME NEW q \in net', q \notin net, NEW group, w[1] \in group
      PROVE  Within(q, w[1], w[2], group)
  <2>1. \E k : q.msg = RequestOf(w[1], w[2], k)
    BY <1>2 DEF InitRouteDiscovery, Broadcast
  <2> QED
    BY <1>2, <2>1 DEF RequestOf, Within, Discovery, Routed
<1>3. \E group \in SUBSET Node : Closed(w[1], w[2], group)
  <2>1. CASE \E p \in net : Routed(p)
    <3>1. PICK s \in Node, d \in Node, group \in SUBSET Node : Closed(s, d, group)
      BY <2>1 DEF SequentialInv
    <3>2. PICK p \in net : Routed(p) /\ Within(p, s, d, group)
      BY <2>1, <3>1 DEF Closed
    <3>3. <<s, d>> = w
      BY <3>2 DEF Within
    <3> QED
      BY <1>1, <3>1, <3>3
  <2>2. CASE \A p \in net : ~Routed(p)
    <3>1. Closed(w[1], w[2], {w[1]})
      BY <1>1, <2>2 DEF Closed, Within, Routed
    <3> QED
      BY <1>1, <3>1
  <2> QED
    BY <2>1, <2>2
<1>4. PICK group \in SUBSET Node : Closed(w[1], w[2], group)
  BY <1>3
<1>5. Closed(w[1], w[2], group)'
  BY <1>2, <1>4, ClosedStep DEF Closed
<1> QED
  BY <1>1, <1>5 DEF SequentialInv

(* The destination replies along the way the request came. *)
LEMMA AnswerStep ==
    ASSUME TypeOK, NeverRoutesToItself, SequentialInv, [Next]_vars,
           NEW p \in net, AnswerRequest(p)
    PROVE  SequentialInv'
<1> DEFINE n == p.to
           m == p.msg
           e == RouteEntry(m.recv, m.seq, m.key)
<1>1. /\ n \in Node /\ m \in Rreq /\ m.src \in Node /\ m.recv \in Node
      /\ Routed(p) /\ m.type = "RREQ" /\ m.dest = n
  BY PacketParts, MessageKinds DEF AnswerRequest, Rreq, Routed
<1>2. PICK s \in Node, d \in Node, group \in SUBSET Node : Closed(s, d, group)
  BY <1>1 DEF SequentialInv
<1>3. Within(p, s, d, group) /\ s \in group
  BY <1>2 DEF Closed
<1>4. m.src = s /\ n = d /\ m.recv \in group
  BY <1>1, <1>3 DEF Within, Discovery
<1>5. ReverseRoutes(n, m)[m.src].inter = m.recv
  <2>1. ReverseRoutes(n, m) = [table[n] EXCEPT ![m.src] = InsertRoute(@, e)]
    BY <1>1 DEF ReverseRoutes, NeverRoutesToItself
  <2>2. table[n] \in [Node -> Entry \cup {NoRoute}]
    BY <1>1 DEF TypeOK
  <2>3. e \in Entry
    BY <1>1, RouteEntryType DEF Rreq
  <2>4. InsertRoute(table[n][m.src], e).inter = m.recv
    BY <2>3, InsertedHop DEF RouteEntry
  <2> QED
    BY <1>1, <2>1, <2>2, <2>4
<1>6. ASSUME NEW q \in net', q \notin net PROVE Within(q, s, d, group)
  <2>1. q.to \in {m.src, m.recv} /\ q.msg = ReplyOf(n, m)
    BY <1>5, <1>6 DEF AnswerRequest, SendData
  <2> QED
    BY <1>3, <1>4, <2>1 DEF Within, Discovery, Routed, ReplyOf
<1>7. Closed(s, d, group)'
  BY <1>2, <1>6, ClosedStep
<1> QED
  BY <1>7 DEF SequentialInv

(* A relay joins the group: it came by the request from one of it. *)
LEMMA RelayStep ==
    ASSUME TypeOK, SequentialInv, [Next]_vars, NEW p \in net, RelayRequest(p)
    PROVE  SequentialInv'
<1> DEFINE n == p.to
           m == p.msg
           e == RouteEntry(m.recv, m.seq, m.key)
<1>1. /\ n \in Node /\ m \in Rreq /\ m.src \in Node /\ m.recv \in Node
      /\ Routed(p) /\ m.type = "RREQ" /\ m.dest # n
  BY PacketParts, MessageKinds DEF RelayRequest, RelayEffect, Rreq, Routed
<1>2. PICK s \in Node, d \in Node, old \in SUBSET Node : Closed(s, d, old)
  BY <1>1 DEF SequentialInv
<1> DEFINE group == old \cup {n}
<1>3. Within(p, s, d, old) /\ s \in old /\ d \notin old
  BY <1>2 DEF Closed
<1>4. m.src = s /\ m.dest = d /\ m.recv \in old
  BY <1>1, <1>3 DEF Within, Discovery
<1>5. table'[n][s].inter = m.recv
  <2>1. table' = [table EXCEPT ![n][m.src] = InsertRoute(@, e)]
    BY DEF RelayRequest, RelayEffect
  <2>2. e \in Entry
    BY <1>1, RouteEntryType DEF Rreq
  <2>3. InsertRoute(table[n][m.src], e).inter = m.recv
    BY <2>2, InsertedHop DEF RouteEntry
  <2>4. table'[n][m.src] = InsertRoute(table[n][m.src], e)
    BY <1>1, <2>1 DEF TypeOK
  <2> QED
    BY <1>4, <2>3, <2>4
<1>6. ASSUME NEW q \in net' PROVE Within(q, s, d, group)
  <2>1. CASE q \in net
    BY <1>2, <2>1 DEF Closed, Within
  <2>2. CASE q \notin net
    <3>1. (\E h : q.msg = RelayedRequest(n, m, h)) \/ q.msg = RouteErrorOf(n, m)
      BY <2>2 DEF RelayRequest, Transmissions, Broadcast, SendData
    <3>2. CASE q.msg = RouteErrorOf(n, m)
      BY <3>2 DEF RouteErrorOf, Within, Routed
    <3>3. ASSUME NEW h, q.msg = RelayedRequest(n, m, h) PROVE Within(q, s, d, group)
      <4>1. /\ q.msg.type = "RREQ" /\ q.msg.src = m.src /\ q.msg.dest = m.dest
            /\ q.msg.recv = n
        BY <1>1, <3>3 DEF RelayedRequest, Rreq
      <4> QED
        BY <1>4, <4>1 DEF Within, Discovery
    <3> QED
      BY <3>1, <3>2, <3>3
  <2> QED
    BY <2>1, <2>2
<1>7. ASSUME NEW y \in group \ {s} PROVE WayBack(y, s, group)'
  <2>1. CASE y = n
    BY <1>4, <1>5, <2>1 DEF WayBack
  <2>2. CASE y \in old
    BY <1>2, <1>7, <2>2, WayBackStep DEF WayBack
  <2> QED
    BY <1>7, <2>1, <2>2
<1>8. Closed(s, d, group)'
  BY <1>1, <1>3, <1>4, <1>6, <1>7 DEF Closed, Within, Discovery, Routed
<1> QED
  BY <1>1, <1>8 DEF SequentialInv

(* A reply is passed on along the way back. *)
LEMMA ReplyStep ==
    ASSUME TypeOK, SequentialInv, [Next]_vars, NEW p \in net, RelayReply(p)
    PROVE  SequentialInv'
<1> DEFINE n == p.to
           m == p.msg
<1>1. /\ n \in Node /\ m \in Rrep /\ m.dest \in Node /\ m.dest # n
      /\ Routed(p) /\ m.type = "RREP"
  BY PacketParts, MessageKinds DEF RelayReply, Rrep, Routed
<1>2. PICK s \in Node, d \in Node, group \in SUBSET Node : Closed(s, d, group)
  BY <1>1 DEF SequentialInv
<1>3. Within(p, s, d, group)
  BY <1>2 DEF Closed
<1>4. m.dest = s /\ m.src = d /\ n \in group \ {s}
  BY <1>1, <1>3 DEF Within, Discovery
<1>5. WayBack(n, s, group)'
  BY <1>2, <1>4, WayBackStep
<1>6. ASSUME NEW q \in net', q \notin net PROVE Within(q, s, d, group)
  <2> DEFINE routes == IF Known(n, m.src) THEN table[n] ELSE RoutesFromReply(n, m)
  <2>1. table'[n] = routes
    BY <1>1 DEF TypeOK, RelayReply
  <2>2. /\ q.to = routes[m.dest].inter /\ routes[m.dest] # NoRoute
        /\ q.to \in Neighbours(n) /\ q.msg = RelayedReply(n, m)
    BY <1>6 DEF RelayReply, SendData
  <2>3. q.to \in group
    BY <1>4, <1>5, <2>1, <2>2, RouteAssumption DEF WayBack, Neighbours
  <2>4. q.msg.type = "RREP" /\ q.msg.src = m.src /\ q.msg.dest = m.dest
    BY <1>1, <2>2 DEF RelayedReply, Rrep
  <2> QED
    BY <1>4, <2>3, <2>4 DEF Within, Discovery
<1>7. Closed(s, d, group)'
  BY <1>2, <1>6, ClosedStep
<1> QED
  BY <1>7 DEF SequentialInv

LEMMA SequentialInvStep ==
    ASSUME TypeOK, RangeInv, NeverRoutesToItself, SequentialInv, [SequentialNext]_vars
    PROVE  SequentialInv'
<1>1. [Next]_vars
  BY SequentialStep
<1>2. CASE net' \subseteq net
  BY <1>1, <1>2, QuietStep
<1>3. ASSUME NEW n \in Node, OwnStep(n) PROVE SequentialInv'
  <2>1. \A q \in net' : q \in net \/ q.msg.type = "HELLO"
    BY <1>3 DEF OwnStep, TeslaHello, AuthHello, EndDiscovery, DiscloseKey, Broadcast
  <2> QED
    BY <1>1, <2>1, QuietStep DEF Routed
<1>4. ASSUME NEW p \in net, Receive(p) PROVE SequentialInv'
  <2>1. CASE IgnoreHello(p) \/ InitMessageHandler(p) \/ DropRequest(p) \/ ChainExhausted(p)
               \/ DropReply(p) \/ AcceptReply(p) \/ DropError(p)
    BY <1>2, <2>1 DEF IgnoreHello, InitMessageHandler, DropRequest, ChainExhausted,
                      DropReply, AcceptReply, DropError
  <2>2. CASE RouteErrorHandler(p)
    <3>1. \A q \in net' : q \in net \/ q.msg.type = "RERR"
      BY <2>2 DEF RouteErrorHandler, SendData
    <3> QED
      BY <1>1, <3>1, QuietStep DEF Routed
  <2> QED
    BY <1>1, <1>4, <2>1, <2>2, AnswerStep, RelayStep, ReplyStep DEF Receive, Settle
<1> QED
  BY <1>1, <1>2, <1>3, <1>4, StartStep DEF SequentialNext, vars

LEMMA SequentialInvariant ==
    SequentialSpec => [](TypeOK /\ RangeInv /\ NeverRoutesToItself /\ SequentialInv)
<1>1. ASSUME TypeOK, RangeInv, NeverRoutesToItself, SequentialInv, [SequentialNext]_vars
      PROVE  (TypeOK /\ RangeInv /\ NeverRoutesToItself /\ SequentialInv)'
  BY <1>1, SequentialStep, TypeStep, RangeInvStep, SelfStep, SequentialInvStep
<1> QED
  BY <1>1, TypeInit, RangeInvInit, SequentialInit, PTL DEF SequentialSpec

(* Where discoveries do not overlap no drone ever enters itself in its     *)
(* routing table (drone.cpp 1251, 1593-1606), for every swarm and          *)
(* topology, with and without route errors, however messages overtake each *)
(* other or are lost and however often one discovery is repeated.          *)
THEOREM NeverEntersItself == SequentialSpec => []NeverRoutesToItself
  BY SequentialInvariant, PTL

(* An answer does not stop the drone that gives it. *)
AnswersAlive == \A p \in net : AnswerRequest(p) => up' = up

(* Where discoveries do not overlap, the drone that is asked for never     *)
(* dereferences a missing way back (drone.cpp 1251, 1296): its own address *)
(* is not in its table, so that it has just entered the requester.         *)
THEOREM AnsweringIsSafe == SequentialSpec => [][AnswersAlive]_vars
<1>1. ASSUME TypeOK, NeverRoutesToItself, NEW p \in net, AnswerRequest(p)
      PROVE  up' = up
  <2> DEFINE n == p.to
             m == p.msg
             e == RouteEntry(m.recv, m.seq, m.key)
  <2>1. n \in Node /\ m \in Rreq /\ m.src \in Node
    BY <1>1, PacketParts, MessageKinds DEF AnswerRequest, Rreq
  <2>2. ReverseRoutes(n, m) = [table[n] EXCEPT ![m.src] = InsertRoute(@, e)]
    BY <1>1, <2>1 DEF ReverseRoutes, NeverRoutesToItself
  <2>3. table[n] \in [Node -> Entry \cup {NoRoute}] /\ e \in Entry
    BY <1>1, <2>1, RouteEntryType DEF TypeOK, Rreq
  <2>4. ReverseRoutes(n, m)[m.src] # NoRoute
    BY <2>1, <2>2, <2>3, InsertKnown
  <2>5. up' = [up EXCEPT ![n] = TRUE] /\ up[n]
    BY <1>1, <2>4 DEF AnswerRequest
  <2> QED
    BY <1>1, <2>5 DEF TypeOK
<1>2. TypeOK /\ RangeInv /\ NeverRoutesToItself /\ SequentialInv => [AnswersAlive]_vars
  BY <1>1 DEF AnswersAlive
<1> QED
  BY <1>2, SequentialInvariant, PTL
--------------------------------------------------------------------------
(* What a relay remembers of a request.  It takes none that is not newer   *)
(* than the number in its entry for the requester; but a late AUTH hello   *)
(* sets this number to 0, an error removes the entry and a reply that the  *)
(* requester transmits sets it to the replier's number.  So once more an   *)
(* assumption on the users: nobody starts a discovery before the discovery *)
(* phase of every drone is over.                                           *)
SettledNext ==
    /\ SequentialNext
    /\ seqNum' # seqNum => \A n \in Node : phase[n] = "done"

Recorded(x, m) == Known(x, m.src) /\ NotNewer(m.seq, table[x][m.src].seq)

HellosOver == (\E p \in net : Routed(p)) => \A n \in Node : phase[n] = "done"

RequesterOnlyReceives == \A p \in net : p.msg.type = "RREP" => p.msg.recv # p.msg.dest

LEMMA HellosOverStep ==
    ASSUME TypeOK, HellosOver, [SettledNext]_vars
    PROVE  HellosOver'
<1> SUFFICES ASSUME NEW q \in net', Routed(q), NEW n \in Node PROVE phase'[n] = "done"
  BY DEF HellosOver, Routed
<1>1. ASSUME q \in net PROVE \A x \in Node : phase[x] = "done"
  BY <1>1 DEF HellosOver
<1>2. ASSUME NEW x \in Node, OwnStep(x) PROVE phase'[n] = "done"
  <2>1. q \in net
    BY <1>2 DEF OwnStep, TeslaHello, AuthHello, EndDiscovery, DiscloseKey, Broadcast, Routed
  <2>2. phase[x] = "done" /\ phase[n] = "done"
    BY <1>1, <2>1
  <2> QED
    BY <1>2, <2>2 DEF OwnStep, TeslaHello, AuthHello, EndDiscovery, DiscloseKey
<1>3. ASSUME NEW w \in Wanted, NEW runs \in {1, 2}, InitRouteDiscovery(w[1], w[2], runs),
             seqNum' # seqNum => \A x \in Node : phase[x] = "done"
      PROVE  phase'[n] = "done"
  <2>1. w[1] \in Node /\ seqNum \in [Node -> Nat \ {0}]
    BY RouteAssumption DEF TypeOK
  <2>2. seqNum'[w[1]] = seqNum[w[1]] + runs /\ seqNum[w[1]] \in Nat
    BY <1>3, <2>1 DEF InitRouteDiscovery
  <2>3. seqNum' # seqNum
    BY <2>2
  <2> QED
    BY <1>3, <2>3 DEF InitRouteDiscovery
<1>4. ASSUME NEW p \in net, Receive(p) PROVE phase'[n] = "done"
  <2>1. phase' = phase
    BY <1>4 DEF Receive, Settle, IgnoreHello, InitMessageHandler, DropRequest, AnswerRequest,
       ChainExhausted, DropReply, AcceptReply, RelayReply, DropError, RouteErrorHandler,
       RelayRequest, RelayEffect
  <2>2. Routed(p) \/ q \in net
    <3>1. CASE IgnoreHello(p) \/ InitMessageHandler(p) \/ DropError(p)
      BY <3>1 DEF IgnoreHello, InitMessageHandler, DropError
    <3>2. CASE RouteErrorHandler(p)
      <4>1. p.msg.type = "RERR"
        BY <3>2 DEF RouteErrorHandler
      <4>2. PICK to : net' = (net \ {p}) \cup SendData(p.to, to, p.msg)
        BY <3>2 DEF RouteErrorHandler
      <4>3. q \in net \/ q.msg = p.msg
        BY <4>2 DEF SendData
      <4> QED
        BY <4>1, <4>3 DEF Routed
    <3> QED
      BY <1>4, <3>1, <3>2 DEF Receive, Settle, DropRequest, AnswerRequest, ChainExhausted,
         DropReply, AcceptReply, RelayReply, RelayRequest, RelayEffect, Routed
  <2> QED
    BY <1>1, <2>1, <2>2 DEF HellosOver
<1>5. CASE UNCHANGED vars
  BY <1>1, <1>5 DEF vars
<1> QED
  BY <1>2, <1>3, <1>4, <1>5 DEF SettledNext, SequentialNext

LEMMA RequesterStep ==
    ASSUME TypeOK, RequesterOnlyReceives, [Next]_vars
    PROVE  RequesterOnlyReceives'
<1> SUFFICES ASSUME NEW q \in net', q.msg.type = "RREP" PROVE q.msg.recv # q.msg.dest
  BY DEF RequesterOnlyReceives
<1>1. CASE q \in net
  BY <1>1 DEF RequesterOnlyReceives
<1>2. ASSUME NEW n \in Node, SentBy(n, q) PROVE q.msg.recv # q.msg.dest
  <2>1. CASE ReplySent(n, q)
    BY <2>1 DEF ReplySent, ReplyOf
  <2>2. CASE ReplyRelayed(n, q)
    <3>1. PICK p \in net : p.msg \in Rrep /\ q.msg = RelayedReply(n, p.msg) /\ p.msg.dest # n
      BY <2>2 DEF ReplyRelayed
    <3>2. q.msg.recv = n /\ q.msg.dest = p.msg.dest
      BY <3>1 DEF RelayedReply, Rrep
    <3> QED
      BY <3>1, <3>2
  <2>3. ~HelloSent(n, q) /\ ~ErrorSent(n, q)
    BY DEF HelloSent, ErrorSent
  <2>4. ~RequestSent(n, q)
    <3>1. \A x, k : RequestOf(n, x, k).type = "RREQ"
      BY DEF RequestOf
    <3> QED
      BY <3>1 DEF RequestSent
  <2>5. ~RequestRelayed(n, q)
    BY DEF RequestRelayed, RelayedRequest, Rreq
  <2> QED
    BY <1>2, <2>1, <2>2, <2>3, <2>4, <2>5 DEF SentBy
<1> QED
  BY <1>1, <1>2, StepPackets DEF Sent

(* The number an entry gets from a message. *)
LEMMA InsertedSeq ==
    ASSUME NEW old, NEW inter, NEW seq, NEW key
    PROVE  InsertRoute(old, RouteEntry(inter, seq, key)).seq = seq
  BY DEF InsertRoute, RouteEntry

(* A relay does not forget a request while it is on the air. *)
LEMMA RecordedStep ==
    ASSUME TypeOK, PathInv, ~TriggerRerr, HellosOver, RequesterOnlyReceives, SequentialInv,
           [Next]_vars,
           NEW q \in net, q.msg.type = "RREQ", NEW x \in Node, Recorded(x, q.msg)
    PROVE  Recorded(x, q.msg)'
<1> DEFINE s == q.msg.src
           old == table[x][s]
           new == table'[x][s]
<1>1. q.msg \in Rreq /\ s \in Node /\ q.msg.seq \in Nat /\ Routed(q)
  BY PacketParts, MessageKinds DEF Rreq, Routed
<1>2. old \in Entry /\ NotNewer(q.msg.seq, old.seq)
  BY <1>1 DEF TypeOK, Recorded, Known
<1>3. PICK d \in Node, group \in SUBSET Node : Closed(s, d, group)
  <2>1. PICK r \in Node, d \in Node, group \in SUBSET Node : Closed(r, d, group)
    BY <1>1 DEF SequentialInv
  <2>2. Discovery(q.msg) = <<r, d>>
    BY <1>1, <2>1 DEF Closed, Within
  <2> QED
    BY <2>1, <2>2 DEF Discovery
<1>4. EnteredBy(x, s, new)
  BY <1>1, StepEntries
<1>5. ~TeslaEntry(x, s, new) /\ ~GreetingEntry(x, s, new)
  BY <1>1 DEF HellosOver, TeslaEntry, GreetingEntry
<1>6. ~Removed(new)
  BY DEF PathInv, PathBehind, Removed
<1>7. CASE new = old
  BY <1>1, <1>2, <1>7, RouteAssumption DEF Recorded, Known
<1>8. ASSUME NEW p \in net, p.to = x, Routed(p), s \in {p.msg.src, p.msg.recv},
             p.msg.type = "RREQ" => s = p.msg.src /\ RequestAccepted(x, p.msg),
             new = InsertRoute(old, RouteEntry(p.msg.recv, p.msg.seq, p.msg.key))
      PROVE  Recorded(x, q.msg)'
  <2>1. Within(p, s, d, group) /\ s # d
    BY <1>3 DEF Closed
  <2>2. p.msg.type = "RREQ"
    BY <1>8, <2>1 DEF Within, Discovery, RequesterOnlyReceives, Routed
  <2>3. p.msg \in Rreq /\ p.msg.seq \in Nat \ {0}
    BY <2>2, PacketParts, MessageKinds DEF Rreq
  <2>4. ~NotNewer(p.msg.seq, old.seq)
    BY <1>2, <1>8, <2>2, RouteAssumption DEF RequestAccepted, Known
  <2>5. old.seq \in Int
    BY <1>2 DEF Entry
  <2>6. q.msg.seq <= p.msg.seq
    BY <1>1, <1>2, <2>3, <2>4, <2>5 DEF NotNewer
  <2>7. RouteEntry(p.msg.recv, p.msg.seq, p.msg.key) \in Entry
    BY <2>3, RouteEntryType DEF Rreq
  <2>8. new # NoRoute /\ new.seq = p.msg.seq
    BY <1>2, <1>8, <2>7, InsertKnown, InsertedSeq
  <2> QED
    BY <2>6, <2>8 DEF Recorded, Known, NotNewer
<1> QED
  BY <1>4, <1>5, <1>6, <1>7, <1>8 DEF EnteredBy, RoutedEntry

(* A relay records what it relays, and had not recorded it before. *)
LEMMA RelayRecords ==
    ASSUME TypeOK, NEW p \in net, RelayRequest(p)
    PROVE  /\ p.to # p.msg.src /\ ~Recorded(p.to, p.msg)
           /\ Recorded(p.to, p.msg)'
<1> DEFINE n == p.to
           m == p.msg
           e == RouteEntry(m.recv, m.seq, m.key)
<1>1. n \in Node /\ m \in Rreq /\ m.src \in Node /\ m.seq \in Nat
  BY PacketParts, MessageKinds DEF RelayRequest, RelayEffect, Rreq
<1>2. n # m.src /\ ~Recorded(n, m)
  BY DEF RelayRequest, RelayEffect, RequestAccepted, Recorded
<1>3. table' = [table EXCEPT ![n][m.src] = InsertRoute(@, e)]
  BY DEF RelayRequest, RelayEffect
<1>4. e \in Entry /\ table[n][m.src] \in Entry \cup {NoRoute}
  BY <1>1, RouteEntryType DEF TypeOK, Rreq
<1>5. table'[n][m.src] = InsertRoute(table[n][m.src], e)
  BY <1>1, <1>3 DEF TypeOK
<1>6. table'[n][m.src] # NoRoute /\ table'[n][m.src].seq = m.seq
  BY <1>4, <1>5, InsertKnown, InsertedSeq
<1>7. Recorded(n, m)'
  BY <1>1, <1>6 DEF Recorded, Known, NotNewer
<1> QED
  BY <1>2, <1>7

(* The invariants a settled swarm has, for the composition with the trees. *)
SettledInv ==
    /\ TypeOK /\ PathInv /\ RangeInv
    /\ NeverRoutesToItself /\ SequentialInv
    /\ HellosOver /\ RequesterOnlyReceives

LEMMA SettledInvInit == Init => SettledInv
<1> SUFFICES ASSUME Init PROVE SettledInv
  OBVIOUS
<1>1. HellosOver /\ RequesterOnlyReceives
  BY DEF Init, HellosOver, RequesterOnlyReceives
<1> QED
  BY <1>1, TypeInit, PathInvInit, RangeInvInit, SequentialInit DEF SettledInv

LEMMA SettledInvStep == SettledInv /\ [SettledNext]_vars => SettledInv'
<1> SUFFICES ASSUME SettledInv, [SettledNext]_vars PROVE SettledInv'
  OBVIOUS
<1>1. [SequentialNext]_vars /\ [Next]_vars
  BY SequentialStep DEF SettledNext
<1>2. TypeOK' /\ PathInv' /\ RangeInv'
  BY <1>1, TypeStep, PathInvStep, RangeInvStep DEF SettledInv
<1>3. NeverRoutesToItself' /\ SequentialInv'
  BY <1>1, SelfStep, SequentialInvStep DEF SettledInv
<1>4. HellosOver' /\ RequesterOnlyReceives'
  BY <1>1, HellosOverStep, RequesterStep DEF SettledInv
<1> QED
  BY <1>2, <1>3, <1>4 DEF SettledInv
=========================================================================
