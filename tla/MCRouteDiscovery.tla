------------------------- MODULE MCRouteDiscovery -------------------------
(* Instances of RouteDiscovery for TLC: topologies, bounds and later       *)
(* initial states.                                                         *)
EXTENDS RouteDiscovery, TLC

CONSTANTS a, b, c, d

Three == {a, b, c}
Four == {a, b, c, d}

BothWays(pairs) == pairs \cup {<<x[2], x[1]>> : x \in pairs}

LineABC == BothWays({<<a, b>>, <<b, c>>})
Kite == BothWays({<<a, b>>, <<a, c>>, <<b, c>>, <<c, d>>})

(* Sequence numbers start at 1: a bound of 2 is one discovery. *)
OnlyA == [n \in Node |-> IF n = a THEN 2 ELSE 1]
OnlyATwice == [n \in Node |-> IF n = a THEN 3 ELSE 1]

AToC == {<<a, c>>}
AToD == {<<a, d>>}

(* Every drone has had the hellos of its neighbours and has left the       *)
(* discovery phase; so many sequence numbers are used, these packets fly.  *)
QuietPhase(issued, packets) ==
    /\ phase = [n \in Node |-> "done"]
    /\ up = [n \in Node |-> TRUE]
    /\ seqNum = issued
    /\ epoch = [n \in Node |-> 0]
    /\ table = [n \in Node |-> [x \in Node |->
                   IF x \in Neighbours(n)
                   THEN [inter |-> x, seq |-> 0, hash |-> Authenticator(x),
                         key |-> EmptyKey]
                   ELSE NoRoute]]
    /\ net = packets

AfterHellos == QuietPhase([n \in Node |-> 1], {})

(* From a cold start, a drone discloses its next key when it has finished  *)
(* its discovery phase and the air is quiet.                               *)
KeysChangeWhenQuiet ==
    \A n \in Node : epoch'[n] # epoch[n] => net = {} /\ phase[n] = "done"

(* Two requests of a for d are on the air at once and overtake each other. *)
OvertakingRequests ==
    /\ epoch = [n \in Node |-> 0]
    /\ QuietPhase(OnlyATwice, UNION {Broadcast(a, RequestOf(a, d, s)) : s \in {2, 3}})

OvertakingSpec == OvertakingRequests /\ [][Next]_vars

(* One discovery at a time: the next one begins when the air is quiet.     *)
OneAtATime ==
    \A n \in Node : seqNum'[n] # seqNum[n] =>
        net = {} /\ seqNum'[n] = seqNum[n] + 1
==========================================================================
