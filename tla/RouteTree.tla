----------------------------- MODULE RouteTree -----------------------------
(***************************************************************************)
(* Route discovery with the hash tree its requests carry: RouteDiscovery   *)
(* composed with HashTree.  RouteDiscovery takes the tree of a request for *)
(* verified; here every request in flight has one, and every drone the     *)
(* cache of addSelf.  (The cache is pruned at 1000 entries, which no       *)
(* instance comes near.)                                                   *)
(*                                                                         *)
(* Operators named ...Mutant are plausible wrong versions of the           *)
(* definition that follows them; nothing uses them but mutation testing.   *)
(***************************************************************************)
EXTENDS RouteDiscovery, HashTree

VARIABLES
    carried,    \* the requests in flight, with their hashTree and rootHash
    cache       \* HashTree::addSelfCache of every drone

treeVars == <<vars, carried, cache>>

Requests(packets) == {p.msg : p \in {q \in packets : q.msg.type = "RREQ"}}

(* A message whose root is the given tree.  path is history: the drones    *)
(* that transmitted it.                                                    *)
Carrying(m, root, path) ==
    [msg |-> m, hashes |-> toVector(root, m.hop), rootHash |-> root.hash, path |-> path]

(* initRouteDiscovery *)
SourceTree(m) == Carrying(m, TreeNode(hashSelf(m.src)), <<m.src>>)

TreeInit ==
    /\ carried = {SourceTree(m) : m \in Requests(net)}
    /\ cache = [n \in Node |-> {}]

(* The tree routeRequestHandler builds from a request ... *)
ReceivedTree(c) == RebuiltTree(c.hashes, c.msg.hop, c.msg.recv)

verifyTree(c) == c.rootHash = ReceivedTree(c).hash

(* ... and addSelf with its cache, keyed by root and hop count (the        *)
(* address is always the drone's own).                                     *)
Cached(n, root, hop) == {e \in cache[n] : e.rootHash = root.hash /\ e.hopCount = hop}

(* Stores the tree as it was received. *)
CacheEntryMutant(root, hop, tree) ==
    [rootHash |-> root.hash, hopCount |-> hop, tree |-> root]

CacheEntry(root, hop, tree) == [rootHash |-> root.hash, hopCount |-> hop, tree |-> tree]

addSelf(n, root, hop) ==
    IF Cached(n, root, hop) # {} THEN (CHOOSE e \in Cached(n, root, hop) : TRUE).tree
    ELSE WithSelf(root, n, hop)

StillCarried == {c \in carried : c.msg \in Requests(net')}

InitDiscovery(w, runs) ==
    /\ InitRouteDiscovery(w[1], w[2], runs)
    /\ carried' = carried \cup {SourceTree(m) : m \in Requests(net') \ Requests(net)}
    /\ UNCHANGED cache

RelayWithTree(p, c) ==
    LET n == p.to
        hop == p.msg.hop + 1
        root == ReceivedTree(c)
        tree == addSelf(n, root, hop)
        relayed == Requests(net') \cap
                   {RelayedRequest(n, p.msg, h) : h \in RelayHashes(n, p.msg.seq, hop)} IN
    /\ RelayRequest(p)
    /\ carried' = StillCarried \cup {Carrying(m, tree, Append(c.path, n)) : m \in relayed}
    /\ cache' = [cache EXCEPT ![n] = @ \cup {CacheEntry(root, hop, tree)}]

HandleMessage(p) ==
    \/ Settle(p) /\ carried' = StillCarried /\ UNCHANGED cache
    \/ \E c \in carried : c.msg = p.msg /\ RelayWithTree(p, c)

TreeNext ==
    \/ \E n \in Node : OwnStep(n) /\ UNCHANGED <<carried, cache>>
    \/ \E w \in Wanted, runs \in {1, 2} : InitDiscovery(w, runs)
    \/ \E p \in net : HandleMessage(p)

TreeSpec == Init /\ TreeInit /\ [][TreeNext]_treeVars

--------------------------------------------------------------------------
(* Properties *)

(* The tree of a request, rebuilt from a part of its hashes only, always   *)
(* has the root the request names, whatever the relays before did: the     *)
(* check at 1212 rejects no request, as RouteDiscovery assumes.            *)
AlwaysVerified ==
    \A c \in carried : (c.msg.hop > 1 => Len(c.hashes) > 1) /\ verifyTree(c)

(* The root commits to the whole path: it is the Merkle root over the      *)
(* drones that transmitted the request, in their order (hashTree.hpp,      *)
(* "along the path, we are rebuilding tree"), as long as these are no more *)
(* than six.                                                               *)
RootNamesPath ==
    \A c \in carried : Len(c.path) <= 6 => c.rootHash = MerkleRoot(c.path)

(* Six is the limit.  Of the right half of the tree the constructor knows  *)
(* the transmitter's leaf only; where the seventh drone adds itself, the   *)
(* fifth is not there any more, and the root is that of a path on which    *)
(* the sixth stands in its place.                                          *)
SeventhForgetsFifth ==
    \A c \in carried : Len(c.path) = 7 =>
        c.rootHash = MerkleRoot([c.path EXCEPT ![5] = c.path[6]])

(* Where discoveries do not overlap, no drone relays a request that it has *)
(* transmitted before, however the copies of it overtake each other: what  *)
(* bounds a flood where the tests of ttl and hop count are left out        *)
(* (1168-1205).  A late reply can set the number of its sender's entry     *)
(* back (1597-1606), after which a request is taken again.                 *)
RelayedOnce ==
    \A c \in carried :
        \A i, j \in DOMAIN c.path : c.path[i] = c.path[j] => i = j

(* A cached tree is the one a relay would compute again: root, own address *)
(* and hop count determine all that the constructor and addSelf use, and   *)
(* the tree survives its serialization.                                    *)
CacheHitIsRecomputation ==
    \A p \in net : \A c \in carried : c.msg = p.msg =>
        LET root == ReceivedTree(c)
            hop == c.msg.hop + 1 IN
        \A e \in Cached(p.to, root, hop) :
            e.tree = WithSelf(root, p.to, hop) /\ Serializable(e.tree, hop)
==========================================================================
