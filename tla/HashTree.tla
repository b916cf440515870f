------------------------------ MODULE HashTree ------------------------------
(***************************************************************************)
(* The hash tree a route request carries (hashTree.cpp).  Its leaves are   *)
(* the hashes of the drones the request has passed; every relay rebuilds   *)
(* what it needs of the tree from the hashes in the message, adds itself   *)
(* and sends the new root and the left hashes down the right spine.        *)
(*                                                                         *)
(* SHA-256 is symbolic: the hash of an address is a one-element sequence,  *)
(* that of two concatenated hashes a pair, and no two differing terms are  *)
(* equal.                                                                  *)
(*                                                                         *)
(* Operators named ...Mutant are plausible wrong versions of the           *)
(* definition that follows them; nothing uses them but mutation testing.   *)
(***************************************************************************)
EXTENDS Integers, Sequences

hashSelf(id) == <<id>>

hashNodes(h1, h2) == <<h1, h2>>

EmptyHash == <<>>                   \* the hash "" of a node just allocated

Null == [null |-> TRUE]

TreeNode(h) == [hash |-> h, left |-> Null, right |-> Null]

(* pow(2, n) and ceil(log2(n)) *)
TwoTo(n) == LET power[k \in 0..n] == IF k = 0 THEN 1 ELSE 2 * power[k - 1]
            IN  power[n]

Levels(n) == CHOOSE k \in 0..n : TwoTo(k) >= n /\ (k = 0 \/ TwoTo(k - 1) < n)

PowerOfTwo(n) == n = TwoTo(Levels(n))

--------------------------------------------------------------------------
(* The constructor for a received message: of the hashes it carries only   *)
(* the root and the left subtree are used, the right subtree is the        *)
(* transmitter's leaf, paired with itself on every level.                  *)

Above(node) == [hash |-> hashNodes(node.hash, node.hash), left |-> node, right |-> Null]

DoubledLeaf(id, levels) ==
    LET tree[k \in 1..levels] ==
            IF k = 1 THEN TreeNode(hashSelf(id)) ELSE Above(tree[k - 1])
    IN  tree[levels]

RebuiltTree(hashes, hopCount, recvAddr) ==
    IF hopCount = 1 THEN TreeNode(hashSelf(recvAddr))
    ELSE [hash |-> hashes[1], left |-> TreeNode(hashes[2]),
          right |-> DoubledLeaf(recvAddr, Levels(hopCount))]

--------------------------------------------------------------------------
(* addSelf, for the hop count the relay sends on: the new leaf goes to the *)
(* right subtree, at a place that recalculate finds by bisecting indices.  *)

Allocated(node) == IF node = Null THEN TreeNode(EmptyHash) ELSE node

(* visit is where a call of recalculate is: a node with the indices passed *)
(* for it, level steps above the leaves.  The mutant takes the first leaf  *)
(* of the right half for the last one of the left.                         *)
TurnsRightMutant(visit, level, hopCount) ==
    IF level > 1 THEN hopCount > visit.right /\ visit.right > 0
    ELSE hopCount % 2 = 0

TurnsRight(visit, level, hopCount) ==
    IF level > 1 THEN hopCount >= visit.right /\ visit.right > 0
    ELSE hopCount % 2 = 0

NextVisit(visit, level, hopCount) ==
    LET half == IF visit.avail \div 2 > 1 THEN visit.avail \div 2 ELSE 1
    IN  IF TurnsRight(visit, level, hopCount)
        THEN [node |-> Allocated(visit.node.right), avail |-> half,
              left |-> visit.left + half, right |-> visit.right]
        ELSE [node |-> Allocated(visit.node.left), avail |-> half,
              left |-> visit.left, right |-> visit.right - half]

GivesUp(visit) ==
    visit.node = Null \/ visit.avail < 1 \/ visit.left < 0 \/ visit.right < visit.left

(* The node a call leaves behind, whose child has been updated before. *)
Updated(node, toRight, child) ==
    [hash |-> hashNodes(IF toRight /\ node.left # Null THEN node.left.hash ELSE child.hash,
                        child.hash),
     left |-> IF toRight THEN node.left ELSE child,
     right |-> IF toRight THEN child ELSE node.right]

recalculate(start, leafLevel, hopCount, id) ==
    LET visit[k \in 0 .. leafLevel - 1] ==
            IF k = 0 THEN start
            ELSE NextVisit(visit[k - 1], leafLevel - k + 1, hopCount)
        result[level \in 0..leafLevel] ==
            IF level = 0 THEN TreeNode(hashSelf(id))
            ELSE IF GivesUp(visit[leafLevel - level]) THEN visit[leafLevel - level].node
            ELSE Updated(visit[leafLevel - level].node,
                         TurnsRight(visit[leafLevel - level], level, hopCount),
                         result[level - 1])
    IN  result[leafLevel]

(* Looks for a full tree one hop too late. *)
GrownMutant(root, hopCount) ==
    IF PowerOfTwo(hopCount)
    THEN [hash |-> EmptyHash, left |-> root, right |-> TreeNode(EmptyHash)]
    ELSE root

(* A full tree becomes the left half of one that is a level higher. *)
Grown(root, hopCount) ==
    IF PowerOfTwo(hopCount - 1)
    THEN [hash |-> EmptyHash, left |-> root, right |-> TreeNode(EmptyHash)]
    ELSE root

WithSelf(root, id, hopCount) ==
    LET avail == TwoTo(Levels(hopCount)) \div 2
        tree == Grown(root, hopCount)
        start == [node |-> tree.right, avail |-> avail \div 2,
                  left |-> avail + 1, right |-> avail + avail \div 2 + 1]
        right == recalculate(start, Levels(hopCount) - 1, hopCount, id)
    IN IF hopCount = 2
       THEN [hash |-> hashNodes(root.hash, hashSelf(id)),
             left |-> TreeNode(root.hash), right |-> TreeNode(hashSelf(id))]
       ELSE [tree EXCEPT !.right = right, !.hash = hashNodes(tree.left.hash, right.hash)]

--------------------------------------------------------------------------
(* Appends the left hashes down the right spine to the given ones.  A tree *)
(* of hopCount leaves has no more than hopCount nodes on that spine.       *)
StepDown(at) ==
    IF at.node = Null THEN at
    ELSE [node |-> at.node.right,
          hashes |-> IF at.node.left = Null THEN at.hashes
                     ELSE Append(at.hashes, at.node.left.hash)]

WithLeftHashes(hashes, root, hopCount) ==
    LET walk[k \in 0..hopCount] ==
            IF k = 0 THEN [node |-> root, hashes |-> hashes] ELSE StepDown(walk[k - 1])
    IN  walk[hopCount].hashes

(* Leaves the root out. *)
toVectorMutant(root, hopCount) == WithLeftHashes(<<>>, root, hopCount)

toVector(root, hopCount) == WithLeftHashes(<<root.hash>>, root, hopCount)

(* serializeTree writes a null pointer as "", so a tree can be read back   *)
(* only if no node has an empty hash.                                      *)
Below(row) == (UNION {{node.left, node.right} : node \in row}) \ {Null}

Serializable(root, hopCount) ==
    LET row[k \in 0..hopCount] == IF k = 0 THEN {root} ELSE Below(row[k - 1])
    IN  \A k \in 0..hopCount : \A node \in row[k] : node.hash # EmptyHash

--------------------------------------------------------------------------
(* Reference: the Merkle tree over a sequence of addresses, in which the   *)
(* last node of a level with an odd number of nodes is paired with itself. *)

MerkleRoot(path) ==
    LET Paired(row) ==
            [i \in 1 .. (Len(row) + 1) \div 2 |->
                hashNodes(row[2*i - 1], row[IF 2*i <= Len(row) THEN 2*i ELSE 2*i - 1])]
        row[k \in 0..Levels(Len(path))] ==
            IF k = 0 THEN [i \in DOMAIN path |-> hashSelf(path[i])] ELSE Paired(row[k - 1])
    IN  row[Levels(Len(path))][1]
==========================================================================
