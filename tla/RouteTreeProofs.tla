-------------------------- MODULE RouteTreeProofs --------------------------
(***************************************************************************)
(* Proofs about RouteTree and HashTree, for every swarm, topology and      *)
(* length of a path.                                                       *)
(***************************************************************************)
EXTENDS RouteTree, RouteDiscoveryProofs, FiniteSetTheorems, SequenceTheorems

(***************************************************************************)
(* Induction.  A set of numbers at which a claim fails has a least element *)
(* if it has any.                                                          *)
(***************************************************************************)

LEMMA LeastNumber ==
    ASSUME NEW B \in SUBSET Nat, B # {}
    PROVE  \E m \in B : \A k \in B : m <= k
<1> DEFINE T == {1..n : n \in B}
<1>1. T \subseteq FiniteSubsetsOf(Nat)
  <2> SUFFICES ASSUME NEW n \in B PROVE 1..n \in FiniteSubsetsOf(Nat)
    OBVIOUS
  <2>1. IsFiniteSet(1..n)
    BY FS_Interval
  <2> QED
    BY <2>1 DEF FiniteSubsetsOf
<1>2. T # {}
  OBVIOUS
<1>3. IsWellFoundedOn(StrictSubsetOrdering(Nat), FiniteSubsetsOf(Nat))
  BY FS_StrictSubsetOrderingWellFounded
<1>4. PICK x \in T : \A y \in T : <<y, x>> \notin StrictSubsetOrdering(Nat)
  <2> HIDE DEF T
  <2> QED
    BY <1>1, <1>2, <1>3, WFMin
<1>5. PICK m \in B : x = 1..m
  OBVIOUS
<1>6. ASSUME NEW k \in B, k < m PROVE FALSE
  <2>1. 1..k \subseteq 1..m /\ 1..k # 1..m
    BY <1>6
  <2>2. <<1..k, 1..m>> \in StrictSubsetOrdering(Nat)
    BY <2>1 DEF StrictSubsetOrdering
  <2> QED
    BY <2>2, <1>4, <1>5
<1> QED
  BY <1>6

LEMMA UpTo ==
    ASSUME NEW n \in Nat, NEW P, 0 \in P,
           \A k \in 1..n : k - 1 \in P => k \in P
    PROVE  \A k \in 0..n : k \in P
<1> DEFINE B == {k \in 0..n : k \notin P}
<1> SUFFICES ASSUME B # {} PROVE FALSE
  OBVIOUS
<1>1. PICK m \in B : \A k \in B : m <= k
  <2>1. B \in SUBSET Nat
    OBVIOUS
  <2> HIDE DEF B
  <2> QED
    BY <2>1, LeastNumber
<1>2. m \in 1..n /\ m - 1 \in P
  BY <1>1
<1> QED
  BY <1>1, <1>2

(***************************************************************************)
(* Powers of two                                                           *)
(***************************************************************************)

Powers(f, n) == f = [k \in 0..n |-> IF k = 0 THEN 1 ELSE 2 * f[k - 1]]

LEMMA PowersExist == \A n \in Nat : \E f : Powers(f, n)
<1> SUFFICES ASSUME NEW n \in Nat PROVE \E f : Powers(f, n)
  OBVIOUS
<1> DEFINE P == {k \in 0..n : \E f : Powers(f, k)}
<1>1. 0 \in P
  <2>1. Powers([i \in 0..0 |-> 1], 0)
    BY DEF Powers
  <2> QED
    BY <2>1
<1>2. ASSUME NEW k \in 1..n, k - 1 \in P PROVE k \in P
  <2>1. PICK f : Powers(f, k - 1)
    BY <1>2
  <2> DEFINE g == [i \in 0..k |-> IF i = k THEN 2 * f[k - 1] ELSE f[i]]
  <2>2. \A i \in 0..k : g[i] = IF i = 0 THEN 1 ELSE 2 * g[i - 1]
    BY <2>1 DEF Powers
  <2>3. Powers(g, k)
    BY <2>2 DEF Powers
  <2> QED
    BY <2>3
<1> QED
  <2> HIDE DEF P
  <2>1. \A k \in 0..n : k \in P
    BY <1>1, <1>2, UpTo
  <2> QED
    BY <2>1 DEF P

LEMMA TwoToIsPower == \A n \in Nat : \E f : Powers(f, n) /\ TwoTo(n) = f[n]
<1> SUFFICES ASSUME NEW n \in Nat PROVE \E f : Powers(f, n) /\ TwoTo(n) = f[n]
  OBVIOUS
<1> DEFINE power == CHOOSE f : Powers(f, n)
<1>1. Powers(power, n)
  BY PowersExist
<1>2. TwoTo(n) = power[n]
  BY DEF TwoTo, Powers
<1> QED
  BY <1>1, <1>2

(* pow(2, n + 1) is twice pow(2, n), and more than n + 1. *)
LEMMA PowerSteps ==
    ASSUME NEW n \in Nat
    PROVE  /\ TwoTo(n) \in Nat /\ TwoTo(n) >= n + 1
           /\ TwoTo(0) = 1 /\ TwoTo(n + 1) = 2 * TwoTo(n)
<1>1. PICK f : Powers(f, n) /\ TwoTo(n) = f[n]
  BY TwoToIsPower
<1>2. PICK g : Powers(g, n + 1) /\ TwoTo(n + 1) = g[n + 1]
  BY TwoToIsPower
<1>3. \A k \in 0..n : f[k] \in Nat /\ f[k] >= k + 1 /\ f[k] = g[k]
  <2> DEFINE P == {k \in 0..n : f[k] \in Nat /\ f[k] >= k + 1 /\ f[k] = g[k]}
  <2>1. 0 \in P
    BY <1>1, <1>2 DEF Powers
  <2>2. ASSUME NEW k \in 1..n, k - 1 \in P PROVE k \in P
    BY <1>1, <1>2, <2>2 DEF Powers
  <2> HIDE DEF P
  <2>3. \A k \in 0..n : k \in P
    BY <2>1, <2>2, UpTo
  <2> QED
    BY <2>3 DEF P
<1>4. g[n + 1] = 2 * g[n]
  BY <1>2 DEF Powers
<1>5. TwoTo(0) = 1
  <2>1. PICK h : Powers(h, 0) /\ TwoTo(0) = h[0]
    BY TwoToIsPower
  <2> QED
    BY <2>1 DEF Powers
<1> QED
  BY <1>1, <1>2, <1>3, <1>4, <1>5

(* ceil(log2(n)) is the least k with 2^k >= n. *)
LEMMA LevelsExist ==
    ASSUME NEW n \in Nat
    PROVE  /\ Levels(n) \in 0..n
           /\ TwoTo(Levels(n)) >= n /\ (Levels(n) = 0 \/ TwoTo(Levels(n) - 1) < n)
<1> DEFINE B == {k \in 0..n : TwoTo(k) >= n}
           IsLevel(k) == TwoTo(k) >= n /\ (k = 0 \/ TwoTo(k - 1) < n)
<1>1. n \in B
  BY PowerSteps
<1>2. PICK m \in B : \A k \in B : m <= k
  <2>1. B \in SUBSET Nat /\ B # {}
    BY <1>1
  <2> HIDE DEF B
  <2> QED
    BY <2>1, LeastNumber
<1>3. m \in 0..n /\ IsLevel(m)
  <2>1. ASSUME m # 0 PROVE TwoTo(m - 1) < n
    <3>1. m - 1 \in 0..n /\ m - 1 \notin B
      BY <1>2, <2>1
    <3>2. TwoTo(m - 1) \in Nat
      BY <3>1, PowerSteps
    <3> QED
      BY <3>1, <3>2
  <2> QED
    BY <1>2, <2>1
<1>4. Levels(n) \in 0..n /\ IsLevel(Levels(n))
  <2>1. Levels(n) = CHOOSE k \in 0..n : IsLevel(k)
    BY DEF Levels
  <2> HIDE DEF IsLevel
  <2> QED
    BY <1>3, <2>1
<1> QED
  BY <1>4

LEMMA LevelsOf ==
    ASSUME NEW n \in Nat
    PROVE  /\ Levels(n) \in Nat
           /\ n = 2 => Levels(n) = 1
           /\ n >= 3 => Levels(n) >= 2
<1> DEFINE l == Levels(n)
<1>1. l \in 0..n /\ TwoTo(l) >= n /\ (l = 0 \/ TwoTo(l - 1) < n)
  BY LevelsExist
<1>2. l \in Nat /\ TwoTo(0) = 1 /\ TwoTo(1) = 2
  <2>1. TwoTo(0) = 1 /\ TwoTo(0 + 1) = 2 * TwoTo(0)
    BY PowerSteps
  <2> QED
    BY <1>1, <2>1
<1>3. CASE n = 2
  <2>1. l = 0 \/ l - 1 \in Nat
    BY <1>2
  <2>2. ASSUME NEW k \in Nat PROVE TwoTo(k) \in Nat /\ TwoTo(k) >= k + 1
    BY PowerSteps
  <2> HIDE DEF l
  <2>3. l - 1 \in Nat => TwoTo(l - 1) >= l
    BY <1>2, <2>2
  <2> QED
    BY <1>1, <1>2, <1>3, <2>1, <2>2, <2>3 DEF l
<1> QED
  BY <1>1, <1>2, <1>3

(***************************************************************************)
(* Nodes                                                                   *)
(***************************************************************************)

IsNode(x) == x = [hash |-> x.hash, left |-> x.left, right |-> x.right]

LEMMA NodeIsNotNull == ASSUME NEW x, IsNode(x) PROVE x # Null
<1>1. DOMAIN x = {"hash", "left", "right"}
  BY DEF IsNode
<1>2. DOMAIN Null = {"null"}
  BY DEF Null
<1> QED
  BY <1>1, <1>2

LEMMA TreeNodeIsNode ==
    ASSUME NEW h
    PROVE  /\ IsNode(TreeNode(h)) /\ TreeNode(h).hash = h
           /\ TreeNode(h).left = Null /\ TreeNode(h).right = Null
  BY DEF TreeNode, IsNode

LEMMA AllocatedIsNode ==
    ASSUME NEW x, x = Null \/ IsNode(x)
    PROVE  IsNode(Allocated(x))
  BY TreeNodeIsNode DEF Allocated

(* The constructor's right subtree *)
Doubled(f, id, n) ==
    f = [k \in 1..n |-> IF k = 1 THEN TreeNode(hashSelf(id)) ELSE Above(f[k - 1])]

LEMMA DoubledExists == \A n \in Nat : \A id : \E f : Doubled(f, id, n)
<1> SUFFICES ASSUME NEW n \in Nat, NEW id PROVE \E f : Doubled(f, id, n)
  OBVIOUS
<1> DEFINE P == {k \in 0..n : \E f : Doubled(f, id, k)}
<1>1. 0 \in P
  <2>1. Doubled([i \in 1..0 |-> 1], id, 0)
    BY DEF Doubled
  <2> QED
    BY <2>1
<1>2. ASSUME NEW k \in 1..n, k - 1 \in P PROVE k \in P
  <2>1. PICK f : Doubled(f, id, k - 1)
    BY <1>2
  <2> DEFINE last == IF k = 1 THEN TreeNode(hashSelf(id)) ELSE Above(f[k - 1])
             g == [i \in 1..k |-> IF i = k THEN last ELSE f[i]]
  <2>2. \A i \in 1..k : g[i] = IF i = 1 THEN TreeNode(hashSelf(id)) ELSE Above(g[i - 1])
    BY <2>1 DEF Doubled
  <2>3. Doubled(g, id, k)
    BY <2>2 DEF Doubled
  <2> QED
    BY <2>3
<1> QED
  <2> HIDE DEF P
  <2>1. \A k \in 0..n : k \in P
    BY <1>1, <1>2, UpTo
  <2> QED
    BY <2>1 DEF P

LEMMA DoubledLeafIsDoubled ==
    ASSUME NEW n \in Nat, NEW id
    PROVE  \E f : Doubled(f, id, n) /\ DoubledLeaf(id, n) = f[n]
<1> DEFINE tree == CHOOSE f : Doubled(f, id, n)
<1>1. Doubled(tree, id, n)
  BY DoubledExists
<1>2. DoubledLeaf(id, n) = tree[n]
  BY DEF DoubledLeaf, Doubled, Above
<1> QED
  BY <1>1, <1>2

(* The nodes of that subtree *)
LEMMA DoubledNodes ==
    ASSUME NEW n \in Nat, NEW id, NEW f, Doubled(f, id, n)
    PROVE  \A k \in 1..n : /\ IsNode(f[k]) /\ f[k].hash # EmptyHash
                           /\ f[k].left = Null \/ \E i \in 1..n : f[k].left = f[i]
                           /\ f[k].right = Null
<1> SUFFICES ASSUME NEW k \in 1..n
             PROVE  /\ IsNode(f[k]) /\ f[k].hash # EmptyHash
                    /\ f[k].left = Null \/ \E i \in 1..n : f[k].left = f[i]
                    /\ f[k].right = Null
  OBVIOUS
<1>1. f[k] = IF k = 1 THEN TreeNode(hashSelf(id)) ELSE Above(f[k - 1])
  BY DEF Doubled
<1>2. CASE k = 1
  <2>1. hashSelf(id) # EmptyHash
    BY DEF hashSelf, EmptyHash
  <2> QED
    BY <1>1, <1>2, <2>1, TreeNodeIsNode
<1>3. CASE k # 1
  <2>1. f[k] = Above(f[k - 1]) /\ k - 1 \in 1..n
    BY <1>1, <1>3
  <2>2. f[k].hash # EmptyHash
    BY <2>1 DEF Above, hashNodes, EmptyHash
  <2> QED
    BY <2>1, <2>2 DEF Above, IsNode
<1> QED
  BY <1>2, <1>3

(***************************************************************************)
(* recalculate                                                             *)
(***************************************************************************)

Visits(f, start, levels, hop, n) ==
    f = [k \in 0..n |-> IF k = 0 THEN start ELSE NextVisit(f[k - 1], levels - k + 1, hop)]

LEMMA VisitsExist ==
    ASSUME NEW start, NEW levels, NEW hop
    PROVE  \A n \in Nat : \E f : Visits(f, start, levels, hop, n)
<1> SUFFICES ASSUME NEW n \in Nat PROVE \E f : Visits(f, start, levels, hop, n)
  OBVIOUS
<1> DEFINE P == {k \in 0..n : \E f : Visits(f, start, levels, hop, k)}
<1>1. 0 \in P
  <2>1. Visits([i \in 0..0 |-> start], start, levels, hop, 0)
    BY DEF Visits
  <2> QED
    BY <2>1
<1>2. ASSUME NEW k \in 1..n, k - 1 \in P PROVE k \in P
  <2>1. PICK f : Visits(f, start, levels, hop, k - 1)
    BY <1>2
  <2> DEFINE last == NextVisit(f[k - 1], levels - k + 1, hop)
             g == [i \in 0..k |-> IF i = k THEN last ELSE f[i]]
  <2>2. \A i \in 0..k : g[i] = IF i = 0 THEN start
                               ELSE NextVisit(g[i - 1], levels - i + 1, hop)
    BY <2>1 DEF Visits
  <2>3. Visits(g, start, levels, hop, k)
    BY <2>2 DEF Visits
  <2> QED
    BY <2>3
<1> QED
  <2> HIDE DEF P
  <2>1. \A k \in 0..n : k \in P
    BY <1>1, <1>2, UpTo
  <2> QED
    BY <2>1 DEF P

Results(f, v, levels, hop, id, n) ==
    f = [l \in 0..n |->
            IF l = 0 THEN TreeNode(hashSelf(id))
            ELSE IF GivesUp(v[levels - l]) THEN v[levels - l].node
            ELSE Updated(v[levels - l].node, TurnsRight(v[levels - l], l, hop), f[l - 1])]

LEMMA ResultsExist ==
    ASSUME NEW v, NEW levels, NEW hop, NEW id
    PROVE  \A n \in Nat : \E f : Results(f, v, levels, hop, id, n)
<1> SUFFICES ASSUME NEW n \in Nat PROVE \E f : Results(f, v, levels, hop, id, n)
  OBVIOUS
<1> DEFINE P == {k \in 0..n : \E f : Results(f, v, levels, hop, id, k)}
           Result(l, below) ==
              IF GivesUp(v[levels - l]) THEN v[levels - l].node
              ELSE Updated(v[levels - l].node, TurnsRight(v[levels - l], l, hop), below)
<1>1. 0 \in P
  <2>1. Results([i \in 0..0 |-> TreeNode(hashSelf(id))], v, levels, hop, id, 0)
    BY DEF Results
  <2> QED
    BY <2>1
<1>2. ASSUME NEW k \in 1..n, k - 1 \in P PROVE k \in P
  <2>1. PICK f : Results(f, v, levels, hop, id, k - 1)
    BY <1>2
  <2>2. f = [l \in 0..k - 1 |-> IF l = 0 THEN TreeNode(hashSelf(id)) ELSE Result(l, f[l - 1])]
    BY <2>1 DEF Results
  <2> DEFINE g == [i \in 0..k |-> IF i = k THEN Result(k, f[k - 1]) ELSE f[i]]
  <2>3. g = [l \in 0..k |-> IF l = 0 THEN TreeNode(hashSelf(id)) ELSE Result(l, g[l - 1])]
    <3> HIDE DEF Result
    <3>1. \A l \in 0..k : g[l] = IF l = 0 THEN TreeNode(hashSelf(id)) ELSE Result(l, g[l - 1])
      BY <2>2
    <3> QED
      BY <3>1
  <2>4. Results(g, v, levels, hop, id, k)
    BY <2>3 DEF Results
  <2> QED
    BY <2>4
<1> QED
  <2> HIDE DEF P
  <2>1. \A k \in 0..n : k \in P
    BY <1>1, <1>2, UpTo
  <2> QED
    BY <2>1 DEF P

LEMMA recalculateVisits ==
    ASSUME NEW start, NEW levels \in Nat \ {0}, NEW hop, NEW id
    PROVE  \E v, f : /\ Visits(v, start, levels, hop, levels - 1)
                     /\ Results(f, v, levels, hop, id, levels)
                     /\ recalculate(start, levels, hop, id) = f[levels]
<1> DEFINE visit == CHOOSE v : Visits(v, start, levels, hop, levels - 1)
           result == CHOOSE f : Results(f, visit, levels, hop, id, levels)
<1>1. Visits(visit, start, levels, hop, levels - 1)
  BY VisitsExist
<1>2. Results(result, visit, levels, hop, id, levels)
  <2> HIDE DEF visit
  <2> QED
    BY ResultsExist
<1>3. recalculate(start, levels, hop, id) = result[levels]
  BY DEF recalculate, Visits, Results
<1> QED
  BY <1>1, <1>2, <1>3

(* A part of a tree that can be serialized: its nodes have hashes, and     *)
(* their children are among them.                                          *)
Whole(D) ==
    \A x \in D : /\ IsNode(x) /\ x.hash # EmptyHash
                 /\ x.left \in D \cup {Null} /\ x.right \in D \cup {Null}

LEMMA DoubledIsWhole ==
    ASSUME NEW n \in Nat, NEW id, NEW f, Doubled(f, id, n)
    PROVE  Whole({f[k] : k \in 1..n})
<1> SUFFICES ASSUME NEW k \in 1..n
             PROVE  /\ IsNode(f[k]) /\ f[k].hash # EmptyHash
                    /\ f[k].left \in {f[i] : i \in 1..n} \cup {Null}
                    /\ f[k].right \in {f[i] : i \in 1..n} \cup {Null}
  BY DEF Whole
<1> QED
  BY DoubledNodes

(* What recalculate visits in the right subtree: a part that was there, or *)
(* a node that it has just allocated.                                      *)
Visitable(D) == D \cup {TreeNode(EmptyHash)}

LEMMA VisitedNodes ==
    ASSUME NEW D, Whole(D), NEW x \in Visitable(D)
    PROVE  /\ IsNode(x)
           /\ x.left \in D \cup {Null} /\ x.right \in D \cup {Null}
           /\ Allocated(x.left) \in Visitable(D) /\ Allocated(x.right) \in Visitable(D)
<1>1. IsNode(x) /\ x.left \in D \cup {Null} /\ x.right \in D \cup {Null}
  BY TreeNodeIsNode DEF Whole, Visitable
<1> QED
  BY <1>1 DEF Allocated, Visitable

(* The indices of a call halve in step with the levels: the range is never *)
(* empty and the bisection reaches the leaves.                             *)
Halving(visit, k) ==
    /\ visit.avail = TwoTo(k)
    /\ visit.left \in Nat /\ visit.right \in Nat
    /\ visit.right - visit.left >= visit.avail

LEMMA NextVisitHalves ==
    ASSUME NEW visit, NEW level, NEW hop, NEW k \in Nat \ {0}, Halving(visit, k),
           NEW D, Whole(D), visit.node \in Visitable(D)
    PROVE  LET next == NextVisit(visit, level, hop)
           IN  Halving(next, k - 1) /\ next.node \in Visitable(D)
<1> DEFINE half == IF visit.avail \div 2 > 1 THEN visit.avail \div 2 ELSE 1
           next == NextVisit(visit, level, hop)
<1>1. half = TwoTo(k - 1) /\ half \in Nat /\ visit.avail = 2 * half
  <2>1. k - 1 \in Nat /\ k - 1 + 1 = k
    OBVIOUS
  <2>2. /\ TwoTo(k - 1) \in Nat /\ TwoTo(k - 1) >= 1
        /\ TwoTo(k - 1 + 1) = 2 * TwoTo(k - 1)
    BY <2>1, PowerSteps
  <2>3. visit.avail = 2 * TwoTo(k - 1)
    BY <2>1, <2>2 DEF Halving
  <2> QED
    BY <2>2, <2>3
<1>2. CASE TurnsRight(visit, level, hop)
  <2>1. next = [node |-> Allocated(visit.node.right), avail |-> half,
                left |-> visit.left + half, right |-> visit.right]
    BY <1>2 DEF NextVisit
  <2>2. Halving(next, k - 1)
    <3> HIDE DEF half, next
    <3> QED
      BY <1>1, <2>1 DEF Halving
  <2>3. next.node \in Visitable(D)
    BY <2>1, VisitedNodes
  <2> QED
    BY <2>2, <2>3
<1>3. CASE ~TurnsRight(visit, level, hop)
  <2>1. next = [node |-> Allocated(visit.node.left), avail |-> half,
                left |-> visit.left, right |-> visit.right - half]
    BY <1>3 DEF NextVisit
  <2>2. Halving(next, k - 1)
    <3> HIDE DEF half, next
    <3> QED
      BY <1>1, <2>1 DEF Halving
  <2>3. next.node \in Visitable(D)
    BY <2>1, VisitedNodes
  <2> QED
    BY <2>2, <2>3
<1> QED
  BY <1>2, <1>3

LEMMA VisitsReach ==
    ASSUME NEW levels \in Nat \ {0}, NEW hop, NEW v, NEW start,
           Visits(v, start, levels, hop, levels - 1),
           NEW D, Whole(D), start.node \in Visitable(D), Halving(start, levels - 1)
    PROVE  \A k \in 0..levels - 1 : v[k].node \in Visitable(D) /\ ~GivesUp(v[k])
<1> DEFINE n == levels - 1
           Ok(k) == v[k].node \in Visitable(D) /\ Halving(v[k], n - k)
           P == {k \in 0..n : Ok(k)}
<1>1. 0 \in P
  <2>1. v[0] = start
    BY DEF Visits
  <2> QED
    BY <2>1
<1>2. ASSUME NEW k \in 1..n, k - 1 \in P PROVE k \in P
  <2>1. v[k] = NextVisit(v[k - 1], levels - k + 1, hop)
    BY DEF Visits
  <2>2. v[k - 1].node \in Visitable(D) /\ Halving(v[k - 1], n - (k - 1))
    BY <1>2
  <2>3. n - (k - 1) \in Nat \ {0} /\ n - (k - 1) - 1 = n - k
    OBVIOUS
  <2>4. Halving(v[k], n - (k - 1) - 1) /\ v[k].node \in Visitable(D)
    BY <2>1, <2>2, <2>3, NextVisitHalves
  <2> QED
    BY <2>3, <2>4
<1>3. \A k \in 0..n : k \in P
  <2> HIDE DEF P
  <2> QED
    BY <1>1, <1>2, UpTo
<1>4. ASSUME NEW k \in 0..n PROVE Ok(k) /\ ~GivesUp(v[k])
  <2>1. Ok(k)
    BY <1>3
  <2>2. IsNode(v[k].node)
    BY <2>1, VisitedNodes
  <2>3. v[k].node # Null
    BY <2>2, NodeIsNotNull
  <2>4. n - k \in Nat
    OBVIOUS
  <2>5. TwoTo(n - k) \in Nat /\ TwoTo(n - k) >= n - k + 1
    BY <2>4, PowerSteps
  <2> QED
    BY <2>1, <2>3, <2>4, <2>5 DEF GivesUp, Halving
<1> QED
  BY <1>4

(* What recalculate leaves behind is the new leaf at the end of the hashes *)
(* of a whole tree.                                                        *)
LEMMA UpdatedNode ==
    ASSUME NEW D, Whole(D), NEW x \in Visitable(D), NEW toRight, NEW child
    PROVE  LET node == Updated(x, toRight, child)
           IN  /\ IsNode(node) /\ node.hash # EmptyHash /\ node.hash[2] = child.hash
               /\ node.left \in D \cup {Null, child} /\ node.right \in D \cup {Null, child}
<1>1. x.left \in D \cup {Null} /\ x.right \in D \cup {Null}
  BY VisitedNodes
<1> DEFINE first == IF toRight /\ x.left # Null THEN x.left.hash ELSE child.hash
           node == Updated(x, toRight, child)
<1>2. node = [hash |-> <<first, child.hash>>,
              left |-> IF toRight THEN x.left ELSE child,
              right |-> IF toRight THEN child ELSE x.right]
  BY DEF Updated, hashNodes
<1>3. node.hash = <<first, child.hash>>
  BY <1>2
<1>4. node.hash # EmptyHash /\ node.hash[2] = child.hash
  BY <1>3 DEF EmptyHash
<1>5. IsNode(node)
  BY <1>2 DEF IsNode
<1> QED
  BY <1>1, <1>2, <1>4, <1>5

(* h holds id at the end of k pairs *)
EndsIn(h, k, id) ==
    \E d : /\ d[0] = h /\ d[k] = hashSelf(id)
           /\ \A i \in 1..k : d[i] = d[i - 1][2]

LEMMA EndsInOne ==
    ASSUME NEW h, NEW k \in Nat, NEW a, NEW b, EndsIn(h, k, a), EndsIn(h, k, b)
    PROVE  a = b
<1>1. PICK d : d[0] = h /\ d[k] = hashSelf(a) /\ \A i \in 1..k : d[i] = d[i - 1][2]
  BY DEF EndsIn
<1>2. PICK e : e[0] = h /\ e[k] = hashSelf(b) /\ \A i \in 1..k : e[i] = e[i - 1][2]
  BY DEF EndsIn
<1> DEFINE P == {i \in 0..k : d[i] = e[i]}
<1>3. 0 \in P
  BY <1>1, <1>2
<1>4. ASSUME NEW i \in 1..k, i - 1 \in P PROVE i \in P
  BY <1>1, <1>2, <1>4
<1>5. \A i \in 0..k : i \in P
  <2> HIDE DEF P
  <2> QED
    BY <1>3, <1>4, UpTo
<1>6. <<a>> = <<b>>
  BY <1>1, <1>2, <1>5 DEF hashSelf
<1> QED
  BY <1>6

LEMMA recalculateResult ==
    ASSUME NEW levels \in Nat \ {0}, NEW hop, NEW id, NEW start,
           NEW D, Whole(D), start.node \in Visitable(D), Halving(start, levels - 1)
    PROVE  LET right == recalculate(start, levels, hop, id)
           IN  /\ EndsIn(right.hash, levels, id)
               /\ \E W : Whole(W) /\ right \in W
<1> DEFINE right == recalculate(start, levels, hop, id)
<1>1. PICK v, f : /\ Visits(v, start, levels, hop, levels - 1)
                  /\ Results(f, v, levels, hop, id, levels)
                  /\ right = f[levels]
  BY recalculateVisits
<1>2. f[0] = TreeNode(hashSelf(id))
  BY <1>1 DEF Results
<1>3. ASSUME NEW l \in 1..levels
      PROVE  /\ IsNode(f[l]) /\ f[l].hash # EmptyHash /\ f[l].hash[2] = f[l - 1].hash
             /\ f[l].left \in D \cup {Null, f[l - 1]}
             /\ f[l].right \in D \cup {Null, f[l - 1]}
  <2> DEFINE at == v[levels - l]
  <2>1. at.node \in Visitable(D) /\ ~GivesUp(at)
    <3>1. levels - l \in 0..levels - 1
      OBVIOUS
    <3> QED
      BY <1>1, <3>1, VisitsReach
  <2>2. f[l] = IF GivesUp(at) THEN at.node
               ELSE Updated(at.node, TurnsRight(at, l, hop), f[l - 1])
    BY <1>1 DEF Results
  <2>3. f[l] = Updated(at.node, TurnsRight(at, l, hop), f[l - 1])
    BY <2>1, <2>2
  <2> HIDE DEF at
  <2> QED
    BY <2>1, <2>3, UpdatedNode
<1>4. EndsIn(right.hash, levels, id)
  <2> DEFINE d == [i \in 0..levels |-> f[levels - i].hash]
  <2>1. d[0] = right.hash
    BY <1>1
  <2>2. d[levels] = hashSelf(id)
    BY <1>2, TreeNodeIsNode
  <2>3. ASSUME NEW i \in 1..levels PROVE d[i] = d[i - 1][2]
    <3>1. levels - i + 1 \in 1..levels /\ levels - i + 1 - 1 = levels - i
      OBVIOUS
    <3>2. f[levels - i + 1].hash[2] = f[levels - i].hash
      BY <1>3, <3>1
    <3>3. d[i] = f[levels - i].hash /\ d[i - 1] = f[levels - i + 1].hash
      <4>1. i - 1 \in 0..levels /\ levels - (i - 1) = levels - i + 1
        OBVIOUS
      <4> QED
        BY <4>1
    <3> QED
      BY <3>2, <3>3
  <2> HIDE DEF d
  <2> QED
    BY <2>1, <2>2, <2>3 DEF EndsIn
<1>5. \E W : Whole(W) /\ right \in W
  <2> DEFINE W == D \cup {f[l] : l \in 0..levels}
  <2>1. ASSUME NEW l \in 0..levels
        PROVE  /\ IsNode(f[l]) /\ f[l].hash # EmptyHash
               /\ f[l].left \in W \cup {Null} /\ f[l].right \in W \cup {Null}
    <3>1. CASE l = 0
      <4>1. hashSelf(id) # EmptyHash
        BY DEF hashSelf, EmptyHash
      <4> QED
        BY <1>2, <3>1, <4>1, TreeNodeIsNode
    <3>2. CASE l # 0
      <4>1. l \in 1..levels /\ l - 1 \in 0..levels
        BY <3>2
      <4> QED
        BY <1>3, <4>1
    <3> QED
      BY <3>1, <3>2
  <2>2. ASSUME NEW x \in D
        PROVE  /\ IsNode(x) /\ x.hash # EmptyHash
               /\ x.left \in W \cup {Null} /\ x.right \in W \cup {Null}
    BY DEF Whole
  <2>3. right \in W
    BY <1>1
  <2>4. Whole(W)
    BY <2>1, <2>2 DEF Whole
  <2> HIDE DEF W
  <2> QED
    BY <2>3, <2>4
<1> QED
  BY <1>4, <1>5

(***************************************************************************)
(* Trees that come with a request                                          *)
(***************************************************************************)

(* What the hashes of a message commit to: the root is that of the left    *)
(* subtree, whose hash comes next, and of a right subtree that ends in the *)
(* transmitter's leaf.                                                     *)
Genuine(hashes, hop, recv) ==
    \/ hop = 1 /\ hashes[1] = hashSelf(recv)
    \/ /\ hop \in Nat /\ hop >= 2
       /\ Len(hashes) > 1
       /\ hashes[2] # EmptyHash
       /\ hashes[1] = <<hashes[2], hashes[1][2]>>
       /\ EndsIn(hashes[1][2], Levels(hop) - 1, recv)

LEMMA RebuiltRoot ==
    ASSUME NEW hashes, NEW hop, NEW recv, Genuine(hashes, hop, recv)
    PROVE  /\ RebuiltTree(hashes, hop, recv).hash = hashes[1]
           /\ hashes[1] # EmptyHash
<1>1. CASE hop = 1
  <2>1. hashes[1] = <<recv>>
    BY <1>1 DEF Genuine, hashSelf
  <2> QED
    BY <1>1, <2>1, TreeNodeIsNode DEF RebuiltTree, hashSelf, EmptyHash
<1>2. CASE hop # 1
  <2>1. hashes[1] = <<hashes[2], hashes[1][2]>>
    BY <1>2 DEF Genuine
  <2>2. hashes[1] # EmptyHash
    BY <2>1 DEF EmptyHash
  <2> QED
    BY <1>2, <2>2 DEF RebuiltTree
<1> QED
  BY <1>1, <1>2

(* Root and hop count determine the tree that is rebuilt. *)
LEMMA RootDetermines ==
    ASSUME NEW hashes, NEW others, NEW hop, NEW recv, NEW other,
           Genuine(hashes, hop, recv), Genuine(others, hop, other),
           hashes[1] = others[1]
    PROVE  RebuiltTree(hashes, hop, recv) = RebuiltTree(others, hop, other)
<1>1. CASE hop = 1
  <2>1. <<recv>> = <<other>>
    BY <1>1 DEF Genuine, hashSelf
  <2>2. recv = other
    BY <2>1
  <2> QED
    BY <1>1, <2>2 DEF RebuiltTree
<1>2. CASE hop # 1
  <2>1. <<hashes[2], hashes[1][2]>> = <<others[2], others[1][2]>>
    BY <1>2 DEF Genuine
  <2>2. hashes[2] = others[2]
    BY <2>1
  <2>3. Levels(hop) - 1 \in Nat
    <3>1. hop \in Nat /\ hop >= 2
      BY <1>2 DEF Genuine
    <3>2. Levels(hop) \in Nat /\ (hop = 2 => Levels(hop) = 1) /\ (hop >= 3 => Levels(hop) >= 2)
      BY <3>1, LevelsOf
    <3> QED
      BY <3>1, <3>2
  <2>4. recv = other
    BY <1>2, <2>3, EndsInOne DEF Genuine
  <2> QED
    BY <2>2, <2>4 DEF RebuiltTree
<1> QED
  BY <1>1, <1>2

(* toVector *)
Walk(f, hashes, root, n) ==
    f = [k \in 0..n |-> IF k = 0 THEN [node |-> root, hashes |-> hashes]
                        ELSE StepDown(f[k - 1])]

LEMMA WalkExists ==
    ASSUME NEW hashes, NEW root
    PROVE  \A n \in Nat : \E f : Walk(f, hashes, root, n)
<1> SUFFICES ASSUME NEW n \in Nat PROVE \E f : Walk(f, hashes, root, n)
  OBVIOUS
<1> DEFINE P == {k \in 0..n : \E f : Walk(f, hashes, root, k)}
           first == [node |-> root, hashes |-> hashes]
<1>1. 0 \in P
  <2>1. Walk([i \in 0..0 |-> first], hashes, root, 0)
    BY DEF Walk
  <2> QED
    BY <2>1
<1>2. ASSUME NEW k \in 1..n, k - 1 \in P PROVE k \in P
  <2>1. PICK f : Walk(f, hashes, root, k - 1)
    BY <1>2
  <2> DEFINE g == [i \in 0..k |-> IF i = k THEN StepDown(f[k - 1]) ELSE f[i]]
  <2>2. \A i \in 0..k : g[i] = IF i = 0 THEN first ELSE StepDown(g[i - 1])
    BY <2>1 DEF Walk
  <2>3. Walk(g, hashes, root, k)
    BY <2>2 DEF Walk
  <2> QED
    BY <2>3
<1> QED
  <2> HIDE DEF P
  <2>1. \A k \in 0..n : k \in P
    BY <1>1, <1>2, UpTo
  <2> QED
    BY <2>1 DEF P

LEMMA toVectorWalks ==
    ASSUME NEW n \in Nat, NEW root
    PROVE  \E f : Walk(f, <<root.hash>>, root, n) /\ toVector(root, n) = f[n].hashes
<1> DEFINE walk == CHOOSE f : Walk(f, <<root.hash>>, root, n)
<1>1. Walk(walk, <<root.hash>>, root, n)
  BY WalkExists
<1>2. toVector(root, n) = walk[n].hashes
  BY DEF toVector, WithLeftHashes, Walk, StepDown
<1> QED
  BY <1>1, <1>2

(* The first hashes are those of the root and of its left child. *)
LEMMA toVectorStarts ==
    ASSUME NEW n \in Nat, NEW root, IsNode(root)
    PROVE  /\ toVector(root, n)[1] = root.hash
           /\ (n # 0 /\ root.left # Null) =>
                 /\ Len(toVector(root, n)) > 1
                 /\ toVector(root, n)[2] = root.left.hash
<1>1. PICK f : Walk(f, <<root.hash>>, root, n) /\ toVector(root, n) = f[n].hashes
  BY toVectorWalks
<1> DEFINE S == {root.hash} \cup {f[k].node.left.hash : k \in 0..n}
           Ok(k) == /\ f[k].hashes \in Seq(S)
                    /\ Len(f[k].hashes) >= 1 /\ f[k].hashes[1] = root.hash
                    /\ (k # 0 /\ root.left # Null) =>
                          /\ Len(f[k].hashes) > 1
                          /\ f[k].hashes[2] = root.left.hash
           P == {k \in 0..n : Ok(k)}
<1>2. f[0] = [node |-> root, hashes |-> <<root.hash>>]
  BY <1>1 DEF Walk
<1>3. 0 \in P
  <2>1. root.hash \in S /\ f[0].hashes = <<root.hash>>
    BY <1>2
  <2>2. <<root.hash>> \in Seq(S) /\ Len(<<root.hash>>) = 1
    <3> HIDE DEF S
    <3> QED
      BY <2>1
  <2>3. Ok(0)
    <3> HIDE DEF S
    <3> QED
      BY <2>1, <2>2
  <2> HIDE DEF Ok
  <2> QED
    BY <2>3
<1>4. ASSUME NEW k \in 1..n, k - 1 \in P PROVE k \in P
  <2>1. f[k] = StepDown(f[k - 1])
    BY <1>1 DEF Walk
  <2> DEFINE at == f[k - 1]
  <2>2. Ok(k - 1)
    BY <1>4
  <2>3. CASE at.node = Null \/ at.node.left = Null
    <3>1. f[k].hashes = at.hashes
      BY <2>1, <2>3 DEF StepDown
    <3>2. k - 1 = 0 => root.left = Null
      BY <1>2, <2>3, NodeIsNotNull
    <3> HIDE DEF S
    <3> QED
      BY <2>2, <3>1, <3>2
  <2>4. CASE at.node # Null /\ at.node.left # Null
    <3>1. f[k].hashes = Append(at.hashes, at.node.left.hash)
      BY <2>1, <2>4 DEF StepDown
    <3>2. at.node.left.hash \in S
      <4>1. k - 1 \in 0..n
        OBVIOUS
      <4> QED
        BY <4>1
    <3>3. at.hashes \in Seq(S) /\ Len(at.hashes) \in Nat
      BY <2>2
    <3> DEFINE hs == f[k].hashes
    <3>4. /\ hs \in Seq(S) /\ Len(hs) = Len(at.hashes) + 1
          /\ \A i \in 1..Len(at.hashes) : hs[i] = at.hashes[i]
          /\ hs[Len(at.hashes) + 1] = at.node.left.hash
      <4> HIDE DEF S, at
      <4> QED
        BY <3>1, <3>2, <3>3
    <3>5. k - 1 = 0 => at.hashes = <<root.hash>> /\ at.node = root
      BY <1>2
    <3> HIDE DEF S, at, hs
    <3>6. CASE k = 1
      <4>1. Len(at.hashes) = 1 /\ at.node = root
        BY <3>5, <3>6
      <4> QED
        BY <2>2, <3>4, <4>1 DEF at, hs
    <3>7. CASE k # 1
      BY <2>2, <3>3, <3>4, <3>7 DEF at, hs
    <3> QED
      BY <3>6, <3>7
  <2> QED
    BY <2>3, <2>4
<1>5. \A k \in 0..n : k \in P
  <2> HIDE DEF P
  <2> QED
    BY <1>3, <1>4, UpTo
<1>6. Ok(n)
  <2> HIDE DEF Ok
  <2> QED
    BY <1>5
<1> QED
  <2> HIDE DEF S
  <2> QED
    BY <1>1, <1>6

(* serializeTree *)
Rows(f, first, n) == f = [k \in 0..n |-> IF k = 0 THEN first ELSE Below(f[k - 1])]

LEMMA RowsExist ==
    ASSUME NEW first
    PROVE  \A n \in Nat : \E f : Rows(f, first, n)
<1> SUFFICES ASSUME NEW n \in Nat PROVE \E f : Rows(f, first, n)
  OBVIOUS
<1> DEFINE P == {k \in 0..n : \E f : Rows(f, first, k)}
<1>1. 0 \in P
  <2>1. Rows([i \in 0..0 |-> first], first, 0)
    BY DEF Rows
  <2> QED
    BY <2>1
<1>2. ASSUME NEW k \in 1..n, k - 1 \in P PROVE k \in P
  <2>1. PICK f : Rows(f, first, k - 1)
    BY <1>2
  <2> DEFINE g == [i \in 0..k |-> IF i = k THEN Below(f[k - 1]) ELSE f[i]]
  <2>2. \A i \in 0..k : g[i] = IF i = 0 THEN first ELSE Below(g[i - 1])
    BY <2>1 DEF Rows
  <2>3. Rows(g, first, k)
    BY <2>2 DEF Rows
  <2> QED
    BY <2>3
<1> QED
  <2> HIDE DEF P
  <2>1. \A k \in 0..n : k \in P
    BY <1>1, <1>2, UpTo
  <2> QED
    BY <2>1 DEF P

LEMMA RowBelow ==
    ASSUME NEW n \in Nat, NEW first, NEW row, Rows(row, first, n)
    PROVE  row[0] = first /\ \A k \in 1..n : row[k] = Below(row[k - 1])
  BY DEF Rows

LEMMA WholeIsSerializable ==
    ASSUME NEW W, Whole(W), NEW root \in W, NEW n \in Nat
    PROVE  Serializable(root, n)
<1> DEFINE row == CHOOSE f : Rows(f, {root}, n)
<1>1. Rows(row, {root}, n)
  BY RowsExist
<1>2. Serializable(root, n) <=> \A k \in 0..n : \A node \in row[k] : node.hash # EmptyHash
  BY DEF Serializable, Rows, Below
<1> HIDE DEF row
<1> DEFINE P == {k \in 0..n : row[k] \subseteq W}
<1>3. 0 \in P
  BY <1>1, RowBelow
<1>4. ASSUME NEW k \in 1..n, k - 1 \in P PROVE k \in P
  <2>1. row[k] = Below(row[k - 1])
    BY <1>1, RowBelow
  <2>2. ASSUME NEW node \in row[k - 1]
        PROVE  node.left \in W \cup {Null} /\ node.right \in W \cup {Null}
    <3>1. node \in W
      BY <1>4
    <3> QED
      BY <3>1 DEF Whole
  <2>3. ASSUME NEW x \in row[k] PROVE x \in W
    <3>1. x # Null /\ \E node \in row[k - 1] : x \in {node.left, node.right}
      BY <2>1 DEF Below
    <3> QED
      BY <2>2, <3>1
  <2> QED
    BY <2>3
<1>5. \A k \in 0..n : k \in P
  <2> HIDE DEF P
  <2> QED
    BY <1>3, <1>4, UpTo
<1>6. \A k \in 0..n : \A node \in row[k] : node.hash # EmptyHash
  BY <1>5 DEF Whole
<1> QED
  BY <1>2, <1>6

(* The constructor's tree is whole, with any part below it. *)
LEMMA RebuiltIsWhole ==
    ASSUME NEW hashes, NEW hop, NEW recv, Genuine(hashes, hop, recv), hop # 1
    PROVE  LET root == RebuiltTree(hashes, hop, recv)
           IN  /\ root = [hash |-> hashes[1], left |-> TreeNode(hashes[2]),
                          right |-> root.right]
               /\ \E D : /\ Whole(D) /\ root \in D
                         /\ root.left \in D /\ root.right \in D
<1> DEFINE root == RebuiltTree(hashes, hop, recv)
           leaf == TreeNode(hashes[2])
<1>1. hop \in Nat /\ hop >= 2 /\ hashes[2] # EmptyHash
  BY DEF Genuine
<1>2. Levels(hop) \in Nat \ {0}
  <2>1. Levels(hop) \in Nat /\ (hop = 2 => Levels(hop) = 1) /\ (hop >= 3 => Levels(hop) >= 2)
    BY <1>1, LevelsOf
  <2> QED
    BY <1>1, <2>1
<1>3. PICK f : Doubled(f, recv, Levels(hop)) /\ DoubledLeaf(recv, Levels(hop)) = f[Levels(hop)]
  BY <1>2, DoubledLeafIsDoubled
<1> DEFINE B == {f[k] : k \in 1..Levels(hop)}
           D == B \cup {leaf, root}
<1>4. Whole(B) /\ f[Levels(hop)] \in B
  BY <1>2, <1>3, DoubledIsWhole
<1>5. root = [hash |-> hashes[1], left |-> leaf, right |-> f[Levels(hop)]]
  BY <1>3 DEF RebuiltTree
<1>6. IsNode(root) /\ root.hash # EmptyHash
  BY <1>5, RebuiltRoot DEF IsNode
<1>7. root.left = leaf /\ root.right = f[Levels(hop)]
  BY <1>5
<1>8. Whole(D)
  <2>1. /\ IsNode(leaf) /\ leaf.hash = hashes[2] /\ leaf.left = Null /\ leaf.right = Null
    BY TreeNodeIsNode
  <2> HIDE DEF B, root, leaf
  <2> QED
    BY <1>1, <1>4, <1>6, <1>7, <2>1 DEF Whole
<1> QED
  <2>1. root \in D /\ root.left \in D /\ root.right \in D
    BY <1>4, <1>7
  <2> HIDE DEF D
  <2> QED
    BY <1>5, <1>7, <1>8, <2>1

(* The first call of recalculate: the right half of the leaves *)
LEMMA StartHalves ==
    ASSUME NEW hop \in Nat, hop >= 3, NEW start,
           NEW avail, avail = TwoTo(Levels(hop)) \div 2,
           start.avail = avail \div 2, start.left = avail + 1,
           start.right = avail + avail \div 2 + 1
    PROVE  /\ Levels(hop) - 1 \in Nat \ {0}
           /\ Halving(start, Levels(hop) - 1 - 1)
<1> DEFINE l == Levels(hop)
<1>1. l \in Nat /\ l >= 2
  BY LevelsOf
<1>2. l - 2 \in Nat /\ l - 1 \in Nat /\ l - 2 + 1 = l - 1 /\ l - 1 + 1 = l /\ l - 1 - 1 = l - 2
  BY <1>1
<1>3. /\ TwoTo(l - 2) \in Nat /\ TwoTo(l - 1) \in Nat
      /\ TwoTo(l - 2 + 1) = 2 * TwoTo(l - 2) /\ TwoTo(l - 1 + 1) = 2 * TwoTo(l - 1)
  BY <1>2, PowerSteps
<1>4. TwoTo(l) \div 2 = 2 * TwoTo(l - 2) /\ (TwoTo(l) \div 2) \div 2 = TwoTo(l - 2)
  BY <1>2, <1>3
<1> HIDE DEF l
<1>5. /\ start.avail = TwoTo(l - 2) /\ start.left = 2 * TwoTo(l - 2) + 1
      /\ start.right = 2 * TwoTo(l - 2) + TwoTo(l - 2) + 1
  BY <1>4 DEF l
<1>6. Halving(start, l - 2)
  <2> DEFINE half == TwoTo(l - 2)
  <2>1. half \in Nat
    BY <1>3
  <2>2. start.avail = half /\ start.left = 2 * half + 1 /\ start.right = 2 * half + half + 1
    BY <1>5
  <2>3. Halving(start, l - 2) <=> /\ start.avail = half
                                 /\ start.left \in Nat /\ start.right \in Nat
                                 /\ start.right - start.left >= start.avail
    BY DEF Halving
  <2> HIDE DEF half
  <2> QED
    BY <2>1, <2>2, <2>3
<1> QED
  BY <1>1, <1>2, <1>6 DEF l

(* addSelf: the left half stays, the right half ends in the relay. *)
LEMMA WithSelfShape ==
    ASSUME NEW hashes, NEW hop \in Nat \ {0}, NEW recv, NEW id, Genuine(hashes, hop, recv)
    PROVE  LET tree == WithSelf(RebuiltTree(hashes, hop, recv), id, hop + 1)
           IN  /\ tree = [hash |-> <<tree.left.hash, tree.right.hash>>,
                          left |-> tree.left, right |-> tree.right]
               /\ IsNode(tree.left)
               /\ EndsIn(tree.right.hash, Levels(hop + 1) - 1, id)
               /\ \E W : Whole(W) /\ tree \in W
<1> DEFINE root == RebuiltTree(hashes, hop, recv)
           tree == WithSelf(root, id, hop + 1)
<1>1. root.hash = hashes[1] /\ hashes[1] # EmptyHash
  BY RebuiltRoot
<1>2. CASE hop = 1
  <2> DEFINE left == TreeNode(root.hash)
             right == TreeNode(hashSelf(id))
             W == {tree, left, right}
  <2>1. hop + 1 = 2
    BY <1>2
  <2>2. tree = [hash |-> <<root.hash, hashSelf(id)>>, left |-> left, right |-> right]
    BY <2>1 DEF WithSelf, hashNodes
  <2>3. /\ IsNode(left) /\ left.hash = root.hash /\ left.left = Null /\ left.right = Null
        /\ IsNode(right) /\ right.hash = hashSelf(id) /\ right.left = Null /\ right.right = Null
    BY TreeNodeIsNode
  <2>4. EndsIn(right.hash, Levels(hop + 1) - 1, id)
    <3>1. Levels(hop + 1) - 1 = 0
      <4>1. Levels(2) = 1
        BY LevelsOf
      <4> QED
        BY <2>1, <4>1
    <3>2. EndsIn(hashSelf(id), 0, id)
      <4> DEFINE d == [i \in {0} |-> hashSelf(id)]
      <4>1. d[0] = hashSelf(id) /\ \A i \in 1..0 : d[i] = d[i - 1][2]
        OBVIOUS
      <4> HIDE DEF d
      <4> QED
        BY <4>1 DEF EndsIn
    <3> QED
      BY <2>3, <3>1, <3>2
  <2>5. Whole(W)
    <3>1. root.hash # EmptyHash /\ hashSelf(id) # EmptyHash
      BY <1>1 DEF hashSelf, EmptyHash
    <3>2. IsNode(tree) /\ tree.hash # EmptyHash /\ tree.left = left /\ tree.right = right
      <4> HIDE DEF tree, left, right, root
      <4>1. tree.hash = <<root.hash, hashSelf(id)>> /\ tree.left = left /\ tree.right = right
        BY <2>2
      <4>2. tree.hash # EmptyHash
        BY <4>1 DEF EmptyHash
      <4> QED
        BY <2>2, <4>1, <4>2 DEF IsNode
    <3> HIDE DEF tree, left, right
    <3> QED
      BY <2>3, <3>1, <3>2 DEF Whole
  <2> HIDE DEF root, tree, left, right
  <2>6. tree.left = left /\ tree.right = right
    BY <2>2
  <2>7. \E X : Whole(X) /\ tree \in X
    BY <2>5
  <2> QED
    BY <2>2, <2>3, <2>4, <2>6, <2>7 DEF root, tree
<1>3. CASE hop # 1
  <2> DEFINE avail == TwoTo(Levels(hop + 1)) \div 2
             grown == Grown(root, hop + 1)
             start == [node |-> grown.right, avail |-> avail \div 2,
                       left |-> avail + 1, right |-> avail + avail \div 2 + 1]
             right == recalculate(start, Levels(hop + 1) - 1, hop + 1, id)
  <2>1. hop + 1 \in Nat /\ hop + 1 >= 3
    BY <1>3
  <2>2. root = [hash |-> hashes[1], left |-> TreeNode(hashes[2]), right |-> root.right]
    BY <1>3, RebuiltIsWhole
  <2>3. PICK D : Whole(D) /\ root \in D /\ root.left \in D /\ root.right \in D
    BY <1>3, RebuiltIsWhole
  <2>4. tree = [grown EXCEPT !.right = right, !.hash = hashNodes(grown.left.hash, right.hash)]
    <3>1. hop + 1 # 2
      BY <2>1
    <3> QED
      BY <3>1 DEF WithSelf
  <2>5. /\ grown = [hash |-> grown.hash, left |-> grown.left, right |-> grown.right]
        /\ grown.left \in D
        /\ grown.right \in Visitable(D)
    <3>1. CASE PowerOfTwo(hop + 1 - 1)
      <4>1. grown = [hash |-> EmptyHash, left |-> root, right |-> TreeNode(EmptyHash)]
        BY <3>1 DEF Grown
      <4> HIDE DEF root, grown
      <4> QED
        BY <2>3, <4>1 DEF Visitable
    <3>2. CASE ~PowerOfTwo(hop + 1 - 1)
      <4>1. grown = root
        BY <3>2 DEF Grown
      <4>2. root = [hash |-> root.hash, left |-> root.left, right |-> root.right]
        BY <2>2
      <4> HIDE DEF root, grown
      <4> QED
        BY <2>3, <4>1, <4>2 DEF Visitable
    <3> QED
      BY <3>1, <3>2
  <2>6. Levels(hop + 1) - 1 \in Nat \ {0} /\ Halving(start, Levels(hop + 1) - 1 - 1)
    <3>1. /\ start.avail = avail \div 2 /\ start.left = avail + 1
          /\ start.right = avail + avail \div 2 + 1
      OBVIOUS
    <3> HIDE DEF start
    <3> QED
      BY <2>1, <3>1, StartHalves
  <2>7. start.node \in Visitable(D)
    BY <2>5
  <2> HIDE DEF root, grown, start, tree
  <2>8. EndsIn(right.hash, Levels(hop + 1) - 1, id)
    BY <2>3, <2>6, <2>7, recalculateResult
  <2>9. PICK R : Whole(R) /\ right \in R
    BY <2>3, <2>6, <2>7, recalculateResult
  <2> HIDE DEF right
  <2>10. tree = [hash |-> <<grown.left.hash, right.hash>>, left |-> grown.left, right |-> right]
    BY <2>4, <2>5 DEF hashNodes
  <2>11. tree.left = grown.left /\ tree.right = right
    BY <2>10
  <2> DEFINE W == D \cup R \cup {tree}
  <2>12. Whole(W)
    <3>1. IsNode(tree) /\ tree.hash # EmptyHash
      BY <2>10 DEF IsNode, EmptyHash
    <3> QED
      BY <2>3, <2>5, <2>9, <2>11, <3>1 DEF Whole
  <2>13. IsNode(grown.left)
    BY <2>3, <2>5 DEF Whole
  <2>14. \E X : Whole(X) /\ tree \in X
    BY <2>12
  <2> QED
    BY <2>8, <2>10, <2>11, <2>13, <2>14 DEF root, tree
<1> QED
  BY <1>2, <1>3

(* What a relay sends on is genuine again, and can be stored. *)
LEMMA WithSelfIsGenuine ==
    ASSUME NEW hashes, NEW hop \in Nat \ {0}, NEW recv, NEW id, Genuine(hashes, hop, recv)
    PROVE  LET tree == WithSelf(RebuiltTree(hashes, hop, recv), id, hop + 1)
           IN  /\ Genuine(toVector(tree, hop + 1), hop + 1, id)
               /\ tree.hash = toVector(tree, hop + 1)[1]
               /\ Serializable(tree, hop + 1)
<1> DEFINE tree == WithSelf(RebuiltTree(hashes, hop, recv), id, hop + 1)
           sent == toVector(tree, hop + 1)
<1>1. /\ tree = [hash |-> <<tree.left.hash, tree.right.hash>>,
                 left |-> tree.left, right |-> tree.right]
      /\ IsNode(tree.left)
      /\ EndsIn(tree.right.hash, Levels(hop + 1) - 1, id)
  BY WithSelfShape
<1>2. PICK W : Whole(W) /\ tree \in W
  BY WithSelfShape
<1> HIDE DEF tree
<1>3. hop + 1 \in Nat /\ hop + 1 >= 2
  OBVIOUS
<1>4. Serializable(tree, hop + 1)
  BY <1>2, <1>3, WholeIsSerializable
<1>5. IsNode(tree) /\ tree.hash = <<tree.left.hash, tree.right.hash>> /\ tree.left # Null
  BY <1>1, NodeIsNotNull DEF IsNode
<1>6. sent[1] = tree.hash /\ Len(sent) > 1 /\ sent[2] = tree.left.hash
  <2>1. hop + 1 # 0
    BY <1>3
  <2> QED
    BY <1>3, <1>5, <2>1, toVectorStarts
<1>7. tree.left.hash # EmptyHash
  <2>1. tree.left \in W
    BY <1>2, <1>5 DEF Whole
  <2> QED
    BY <1>2, <2>1 DEF Whole
<1>8. Genuine(sent, hop + 1, id)
  <2> HIDE DEF sent
  <2>1. sent[1] = <<sent[2], sent[1][2]>> /\ sent[1][2] = tree.right.hash
    BY <1>5, <1>6
  <2> QED
    BY <1>1, <1>3, <1>6, <1>7, <2>1 DEF Genuine
<1> QED
  BY <1>4, <1>6, <1>8 DEF tree

(***************************************************************************)
(* The trees of paths of up to seven drones, and what their roots name     *)
(***************************************************************************)

(* ceil(log2(n)) and pow(2, n) of the numbers that paths of up to seven    *)
(* drones need                                                             *)
LEMMA SmallPowers ==
    /\ TwoTo(0) = 1 /\ TwoTo(1) = 2 /\ TwoTo(2) = 4 /\ TwoTo(3) = 8
    /\ TwoTo(4) = 16 /\ TwoTo(5) = 32 /\ TwoTo(6) = 64 /\ TwoTo(7) = 128
<1>1. TwoTo(0) = 1 /\ TwoTo(0 + 1) = 2 * TwoTo(0)
  BY PowerSteps
<1>2. TwoTo(1 + 1) = 2 * TwoTo(1) /\ TwoTo(2 + 1) = 2 * TwoTo(2) /\ TwoTo(3 + 1) = 2 * TwoTo(3)
  BY PowerSteps
<1>3. TwoTo(4 + 1) = 2 * TwoTo(4) /\ TwoTo(5 + 1) = 2 * TwoTo(5) /\ TwoTo(6 + 1) = 2 * TwoTo(6)
  BY PowerSteps
<1> QED
  BY <1>1, <1>2, <1>3

LEMMA SmallLevels ==
    /\ Levels(1) = 0 /\ Levels(2) = 1 /\ Levels(3) = 2 /\ Levels(4) = 2
    /\ Levels(5) = 3 /\ Levels(6) = 3 /\ Levels(7) = 3
<1>1. ASSUME NEW n \in 1..7
      PROVE  Levels(n) = IF n = 1 THEN 0 ELSE IF n = 2 THEN 1 ELSE IF n <= 4 THEN 2 ELSE 3
  <2> DEFINE l == Levels(n)
  <2>1. l \in 0..n /\ TwoTo(l) >= n /\ (l = 0 \/ TwoTo(l - 1) < n)
    BY LevelsExist
  <2> HIDE DEF l
  <2>2. l \in {0, 1, 2, 3, 4, 5, 6, 7}
    BY <2>1
  <2>3. CASE l \in {0, 1, 2, 3}
    BY <2>1, <2>3, SmallPowers DEF l
  <2>4. CASE l \in {4, 5, 6, 7}
    BY <2>1, <2>4, SmallPowers DEF l
  <2> QED
    BY <2>2, <2>3, <2>4
<1> QED
  BY <1>1

LEMMA SmallFullTrees ==
    ASSUME NEW n \in 1..7
    PROVE  PowerOfTwo(n) <=> n \in {1, 2, 4}
<1>1. n \in {1, 2, 3, 4, 5, 6, 7}
  OBVIOUS
<1> QED
  BY <1>1, SmallLevels, SmallPowers DEF PowerOfTwo

(* The right subtree of a tree rebuilt from a message *)
LEMMA DoubledLeafStep ==
    ASSUME NEW id
    PROVE  /\ DoubledLeaf(id, 1) = TreeNode(hashSelf(id))
           /\ DoubledLeaf(id, 2) = Above(TreeNode(hashSelf(id)))
           /\ DoubledLeaf(id, 3) = Above(Above(TreeNode(hashSelf(id))))
<1>1. PICK f : Doubled(f, id, 1) /\ DoubledLeaf(id, 1) = f[1]
  BY DoubledLeafIsDoubled
<1>2. PICK g : Doubled(g, id, 2) /\ DoubledLeaf(id, 2) = g[2]
  BY DoubledLeafIsDoubled
<1>3. PICK h : Doubled(h, id, 3) /\ DoubledLeaf(id, 3) = h[3]
  BY DoubledLeafIsDoubled
<1>4. f[1] = TreeNode(hashSelf(id))
  BY <1>1 DEF Doubled
<1>5. g[1] = TreeNode(hashSelf(id)) /\ g[2] = Above(g[1])
  BY <1>2 DEF Doubled
<1>6. h[1] = TreeNode(hashSelf(id)) /\ h[2] = Above(h[1]) /\ h[3] = Above(h[2])
  BY <1>3 DEF Doubled
<1> QED
  BY <1>1, <1>2, <1>3, <1>4, <1>5, <1>6

(* recalculate one and two levels above the leaves *)
LowestHash(node, hop, id) ==
    hashNodes(IF hop % 2 = 0 /\ node.left # Null THEN node.left.hash ELSE hashSelf(id),
              hashSelf(id))

LEMMA OneLevel ==
    ASSUME NEW start, ~GivesUp(start), NEW hop, NEW id
    PROVE  recalculate(start, 1, hop, id).hash = LowestHash(start.node, hop, id)
<1>1. PICK v, f : /\ Visits(v, start, 1, hop, 1 - 1)
                  /\ Results(f, v, 1, hop, id, 1)
                  /\ recalculate(start, 1, hop, id) = f[1]
  BY recalculateVisits
<1>2. v[0] = start
  BY <1>1 DEF Visits
<1>3. f[0].hash = hashSelf(id)
  BY <1>1, TreeNodeIsNode DEF Results
<1>4. f[1] = Updated(start.node, TurnsRight(start, 1, hop), f[0])
  BY <1>1, <1>2 DEF Results
<1> QED
  BY <1>1, <1>3, <1>4 DEF Updated, TurnsRight, LowestHash

LEMMA TwoLevels ==
    ASSUME NEW start, ~GivesUp(start), NEW hop, NEW id,
           NEW next, next = NextVisit(start, 2, hop), ~GivesUp(next)
    PROVE  recalculate(start, 2, hop, id).hash
              = hashNodes(IF TurnsRight(start, 2, hop) /\ start.node.left # Null
                          THEN start.node.left.hash ELSE LowestHash(next.node, hop, id),
                          LowestHash(next.node, hop, id))
<1>1. PICK v, f : /\ Visits(v, start, 2, hop, 2 - 1)
                  /\ Results(f, v, 2, hop, id, 2)
                  /\ recalculate(start, 2, hop, id) = f[2]
  BY recalculateVisits
<1>2. v[0] = start /\ v[1] = next
  BY <1>1 DEF Visits
<1>3. f[0].hash = hashSelf(id)
  BY <1>1, TreeNodeIsNode DEF Results
<1>4. f[1] = Updated(next.node, TurnsRight(next, 1, hop), f[0])
  BY <1>1, <1>2 DEF Results
<1>5. f[2] = Updated(start.node, TurnsRight(start, 2, hop), f[1])
  BY <1>1, <1>2 DEF Results
<1>6. f[1].hash = LowestHash(next.node, hop, id)
  BY <1>3, <1>4 DEF Updated, TurnsRight, LowestHash
<1> QED
  BY <1>1, <1>5, <1>6 DEF Updated

(* The trees of paths of up to seven drones.  After four drones the left   *)
(* half is complete; the seventh finds a right half in which the fifth is  *)
(* missing.                                                                *)
Pair(x, y) == hashNodes(hashSelf(x), hashSelf(y))

FirstFour(p) == hashNodes(Pair(p[1], p[2]), Pair(p[3], p[4]))

Committed(p, n) ==
    CASE n = 1 -> hashSelf(p[1])
      [] n = 2 -> Pair(p[1], p[2])
      [] n = 3 -> hashNodes(Pair(p[1], p[2]), Pair(p[3], p[3]))
      [] n = 4 -> FirstFour(p)
      [] n = 5 -> hashNodes(FirstFour(p), hashNodes(Pair(p[5], p[5]), Pair(p[5], p[5])))
      [] n = 6 -> hashNodes(FirstFour(p), hashNodes(Pair(p[5], p[6]), Pair(p[5], p[6])))
      [] n = 7 -> hashNodes(FirstFour(p), hashNodes(Pair(p[6], p[6]), Pair(p[7], p[7])))

LEMMA AllocatedIsNotNull == ASSUME NEW x PROVE Allocated(x) # Null
  BY TreeNodeIsNode, NodeIsNotNull DEF Allocated

(* The right subtree of a relay, from its third drone on *)
LEMMA RelayedHash ==
    ASSUME NEW root, root = [hash |-> root.hash, left |-> root.left, right |-> root.right],
           NEW id, NEW hop \in 3..7,
           NEW full, full = PowerOfTwo(hop - 1),
           NEW avail, avail = TwoTo(Levels(hop)) \div 2,
           NEW start, start = [node |-> IF full THEN TreeNode(EmptyHash) ELSE root.right,
                               avail |-> avail \div 2,
                               left |-> avail + 1, right |-> avail + avail \div 2 + 1]
    PROVE  WithSelf(root, id, hop).hash
              = hashNodes(IF full THEN root.hash ELSE root.left.hash,
                          recalculate(start, Levels(hop) - 1, hop, id).hash)
<1> DEFINE right == recalculate(start, Levels(hop) - 1, hop, id)
           tree == Grown(root, hop)
<1>1. /\ tree = [hash |-> tree.hash, left |-> tree.left, right |-> tree.right]
      /\ tree.right = start.node /\ tree.left.hash = IF full THEN root.hash ELSE root.left.hash
  BY DEF Grown
<1>2. WithSelf(root, id, hop)
         = [tree EXCEPT !.right = right, !.hash = hashNodes(tree.left.hash, right.hash)]
  <2>1. hop # 2
    OBVIOUS
  <2>2. start = [node |-> tree.right, avail |-> avail \div 2,
                 left |-> avail + 1, right |-> avail + avail \div 2 + 1]
    BY <1>1
  <2> QED
    BY <2>1, <2>2 DEF WithSelf
<1>3. WithSelf(root, id, hop).hash = hashNodes(tree.left.hash, right.hash)
  <2> HIDE DEF tree, right
  <2> QED
    BY <1>1, <1>2
<1> QED
  BY <1>1, <1>3

LEMMA RightOfFour ==
    ASSUME NEW node, node # Null, NEW id, NEW hop \in {3, 4},
           NEW start, start = [node |-> node, avail |-> 1, left |-> 3, right |-> 4]
    PROVE  recalculate(start, 1, hop, id).hash = LowestHash(node, hop, id)
<1>1. ~GivesUp(start) /\ start.node = node
  BY DEF GivesUp
<1> QED
  BY <1>1, OneLevel

LEMMA RightOfEight ==
    ASSUME NEW node, node # Null, NEW id, NEW hop \in {5, 6, 7},
           NEW start, start = [node |-> node, avail |-> 2, left |-> 5, right |-> 7],
           NEW child, child = Allocated(IF hop = 7 THEN node.right ELSE node.left)
    PROVE  recalculate(start, 2, hop, id).hash
              = hashNodes(IF hop = 7 /\ node.left # Null
                          THEN node.left.hash ELSE LowestHash(child, hop, id),
                          LowestHash(child, hop, id))
<1> DEFINE next == NextVisit(start, 2, hop)
<1>1. TurnsRight(start, 2, hop) <=> hop = 7
  BY DEF TurnsRight
<1>2. next.node = child
  BY <1>1 DEF NextVisit
<1>3. next.avail = 1 /\ next.left \in {5, 6} /\ next.right = next.left + 1
  BY <1>1 DEF NextVisit
<1>4. ~GivesUp(start) /\ start.node = node
  BY DEF GivesUp
<1>5. next.node # Null
  BY <1>2, AllocatedIsNotNull
<1> HIDE DEF next
<1>6. ~GivesUp(next)
  BY <1>3, <1>5 DEF GivesUp
<1> QED
  BY <1>1, <1>2, <1>4, <1>6, TwoLevels DEF next

LEMMA HashOfFour ==
    ASSUME NEW root, root = [hash |-> root.hash, left |-> root.left, right |-> root.right],
           NEW id, NEW hop \in {3, 4},
           NEW node, node # Null, node = IF hop = 3 THEN TreeNode(EmptyHash) ELSE root.right
    PROVE  WithSelf(root, id, hop).hash
              = hashNodes(IF hop = 3 THEN root.hash ELSE root.left.hash,
                          LowestHash(node, hop, id))
<1> DEFINE full == PowerOfTwo(hop - 1)
           avail == TwoTo(Levels(hop)) \div 2
           start == [node |-> IF full THEN TreeNode(EmptyHash) ELSE root.right,
                     avail |-> avail \div 2,
                     left |-> avail + 1, right |-> avail + avail \div 2 + 1]
           right == recalculate(start, Levels(hop) - 1, hop, id)
           left == IF full THEN root.hash ELSE root.left.hash
<1>1. hop \in 3..7 /\ Levels(hop) = 2 /\ (PowerOfTwo(hop - 1) <=> hop = 3)
  <2>1. hop - 1 \in 1..7 /\ (hop - 1 \in {1, 2, 4} <=> hop = 3)
    OBVIOUS
  <2> QED
    BY <2>1, SmallLevels, SmallFullTrees
<1>2. WithSelf(root, id, hop).hash = hashNodes(left, right.hash)
  <2>1. start = [node |-> IF full THEN TreeNode(EmptyHash) ELSE root.right,
                 avail |-> avail \div 2,
                 left |-> avail + 1, right |-> avail + avail \div 2 + 1]
    OBVIOUS
  <2> HIDE DEF full, avail, start
  <2> QED
    BY <1>1, <2>1, RelayedHash DEF full, avail
<1>3. left = IF hop = 3 THEN root.hash ELSE root.left.hash
  BY <1>1
<1>4. start = [node |-> node, avail |-> 1, left |-> 3, right |-> 4]
  BY <1>1, SmallPowers
<1>5. Levels(hop) - 1 = 1
  BY <1>1
<1> HIDE DEF left, start
<1>6. right = recalculate(start, 1, hop, id)
  BY <1>5
<1>7. right.hash = LowestHash(node, hop, id)
  BY <1>4, <1>6, RightOfFour
<1> HIDE DEF right
<1> QED
  BY <1>2, <1>3, <1>7

LEMMA HashOfEight ==
    ASSUME NEW root, root = [hash |-> root.hash, left |-> root.left, right |-> root.right],
           NEW id, NEW hop \in {5, 6, 7},
           NEW node, node # Null, node = IF hop = 5 THEN TreeNode(EmptyHash) ELSE root.right,
           NEW child, child = Allocated(IF hop = 7 THEN node.right ELSE node.left)
    PROVE  WithSelf(root, id, hop).hash
              = hashNodes(IF hop = 5 THEN root.hash ELSE root.left.hash,
                          hashNodes(IF hop = 7 /\ node.left # Null
                                    THEN node.left.hash ELSE LowestHash(child, hop, id),
                                    LowestHash(child, hop, id)))
<1> DEFINE full == PowerOfTwo(hop - 1)
           avail == TwoTo(Levels(hop)) \div 2
           start == [node |-> IF full THEN TreeNode(EmptyHash) ELSE root.right,
                     avail |-> avail \div 2,
                     left |-> avail + 1, right |-> avail + avail \div 2 + 1]
           right == recalculate(start, Levels(hop) - 1, hop, id)
           left == IF full THEN root.hash ELSE root.left.hash
<1>1. hop \in 3..7 /\ Levels(hop) = 3 /\ (PowerOfTwo(hop - 1) <=> hop = 5)
  <2>1. hop - 1 \in 1..7 /\ (hop - 1 \in {1, 2, 4} <=> hop = 5)
    OBVIOUS
  <2> QED
    BY <2>1, SmallLevels, SmallFullTrees
<1>2. WithSelf(root, id, hop).hash = hashNodes(left, right.hash)
  <2>1. start = [node |-> IF full THEN TreeNode(EmptyHash) ELSE root.right,
                 avail |-> avail \div 2,
                 left |-> avail + 1, right |-> avail + avail \div 2 + 1]
    OBVIOUS
  <2> HIDE DEF full, avail, start
  <2> QED
    BY <1>1, <2>1, RelayedHash DEF full, avail
<1>3. left = IF hop = 5 THEN root.hash ELSE root.left.hash
  BY <1>1
<1>4. start = [node |-> node, avail |-> 2, left |-> 5, right |-> 7]
  BY <1>1, SmallPowers
<1>5. Levels(hop) - 1 = 2
  BY <1>1
<1> HIDE DEF left, start
<1>6. right = recalculate(start, 2, hop, id)
  BY <1>5
<1>7. right.hash = hashNodes(IF hop = 7 /\ node.left # Null
                             THEN node.left.hash ELSE LowestHash(child, hop, id),
                             LowestHash(child, hop, id))
  BY <1>4, <1>6, RightOfEight
<1> HIDE DEF right
<1> QED
  BY <1>2, <1>3, <1>7

(* The left half of a tree and what the rebuilt right half consists of *)
LEMMA RebuiltHalves ==
    ASSUME NEW hop \in 2..6, NEW hashes, NEW recv, Genuine(hashes, hop, recv)
    PROVE  LET root == RebuiltTree(hashes, hop, recv)
           IN  /\ root = [hash |-> root.hash, left |-> root.left, right |-> root.right]
               /\ root.hash = hashes[1]
               /\ root.right = DoubledLeaf(recv, Levels(hop))
               /\ \A x, y : hashes[1] = hashNodes(x, y) => root.left.hash = x
<1>1. ASSUME NEW x, NEW y, hashes[1] = hashNodes(x, y) PROVE hashes[2] = x
  <2>1. <<hashes[2], hashes[1][2]>> = <<x, y>>
    BY <1>1 DEF Genuine, hashNodes
  <2> QED
    BY <2>1
<1>2. RebuiltTree(hashes, hop, recv)
         = [hash |-> hashes[1], left |-> TreeNode(hashes[2]),
            right |-> DoubledLeaf(recv, Levels(hop))]
  BY DEF RebuiltTree
<1> HIDE DEF RebuiltTree
<1> QED
  BY <1>1, <1>2, TreeNodeIsNode

LEMMA AboveNode ==
    ASSUME NEW x
    PROVE  /\ Above(x) # Null /\ Above(x).hash = hashNodes(x.hash, x.hash)
           /\ Above(x).left = x /\ Above(x).right = Null
<1>1. Above(x) = [hash |-> hashNodes(x.hash, x.hash), left |-> x, right |-> Null]
  BY DEF Above
<1>2. IsNode(Above(x))
  BY <1>1 DEF IsNode
<1> QED
  BY <1>1, <1>2, NodeIsNotNull

LEMMA LeafNode ==
    ASSUME NEW h
    PROVE  /\ TreeNode(h) # Null /\ TreeNode(h).hash = h
           /\ TreeNode(h).left = Null /\ TreeNode(h).right = Null
  BY TreeNodeIsNode, NodeIsNotNull

(* The tree of a path at every length: what a relay makes of the tree it   *)
(* has rebuilt from the hashes of the drone before it.                     *)
LEMMA CommittedToTwo ==
    ASSUME NEW x, NEW y, NEW hashes
    PROVE  WithSelf(RebuiltTree(hashes, 1, x), y, 2).hash = Pair(x, y)
<1>1. RebuiltTree(hashes, 1, x).hash = hashSelf(x)
  BY LeafNode DEF RebuiltTree
<1> QED
  BY <1>1 DEF WithSelf, Pair

LEMMA CommittedToThree ==
    ASSUME NEW x, NEW y, NEW hashes, Genuine(hashes, 2, x)
    PROVE  WithSelf(RebuiltTree(hashes, 2, x), y, 3).hash = hashNodes(hashes[1], Pair(y, y))
<1> DEFINE root == RebuiltTree(hashes, 2, x)
           empty == TreeNode(EmptyHash)
<1>1. /\ root = [hash |-> root.hash, left |-> root.left, right |-> root.right]
      /\ root.hash = hashes[1]
  BY RebuiltHalves
<1>2. empty # Null
  BY LeafNode
<1> HIDE DEF root, empty
<1>3. WithSelf(root, y, 3).hash = hashNodes(root.hash, LowestHash(empty, 3, y))
  BY <1>1, <1>2, HashOfFour DEF empty
<1>4. LowestHash(empty, 3, y) = Pair(y, y)
  BY DEF LowestHash, Pair
<1> QED
  BY <1>1, <1>3, <1>4 DEF root

LEMMA CommittedToFour ==
    ASSUME NEW x, NEW y, NEW hashes, Genuine(hashes, 3, x),
           NEW l, NEW r, hashes[1] = hashNodes(l, r)
    PROVE  WithSelf(RebuiltTree(hashes, 3, x), y, 4).hash = hashNodes(l, Pair(x, y))
<1> DEFINE root == RebuiltTree(hashes, 3, x)
           before == TreeNode(hashSelf(x))
<1>1. /\ root = [hash |-> root.hash, left |-> root.left, right |-> root.right]
      /\ root.left.hash = l /\ root.right = DoubledLeaf(x, 2)
  BY RebuiltHalves, SmallLevels
<1>2. root.right = Above(before)
  BY <1>1, DoubledLeafStep
<1>3. before # Null /\ before.hash = hashSelf(x)
  BY LeafNode
<1> HIDE DEF root, before
<1>4. root.right # Null /\ root.right.left = before
  BY <1>2, AboveNode
<1>5. WithSelf(root, y, 4).hash = hashNodes(root.left.hash, LowestHash(root.right, 4, y))
  BY <1>1, <1>4, HashOfFour
<1>6. LowestHash(root.right, 4, y) = Pair(x, y)
  BY <1>3, <1>4 DEF LowestHash, Pair
<1> QED
  BY <1>1, <1>5, <1>6 DEF root

LEMMA CommittedToFive ==
    ASSUME NEW x, NEW y, NEW hashes, Genuine(hashes, 4, x)
    PROVE  WithSelf(RebuiltTree(hashes, 4, x), y, 5).hash
              = hashNodes(hashes[1], hashNodes(Pair(y, y), Pair(y, y)))
<1> DEFINE root == RebuiltTree(hashes, 4, x)
           empty == TreeNode(EmptyHash)
<1>1. /\ root = [hash |-> root.hash, left |-> root.left, right |-> root.right]
      /\ root.hash = hashes[1]
  BY RebuiltHalves
<1>2. empty # Null /\ empty.left = Null
  BY LeafNode
<1>3. Allocated(Null) = empty
  BY DEF Allocated
<1> HIDE DEF root, empty
<1>4. WithSelf(root, y, 5).hash
         = hashNodes(root.hash, hashNodes(LowestHash(empty, 5, y), LowestHash(empty, 5, y)))
  BY <1>1, <1>2, <1>3, HashOfEight DEF empty
<1>5. LowestHash(empty, 5, y) = Pair(y, y)
  BY DEF LowestHash, Pair
<1> QED
  BY <1>1, <1>4, <1>5 DEF root

LEMMA CommittedToSix ==
    ASSUME NEW x, NEW y, NEW hashes, Genuine(hashes, 5, x),
           NEW l, NEW r, hashes[1] = hashNodes(l, r)
    PROVE  WithSelf(RebuiltTree(hashes, 5, x), y, 6).hash
              = hashNodes(l, hashNodes(Pair(x, y), Pair(x, y)))
<1> DEFINE root == RebuiltTree(hashes, 5, x)
           before == TreeNode(hashSelf(x))
           lower == Above(before)
<1>1. /\ root = [hash |-> root.hash, left |-> root.left, right |-> root.right]
      /\ root.left.hash = l /\ root.right = DoubledLeaf(x, 3)
  BY RebuiltHalves, SmallLevels
<1>2. root.right = Above(lower)
  BY <1>1, DoubledLeafStep
<1>3. before # Null /\ before.hash = hashSelf(x) /\ lower # Null /\ lower.left = before
  BY LeafNode, AboveNode
<1> HIDE DEF root, before, lower
<1>4. root.right # Null /\ root.right.left = lower
  BY <1>2, AboveNode
<1>5. Allocated(root.right.left) = lower
  BY <1>3, <1>4 DEF Allocated
<1>6. WithSelf(root, y, 6).hash
         = hashNodes(root.left.hash, hashNodes(LowestHash(lower, 6, y), LowestHash(lower, 6, y)))
  BY <1>1, <1>4, <1>5, HashOfEight
<1>7. LowestHash(lower, 6, y) = Pair(x, y)
  BY <1>3 DEF LowestHash, Pair
<1> QED
  BY <1>1, <1>6, <1>7 DEF root

LEMMA CommittedToSeven ==
    ASSUME NEW x, NEW y, NEW hashes, Genuine(hashes, 6, x),
           NEW l, NEW r, hashes[1] = hashNodes(l, r)
    PROVE  WithSelf(RebuiltTree(hashes, 6, x), y, 7).hash
              = hashNodes(l, hashNodes(Pair(x, x), Pair(y, y)))
<1> DEFINE root == RebuiltTree(hashes, 6, x)
           before == TreeNode(hashSelf(x))
           lower == Above(before)
           empty == TreeNode(EmptyHash)
<1>1. /\ root = [hash |-> root.hash, left |-> root.left, right |-> root.right]
      /\ root.left.hash = l /\ root.right = DoubledLeaf(x, 3)
  BY RebuiltHalves, SmallLevels
<1>2. root.right = Above(lower)
  BY <1>1, DoubledLeafStep
<1>3. lower # Null /\ lower.hash = Pair(x, x)
  BY LeafNode, AboveNode DEF Pair
<1>4. Allocated(Null) = empty
  BY DEF Allocated
<1> HIDE DEF root, before, lower, empty
<1>5. root.right # Null /\ root.right.left = lower /\ root.right.right = Null
  BY <1>2, AboveNode
<1>6. WithSelf(root, y, 7).hash
         = hashNodes(root.left.hash, hashNodes(lower.hash, LowestHash(empty, 7, y)))
  BY <1>1, <1>3, <1>4, <1>5, HashOfEight
<1>7. LowestHash(empty, 7, y) = Pair(y, y)
  BY DEF LowestHash, Pair
<1> QED
  BY <1>1, <1>3, <1>6, <1>7 DEF root

(* A relay that adds itself to a tree that names its path sends one that   *)
(* names the path with the relay, as long as it is no longer than six.     *)
LEMMA CommittedGrows ==
    ASSUME NEW p, NEW hop \in 1..6, NEW hashes, Genuine(hashes, hop, p[hop]),
           hashes[1] = Committed(p, hop)
    PROVE  WithSelf(RebuiltTree(hashes, hop, p[hop]), p[hop + 1], hop + 1).hash
              = Committed(p, hop + 1)
<1>1. CASE hop = 1
  BY <1>1, CommittedToTwo DEF Committed
<1>2. CASE hop = 2
  BY <1>2, CommittedToThree DEF Committed
<1>3. CASE hop = 3
  BY <1>3, CommittedToFour DEF Committed, FirstFour
<1>4. CASE hop = 4
  BY <1>4, CommittedToFive DEF Committed
<1>5. CASE hop = 5
  BY <1>5, CommittedToSix DEF Committed
<1>6. CASE hop = 6
  BY <1>6, CommittedToSeven DEF Committed
<1> QED
  BY <1>1, <1>2, <1>3, <1>4, <1>5, <1>6

(* The reference: the rows of a Merkle tree *)
PairedRow(row) ==
    [i \in 1 .. (Len(row) + 1) \div 2 |->
        hashNodes(row[2*i - 1], row[IF 2*i <= Len(row) THEN 2*i ELSE 2*i - 1])]

LeafRow(path) == [i \in DOMAIN path |-> hashSelf(path[i])]

MerkleRows(f, path, n) ==
    f = [k \in 0..n |-> IF k = 0 THEN LeafRow(path) ELSE PairedRow(f[k - 1])]

LEMMA MerkleRowsExist ==
    ASSUME NEW path
    PROVE  \A n \in Nat : \E f : MerkleRows(f, path, n)
<1> SUFFICES ASSUME NEW n \in Nat PROVE \E f : MerkleRows(f, path, n)
  OBVIOUS
<1> DEFINE P == {k \in 0..n : \E f : MerkleRows(f, path, k)}
<1>1. 0 \in P
  <2>1. MerkleRows([i \in 0..0 |-> LeafRow(path)], path, 0)
    BY DEF MerkleRows
  <2> QED
    BY <2>1
<1>2. ASSUME NEW k \in 1..n, k - 1 \in P PROVE k \in P
  <2>1. PICK f : MerkleRows(f, path, k - 1)
    BY <1>2
  <2> DEFINE g == [i \in 0..k |-> IF i = k THEN PairedRow(f[k - 1]) ELSE f[i]]
  <2>2. \A i \in 0..k : g[i] = IF i = 0 THEN LeafRow(path) ELSE PairedRow(g[i - 1])
    BY <2>1 DEF MerkleRows
  <2>3. MerkleRows(g, path, k)
    BY <2>2 DEF MerkleRows
  <2> QED
    BY <2>3
<1> QED
  <2> HIDE DEF P
  <2>1. \A k \in 0..n : k \in P
    BY <1>1, <1>2, UpTo
  <2> QED
    BY <2>1 DEF P

LEMMA MerkleRootIsTopRow ==
    ASSUME NEW path, Levels(Len(path)) \in Nat
    PROVE  \E f : /\ MerkleRows(f, path, Levels(Len(path)))
                  /\ MerkleRoot(path) = f[Levels(Len(path))][1]
<1> DEFINE n == Levels(Len(path))
           row == CHOOSE f : MerkleRows(f, path, n)
<1>1. MerkleRows(row, path, n)
  BY MerkleRowsExist
<1>2. MerkleRoot(path) = row[n][1]
  BY DEF MerkleRoot, MerkleRows, PairedRow, LeafRow
<1> QED
  BY <1>1, <1>2

LEMMA LengthOf ==
    ASSUME NEW n \in Nat, NEW s, s = [i \in 1..n |-> s[i]]
    PROVE  Len(s) = n
<1> DEFINE S == {s[i] : i \in 1..n}
<1>1. s \in [1..n -> S]
  OBVIOUS
<1> HIDE DEF S
<1>2. s \in Seq(S)
  BY <1>1, SeqDef
<1>3. DOMAIN s = 1..Len(s) /\ Len(s) \in Nat /\ DOMAIN s = 1..n
  BY <1>1, <1>2, LenProperties
<1> QED
  BY <1>3

LEMMA PairedRowEntries ==
    ASSUME NEW row, NEW m \in Nat, Len(row) = m, NEW n \in Nat, n = (m + 1) \div 2
    PROVE  /\ Len(PairedRow(row)) = n
           /\ \A i \in 1..n : /\ 2*i <= m => PairedRow(row)[i] = hashNodes(row[2*i - 1], row[2*i])
                              /\ 2*i > m => PairedRow(row)[i] = hashNodes(row[2*i - 1], row[2*i - 1])
<1>1. PairedRow(row)
         = [i \in 1..n |-> hashNodes(row[2*i - 1], row[IF 2*i <= m THEN 2*i ELSE 2*i - 1])]
  BY DEF PairedRow
<1>2. PairedRow(row) = [i \in 1..n |-> PairedRow(row)[i]]
  BY <1>1
<1>3. Len(PairedRow(row)) = n
  BY <1>2, LengthOf
<1> QED
  BY <1>1, <1>3

(* The cases that paths of up to six drones need *)
LEMMA RowOfTwo ==
    ASSUME NEW row, Len(row) = 2
    PROVE  PairedRow(row)[1] = hashNodes(row[1], row[2])
<1> DEFINE n == 1
<1>1. n = (2 + 1) \div 2 /\ n \in Nat
  OBVIOUS
<1> HIDE DEF n
<1>2. \A i \in 1..n : 2*i <= 2 => PairedRow(row)[i] = hashNodes(row[2*i - 1], row[2*i])
  BY <1>1, PairedRowEntries
<1> QED
  BY <1>2 DEF n

LEMMA RowOfFour ==
    ASSUME NEW row, NEW n \in {3, 4}, Len(row) = n
    PROVE  /\ Len(PairedRow(row)) = 2
           /\ PairedRow(row)[1] = hashNodes(row[1], row[2])
           /\ PairedRow(row)[2] = hashNodes(row[3], row[n])
<1>1. (n + 1) \div 2 = 2 /\ n \in Nat
  OBVIOUS
<1>2. /\ Len(PairedRow(row)) = 2
      /\ \A i \in 1..2 : /\ 2*i <= n => PairedRow(row)[i] = hashNodes(row[2*i - 1], row[2*i])
                         /\ 2*i > n => PairedRow(row)[i] = hashNodes(row[2*i - 1], row[2*i - 1])
  BY <1>1, PairedRowEntries
<1> QED
  BY <1>2

LEMMA RowOfSix ==
    ASSUME NEW row, NEW n \in {5, 6}, Len(row) = n
    PROVE  /\ Len(PairedRow(row)) = 3
           /\ PairedRow(row)[1] = hashNodes(row[1], row[2])
           /\ PairedRow(row)[2] = hashNodes(row[3], row[4])
           /\ PairedRow(row)[3] = hashNodes(row[5], row[n])
<1>1. (n + 1) \div 2 = 3 /\ n \in Nat
  OBVIOUS
<1>2. /\ Len(PairedRow(row)) = 3
      /\ \A i \in 1..3 : /\ 2*i <= n => PairedRow(row)[i] = hashNodes(row[2*i - 1], row[2*i])
                         /\ 2*i > n => PairedRow(row)[i] = hashNodes(row[2*i - 1], row[2*i - 1])
  BY <1>1, PairedRowEntries
<1> QED
  BY <1>2

LEMMA LeafRowEntries ==
    ASSUME NEW path \in Seq(Node)
    PROVE  /\ Len(LeafRow(path)) = Len(path)
           /\ \A i \in 1..Len(path) : LeafRow(path)[i] = hashSelf(path[i])
<1>1. Len(path) \in Nat /\ DOMAIN path = 1..Len(path)
  OBVIOUS
<1>2. LeafRow(path) = [i \in 1..Len(path) |-> hashSelf(path[i])]
  BY <1>1 DEF LeafRow
<1>3. LeafRow(path) = [i \in 1..Len(path) |-> LeafRow(path)[i]]
  BY <1>2
<1> QED
  BY <1>1, <1>2, <1>3, LengthOf

(* Up to six drones the tree of a path is its Merkle tree. *)
LEMMA CommittedIsMerkle ==
    ASSUME NEW path \in Seq(Node), NEW n, n = Len(path), n \in 1..6
    PROVE  MerkleRoot(path) = Committed(path, n)
<1>1. n \in {1, 2, 3, 4, 5, 6}
  OBVIOUS
<1>2. Levels(n) \in Nat
  BY LevelsOf
<1>3. PICK f : MerkleRows(f, path, Levels(n)) /\ MerkleRoot(path) = f[Levels(n)][1]
  BY <1>2, MerkleRootIsTopRow
<1> DEFINE leaves == f[0]
           second == f[1]
           third == f[2]
           fourth == f[3]
<1>4. /\ leaves = LeafRow(path)
      /\ Levels(n) >= 1 => second = PairedRow(leaves)
      /\ Levels(n) >= 2 => third = PairedRow(second)
      /\ Levels(n) >= 3 => fourth = PairedRow(third)
  <2>1. f[0] = LeafRow(path) /\ \A k \in 1..Levels(n) : f[k] = PairedRow(f[k - 1])
    BY <1>2, <1>3 DEF MerkleRows
  <2> QED
    BY <1>2, <2>1
<1>5. Len(leaves) = n /\ \A i \in 1..n : leaves[i] = hashSelf(path[i])
  BY <1>4, LeafRowEntries
<1>6. CASE n = 1
  BY <1>3, <1>5, <1>6, SmallLevels DEF Committed
<1>7. CASE n = 2
  <2>1. Levels(n) = 1
    BY <1>7, SmallLevels
  <2>2. second = PairedRow(leaves) /\ MerkleRoot(path) = second[1]
    BY <1>3, <1>4, <2>1
  <2> HIDE DEF leaves, second
  <2>3. second[1] = hashNodes(leaves[1], leaves[2])
    BY <1>5, <1>7, <2>2, RowOfTwo
  <2> QED
    BY <1>5, <1>7, <2>2, <2>3 DEF Committed, Pair
<1>8. CASE n \in {3, 4}
  <2>1. Levels(n) = 2
    BY <1>8, SmallLevels
  <2>2. second = PairedRow(leaves) /\ third = PairedRow(second) /\ MerkleRoot(path) = third[1]
    BY <1>3, <1>4, <2>1
  <2> HIDE DEF leaves, second, third
  <2>3. Len(leaves) = n
    BY <1>5
  <2>4. /\ Len(second) = 2
        /\ second[1] = hashNodes(leaves[1], leaves[2])
        /\ second[2] = hashNodes(leaves[3], leaves[n])
    BY <1>8, <2>2, <2>3, RowOfFour
  <2>5. third[1] = hashNodes(second[1], second[2])
    BY <2>2, <2>4, RowOfTwo
  <2>6. second[1] = Pair(path[1], path[2]) /\ second[2] = Pair(path[3], path[n])
    BY <1>5, <1>8, <2>4 DEF Pair
  <2>7. MerkleRoot(path) = hashNodes(Pair(path[1], path[2]), Pair(path[3], path[n]))
    BY <2>2, <2>5, <2>6
  <2>8. CASE n = 3
    BY <2>7, <2>8 DEF Committed
  <2>9. CASE n = 4
    BY <2>7, <2>9 DEF Committed, FirstFour
  <2> QED
    BY <1>8, <2>8, <2>9
<1>9. CASE n \in {5, 6}
  <2>1. Levels(n) = 3
    BY <1>9, SmallLevels
  <2>2. /\ second = PairedRow(leaves) /\ third = PairedRow(second)
        /\ fourth = PairedRow(third) /\ MerkleRoot(path) = fourth[1]
    BY <1>3, <1>4, <2>1
  <2> HIDE DEF leaves, second, third, fourth
  <2>3. Len(leaves) = n
    BY <1>5
  <2>4. /\ Len(second) = 3
        /\ second[1] = hashNodes(leaves[1], leaves[2])
        /\ second[2] = hashNodes(leaves[3], leaves[4])
        /\ second[3] = hashNodes(leaves[5], leaves[n])
    BY <1>9, <2>2, <2>3, RowOfSix
  <2>5. /\ Len(third) = 2
        /\ third[1] = hashNodes(second[1], second[2])
        /\ third[2] = hashNodes(second[3], second[3])
    BY <2>2, <2>4, RowOfFour
  <2>6. fourth[1] = hashNodes(third[1], third[2])
    BY <2>2, <2>5, RowOfTwo
  <2>7. /\ second[1] = Pair(path[1], path[2]) /\ second[2] = Pair(path[3], path[4])
        /\ second[3] = Pair(path[5], path[n])
    BY <1>5, <1>9, <2>4 DEF Pair
  <2>8. MerkleRoot(path)
           = hashNodes(FirstFour(path),
                       hashNodes(Pair(path[5], path[n]), Pair(path[5], path[n])))
    BY <2>2, <2>5, <2>6, <2>7 DEF FirstFour
  <2>9. CASE n = 5
    BY <2>8, <2>9 DEF Committed
  <2>10. CASE n = 6
    BY <2>8, <2>10 DEF Committed
  <2> QED
    BY <1>9, <2>9, <2>10
<1> QED
  BY <1>1, <1>6, <1>7, <1>8, <1>9

LEMMA RowOfSeven ==
    ASSUME NEW row, Len(row) = 7
    PROVE  /\ Len(PairedRow(row)) = 4
           /\ PairedRow(row)[1] = hashNodes(row[1], row[2])
           /\ PairedRow(row)[2] = hashNodes(row[3], row[4])
           /\ PairedRow(row)[3] = hashNodes(row[5], row[6])
           /\ PairedRow(row)[4] = hashNodes(row[7], row[7])
<1> DEFINE m == 7
           n == 4
<1>1. n = (m + 1) \div 2 /\ n \in Nat /\ m \in Nat /\ Len(row) = m
  OBVIOUS
<1> HIDE DEF m, n
<1>2. /\ Len(PairedRow(row)) = n
      /\ \A i \in 1..n : /\ 2*i <= m => PairedRow(row)[i] = hashNodes(row[2*i - 1], row[2*i])
                         /\ 2*i > m => PairedRow(row)[i] = hashNodes(row[2*i - 1], row[2*i - 1])
  BY <1>1, PairedRowEntries
<1> QED
  BY <1>2 DEF m, n

LEMMA MerkleOfSeven ==
    ASSUME NEW path \in Seq(Node), Len(path) = 7
    PROVE  MerkleRoot(path)
              = hashNodes(FirstFour(path),
                          hashNodes(Pair(path[5], path[6]), Pair(path[7], path[7])))
<1>1. Levels(Len(path)) = 3
  BY SmallLevels
<1>2. PICK f : MerkleRows(f, path, 3) /\ MerkleRoot(path) = f[3][1]
  <2>1. Levels(Len(path)) \in Nat
    BY <1>1
  <2>2. PICK f : MerkleRows(f, path, Levels(Len(path)))
                 /\ MerkleRoot(path) = f[Levels(Len(path))][1]
    BY <2>1, MerkleRootIsTopRow
  <2> QED
    BY <1>1, <2>2
<1> DEFINE leaves == f[0]
           second == f[1]
           third == f[2]
           fourth == f[3]
<1>3. /\ leaves = LeafRow(path) /\ second = PairedRow(leaves)
      /\ third = PairedRow(second) /\ fourth = PairedRow(third)
      /\ MerkleRoot(path) = fourth[1]
  <2>1. f[0] = LeafRow(path) /\ \A k \in 1..3 : f[k] = PairedRow(f[k - 1])
    BY <1>2 DEF MerkleRows
  <2> QED
    BY <1>2, <2>1
<1>4. Len(leaves) = 7 /\ \A i \in 1..7 : leaves[i] = hashSelf(path[i])
  BY <1>3, LeafRowEntries
<1> HIDE DEF leaves, second, third, fourth
<1>5. /\ Len(second) = 4
      /\ second[1] = Pair(path[1], path[2]) /\ second[2] = Pair(path[3], path[4])
      /\ second[3] = Pair(path[5], path[6]) /\ second[4] = Pair(path[7], path[7])
  BY <1>3, <1>4, RowOfSeven DEF Pair
<1>6. /\ Len(third) = 2
      /\ third[1] = hashNodes(second[1], second[2])
      /\ third[2] = hashNodes(second[3], second[4])
  BY <1>3, <1>5, RowOfFour
<1>7. fourth[1] = hashNodes(third[1], third[2])
  BY <1>3, <1>6, RowOfTwo
<1> QED
  BY <1>3, <1>5, <1>6, <1>7 DEF FirstFour

LEMMA NodesTellApart ==
    ASSUME NEW a, NEW b, NEW x, NEW y, hashNodes(a, b) = hashNodes(x, y)
    PROVE  a = x /\ b = y
  BY DEF hashNodes

LEMMA PairsTellApart ==
    ASSUME NEW a, NEW b, NEW x, NEW y, Pair(a, b) = Pair(x, y)
    PROVE  a = x /\ b = y
<1>1. hashSelf(a) = hashSelf(x) /\ hashSelf(b) = hashSelf(y)
  BY NodesTellApart DEF Pair
<1> QED
  BY <1>1 DEF hashSelf

LEMMA FoursTellApart ==
    ASSUME NEW p, NEW q, FirstFour(p) = FirstFour(q)
    PROVE  \A i \in 1..4 : p[i] = q[i]
<1>1. Pair(p[1], p[2]) = Pair(q[1], q[2]) /\ Pair(p[3], p[4]) = Pair(q[3], q[4])
  BY NodesTellApart DEF FirstFour
<1>2. p[1] = q[1] /\ p[2] = q[2] /\ p[3] = q[3] /\ p[4] = q[4]
  BY <1>1, PairsTellApart
<1> QED
  BY <1>2

(* No two paths of the same length, of up to six drones, have one root. *)
LEMMA CommittedTellsApart ==
    ASSUME NEW p, NEW q, NEW n \in 1..6, Committed(p, n) = Committed(q, n)
    PROVE  \A i \in 1..n : p[i] = q[i]
<1>1. CASE n = 1
  <2>1. hashSelf(p[1]) = hashSelf(q[1])
    BY <1>1 DEF Committed
  <2> QED
    BY <1>1, <2>1 DEF hashSelf
<1>2. CASE n = 2
  <2>1. Pair(p[1], p[2]) = Pair(q[1], q[2])
    BY <1>2 DEF Committed
  <2>2. p[1] = q[1] /\ p[2] = q[2]
    BY <2>1, PairsTellApart
  <2> QED
    BY <1>2, <2>2
<1>3. CASE n = 3
  <2>1. hashNodes(Pair(p[1], p[2]), Pair(p[3], p[3])) = hashNodes(Pair(q[1], q[2]), Pair(q[3], q[3]))
    BY <1>3 DEF Committed
  <2>2. Pair(p[1], p[2]) = Pair(q[1], q[2]) /\ Pair(p[3], p[3]) = Pair(q[3], q[3])
    BY <2>1, NodesTellApart
  <2>3. p[1] = q[1] /\ p[2] = q[2] /\ p[3] = q[3]
    BY <2>2, PairsTellApart
  <2> QED
    BY <1>3, <2>3
<1>4. CASE n = 4
  <2>1. FirstFour(p) = FirstFour(q)
    BY <1>4 DEF Committed
  <2> QED
    BY <1>4, <2>1, FoursTellApart
<1>5. CASE n \in {5, 6}
  <2>1. hashNodes(FirstFour(p), hashNodes(Pair(p[5], p[n]), Pair(p[5], p[n])))
           = hashNodes(FirstFour(q), hashNodes(Pair(q[5], q[n]), Pair(q[5], q[n])))
    <3>1. CASE n = 5
      BY <3>1 DEF Committed
    <3>2. CASE n = 6
      BY <3>2 DEF Committed
    <3> QED
      BY <1>5, <3>1, <3>2
  <2>2. /\ FirstFour(p) = FirstFour(q)
        /\ hashNodes(Pair(p[5], p[n]), Pair(p[5], p[n]))
              = hashNodes(Pair(q[5], q[n]), Pair(q[5], q[n]))
    BY <2>1, NodesTellApart
  <2>3. Pair(p[5], p[n]) = Pair(q[5], q[n])
    BY <2>2, NodesTellApart
  <2>4. p[5] = q[5] /\ p[n] = q[n] /\ \A i \in 1..4 : p[i] = q[i]
    BY <2>2, <2>3, PairsTellApart, FoursTellApart
  <2> QED
    BY <1>5, <2>4
<1> QED
  BY <1>1, <1>2, <1>3, <1>4, <1>5

(***************************************************************************)
(* Route discovery with trees                                              *)
(***************************************************************************)

(* RouteTree implements RouteDiscovery: trees and caches take no step of   *)
(* the protocol away from its handlers' conditions, so every theorem about *)
(* RouteDiscovery holds of the requests with trees as well.                *)
THEOREM TreeRefinesDiscovery == TreeSpec => Spec
<1>1. [TreeNext]_treeVars => [Next]_vars
  <2> SUFFICES ASSUME [TreeNext]_treeVars PROVE [Next]_vars
    OBVIOUS
  <2>1. ASSUME NEW n \in Node, OwnStep(n) PROVE Next
    BY <2>1 DEF Next
  <2>2. ASSUME NEW w \in Wanted, NEW runs \in {1, 2}, InitDiscovery(w, runs) PROVE Next
    BY <2>2 DEF Next, InitDiscovery
  <2>3. ASSUME NEW p \in net, HandleMessage(p) PROVE Next
    BY <2>3 DEF Next, HandleMessage, RelayWithTree, Receive
  <2>4. CASE UNCHANGED treeVars
    BY <2>4 DEF treeVars, vars
  <2> QED
    BY <2>1, <2>2, <2>3, <2>4 DEF TreeNext
<1> QED
  BY <1>1, PTL DEF TreeSpec, Spec

LEMMA TreeTypeCorrect == TreeSpec => []TypeOK
  BY TreeRefinesDiscovery, TypeCorrect, PTL

(* Every carried tree is genuine, and every cached one is what its drone   *)
(* makes of a genuine tree with the root of the entry.                     *)
GenuinelyCarried(c) ==
    /\ c.msg.hop \in Nat \ {0}
    /\ Genuine(c.hashes, c.msg.hop, c.msg.recv)
    /\ c.rootHash = c.hashes[1]

MadeBy(n, e) ==
    \E hashes, hop, recv :
       /\ hop \in Nat \ {0} /\ Genuine(hashes, hop, recv)
       /\ e.rootHash = hashes[1] /\ e.hopCount = hop + 1
       /\ e.tree = WithSelf(RebuiltTree(hashes, hop, recv), n, hop + 1)

TreeInv ==
    /\ cache = [n \in Node |-> cache[n]]
    /\ \A c \in carried : GenuinelyCarried(c)
    /\ \A n \in Node : \A e \in cache[n] : MadeBy(n, e)

(* A hit in the cache of addSelf is what the relay would compute. *)
LEMMA CachedIsMade ==
    ASSUME NEW n \in Node, NEW e, MadeBy(n, e), NEW c, GenuinelyCarried(c),
           e.rootHash = ReceivedTree(c).hash, e.hopCount = c.msg.hop + 1
    PROVE  e.tree = WithSelf(ReceivedTree(c), n, c.msg.hop + 1)
<1>1. PICK hashes, hop, recv :
         /\ hop \in Nat \ {0} /\ Genuine(hashes, hop, recv)
         /\ e.rootHash = hashes[1] /\ e.hopCount = hop + 1
         /\ e.tree = WithSelf(RebuiltTree(hashes, hop, recv), n, hop + 1)
  BY DEF MadeBy
<1>2. ReceivedTree(c).hash = c.hashes[1]
  BY RebuiltRoot DEF GenuinelyCarried, ReceivedTree
<1>3. hop = c.msg.hop
  BY <1>1 DEF GenuinelyCarried
<1>4. RebuiltTree(hashes, hop, recv) = ReceivedTree(c)
  <2>1. Genuine(c.hashes, hop, c.msg.recv) /\ hashes[1] = c.hashes[1]
    BY <1>1, <1>2, <1>3 DEF GenuinelyCarried
  <2>2. RebuiltTree(hashes, hop, recv) = RebuiltTree(c.hashes, hop, c.msg.recv)
    BY <1>1, <2>1, RootDetermines
  <2> QED
    BY <1>3, <2>2 DEF ReceivedTree
<1> QED
  BY <1>1, <1>3, <1>4

LEMMA addSelfIsWithSelf ==
    ASSUME TreeInv, NEW n \in Node, NEW c \in carried
    PROVE  addSelf(n, ReceivedTree(c), c.msg.hop + 1)
              = WithSelf(ReceivedTree(c), n, c.msg.hop + 1)
<1> DEFINE hits == Cached(n, ReceivedTree(c), c.msg.hop + 1)
<1>1. CASE hits = {}
  BY <1>1 DEF addSelf
<1>2. CASE hits # {}
  <2> DEFINE e == CHOOSE x \in hits : TRUE
  <2>1. addSelf(n, ReceivedTree(c), c.msg.hop + 1) = e.tree
    BY <1>2 DEF addSelf
  <2>2. e \in hits
    <3> HIDE DEF hits
    <3> QED
      BY <1>2
  <2>3. e \in cache[n] /\ e.rootHash = ReceivedTree(c).hash /\ e.hopCount = c.msg.hop + 1
    <3> HIDE DEF e
    <3> QED
      BY <2>2 DEF Cached
  <2> HIDE DEF e
  <2>4. MadeBy(n, e) /\ GenuinelyCarried(c)
    BY <2>3 DEF TreeInv
  <2> QED
    BY <2>1, <2>3, <2>4, CachedIsMade
<1> QED
  BY <1>1, <1>2

(* What a drone sends carries a genuine tree. *)
LEMMA SourceTreeIsGenuine ==
    ASSUME NEW m, m.hop = 1, m.recv = m.src
    PROVE  GenuinelyCarried(SourceTree(m))
<1> DEFINE root == TreeNode(hashSelf(m.src))
           c == SourceTree(m)
<1>1. c = [msg |-> m, hashes |-> toVector(root, 1), rootHash |-> root.hash, path |-> <<m.src>>]
  BY DEF SourceTree, Carrying
<1>2. IsNode(root) /\ root.hash = hashSelf(m.src)
  BY TreeNodeIsNode
<1>3. toVector(root, 1)[1] = root.hash
  BY <1>2, toVectorStarts
<1> HIDE DEF root, c
<1>4. c.msg = m /\ c.hashes = toVector(root, 1) /\ c.rootHash = root.hash
  BY <1>1
<1> QED
  BY <1>2, <1>3, <1>4 DEF GenuinelyCarried, Genuine, c

LEMMA RelayedTreeIsGenuine ==
    ASSUME NEW c, GenuinelyCarried(c), NEW n, NEW path,
           NEW m, m.hop = c.msg.hop + 1, m.recv = n
    PROVE  GenuinelyCarried(Carrying(m, WithSelf(ReceivedTree(c), n, c.msg.hop + 1), path))
<1> DEFINE tree == WithSelf(ReceivedTree(c), n, c.msg.hop + 1)
           sent == toVector(tree, c.msg.hop + 1)
           d == Carrying(m, tree, path)
<1>1. d = [msg |-> m, hashes |-> sent, rootHash |-> tree.hash, path |-> path]
  BY DEF Carrying
<1>2. Genuine(sent, c.msg.hop + 1, n) /\ tree.hash = sent[1]
  BY WithSelfIsGenuine DEF GenuinelyCarried, ReceivedTree
<1> HIDE DEF tree, sent, d
<1>3. d.msg = m /\ d.hashes = sent /\ d.rootHash = tree.hash
  BY <1>1
<1>4. c.msg.hop + 1 \in Nat \ {0}
  BY DEF GenuinelyCarried
<1>5. GenuinelyCarried(d)
  BY <1>2, <1>3, <1>4 DEF GenuinelyCarried
<1> QED
  BY <1>5 DEF d, tree

LEMMA NewRequest ==
    ASSUME TypeOK, NEW w \in Wanted, NEW runs \in {1, 2}, InitDiscovery(w, runs),
           NEW m \in Requests(net') \ Requests(net)
    PROVE  m.hop = 1 /\ m.recv = m.src
<1>1. PICK q \in net' : q.msg = m /\ m.type = "RREQ"
  BY DEF Requests
<1>2. q \notin net
  BY <1>1 DEF Requests
<1>3. PICK s : q \in Broadcast(w[1], RequestOf(w[1], w[2], s))
  BY <1>2 DEF InitDiscovery, InitRouteDiscovery
<1>4. m = RequestOf(w[1], w[2], s)
  BY <1>1, <1>3 DEF Broadcast
<1> QED
  BY <1>4 DEF RequestOf

LEMMA RelayedFields ==
    ASSUME NEW m \in Rreq, NEW n, NEW h
    PROVE  RelayedRequest(n, m, h).hop = m.hop + 1 /\ RelayedRequest(n, m, h).recv = n
  BY DEF RelayedRequest, Rreq

LEMMA TreeInvInit == Init /\ TreeInit => TreeInv
<1> SUFFICES ASSUME Init, TreeInit PROVE TreeInv
  OBVIOUS
<1>1. carried = {}
  BY DEF Init, TreeInit, Requests
<1>2. cache = [n \in Node |-> {}]
  BY DEF TreeInit
<1> QED
  BY <1>1, <1>2 DEF TreeInv

LEMMA RelayKeepsTreeInv ==
    ASSUME TypeOK, TreeInv, NEW p \in net, NEW c \in carried, c.msg = p.msg,
           RelayWithTree(p, c)
    PROVE  TreeInv'
<1> DEFINE n == p.to
           root == ReceivedTree(c)
           hop == p.msg.hop + 1
           tree == addSelf(n, root, hop)
           made == WithSelf(root, n, hop)
           entry == CacheEntry(root, hop, tree)
           relayed == Requests(net') \cap
                      {RelayedRequest(n, p.msg, h) : h \in RelayHashes(n, p.msg.seq, hop)}
<1>1. n \in Node /\ p.msg \in Rreq
  <2>1. p \in Packet /\ p.msg.type = "RREQ"
    BY DEF TypeOK, RelayWithTree, RelayRequest, RelayEffect
  <2> QED
    BY <2>1, PacketParts, MessageKinds
<1>2. GenuinelyCarried(c) /\ hop = c.msg.hop + 1
  BY DEF TreeInv
<1>3. tree = made
  BY <1>1, <1>2, addSelfIsWithSelf
<1>4. /\ carried' = StillCarried \cup {Carrying(m, tree, Append(c.path, n)) : m \in relayed}
      /\ cache' = [cache EXCEPT ![n] = @ \cup {entry}]
  BY DEF RelayWithTree
<1>5. ASSUME NEW d \in carried' PROVE GenuinelyCarried(d)
  <2>1. CASE d \in StillCarried
    BY <2>1 DEF StillCarried, TreeInv
  <2>2. CASE d \notin StillCarried
    <3>1. PICK m \in relayed : d = Carrying(m, tree, Append(c.path, n))
      <4> HIDE DEF tree, relayed
      <4> QED
        BY <1>4, <2>2
    <3>2. m.hop = c.msg.hop + 1 /\ m.recv = n
      <4>1. PICK h : m = RelayedRequest(n, p.msg, h)
        BY <3>1
      <4> QED
        BY <1>1, <4>1, RelayedFields
    <3>3. d = Carrying(m, WithSelf(root, n, c.msg.hop + 1), Append(c.path, n))
      BY <1>2, <1>3, <3>1
    <3> QED
      BY <1>2, <3>2, <3>3, RelayedTreeIsGenuine
  <2> QED
    BY <2>1, <2>2
<1>6. MadeBy(n, entry)
  <2>1. entry.rootHash = root.hash /\ entry.hopCount = hop /\ entry.tree = made
    <3> HIDE DEF root, tree, made
    <3> QED
      BY <1>3 DEF CacheEntry
  <2>2. root.hash = c.hashes[1]
    BY <1>2, RebuiltRoot DEF GenuinelyCarried, ReceivedTree
  <2>3. /\ c.msg.hop \in Nat \ {0} /\ Genuine(c.hashes, c.msg.hop, c.msg.recv)
        /\ root = RebuiltTree(c.hashes, c.msg.hop, c.msg.recv)
    BY <1>2 DEF GenuinelyCarried, ReceivedTree
  <2> HIDE DEF entry, root
  <2> QED
    BY <1>2, <2>1, <2>2, <2>3 DEF MadeBy
<1>7. ASSUME NEW x \in Node, NEW e \in cache'[x] PROVE MadeBy(x, e)
  <2> HIDE DEF entry, n
  <2>1. e \in cache[x] \/ (x = n /\ e = entry)
    <3>1. cache = [y \in Node |-> cache[y]]
      BY DEF TreeInv
    <3> QED
      BY <1>4, <3>1
  <2> QED
    BY <1>6, <2>1 DEF TreeInv
<1>8. cache' = [y \in Node |-> cache'[y]]
  <2> HIDE DEF entry
  <2>1. cache = [y \in Node |-> cache[y]]
    BY DEF TreeInv
  <2> QED
    BY <1>4, <2>1
<1> QED
  BY <1>5, <1>7, <1>8 DEF TreeInv, GenuinelyCarried, MadeBy

LEMMA TreeInvStep == TypeOK /\ TreeInv /\ [TreeNext]_treeVars => TreeInv'
<1> SUFFICES ASSUME TypeOK, TreeInv, [TreeNext]_treeVars PROVE TreeInv'
  OBVIOUS
<1>1. ASSUME UNCHANGED cache, \A d \in carried' : GenuinelyCarried(d) PROVE TreeInv'
  BY <1>1 DEF TreeInv, GenuinelyCarried, MadeBy
<1>2. ASSUME NEW n \in Node, OwnStep(n), UNCHANGED <<carried, cache>> PROVE TreeInv'
  BY <1>1, <1>2 DEF TreeInv
<1>3. ASSUME NEW w \in Wanted, NEW runs \in {1, 2}, InitDiscovery(w, runs) PROVE TreeInv'
  <2>1. /\ carried' = carried \cup {SourceTree(m) : m \in Requests(net') \ Requests(net)}
        /\ UNCHANGED cache
    BY <1>3 DEF InitDiscovery
  <2>2. ASSUME NEW m \in Requests(net') \ Requests(net) PROVE GenuinelyCarried(SourceTree(m))
    BY <1>3, <2>2, NewRequest, SourceTreeIsGenuine
  <2> QED
    BY <1>1, <2>1, <2>2 DEF TreeInv
<1>4. ASSUME NEW p \in net, HandleMessage(p) PROVE TreeInv'
  <2>1. CASE Settle(p) /\ carried' = StillCarried /\ UNCHANGED cache
    BY <1>1, <2>1 DEF TreeInv, StillCarried
  <2>2. ASSUME NEW c \in carried, c.msg = p.msg, RelayWithTree(p, c) PROVE TreeInv'
    BY <2>2, RelayKeepsTreeInv
  <2> QED
    BY <1>4, <2>1, <2>2 DEF HandleMessage
<1>5. CASE UNCHANGED treeVars
  BY <1>1, <1>5 DEF treeVars, TreeInv
<1> QED
  BY <1>2, <1>3, <1>4, <1>5 DEF TreeNext

LEMMA TreeInvAlways == TreeSpec => []TreeInv
<1>1. TreeSpec => Init /\ TreeInit /\ [][TreeNext]_treeVars
  BY DEF TreeSpec
<1> QED
  BY <1>1, TreeTypeCorrect, TreeInvInit, TreeInvStep, PTL

(* The tree of a request, which every receiver rebuilds from a part of its *)
(* hashes only, has the root the request names, for every topology and     *)
(* length of a path: verifyTree (1212) rejects no request.                 *)
THEOREM VerifiedAlways == TreeSpec => []AlwaysVerified
<1>1. TreeInv => AlwaysVerified
  <2> SUFFICES ASSUME TreeInv, NEW c \in carried
               PROVE  (c.msg.hop > 1 => Len(c.hashes) > 1) /\ verifyTree(c)
    BY DEF AlwaysVerified
  <2>1. GenuinelyCarried(c)
    BY DEF TreeInv
  <2>2. c.msg.hop > 1 => Len(c.hashes) > 1
    BY <2>1 DEF GenuinelyCarried, Genuine
  <2>3. verifyTree(c)
    BY <2>1, RebuiltRoot DEF GenuinelyCarried, verifyTree, ReceivedTree
  <2> QED
    BY <2>2, <2>3
<1> QED
  BY <1>1, TreeInvAlways, PTL

(* A hit in the cache of addSelf (hashTree.cpp) is the tree the relay      *)
(* would compute again, and one that can be read back from the cache: the  *)
(* root and the hop count the cache is keyed by determine all that the     *)
(* constructor and addSelf use of a request.                               *)
THEOREM CacheNeverLies == TreeSpec => []CacheHitIsRecomputation
<1>1. TypeOK /\ TreeInv => CacheHitIsRecomputation
  <2> SUFFICES ASSUME TypeOK, TreeInv, NEW p \in net, NEW c \in carried, c.msg = p.msg,
                      NEW e \in Cached(p.to, ReceivedTree(c), c.msg.hop + 1)
               PROVE  /\ e.tree = WithSelf(ReceivedTree(c), p.to, c.msg.hop + 1)
                      /\ Serializable(e.tree, c.msg.hop + 1)
    BY DEF CacheHitIsRecomputation
  <2>1. p.to \in Node
    BY PacketParts DEF TypeOK
  <2>2. e \in cache[p.to] /\ e.rootHash = ReceivedTree(c).hash /\ e.hopCount = c.msg.hop + 1
    BY DEF Cached
  <2>3. MadeBy(p.to, e) /\ GenuinelyCarried(c)
    BY <2>1, <2>2 DEF TreeInv
  <2>4. e.tree = WithSelf(ReceivedTree(c), p.to, c.msg.hop + 1)
    <3> DEFINE n == p.to
    <3>1. n \in Node /\ MadeBy(n, e) /\ GenuinelyCarried(c)
      BY <2>1, <2>3
    <3> HIDE DEF n
    <3>2. e.tree = WithSelf(ReceivedTree(c), n, c.msg.hop + 1)
      BY <2>2, <3>1, CachedIsMade
    <3> QED
      BY <3>2 DEF n
  <2>5. Serializable(WithSelf(ReceivedTree(c), p.to, c.msg.hop + 1), c.msg.hop + 1)
    BY <2>3, WithSelfIsGenuine DEF GenuinelyCarried, ReceivedTree
  <2> QED
    BY <2>4, <2>5
<1> QED
  BY <1>1, TreeTypeCorrect, TreeInvAlways, PTL

(* No request in flight is without its tree, so what holds of the carried  *)
(* trees holds of every request a drone can receive.                       *)
EveryRequestHasTree == Requests(net) \subseteq {c.msg : c \in carried}

LEMMA SettlingSendsNoRequest ==
    ASSUME TypeOK, NEW p \in net, Settle(p), NEW q \in net', q.msg.type = "RREQ"
    PROVE  q \in net
<1>1. CASE IgnoreHello(p) \/ InitMessageHandler(p) \/ DropRequest(p) \/ ChainExhausted(p)
             \/ DropReply(p) \/ AcceptReply(p) \/ DropError(p)
  BY <1>1 DEF IgnoreHello, InitMessageHandler, DropRequest, ChainExhausted,
              DropReply, AcceptReply, DropError
<1>2. CASE AnswerRequest(p)
  <2>1. ASSUME NEW to, q \in SendData(p.to, to, ReplyOf(p.to, p.msg)) PROVE FALSE
    BY <2>1 DEF SendData, ReplyOf
  <2> QED
    BY <1>2, <2>1 DEF AnswerRequest
<1>3. CASE RelayReply(p)
  <2>1. RelayedReply(p.to, p.msg).type = "RREP"
    <3>1. p.msg \in Rrep
      BY <1>3, PacketParts, MessageKinds DEF RelayReply
    <3> QED
      BY <3>1 DEF RelayedReply, Rrep
  <2>2. ASSUME NEW to, q \in SendData(p.to, to, RelayedReply(p.to, p.msg)) PROVE FALSE
    BY <2>1, <2>2 DEF SendData
  <2> QED
    BY <1>3, <2>2 DEF RelayReply
<1>4. CASE RouteErrorHandler(p)
  <2>1. ASSUME NEW to, q \in SendData(p.to, to, p.msg) PROVE FALSE
    <3>1. p.msg.type = "RERR"
      BY <1>4 DEF RouteErrorHandler
    <3>2. q.msg = p.msg
      BY <2>1 DEF SendData
    <3> QED
      BY <3>1, <3>2
  <2> QED
    BY <1>4, <2>1 DEF RouteErrorHandler
<1> QED
  BY <1>1, <1>2, <1>3, <1>4 DEF Settle

LEMMA CarriedMessage ==
    ASSUME NEW m, NEW root, NEW path PROVE Carrying(m, root, path).msg = m
  BY DEF Carrying

LEMMA TreesComeAlongStep ==
    TypeOK /\ EveryRequestHasTree /\ [TreeNext]_treeVars => EveryRequestHasTree'
<1> SUFFICES ASSUME TypeOK, EveryRequestHasTree, [TreeNext]_treeVars,
                    NEW m \in Requests(net')
             PROVE  \E c \in carried' : c.msg = m
  BY DEF EveryRequestHasTree
<1>1. m \in Requests(net) => \E c \in carried : c.msg = m
  BY DEF EveryRequestHasTree
<1>2. PICK q \in net' : q.msg = m /\ q.msg.type = "RREQ"
  BY DEF Requests
<1>3. q \in net => m \in Requests(net)
  BY <1>2 DEF Requests
<1>4. ASSUME NEW n \in Node, OwnStep(n), UNCHANGED <<carried, cache>>
      PROVE  \E c \in carried' : c.msg = m
  <2>1. q \in net
    BY <1>2, <1>4 DEF OwnStep, TeslaHello, AuthHello, EndDiscovery, DiscloseKey, Broadcast
  <2> QED
    BY <1>1, <1>3, <1>4, <2>1
<1>5. ASSUME NEW w \in Wanted, NEW runs \in {1, 2}, InitDiscovery(w, runs)
      PROVE  \E c \in carried' : c.msg = m
  <2>1. carried' = carried \cup {SourceTree(x) : x \in Requests(net') \ Requests(net)}
    BY <1>5 DEF InitDiscovery
  <2>2. SourceTree(m).msg = m
    BY CarriedMessage DEF SourceTree
  <2> QED
    BY <1>1, <2>1, <2>2
<1>6. ASSUME NEW p \in net, HandleMessage(p) PROVE \E c \in carried' : c.msg = m
  <2>1. ASSUME m \in Requests(net), StillCarried \subseteq carried'
        PROVE  \E c \in carried' : c.msg = m
    BY <1>1, <2>1 DEF StillCarried
  <2>2. CASE Settle(p) /\ carried' = StillCarried
    BY <1>2, <1>3, <2>1, <2>2, SettlingSendsNoRequest
  <2>3. ASSUME NEW c \in carried, c.msg = p.msg, RelayWithTree(p, c)
        PROVE  \E d \in carried' : d.msg = m
    <3> DEFINE n == p.to
               hop == p.msg.hop + 1
               tree == addSelf(n, ReceivedTree(c), hop)
               relayed == Requests(net') \cap
                          {RelayedRequest(n, p.msg, h) : h \in RelayHashes(n, p.msg.seq, hop)}
    <3>1. carried' = StillCarried \cup {Carrying(x, tree, Append(c.path, n)) : x \in relayed}
      BY <2>3 DEF RelayWithTree
    <3>2. PICK h \in RelayHashes(n, p.msg.seq, hop) :
             \E sent \in Transmissions(n, p.msg, RelayedRequest(n, p.msg, h)) :
                net' = (net \ {p}) \cup sent
      BY <2>3 DEF RelayWithTree, RelayRequest
    <3>3. q \in net \/ m = RelayedRequest(n, p.msg, h)
      <4>1. RouteErrorOf(n, p.msg).type = "RERR"
        BY DEF RouteErrorOf
      <4>2. q \in net \/ q.msg \in {RelayedRequest(n, p.msg, h), RouteErrorOf(n, p.msg)}
        BY <3>2 DEF Transmissions, Broadcast, SendData
      <4> QED
        BY <1>2, <4>1, <4>2
    <3>4. CASE q \in net
      BY <1>3, <2>1, <3>1, <3>4
    <3>5. CASE m = RelayedRequest(n, p.msg, h)
      <4>1. m \in relayed
        BY <3>2, <3>5
      <4>2. Carrying(m, tree, Append(c.path, n)) \in carried'
        BY <3>1, <4>1
      <4> QED
        BY <4>2, CarriedMessage
    <3> QED
      BY <3>3, <3>4, <3>5
  <2> QED
    BY <1>6, <2>2, <2>3 DEF HandleMessage
<1>7. CASE UNCHANGED treeVars
  BY <1>1, <1>2, <1>3, <1>7 DEF treeVars, vars
<1> QED
  BY <1>4, <1>5, <1>6, <1>7 DEF TreeNext

THEOREM TreesComeAlong == TreeSpec => []EveryRequestHasTree
<1>1. Init /\ TreeInit => EveryRequestHasTree
  BY DEF Init, EveryRequestHasTree, Requests
<1>2. TreeSpec => Init /\ TreeInit /\ [][TreeNext]_treeVars
  BY DEF TreeSpec
<1> QED
  BY <1>1, <1>2, TreeTypeCorrect, TreesComeAlongStep, PTL
--------------------------------------------------------------------------
(* No relay transmits a request twice, in a settled swarm (see             *)
(* SettledNext) without route errors: every drone on the path of a request *)
(* is its source or has recorded its number, and so refuses it.            *)

SettledTreeSpec == Init /\ TreeInit /\ [][TreeNext /\ SettledNext]_treeVars

OnceCarried(c) ==
    /\ c.msg \in Requests(net)
    /\ c.path \in Seq(Node)
    /\ \A i \in DOMAIN c.path : c.path[i] = c.msg.src \/ Recorded(c.path[i], c.msg)
    /\ \A i, j \in DOMAIN c.path : c.path[i] = c.path[j] => i = j

OnceInv == ~TriggerRerr => \A c \in carried : OnceCarried(c)

LEMMA OnceKept ==
    ASSUME SettledInv, ~TriggerRerr, [Next]_vars,
           NEW c, OnceCarried(c), c.msg \in Requests(net')
    PROVE  OnceCarried(c)'
<1>1. PICK q \in net : q.msg = c.msg /\ q.msg.type = "RREQ"
  BY DEF OnceCarried, Requests
<1>2. ASSUME NEW i \in DOMAIN c.path, c.path[i] # c.msg.src
      PROVE  Recorded(c.path[i], c.msg)'
  <2> DEFINE x == c.path[i]
  <2>1. x \in Node /\ Recorded(x, q.msg)
    BY <1>1, <1>2 DEF OnceCarried
  <2> HIDE DEF x
  <2>2. Recorded(x, q.msg)'
    BY <1>1, <2>1, RecordedStep DEF SettledInv
  <2> QED
    BY <1>1, <2>2 DEF x
<1> QED
  BY <1>2 DEF OnceCarried, Requests

(* A request that starts names its source alone. *)
LEMMA OnceStarted ==
    ASSUME TypeOK', NEW m \in Requests(net')
    PROVE  OnceCarried(SourceTree(m))'
<1>1. m.src \in Node
  <2>1. PICK q \in net' : q.msg = m /\ m.type = "RREQ"
    BY DEF Requests
  <2>2. m \in Message
    BY <2>1 DEF TypeOK, Packet
  <2> QED
    BY <2>1, <2>2, MessageKinds DEF Rreq
<1>2. SourceTree(m).msg = m /\ SourceTree(m).path = <<m.src>>
  BY DEF SourceTree, Carrying
<1>3. <<m.src>> \in Seq(Node) /\ DOMAIN <<m.src>> = {1}
  BY <1>1
<1> QED
  BY <1>2, <1>3 DEF OnceCarried, Requests

LEMMA OnceRelayed ==
    ASSUME SettledInv, ~TriggerRerr, [Next]_vars, NEW p \in net, RelayRequest(p),
           NEW c, c.msg = p.msg, OnceCarried(c),
           NEW d, NEW h, d.msg = RelayedRequest(p.to, p.msg, h), d.msg \in Requests(net'),
           d.path = Append(c.path, p.to)
    PROVE  OnceCarried(d)'
<1> DEFINE n == p.to
<1>1. /\ n \in Node /\ p.msg \in Rreq /\ p.msg.type = "RREQ"
  BY PacketParts, MessageKinds DEF SettledInv, RelayRequest, RelayEffect
<1>2. n # c.msg.src /\ ~Recorded(n, c.msg) /\ Recorded(n, c.msg)'
  BY RelayRecords DEF SettledInv
<1>3. d.msg.src = c.msg.src /\ d.msg.seq = c.msg.seq
  BY <1>1 DEF RelayedRequest, Rreq
<1>4. \A x : Recorded(x, d.msg)' <=> Recorded(x, c.msg)'
  BY <1>3 DEF Recorded, Known
<1>5. ASSUME NEW i \in DOMAIN c.path
      PROVE  c.path[i] # n /\ (c.path[i] = d.msg.src \/ Recorded(c.path[i], d.msg)')
  <2> DEFINE x == c.path[i]
  <2>1. x \in Node /\ (x = c.msg.src \/ Recorded(x, p.msg))
    BY DEF OnceCarried
  <2> HIDE DEF x
  <2>2. x # n
    BY <1>2, <2>1
  <2>3. Recorded(x, p.msg) => Recorded(x, p.msg)'
    BY <1>1, <2>1, RecordedStep DEF SettledInv
  <2>4. x # n /\ (x = d.msg.src \/ Recorded(x, d.msg)')
    BY <1>3, <1>4, <2>1, <2>2, <2>3
  <2> QED
    BY <2>4 DEF x
<1>6. c.path \in Seq(Node)
  BY DEF OnceCarried
<1>7. /\ d.path \in Seq(Node) /\ DOMAIN d.path = DOMAIN c.path \cup {Len(c.path) + 1}
      /\ d.path[Len(c.path) + 1] = n
      /\ \A i \in DOMAIN c.path : d.path[i] = c.path[i]
  BY <1>1, <1>6
<1>8. ASSUME NEW i \in DOMAIN d.path PROVE d.path[i] = d.msg.src \/ Recorded(d.path[i], d.msg)'
  BY <1>2, <1>4, <1>5, <1>7
<1>9. ASSUME NEW i \in DOMAIN d.path, NEW j \in DOMAIN d.path, d.path[i] = d.path[j]
      PROVE  i = j
  BY <1>5, <1>7, <1>9 DEF OnceCarried
<1> QED
  BY <1>7, <1>8, <1>9 DEF OnceCarried

LEMMA OnceStep == SettledInv /\ OnceInv /\ [TreeNext /\ SettledNext]_treeVars => OnceInv'
<1> SUFFICES ASSUME SettledInv, OnceInv, [TreeNext /\ SettledNext]_treeVars, ~TriggerRerr,
                    NEW d \in carried'
             PROVE  OnceCarried(d)'
  BY DEF OnceInv
<1>1. \A c \in carried : OnceCarried(c)
  BY DEF OnceInv
<1>2. [Next]_vars /\ [SettledNext]_vars
  BY SequentialStep DEF SettledNext, treeVars, vars
<1>3. TypeOK'
  BY <1>2, SettledInvStep DEF SettledInv
<1>4. ASSUME d \in carried, Requests(net) \subseteq Requests(net') PROVE OnceCarried(d)'
  BY <1>1, <1>2, <1>4, OnceKept DEF OnceCarried
<1>5. ASSUME d \in StillCarried PROVE OnceCarried(d)'
  BY <1>1, <1>2, <1>5, OnceKept DEF StillCarried
<1>6. ASSUME NEW n \in Node, OwnStep(n), UNCHANGED <<carried, cache>> PROVE OnceCarried(d)'
  <2>1. net \subseteq net'
    BY <1>6 DEF OwnStep, TeslaHello, AuthHello, EndDiscovery, DiscloseKey
  <2> QED
    BY <1>4, <1>6, <2>1 DEF Requests
<1>7. ASSUME NEW w \in Wanted, NEW runs \in {1, 2}, InitDiscovery(w, runs)
      PROVE  OnceCarried(d)'
  <2>1. net \subseteq net'
    BY <1>7 DEF InitDiscovery, InitRouteDiscovery
  <2>2. d \in carried \/ \E m \in Requests(net') : d = SourceTree(m)
    BY <1>7 DEF InitDiscovery
  <2> QED
    BY <1>3, <1>4, <2>1, <2>2, OnceStarted DEF Requests
<1>8. ASSUME NEW p \in net, HandleMessage(p) PROVE OnceCarried(d)'
  <2>1. CASE carried' = StillCarried
    BY <1>5, <2>1
  <2>2. ASSUME NEW c \in carried, c.msg = p.msg, RelayWithTree(p, c) PROVE OnceCarried(d)'
    <3> DEFINE n == p.to
               hop == p.msg.hop + 1
               tree == addSelf(n, ReceivedTree(c), hop)
               relayed == Requests(net') \cap
                          {RelayedRequest(n, p.msg, h) : h \in RelayHashes(n, p.msg.seq, hop)}
    <3>1. carried' = StillCarried \cup {Carrying(m, tree, Append(c.path, n)) : m \in relayed}
      BY <2>2 DEF RelayWithTree
    <3> HIDE DEF tree
    <3>2. CASE d \notin StillCarried
      <4>1. PICK m \in relayed : d = Carrying(m, tree, Append(c.path, n))
        BY <3>1, <3>2
      <4>2. PICK h : m = RelayedRequest(n, p.msg, h)
        BY <4>1
      <4>3. d.msg = m /\ d.path = Append(c.path, n) /\ m \in Requests(net')
        BY <4>1 DEF Carrying
      <4>4. RelayRequest(p) /\ OnceCarried(c)
        BY <1>1, <2>2 DEF RelayWithTree
      <4> QED
        BY <1>2, <2>2, <4>2, <4>3, <4>4, OnceRelayed
    <3> QED
      BY <1>5, <3>2
  <2> QED
    BY <1>8, <2>1, <2>2 DEF HandleMessage
<1>9. CASE UNCHANGED treeVars
  BY <1>4, <1>9 DEF treeVars, vars, Requests
<1> QED
  BY <1>6, <1>7, <1>8, <1>9 DEF TreeNext

(* Where nobody starts a discovery before the hellos are over or while     *)
(* another one is on the air, and TRIGGER_RERR is off, no drone relays a   *)
(* request it has transmitted before (drone.cpp 1157-1205), for every      *)
(* swarm, topology and number of discoveries, however the copies overtake  *)
(* each other.  So no path is longer than the swarm has drones, although   *)
(* ttl and hop count are not tested for a requester that is new.           *)
THEOREM NeverRelaysTwice == SettledTreeSpec => [](~TriggerRerr => RelayedOnce)
<1>1. Init /\ TreeInit => OnceInv
  BY DEF Init, TreeInit, OnceInv, Requests
<1>2. [TreeNext /\ SettledNext]_treeVars => [SettledNext]_vars
  BY DEF treeVars, vars
<1>3. OnceInv => (~TriggerRerr => RelayedOnce)
  BY DEF OnceInv, OnceCarried, RelayedOnce
<1> QED
  BY <1>1, <1>2, <1>3, SettledInvInit, SettledInvStep, OnceStep, PTL DEF SettledTreeSpec
--------------------------------------------------------------------------
(* What the root of a request names, on top of TreeInv.                    *)

(* Every request names its transmitter last, has as many hops as it has    *)
(* transmitters, and a root that commits to them.                          *)
NamedCarried(c) ==
    /\ c.path \in Seq(Node) /\ Len(c.path) = c.msg.hop
    /\ Len(c.path) > 0 /\ c.path[Len(c.path)] = c.msg.recv
    /\ Len(c.path) <= 7 => c.rootHash = Committed(c.path, Len(c.path))

NamedInv == \A c \in carried : NamedCarried(c)

(* Only the first drones of a path count. *)
LEMMA CommittedPrefix ==
    ASSUME NEW p, NEW q, NEW n \in 1..7, \A i \in 1..n : p[i] = q[i]
    PROVE  Committed(p, n) = Committed(q, n)
<1>1. CASE n \in {1, 2, 3}
  BY <1>1 DEF Committed
<1>2. CASE n = 4
  <2>1. p[1] = q[1] /\ p[2] = q[2] /\ p[3] = q[3] /\ p[4] = q[4]
    BY <1>2
  <2> QED
    BY <1>2, <2>1 DEF Committed, FirstFour
<1>3. CASE n \in 5..7
  <2>1. FirstFour(p) = FirstFour(q)
    <3>1. p[1] = q[1] /\ p[2] = q[2] /\ p[3] = q[3] /\ p[4] = q[4]
      BY <1>3
    <3> QED
      BY <3>1 DEF FirstFour
  <2>2. CASE n = 5
    BY <2>1, <2>2 DEF Committed
  <2>3. CASE n = 6
    BY <2>1, <2>3 DEF Committed
  <2>4. CASE n = 7
    BY <2>1, <2>4 DEF Committed
  <2> QED
    BY <1>3, <2>2, <2>3, <2>4
<1> QED
  BY <1>1, <1>2, <1>3

LEMMA SourceIsNamed ==
    ASSUME NEW m, m.hop = 1, m.recv = m.src, m.src \in Node
    PROVE  NamedCarried(SourceTree(m))
<1> DEFINE root == TreeNode(hashSelf(m.src))
           c == SourceTree(m)
           path == <<m.src>>
<1>1. c = [msg |-> m, hashes |-> toVector(root, m.hop), rootHash |-> root.hash, path |-> path]
  BY DEF SourceTree, Carrying
<1>2. root.hash = hashSelf(m.src)
  BY TreeNodeIsNode
<1>3. path \in Seq(Node) /\ Len(path) = 1 /\ path[1] = m.src
  OBVIOUS
<1> HIDE DEF root, c, path
<1>4. c.msg = m /\ c.rootHash = hashSelf(m.src) /\ c.path = path
  BY <1>1, <1>2
<1>5. Committed(path, 1) = hashSelf(m.src)
  BY <1>3 DEF Committed
<1>6. NamedCarried(c)
  <2>1. Len(c.path) = 1 /\ c.rootHash = Committed(c.path, 1) /\ c.path[1] = c.msg.recv
    BY <1>3, <1>4, <1>5
  <2>2. c.path \in Seq(Node) /\ c.msg.hop = 1
    BY <1>3, <1>4
  <2>3. Len(c.path) > 0 /\ c.path[Len(c.path)] = c.msg.recv
    BY <2>1
  <2> QED
    BY <2>1, <2>2, <2>3 DEF NamedCarried
<1> QED
  BY <1>6 DEF c

LEMMA RelayedIsNamed ==
    ASSUME NEW c, GenuinelyCarried(c), NamedCarried(c), NEW n \in Node,
           NEW m, m.hop = c.msg.hop + 1, m.recv = n,
           NEW d, d.msg = m, d.path = Append(c.path, n),
           d.rootHash = WithSelf(ReceivedTree(c), n, c.msg.hop + 1).hash
    PROVE  NamedCarried(d)
<1> DEFINE hop == Len(c.path)
<1>1. /\ c.path \in Seq(Node) /\ hop = c.msg.hop /\ hop \in Nat \ {0}
      /\ c.path[hop] = c.msg.recv
  BY DEF NamedCarried
<1>2. /\ d.path \in Seq(Node) /\ Len(d.path) = hop + 1 /\ d.path[hop + 1] = n
      /\ \A i \in 1..hop : d.path[i] = c.path[i]
  BY <1>1
<1>3. ASSUME hop <= 6 PROVE d.rootHash = Committed(d.path, hop + 1)
  <2> HIDE DEF hop
  <2>1. hop \in Nat /\ hop # 0
    BY <1>1
  <2>2. hop \in 1..6 /\ d.path[hop] = c.msg.recv
    <3>1. hop \in 1..6 /\ hop \in 1..hop
      BY <1>3, <2>1
    <3> QED
      BY <1>1, <1>2, <3>1
  <2>3. Genuine(c.hashes, hop, d.path[hop]) /\ c.rootHash = c.hashes[1]
    BY <1>1, <2>2 DEF GenuinelyCarried
  <2>4. c.rootHash = Committed(c.path, hop)
    BY <1>3 DEF NamedCarried, hop
  <2>5. c.hashes[1] = Committed(d.path, hop)
    <3>1. hop \in 1..7 /\ \A i \in 1..hop : d.path[i] = c.path[i]
      BY <1>2, <2>2
    <3>2. Committed(d.path, hop) = Committed(c.path, hop)
      BY <3>1, CommittedPrefix
    <3> QED
      BY <2>3, <2>4, <3>2
  <2>6. WithSelf(RebuiltTree(c.hashes, hop, d.path[hop]), d.path[hop + 1], hop + 1).hash
          = Committed(d.path, hop + 1)
    BY <2>2, <2>3, <2>5, CommittedGrows
  <2> QED
    BY <1>1, <1>2, <2>2, <2>6 DEF ReceivedTree
<1> QED
  BY <1>1, <1>2, <1>3 DEF NamedCarried

LEMMA NamedStep == TypeOK /\ TypeOK' /\ TreeInv /\ NamedInv /\ [TreeNext]_treeVars => NamedInv'
<1> SUFFICES ASSUME TypeOK, TypeOK', TreeInv, NamedInv, [TreeNext]_treeVars,
                    NEW d \in carried'
             PROVE  NamedCarried(d)
  BY DEF NamedInv, NamedCarried
<1>1. d \in carried => NamedCarried(d)
  BY DEF NamedInv
<1>2. ASSUME NEW n \in Node, OwnStep(n), UNCHANGED <<carried, cache>> PROVE NamedCarried(d)
  BY <1>1, <1>2
<1>3. ASSUME NEW w \in Wanted, NEW runs \in {1, 2}, InitDiscovery(w, runs)
      PROVE  NamedCarried(d)
  <2>1. d \in carried \/ \E m \in Requests(net') \ Requests(net) : d = SourceTree(m)
    BY <1>3 DEF InitDiscovery
  <2>2. ASSUME NEW m \in Requests(net') \ Requests(net) PROVE NamedCarried(SourceTree(m))
    <3>1. m.src \in Node
      <4>1. PICK q \in net' : q.msg = m /\ m.type = "RREQ"
        BY DEF Requests
      <4>2. m \in Message
        BY <4>1 DEF TypeOK, Packet
      <4> QED
        BY <4>1, <4>2, MessageKinds DEF Rreq
    <3> QED
      BY <1>3, <3>1, NewRequest, SourceIsNamed
  <2> QED
    BY <1>1, <2>1, <2>2
<1>4. ASSUME NEW p \in net, HandleMessage(p) PROVE NamedCarried(d)
  <2>1. CASE d \in StillCarried
    BY <1>1, <2>1 DEF StillCarried
  <2>2. ASSUME NEW c \in carried, c.msg = p.msg, RelayWithTree(p, c), d \notin StillCarried
        PROVE  NamedCarried(d)
    <3> DEFINE n == p.to
               hop == p.msg.hop + 1
               tree == addSelf(n, ReceivedTree(c), hop)
               relayed == Requests(net') \cap
                          {RelayedRequest(n, p.msg, h) : h \in RelayHashes(n, p.msg.seq, hop)}
    <3>1. n \in Node /\ p.msg \in Rreq
      <4>1. p \in Packet /\ p.msg.type = "RREQ"
        BY <2>2 DEF TypeOK, RelayWithTree, RelayRequest, RelayEffect
      <4> QED
        BY <4>1, PacketParts, MessageKinds
    <3>2. tree = WithSelf(ReceivedTree(c), n, c.msg.hop + 1)
      BY <2>2, <3>1, addSelfIsWithSelf
    <3>3. carried' = StillCarried \cup {Carrying(m, tree, Append(c.path, n)) : m \in relayed}
      BY <2>2 DEF RelayWithTree
    <3> HIDE DEF tree
    <3>4. PICK m \in relayed : d = Carrying(m, tree, Append(c.path, n))
      BY <2>2, <3>3
    <3>5. m.hop = c.msg.hop + 1 /\ m.recv = n
      <4>1. PICK h : m = RelayedRequest(n, p.msg, h)
        BY <3>4
      <4> QED
        BY <2>2, <3>1, <4>1, RelayedFields
    <3>6. d.msg = m /\ d.rootHash = tree.hash /\ d.path = Append(c.path, n)
      BY <3>4 DEF Carrying
    <3>7. GenuinelyCarried(c) /\ NamedCarried(c)
      BY DEF TreeInv, NamedInv
    <3>8. d.rootHash = WithSelf(ReceivedTree(c), n, c.msg.hop + 1).hash
      BY <3>2, <3>6
    <3> HIDE DEF n, relayed
    <3> QED
      BY <3>1, <3>5, <3>6, <3>7, <3>8, RelayedIsNamed
  <2> QED
    BY <1>4, <2>1, <2>2 DEF HandleMessage
<1>5. CASE UNCHANGED treeVars
  BY <1>1, <1>5 DEF treeVars
<1> QED
  BY <1>2, <1>3, <1>4, <1>5 DEF TreeNext

LEMMA NamedAlways == TreeSpec => []NamedInv
<1>1. Init /\ TreeInit => NamedInv
  BY DEF Init, TreeInit, NamedInv, Requests
<1>2. TreeSpec => Init /\ TreeInit /\ [][TreeNext]_treeVars
  BY DEF TreeSpec
<1> QED
  BY <1>1, <1>2, TreeTypeCorrect, TreeInvAlways, NamedStep, PTL

(* The root of a request that up to six drones have transmitted is the     *)
(* Merkle root over them in their order (hashTree.cpp, addSelf), for every *)
(* swarm and topology, although no relay ever sees more of the tree than   *)
(* its root and its left half, and one with a hit in its cache takes the   *)
(* tree from there.                                                        *)
THEOREM RootAlwaysNamesPath == TreeSpec => []RootNamesPath
<1>1. NamedInv => RootNamesPath
  <2> SUFFICES ASSUME NamedInv, NEW c \in carried, Len(c.path) <= 6
               PROVE  c.rootHash = MerkleRoot(c.path)
    BY DEF RootNamesPath
  <2>1. /\ c.path \in Seq(Node) /\ Len(c.path) > 0 /\ Len(c.path) <= 7
        /\ c.rootHash = Committed(c.path, Len(c.path))
    BY DEF NamedInv, NamedCarried
  <2>2. PICK n \in Nat : n = Len(c.path)
    BY <2>1
  <2>3. n \in 1..6
    <3>1. n > 0 /\ n <= 6
      BY <2>1, <2>2
    <3> QED
      BY <3>1
  <2> QED
    BY <2>1, <2>2, <2>3, CommittedIsMerkle
<1> QED
  BY <1>1, NamedAlways, PTL

(* Six is the limit, for every swarm and topology: the root the seventh    *)
(* drone sends on is that of a path on which the sixth stands in the place *)
(* of the fifth, because it has rebuilt the right half of the tree from    *)
(* the sixth one's leaf alone (hashTree.cpp, the constructor).             *)
THEOREM SeventhAlwaysForgets == TreeSpec => []SeventhForgetsFifth
<1>1. NamedInv => SeventhForgetsFifth
  <2> SUFFICES ASSUME NamedInv, NEW c \in carried, Len(c.path) = 7
               PROVE  c.rootHash = MerkleRoot([c.path EXCEPT ![5] = c.path[6]])
    BY DEF SeventhForgetsFifth
  <2> DEFINE path == c.path
             other == [c.path EXCEPT ![5] = c.path[6]]
  <2>1. path \in Seq(Node) /\ c.rootHash = Committed(path, 7)
    <3>1. c.path \in Seq(Node) /\ (Len(c.path) <= 7 => c.rootHash = Committed(c.path, Len(c.path)))
      BY DEF NamedInv, NamedCarried
    <3>2. Len(c.path) <= 7
      OBVIOUS
    <3> QED
      BY <3>1, <3>2
  <2>2. /\ other \in Seq(Node) /\ Len(other) = 7
        /\ \A i \in 1..7 : other[i] = IF i = 5 THEN path[6] ELSE path[i]
    BY <2>1
  <2> HIDE DEF path, other
  <2>3. FirstFour(other) = FirstFour(path)
    BY <2>2 DEF FirstFour
  <2>4. MerkleRoot(other)
          = hashNodes(FirstFour(path), hashNodes(Pair(path[6], path[6]), Pair(path[7], path[7])))
    BY <2>2, <2>3, MerkleOfSeven
  <2> QED
    BY <2>1, <2>4 DEF Committed, other
<1> QED
  BY <1>1, NamedAlways, PTL

(* What the root is for: two requests that as many drones have             *)
(* transmitted, up to six, and that have one root, have come the same way. *)
RootTellsPathsApart ==
    \A c, d \in carried :
        c.rootHash = d.rootHash /\ c.msg.hop = d.msg.hop /\ c.msg.hop <= 6 => c.path = d.path

(* Hop count and root, which a relay compares before it answers or relays  *)
(* (drone.cpp 1207-1215) and by which it looks trees up in its cache,      *)
(* determine the drones on the way and their order, for every swarm and    *)
(* topology, up to six drones.  For seven this is false: see               *)
(* SeventhForgetsFifth.                                                    *)
THEOREM RootAlwaysTellsPathsApart == TreeSpec => []RootTellsPathsApart
<1>1. NamedInv => RootTellsPathsApart
  <2> SUFFICES ASSUME NamedInv, NEW c \in carried, NEW d \in carried,
                      c.rootHash = d.rootHash, c.msg.hop = d.msg.hop, c.msg.hop <= 6
               PROVE  c.path = d.path
    BY DEF RootTellsPathsApart
  <2> DEFINE p == c.path
             q == d.path
             n == c.msg.hop
  <2>1. NamedCarried(c) /\ NamedCarried(d)
    BY DEF NamedInv
  <2>2. /\ p \in Seq(Node) /\ Len(p) = n /\ n > 0
        /\ q \in Seq(Node) /\ Len(q) = n
        /\ n <= 7 => c.rootHash = Committed(p, n) /\ d.rootHash = Committed(q, n)
    BY <2>1 DEF NamedCarried
  <2>3. n <= 6 /\ c.rootHash = d.rootHash
    OBVIOUS
  <2> HIDE DEF p, q, n
  <2>4. n \in Nat
    BY <2>2
  <2>5. n \in 1..6
    BY <2>2, <2>3, <2>4
  <2>6. Committed(p, n) = Committed(q, n)
    BY <2>2, <2>3, <2>5
  <2>7. \A i \in 1..n : p[i] = q[i]
    BY <2>5, <2>6, CommittedTellsApart
  <2>8. p = q
    BY <2>2, <2>4, <2>7
  <2> QED
    BY <2>8 DEF p, q
<1> QED
  BY <1>1, NamedAlways, PTL
===========================================================================
