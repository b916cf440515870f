------------------------ MODULE PendingRoutesProofs ------------------------
(* Proofs about PendingRoutes, for any destinations, messages and limits.  *)
EXTENDS PendingRoutes, FiniteSetTheorems, SequenceTheorems, TLAPS

(***************************************************************************)
(* Induction.  The provers cannot apply the induction theorems of the      *)
(* library, which take an operator; the set of numbers at which a claim    *)
(* fails has a least element if it has any, and that is enough.            *)
(***************************************************************************)

(* A set of naturals that is not empty has a least element: the initial    *)
(* segments are finite sets, which strict inclusion orders well.           *)
LEMMA LeastNumber ==
    ASSUME NEW B \in SUBSET Nat, B # {}
    PROVE  \E m \in B : \A k \in B : m <= k
<1> DEFINE T == {1..n : n \in B}
<1>1. T \subseteq FiniteSubsetsOf(Nat)
  <2> SUFFICES ASSUME NEW n \in B PROVE 1..n \in FiniteSubsetsOf(Nat)
    OBVIOUS
  <2>1. IsFiniteSet(1..n)
    BY FS_Interval
  <2> QED
    BY <2>1 DEF FiniteSubsetsOf
<1>2. T # {}
  OBVIOUS
<1>3. IsWellFoundedOn(StrictSubsetOrdering(Nat), FiniteSubsetsOf(Nat))
  BY FS_StrictSubsetOrderingWellFounded
<1>4. PICK x \in T : \A y \in T : <<y, x>> \notin StrictSubsetOrdering(Nat)
  <2> HIDE DEF T
  <2> QED
    BY <1>1, <1>2, <1>3, WFMin
<1>5. PICK m \in B : x = 1..m
  OBVIOUS
<1>6. ASSUME NEW k \in B, k < m PROVE FALSE
  <2>1. 1..k \subseteq 1..m /\ 1..k # 1..m
    BY <1>6
  <2>2. <<1..k, 1..m>> \in StrictSubsetOrdering(Nat)
    BY <2>1 DEF StrictSubsetOrdering
  <2> QED
    BY <2>2, <1>4, <1>5
<1> QED
  BY <1>6

(* Induction up to n, for the set of numbers that satisfy the claim.       *)
LEMMA UpTo ==
    ASSUME NEW n \in Nat, NEW P, 0 \in P,
           \A k \in 1..n : k - 1 \in P => k \in P
    PROVE  \A k \in 0..n : k \in P
<1> DEFINE B == {k \in 0..n : k \notin P}
<1> SUFFICES ASSUME B # {} PROVE FALSE
  OBVIOUS
<1>1. PICK m \in B : \A k \in B : m <= k
  <2>1. B \in SUBSET Nat
    OBVIOUS
  <2> HIDE DEF B
  <2> QED
    BY <2>1, LeastNumber
<1>2. m \in 1..n /\ m - 1 \in P
  BY <1>1
<1> QED
  BY <1>1, <1>2

--------------------------------------------------------------------------
(* What cleanupExpiredRoutes returns *)

(* f[k] is what is kept of the first k routes. *)
Kept(f, s, n) ==
    /\ f = [i \in 0..n |-> f[i]]
    /\ f[0] = <<>>
    /\ \A i \in 1..n : f[i] = IF Alive(s[i]) THEN Append(f[i - 1], s[i]) ELSE f[i - 1]

(* t consists of some of the first k routes of s, in their order. *)
Picks(t, s, k) ==
    \E g \in [1..Len(t) -> 1..k] :
        /\ \A i \in 1..Len(t) : t[i] = s[g[i]]
        /\ \A i, j \in 1..Len(t) : i < j => g[i] < g[j]

(* The recursive function of Cleaned exists. *)
LEMMA KeptExists ==
    ASSUME NEW s, NEW n \in Nat
    PROVE  \E f : Kept(f, s, n)
<1> DEFINE P == {k \in 0..n : \E f : Kept(f, s, k)}
<1>1. 0 \in P
  <2> DEFINE f == [i \in 0..0 |-> <<>>]
  <2>1. Kept(f, s, 0)
    BY DEF Kept
  <2> QED
    BY <2>1
<1>2. ASSUME NEW k \in 1..n, k - 1 \in P PROVE k \in P
  <2>1. PICK f : Kept(f, s, k - 1)
    BY <1>2
  <2> DEFINE last == IF Alive(s[k]) THEN Append(f[k - 1], s[k]) ELSE f[k - 1]
             g == [i \in 0..k |-> IF i = k THEN last ELSE f[i]]
  <2>2. \A i \in 0..k - 1 : g[i] = f[i]
    OBVIOUS
  <2>3. g[k] = last
    OBVIOUS
  <2>4. g = [i \in 0..k |-> g[i]]
    OBVIOUS
  <2> HIDE DEF g
  <2>5. ASSUME NEW i \in 1..k
        PROVE  g[i] = IF Alive(s[i]) THEN Append(g[i - 1], s[i]) ELSE g[i - 1]
    <3>1. g[i - 1] = f[i - 1]
      BY <2>2
    <3>2. CASE i = k
      BY <2>3, <3>1, <3>2
    <3>3. CASE i # k
      <4>1. i \in 1..k - 1 /\ g[i] = f[i]
        BY <2>2, <3>3
      <4>2. f[i] = IF Alive(s[i]) THEN Append(f[i - 1], s[i]) ELSE f[i - 1]
        BY <2>1, <4>1 DEF Kept
      <4> QED
        BY <3>1, <4>1, <4>2
    <3> QED
      BY <3>2, <3>3
  <2>6. Kept(g, s, k)
    BY <2>1, <2>2, <2>4, <2>5 DEF Kept
  <2> QED
    BY <2>6
<1> QED
  <2> HIDE DEF P
  <2>1. \A k \in 1..n : k - 1 \in P => k \in P
    BY <1>2
  <2>2. \A k \in 0..n : k \in P
    BY <1>1, <2>1, UpTo
  <2>3. n \in P
    BY <2>2
  <2> QED
    BY <2>3 DEF P

LEMMA CleanedIsKept ==
    ASSUME NEW s \in Seq(Route)
    PROVE  \E f : Kept(f, s, Len(s)) /\ Cleaned(s) = f[Len(s)]
<1> DEFINE n == Len(s)
           Body(f) == [i \in 0..n |->
                          IF i = 0 THEN <<>>
                          ELSE IF Alive(s[i]) THEN Append(f[i - 1], s[i])
                          ELSE f[i - 1]]
           kept == CHOOSE f : f = Body(f)
<1>1. n \in Nat
  OBVIOUS
<1>2. PICK f : Kept(f, s, n)
  BY <1>1, KeptExists
<1>3. f = Body(f)
  BY <1>1, <1>2 DEF Kept
<1>4. kept = Body(kept)
  <2> HIDE DEF Body
  <2> QED
    BY <1>3
<1>5. Kept(kept, s, n)
  <2> HIDE DEF kept
  <2>1. /\ kept = [i \in 0..n |-> kept[i]]
        /\ \A i \in 0..n : kept[i] = IF i = 0 THEN <<>>
                                     ELSE IF Alive(s[i]) THEN Append(kept[i - 1], s[i])
                                     ELSE kept[i - 1]
    BY <1>1, <1>4
  <2> QED
    BY <1>1, <2>1 DEF Kept
<1>6. Cleaned(s) = kept[n]
  BY DEF Cleaned
<1> QED
  BY <1>5, <1>6

(* cleanupExpiredRoutes keeps some of the routes, each at most once and in *)
(* their order, and only routes whose time has not passed.                 *)
LEMMA CleanedPicks ==
    ASSUME NEW s \in Seq(Route)
    PROVE  /\ Cleaned(s) \in Seq(Route)
           /\ Picks(Cleaned(s), s, Len(s))
<1>1. PICK f : Kept(f, s, Len(s)) /\ Cleaned(s) = f[Len(s)]
  BY CleanedIsKept
<1> DEFINE n == Len(s)
           P == {k \in 0..n : f[k] \in Seq(Route) /\ Picks(f[k], s, k)}
<1>2. n \in Nat
  OBVIOUS
<1>3. 0 \in P
  <2>1. f[0] = <<>>
    BY <1>1 DEF Kept
  <2> DEFINE g == [i \in 1..0 |-> 0]
  <2>2. Len(<<>>) = 0 /\ 1..0 = {} /\ g \in [1..0 -> 1..0]
    OBVIOUS
  <2> HIDE DEF g
  <2>3. Picks(<<>>, s, 0)
    BY <2>2 DEF Picks
  <2>4. <<>> \in Seq(Route) /\ 0 \in 0..n
    BY <1>2
  <2> QED
    BY <2>1, <2>3, <2>4
<1>4. ASSUME NEW k \in 1..n, k - 1 \in P PROVE k \in P
  <2>1. f[k - 1] \in Seq(Route) /\ Picks(f[k - 1], s, k - 1) /\ k - 1 \in Nat
    BY <1>4
  <2>2. PICK g \in [1..Len(f[k - 1]) -> 1..k - 1] :
            /\ \A i \in 1..Len(f[k - 1]) : f[k - 1][i] = s[g[i]]
            /\ \A i, j \in 1..Len(f[k - 1]) : i < j => g[i] < g[j]
    BY <2>1 DEF Picks
  <2>3. s[k] \in Route
    BY ElementOfSeq
  <2>4. CASE Alive(s[k])
    <3>1. f[k] = Append(f[k - 1], s[k])
      BY <1>1, <2>4 DEF Kept
    <3> DEFINE m == Len(f[k - 1])
               h == [i \in 1..m + 1 |-> IF i = m + 1 THEN k ELSE g[i]]
    <3>2. /\ f[k] \in Seq(Route) /\ Len(f[k]) = m + 1 /\ m \in Nat
          /\ \A i \in 1..m : f[k][i] = f[k - 1][i]
          /\ f[k][m + 1] = s[k]
      BY <2>1, <2>3, <3>1, AppendProperties
    <3> HIDE DEF m
    <3>3. h \in [1..Len(f[k]) -> 1..k]
      BY <2>2, <3>2 DEF m
    <3>4. \A i \in 1..Len(f[k]) : f[k][i] = s[h[i]]
      BY <2>2, <3>2 DEF m
    <3>5. \A i, j \in 1..Len(f[k]) : i < j => h[i] < h[j]
      <4> SUFFICES ASSUME NEW i \in 1..m + 1, NEW j \in 1..m + 1, i < j
                   PROVE  h[i] < h[j]
        BY <3>2
      <4>1. i \in 1..m /\ h[i] = g[i] /\ g[i] \in 1..k - 1
        BY <2>2, <3>2 DEF m
      <4>2. CASE j = m + 1
        BY <4>1, <4>2
      <4>3. CASE j # m + 1
        BY <2>2, <3>2, <4>1, <4>3 DEF m
      <4> QED
        BY <4>2, <4>3
    <3>6. Picks(f[k], s, k)
      BY <3>3, <3>4, <3>5 DEF Picks
    <3> QED
      BY <3>2, <3>6
  <2>5. CASE ~Alive(s[k])
    <3>1. f[k] = f[k - 1]
      BY <1>1, <2>5 DEF Kept
    <3>2. g \in [1..Len(f[k - 1]) -> 1..k]
      BY <2>2
    <3>3. Picks(f[k], s, k)
      BY <2>2, <3>1, <3>2 DEF Picks
    <3> QED
      BY <2>1, <3>1, <3>3
  <2> QED
    BY <2>4, <2>5
<1> QED
  <2> HIDE DEF P
  <2> HIDE DEF n
  <2>1. \A k \in 1..n : k - 1 \in P => k \in P
    BY <1>4
  <2>2. \A k \in 0..n : k \in P
    BY <1>2, <1>3, <2>1, UpTo
  <2>3. n \in P
    BY <1>2, <2>2
  <2> QED
    BY <1>1, <2>3 DEF P, n
--------------------------------------------------------------------------
(* What addPendingRoute returns *)

OneEach(s) == \A i, j \in 1..Len(s) : s[i].dest = s[j].dest => i = j

(* Every place of t holds r (0) or a route of s, none of them twice; and   *)
(* r stands next to no other route to its destination.                     *)
Grown(t, s, r) ==
    \E g \in [1..Len(t) -> 0..Len(s)] :
        /\ \A i \in 1..Len(t) : t[i] = IF g[i] = 0 THEN r ELSE s[g[i]]
        /\ \A i, j \in 1..Len(t) : g[i] = g[j] => i = j
        /\ \A i, j \in 1..Len(t) : g[i] = 0 /\ g[j] # 0 => t[j].dest # r.dest

LEMMA PicksShorter ==
    ASSUME NEW S, NEW s \in Seq(S), NEW t \in Seq(S), Picks(t, s, Len(s))
    PROVE  Len(t) <= Len(s)
<1>1. PICK g \in [1..Len(t) -> 1..Len(s)] :
          \A i, j \in 1..Len(t) : i < j => g[i] < g[j]
  BY DEF Picks
<1>2. Len(s) \in Nat /\ Len(t) \in Nat
  OBVIOUS
<1>3. \A i, j \in 1..Len(t) : g[i] = g[j] => i = j
  <2> SUFFICES ASSUME NEW i \in 1..Len(t), NEW j \in 1..Len(t), g[i] = g[j], i # j
               PROVE  FALSE
    OBVIOUS
  <2>1. i < j \/ j < i
    BY <1>2
  <2>2. g[i] \in Int /\ g[j] \in Int
    BY <1>1
  <2> QED
    BY <1>1, <2>1, <2>2
<1>4. g \in Injection(1..Len(t), 1..Len(s))
  BY <1>1, <1>3 DEF Injection, IsInjective
<1>5. /\ IsFiniteSet(1..Len(s)) /\ Cardinality(1..Len(s)) = Len(s)
      /\ Cardinality(1..Len(t)) = Len(t)
  <2>1. ASSUME NEW n \in Nat PROVE IsFiniteSet(1..n) /\ Cardinality(1..n) = n
    BY FS_Interval
  <2> QED
    BY <1>2, <2>1
<1>6. Cardinality(1..Len(t)) <= Cardinality(1..Len(s))
  BY <1>4, <1>5, FS_Injection
<1> QED
  BY <1>5, <1>6

(* The sweep before an addition keeps some of the routes. *)
LEMMA SweptPicks ==
    ASSUME NEW s \in Seq(Route)
    PROVE  /\ Swept(s) \in Seq(Route)
           /\ Picks(Swept(s), s, Len(s))
           /\ Len(Swept(s)) <= Len(s)
<1>1. CASE Len(s) >= CleanupThreshold
  BY <1>1, CleanedPicks, PicksShorter DEF Swept
<1>2. CASE ~(Len(s) >= CleanupThreshold)
  <2>1. Swept(s) = s
    BY <1>2 DEF Swept
  <2> DEFINE g == [i \in 1..Len(s) |-> i]
  <2>2. g \in [1..Len(s) -> 1..Len(s)] /\ \A i \in 1..Len(s) : g[i] = i
    OBVIOUS
  <2> HIDE DEF g
  <2>3. Picks(s, s, Len(s))
    BY <2>2 DEF Picks
  <2> QED
    BY <2>1, <2>3
<1> QED
  BY <1>1, <1>2

(* The place addPendingRoute overwrites, when the destination is queued,   *)
(* exists.                                                                 *)
LEMMA FirstPosition ==
    ASSUME NEW s \in Seq(Route), NEW d, Positions(s, d) # {}
    PROVE  LET p == CHOOSE j \in Positions(s, d) : \A k \in Positions(s, d) : j <= k
           IN  p \in 1..Len(s) /\ s[p].dest = d
<1>1. Positions(s, d) \in SUBSET Nat
  BY DEF Positions
<1>2. \E j \in Positions(s, d) : \A k \in Positions(s, d) : j <= k
  BY <1>1, LeastNumber
<1> DEFINE p == CHOOSE j \in Positions(s, d) : \A k \in Positions(s, d) : j <= k
<1>3. p \in Positions(s, d)
  BY <1>2
<1> QED
  BY <1>3 DEF Positions

(* addPendingRoute adds r or not, keeps the limit, and keeps one route per *)
(* destination.                                                            *)
LEMMA AddResult ==
    ASSUME NEW s \in Seq(Route), NEW r \in Route, OneEach(s), Len(s) <= MaxPending
    PROVE  /\ AddPendingRoute(s, r) \in Seq(Route)
           /\ Len(AddPendingRoute(s, r)) <= MaxPending
           /\ Grown(AddPendingRoute(s, r), s, r)
<1> DEFINE w == Swept(s)
           t == AddPendingRoute(s, r)
<1>1. w \in Seq(Route) /\ Picks(w, s, Len(s)) /\ Len(w) <= Len(s) /\ Len(w) \in Nat /\ Len(s) \in Nat
  BY SweptPicks
<1>2. PICK g \in [1..Len(w) -> 1..Len(s)] :
          /\ \A i \in 1..Len(w) : w[i] = s[g[i]]
          /\ \A i, j \in 1..Len(w) : i < j => g[i] < g[j]
  BY <1>1 DEF Picks
<1>3. \A i, j \in 1..Len(w) : g[i] = g[j] => i = j
  <2> SUFFICES ASSUME NEW i \in 1..Len(w), NEW j \in 1..Len(w), g[i] = g[j], i # j
               PROVE  FALSE
    OBVIOUS
  <2>1. (i < j \/ j < i) /\ g[i] \in Int /\ g[j] \in Int
    BY <1>1, <1>2
  <2> QED
    BY <1>2, <2>1
<1>4. OneEach(w)
  BY <1>2, <1>3 DEF OneEach
<1>m. MaxPending \in Nat
  BY PendingAssumption DEF PendingAssumption
<1> HIDE DEF w
<1>5. CASE Refused(s)
  <2>1. t = w
    BY <1>5 DEF AddPendingRoute, w
  <2>2. Grown(w, s, r)
    <3>1. g \in [1..Len(w) -> 0..Len(s)]
      BY <1>2
    <3>2. \A i \in 1..Len(w) : g[i] # 0
      BY <1>2
    <3> QED
      BY <1>2, <1>3, <3>1, <3>2 DEF Grown
  <2> QED
    BY <1>1, <2>1, <2>2, <1>m
<1>6. CASE ~Refused(s) /\ Positions(w, r.dest) = {}
  <2>1. t = Append(w, r)
    BY <1>6 DEF AddPendingRoute, w
  <2>2. /\ t \in Seq(Route) /\ Len(t) = Len(w) + 1
        /\ \A i \in 1..Len(w) : t[i] = w[i]
        /\ t[Len(w) + 1] = r
    BY <1>1, <2>1, AppendProperties
  <2>3. Len(t) <= MaxPending
    BY <1>1, <1>6, <2>2, <1>m DEF Refused, w
  <2>4. \A i \in 1..Len(w) : w[i].dest # r.dest
    BY <1>6 DEF Positions
  <2> DEFINE h == [i \in 1..Len(w) + 1 |-> IF i = Len(w) + 1 THEN 0 ELSE g[i]]
  <2>5. h \in [1..Len(t) -> 0..Len(s)]
    BY <1>1, <1>2, <2>2
  <2>6. h[Len(w) + 1] = 0 /\ \A i \in 1..Len(w) : h[i] = g[i] /\ h[i] # 0
    BY <1>1, <1>2
  <2> HIDE DEF h, t
  <2>7. \A i \in 1..Len(t) : i = Len(w) + 1 \/ i \in 1..Len(w)
    BY <1>1, <2>2
  <2>8. \A i \in 1..Len(t) : t[i] = IF h[i] = 0 THEN r ELSE s[h[i]]
    BY <1>2, <2>2, <2>6, <2>7
  <2>9. \A i, j \in 1..Len(t) : h[i] = h[j] => i = j
    BY <1>3, <2>6, <2>7
  <2>10. \A i, j \in 1..Len(t) : h[i] = 0 /\ h[j] # 0 => t[j].dest # r.dest
    BY <2>2, <2>4, <2>6, <2>7
  <2>11. Grown(t, s, r)
    BY <2>5, <2>8, <2>9, <2>10 DEF Grown
  <2> QED
    BY <2>2, <2>3, <2>11 DEF t
<1>7. CASE ~Refused(s) /\ Positions(w, r.dest) # {}
  <2> DEFINE p == CHOOSE j \in Positions(w, r.dest) :
                      \A k \in Positions(w, r.dest) : j <= k
  <2>1. p \in 1..Len(w) /\ w[p].dest = r.dest
    BY <1>1, <1>7, FirstPosition
  <2>2. t = [i \in 1..Len(w) |-> IF i = p THEN r ELSE w[i]]
    BY <1>7 DEF AddPendingRoute, w
  <2> HIDE DEF p
  <2>3. \A i \in 1..Len(w) : w[i] \in Route
    BY <1>1
  <2>4. /\ t \in Seq(Route) /\ Len(t) = Len(w)
        /\ \A i \in 1..Len(w) : t[i] = IF i = p THEN r ELSE w[i]
    BY <1>1, <2>2, <2>3
  <2> DEFINE h == [i \in 1..Len(w) |-> IF i = p THEN 0 ELSE g[i]]
  <2>5. h \in [1..Len(t) -> 0..Len(s)]
    BY <1>1, <1>2, <2>4
  <2>6. \A i \in 1..Len(w) : h[i] = (IF i = p THEN 0 ELSE g[i]) /\ g[i] # 0
    BY <1>2
  <2> HIDE DEF h, t
  <2>7. \A i \in 1..Len(t) : t[i] = IF h[i] = 0 THEN r ELSE s[h[i]]
    BY <1>2, <2>4, <2>6
  <2>8. \A i, j \in 1..Len(t) : h[i] = h[j] => i = j
    BY <1>3, <2>4, <2>6
  <2>9. \A i, j \in 1..Len(t) : h[i] = 0 /\ h[j] # 0 => t[j].dest # r.dest
    BY <1>4, <2>1, <2>4, <2>6 DEF OneEach
  <2>10. Grown(t, s, r)
    BY <2>5, <2>7, <2>8, <2>9 DEF Grown
  <2> QED
    BY <1>1, <2>4, <2>10, <1>m DEF t
<1> QED
  BY <1>5, <1>6, <1>7

LEMMA GrownOneEach ==
    ASSUME NEW s \in Seq(Route), NEW t \in Seq(Route), NEW r \in Route,
           OneEach(s), Grown(t, s, r)
    PROVE  OneEach(t)
<1>1. PICK g \in [1..Len(t) -> 0..Len(s)] :
        /\ \A i \in 1..Len(t) : t[i] = IF g[i] = 0 THEN r ELSE s[g[i]]
        /\ \A i, j \in 1..Len(t) : g[i] = g[j] => i = j
        /\ \A i, j \in 1..Len(t) : g[i] = 0 /\ g[j] # 0 => t[j].dest # r.dest
  BY DEF Grown
<1>2. \A i \in 1..Len(t) : g[i] # 0 => g[i] \in 1..Len(s)
  BY <1>1
<1> SUFFICES ASSUME NEW i \in 1..Len(t), NEW j \in 1..Len(t), t[i].dest = t[j].dest
             PROVE  i = j
  BY DEF OneEach
<1>3. CASE g[i] = 0 \/ g[j] = 0
  BY <1>1, <1>3
<1>4. CASE g[i] # 0 /\ g[j] # 0
  BY <1>1, <1>2, <1>4 DEF OneEach
<1> QED
  BY <1>3, <1>4
--------------------------------------------------------------------------
(* Types and limits *)

(* Every variable has the shape the code gives it. *)
LEMMA TypeInit == Init => TypeOK
<1> SUFFICES ASSUME Init PROVE TypeOK
  OBVIOUS
<1>1. now \in 0..MaxTime /\ asked \in 0..MaxDiscoveries
  BY PendingAssumption DEF Init, PendingAssumption
<1>2. <<>> \in Seq(Route) /\ <<>> \in Seq(Msg \cup {NoMsg})
  OBVIOUS
<1> QED
  BY <1>1, <1>2 DEF Init, TypeOK, ThreadState

LEMMA NewRouteType ==
    ASSUME now \in Nat, NEW d \in Dest, NEW m \in Msg \cup {NoMsg}
    PROVE  NewRoute(d, m) \in Route /\ NewRoute(d, m).msg = m
<1>1. now + Timeout \in Nat
  BY PendingAssumption DEF PendingAssumption
<1> QED
  BY <1>1 DEF NewRoute, Route

(* What the deque and the limits rest on. *)
QueueInv == TypeOK /\ OneRoutePerDest /\ WithinLimit

LEMMA QueueInit == Init => QueueInv
<1> SUFFICES ASSUME Init PROVE QueueInv
  OBVIOUS
<1>1. Len(pending) = 0
  BY DEF Init
<1>2. 0 <= MaxPending
  BY PendingAssumption DEF PendingAssumption
<1> QED
  BY <1>1, <1>2, TypeInit DEF QueueInv, OneRoutePerDest, WithinLimit

(* A critical section that adds a route keeps the deque in order. *)
LEMMA AddKeepsQueue ==
    ASSUME QueueInv, NEW r \in Route, pending' = AddPendingRoute(pending, r)
    PROVE  /\ pending' \in Seq(Route)
           /\ OneRoutePerDest' /\ WithinLimit'
           /\ Grown(pending', pending, r)
<1>1. pending \in Seq(Route) /\ OneEach(pending) /\ Len(pending) <= MaxPending
  BY DEF QueueInv, TypeOK, OneRoutePerDest, WithinLimit, OneEach
<1> DEFINE t == AddPendingRoute(pending, r)
<1>2. t \in Seq(Route) /\ Len(t) <= MaxPending /\ Grown(t, pending, r)
  BY <1>1, AddResult
<1> HIDE DEF t
<1>3. OneEach(t)
  BY <1>1, <1>2, GrownOneEach
<1>4. pending' = t
  BY DEF t
<1> QED
  BY <1>2, <1>3, <1>4 DEF OneRoutePerDest, WithinLimit, OneEach

LEMMA QueueStep == QueueInv /\ [Next]_vars => QueueInv'
<1> SUFFICES ASSUME QueueInv, [Next]_vars PROVE QueueInv'
  OBVIOUS
<1>a. /\ now \in Nat /\ now \in 0..MaxTime /\ routed \subseteq Dest
      /\ pending \in Seq(Route) /\ batch \in Seq(Route)
      /\ app \in ThreadState /\ worker \in ThreadState /\ unsent \subseteq Msg
      /\ sent \in Seq(Msg \cup {NoMsg}) /\ asked \in 0..MaxDiscoveries
      /\ OneRoutePerDest /\ WithinLimit
  BY PendingAssumption DEF QueueInv, TypeOK, PendingAssumption
<1>b. MaxTime \in Nat /\ MaxDiscoveries \in Nat /\ MaxPending \in Nat
  BY PendingAssumption DEF PendingAssumption
<1>c. ASSUME UNCHANGED pending PROVE OneRoutePerDest' /\ WithinLimit'
  BY <1>a, <1>c DEF OneRoutePerDest, WithinLimit
<1>d. Idle \in ThreadState /\ [pc |-> "reply"] \in ThreadState
  BY DEF ThreadState
<1>e. \A x \in Msg \cup {NoMsg} : Append(sent, x) \in Seq(Msg \cup {NoMsg})
  BY <1>a, AppendProperties
<1>1. CASE Tick
  <2>1. now' \in 0..MaxTime
    BY <1>1, <1>a, <1>b DEF Tick
  <2> QED
    BY <1>1, <1>a, <1>c, <2>1 DEF Tick, QueueInv, TypeOK
<1>2. ASSUME NEW d \in Dest, NEW m \in Msg, Send(d, m) PROVE QueueInv'
  <2>1. sent' \in Seq(Msg \cup {NoMsg})
    <3>1. sent' = sent \/ sent' = Append(sent, m)
      BY <1>2 DEF Send
    <3> QED
      BY <1>a, <1>e, <3>1
  <2>2. app' \in ThreadState
    BY <1>2, <1>a DEF Send, ThreadState
  <2>3. unsent' \subseteq Msg
    BY <1>2, <1>a DEF Send
  <2> QED
    BY <1>2, <1>a, <1>c, <2>1, <2>2, <2>3 DEF Send, QueueInv, TypeOK
<1>3. CASE SendQueue
  <2>1. app.dest \in Dest /\ app.msg \in Msg
    BY <1>3, <1>a DEF SendQueue, ThreadState, Idle
  <2>2. pending' \in Seq(Route) /\ OneRoutePerDest' /\ WithinLimit'
    BY <1>3, <1>a, <2>1, NewRouteType, AddKeepsQueue DEF SendQueue
  <2>3. app' \in ThreadState
    BY <1>3, <1>d, <2>1 DEF SendQueue, ThreadState
  <2> QED
    BY <1>3, <1>a, <2>2, <2>3 DEF SendQueue, QueueInv, TypeOK
<1>4. CASE SendGiveUp
  BY <1>4, <1>a, <1>c, <1>d DEF SendGiveUp, QueueInv, TypeOK
<1>5. CASE SendDiscover
  <2>1. app' \in ThreadState
    <3>1. app \in [pc : {"discover", "placeholder"}, dest : Dest]
      BY <1>5, <1>a DEF SendDiscover, ThreadState, Idle
    <3> QED
      BY <1>5, <3>1 DEF SendDiscover, ThreadState
  <2> QED
    BY <1>5, <1>a, <1>c, <2>1 DEF SendDiscover, QueueInv, TypeOK
<1>6. CASE SendPlaceholder
  <2>1. app.dest \in Dest
    BY <1>6, <1>a DEF SendPlaceholder, ThreadState, Idle
  <2>2. pending' \in Seq(Route) /\ OneRoutePerDest' /\ WithinLimit'
    BY <1>6, <1>a, <2>1, NewRouteType, AddKeepsQueue DEF SendPlaceholder
  <2> QED
    BY <1>6, <1>a, <1>d, <2>2 DEF SendPlaceholder, QueueInv, TypeOK
<1>7. ASSUME NEW d \in Dest, Discover(d) PROVE QueueInv'
  <2>1. worker' \in ThreadState
    BY <1>7, <1>d DEF Discover, ThreadState
  <2>2. asked' \in 0..MaxDiscoveries
    BY <1>7, <1>a, <1>b DEF Discover
  <2> QED
    BY <1>7, <1>a, <1>c, <2>1, <2>2 DEF Discover, QueueInv, TypeOK
<1>8. CASE DiscoverPlaceholder
  <2>1. worker.dest \in Dest
    BY <1>8, <1>a DEF DiscoverPlaceholder, ThreadState, Idle
  <2>2. pending' \in Seq(Route) /\ OneRoutePerDest' /\ WithinLimit'
    BY <1>8, <1>a, <2>1, NewRouteType, AddKeepsQueue DEF DiscoverPlaceholder
  <2> QED
    BY <1>8, <1>a, <1>d, <2>2 DEF DiscoverPlaceholder, QueueInv, TypeOK
<1>9. ASSUME NEW ds \in SUBSET Dest \ {{}}, Reply(ds) PROVE QueueInv'
  <2>1. routed' \subseteq Dest
    BY <1>9, <1>a DEF Reply
  <2> QED
    BY <1>9, <1>a, <1>c, <1>d, <2>1 DEF Reply, QueueInv, TypeOK
<1>10. CASE TakePending
  <2>1. batch' \in Seq(Route)
    BY <1>10, <1>a, CleanedPicks DEF TakePending
  <2>2. worker' \in ThreadState
    BY <1>10, <1>a DEF TakePending, ThreadState
  <2>3. pending' = <<>> /\ Len(pending') = 0 /\ <<>> \in Seq(Route)
    BY <1>10 DEF TakePending
  <2>4. OneRoutePerDest' /\ WithinLimit'
    BY <1>b, <2>3 DEF OneRoutePerDest, WithinLimit
  <2> QED
    BY <1>10, <1>a, <2>1, <2>2, <2>3, <2>4 DEF TakePending, QueueInv, TypeOK
<1>11. CASE ProcessOne
  <2> DEFINE r == Head(batch)
  <2>1. r \in Route /\ batch' \in Seq(Route)
    BY <1>11, <1>a, HeadTailProperties DEF ProcessOne
  <2>2. pending' \in Seq(Route) /\ OneRoutePerDest' /\ WithinLimit'
    <3>1. CASE UNCHANGED pending
      BY <1>a, <1>c, <3>1
    <3>2. CASE Requeue(r)
      BY <2>1, <3>2, AddKeepsQueue DEF Requeue
    <3> QED
      BY <1>11, <3>1, <3>2 DEF ProcessOne
  <2>3. sent' \in Seq(Msg \cup {NoMsg})
    <3>1. r.msg \in Msg \cup {NoMsg}
      BY <2>1 DEF Route
    <3>2. sent' = sent \/ sent' = Append(sent, r.msg)
      BY <1>11 DEF ProcessOne, Requeue
    <3> HIDE DEF r
    <3> QED
      BY <1>a, <1>e, <3>1, <3>2
  <2> QED
    BY <1>11, <1>a, <2>1, <2>2, <2>3 DEF ProcessOne, QueueInv, TypeOK
<1>12. CASE EndReply
  BY <1>12, <1>a, <1>c, <1>d DEF EndReply, QueueInv, TypeOK
<1>13. CASE ReadClock
  <2>1. worker' \in ThreadState
    BY <1>13, <1>a DEF ReadClock, ThreadState
  <2> QED
    BY <1>13, <1>a, <1>c, <2>1 DEF ReadClock, QueueInv, TypeOK
<1>14. CASE UNCHANGED vars
  BY <1>14, <1>a, <1>c DEF vars, QueueInv, TypeOK
<1> QED
  BY <1>1, <1>2, <1>3, <1>4, <1>5, <1>6, <1>7, <1>8, <1>9, <1>10, <1>11, <1>12, <1>13,
     <1>14 DEF Next

(* Every variable has the shape the code gives it. *)
THEOREM TypeCorrect == Spec => []TypeOK
<1>1. QueueInv => TypeOK
  BY DEF QueueInv
<1> QED
  BY <1>1, QueueInit, QueueStep, PTL DEF Spec

(* No two waiting routes have the same destination, whichever thread       *)
(* queued them.                                                            *)
THEOREM OneEachAlways == Spec => []OneRoutePerDest
<1>1. QueueInv => OneRoutePerDest
  BY DEF QueueInv
<1> QED
  BY <1>1, QueueInit, QueueStep, PTL DEF Spec

(* pendingRoutes never exceeds MAX_PENDING_ROUTES, for any limit, sweep    *)
(* threshold and timeout.                                                  *)
THEOREM LimitKept == Spec => []WithinLimit
<1>1. QueueInv => WithinLimit
  BY DEF QueueInv
<1> QED
  BY <1>1, QueueInit, QueueStep, PTL DEF Spec
--------------------------------------------------------------------------
(* No message is handed over twice *)

Once(routes, m) ==
    \A i, j \in 1..Len(routes) : routes[i].msg = m /\ routes[j].msg = m => i = j

InSend(m) == app.pc = "queue" /\ app.msg = m

Handed(m) == \E i \in 1..Len(sent) : sent[i] = m

HandedOnce(m) == \A i, j \in 1..Len(sent) : sent[i] = m /\ sent[j] = m => i = j

(* A message is in one place only: with the application, inside send,      *)
(* waiting, in the copy being processed, or handed over.                   *)
OnePlace(m) ==
    /\ Once(pending, m) /\ Once(batch, m) /\ HandedOnce(m)
    /\ m \in unsent => ~InSend(m) /\ ~Holds(pending, m) /\ ~Holds(batch, m) /\ ~Handed(m)
    /\ InSend(m) => ~Holds(pending, m) /\ ~Holds(batch, m) /\ ~Handed(m)
    /\ Holds(pending, m) => ~Holds(batch, m) /\ ~Handed(m)
    /\ Holds(batch, m) => ~Handed(m)

LEMMA PicksOnce ==
    ASSUME NEW s \in Seq(Route), NEW t \in Seq(Route), Picks(t, s, Len(s)), NEW m
    PROVE  /\ Holds(t, m) => Holds(s, m)
           /\ Once(s, m) => Once(t, m)
<1>1. PICK g \in [1..Len(t) -> 1..Len(s)] :
          /\ \A i \in 1..Len(t) : t[i] = s[g[i]]
          /\ \A i, j \in 1..Len(t) : i < j => g[i] < g[j]
  BY DEF Picks
<1>2. Holds(t, m) => Holds(s, m)
  BY <1>1 DEF Holds
<1>3. ASSUME Once(s, m), NEW i \in 1..Len(t), NEW j \in 1..Len(t),
             t[i].msg = m, t[j].msg = m, i # j
      PROVE  FALSE
  <2>1. g[i] = g[j] /\ g[i] \in Int /\ g[j] \in Int
    BY <1>1, <1>3 DEF Once
  <2>2. i < j \/ j < i
    BY <1>3
  <2> QED
    BY <1>1, <2>1, <2>2
<1> QED
  BY <1>2, <1>3 DEF Once

LEMMA GrownOnce ==
    ASSUME NEW s \in Seq(Route), NEW t \in Seq(Route), NEW r \in Route,
           Grown(t, s, r), NEW m
    PROVE  /\ Holds(t, m) => Holds(s, m) \/ r.msg = m
           /\ Once(s, m) /\ (r.msg = m => ~Holds(s, m)) => Once(t, m)
<1>1. PICK g \in [1..Len(t) -> 0..Len(s)] :
        /\ \A i \in 1..Len(t) : t[i] = IF g[i] = 0 THEN r ELSE s[g[i]]
        /\ \A i, j \in 1..Len(t) : g[i] = g[j] => i = j
  BY DEF Grown
<1>2. \A i \in 1..Len(t) : g[i] = 0 \/ g[i] \in 1..Len(s)
  BY <1>1
<1>3. Holds(t, m) => Holds(s, m) \/ r.msg = m
  BY <1>1, <1>2 DEF Holds
<1>4. ASSUME Once(s, m), r.msg = m => ~Holds(s, m),
             NEW i \in 1..Len(t), NEW j \in 1..Len(t), t[i].msg = m, t[j].msg = m
      PROVE  i = j
  <2>1. \A k \in 1..Len(t) : t[k].msg = m /\ g[k] # 0 => Holds(s, m) /\ s[g[k]].msg = m
    BY <1>1, <1>2 DEF Holds
  <2>2. \A k \in 1..Len(t) : g[k] = 0 => t[k] = r
    BY <1>1
  <2>3. g[i] = g[j]
    BY <1>2, <1>4, <2>1, <2>2 DEF Once
  <2> QED
    BY <1>1, <2>3
<1> QED
  BY <1>3, <1>4 DEF Once

LEMMA TailOnce ==
    ASSUME NEW s \in Seq(Route), s # <<>>, NEW m
    PROVE  /\ Holds(Tail(s), m) => Holds(s, m)
           /\ Head(s).msg = m => Holds(s, m)
           /\ Once(s, m) => Once(Tail(s), m)
           /\ Once(s, m) /\ Head(s).msg = m => ~Holds(Tail(s), m)
<1>1. /\ Len(s) \in Nat \ {0} /\ Len(Tail(s)) = Len(s) - 1 /\ Head(s) = s[1]
      /\ \A i \in 1..Len(Tail(s)) : Tail(s)[i] = s[i + 1]
  BY HeadTailProperties, EmptySeq
<1>2. \A i \in 1..Len(Tail(s)) : i + 1 \in 1..Len(s) /\ i + 1 # 1
  BY <1>1
<1>3. 1 \in 1..Len(s)
  BY <1>1
<1>4. \A i, j \in 1..Len(Tail(s)) : i + 1 = j + 1 => i = j
  OBVIOUS
<1> HIDE DEF Holds
<1>5. Holds(Tail(s), m) => Holds(s, m)
  BY <1>1, <1>2 DEF Holds
<1>6. Head(s).msg = m => Holds(s, m)
  BY <1>1, <1>3 DEF Holds
<1>7. Once(s, m) => Once(Tail(s), m)
  BY <1>1, <1>2, <1>4 DEF Once
<1>8. Once(s, m) /\ Head(s).msg = m => ~Holds(Tail(s), m)
  BY <1>1, <1>2, <1>3 DEF Once, Holds
<1> QED
  BY <1>5, <1>6, <1>7, <1>8

LEMMA AppendHanded ==
    ASSUME NEW S, sent \in Seq(S), NEW x \in S, sent' = Append(sent, x), NEW m
    PROVE  /\ Handed(m)' => Handed(m) \/ x = m
           /\ HandedOnce(m) /\ (x = m => ~Handed(m)) => HandedOnce(m)'
<1>1. /\ Len(sent) \in Nat /\ Len(sent') = Len(sent) + 1 /\ sent'[Len(sent) + 1] = x
      /\ \A i \in 1..Len(sent) : sent'[i] = sent[i]
  BY AppendProperties
<1>2. \A i \in 1..Len(sent') : i \in 1..Len(sent) \/ i = Len(sent) + 1
  BY <1>1
<1>3. Handed(m)' => Handed(m) \/ x = m
  BY <1>1, <1>2 DEF Handed
<1>4. HandedOnce(m) /\ (x = m => ~Handed(m)) => HandedOnce(m)'
  BY <1>1, <1>2 DEF HandedOnce, Handed
<1> QED
  BY <1>3, <1>4

(* A critical section that adds a route of m, or of another message. *)
LEMMA AddKeepsPlace ==
    ASSUME QueueInv, NEW r \in Route, pending' = AddPendingRoute(pending, r), NEW m
    PROVE  /\ Holds(pending, m)' => Holds(pending, m) \/ r.msg = m
           /\ Once(pending, m) /\ (r.msg = m => ~Holds(pending, m)) => Once(pending, m)'
<1>1. pending \in Seq(Route) /\ pending' \in Seq(Route) /\ Grown(pending', pending, r)
  BY AddKeepsQueue DEF QueueInv, TypeOK
<1>2. /\ Holds(pending', m) => Holds(pending, m) \/ r.msg = m
      /\ Once(pending, m) /\ (r.msg = m => ~Holds(pending, m)) => Once(pending', m)
  BY <1>1, GrownOnce
<1> QED
  BY <1>2 DEF Holds, Once

PlaceInv == \A m \in Msg : OnePlace(m)

LEMMA PlaceInit == Init => PlaceInv
<1> SUFFICES ASSUME Init, NEW m \in Msg PROVE OnePlace(m)
  BY DEF PlaceInv
<1>1. Len(<<>>) = 0
  OBVIOUS
<1> QED
  BY <1>1 DEF Init, Idle, OnePlace, Once, InSend, Handed, HandedOnce, Holds

LEMMA PlaceStep == QueueInv /\ PlaceInv /\ [Next]_vars => PlaceInv'
<1> SUFFICES ASSUME QueueInv, PlaceInv, [Next]_vars, NEW m \in Msg PROVE OnePlace(m)'
  BY DEF PlaceInv
<1>a. OnePlace(m) /\ m # NoMsg
  BY PendingAssumption DEF PlaceInv, PendingAssumption
<1>b. /\ pending \in Seq(Route) /\ batch \in Seq(Route) /\ sent \in Seq(Msg \cup {NoMsg})
      /\ now \in Nat /\ app \in ThreadState /\ worker \in ThreadState
  BY DEF QueueInv, TypeOK
<1>c. ASSUME UNCHANGED <<pending, batch, sent, unsent>>, InSend(m)' => InSend(m)
      PROVE  OnePlace(m)'
  BY <1>a, <1>c DEF OnePlace, Once, Handed, HandedOnce, Holds
(* Adding a route with the empty message concerns no message. *)
<1>d. ASSUME UNCHANGED <<batch, sent, unsent>>, InSend(m)' => InSend(m),
             NEW r \in Route, r.msg = NoMsg, pending' = AddPendingRoute(pending, r)
      PROVE  OnePlace(m)'
  <2>1. (Holds(pending, m)' => Holds(pending, m)) /\ Once(pending, m)'
    BY <1>a, <1>d, AddKeepsPlace DEF OnePlace
  <2>2. /\ Once(batch, m)' = Once(batch, m) /\ Holds(batch, m)' = Holds(batch, m)
        /\ Handed(m)' = Handed(m) /\ HandedOnce(m)' = HandedOnce(m)
        /\ (m \in unsent)' = (m \in unsent)
    BY <1>d DEF Once, Holds, Handed, HandedOnce
  <2> QED
    BY <1>a, <1>d, <2>1, <2>2 DEF OnePlace
<1>1. CASE Tick
  BY <1>1, <1>c DEF Tick, InSend
<1>2. ASSUME NEW d \in Dest, NEW n \in Msg, Send(d, n) PROVE OnePlace(m)'
  <2>1. /\ UNCHANGED <<pending, batch>> /\ n \in unsent /\ unsent' = unsent \ {n}
        /\ ~InSend(m)
    BY <1>2 DEF Send, Idle, InSend
  <2>2. /\ Once(pending, m)' /\ Once(batch, m)'
        /\ Holds(pending, m)' = Holds(pending, m) /\ Holds(batch, m)' = Holds(batch, m)
    BY <1>a, <2>1 DEF OnePlace, Once, Holds
  <2>3. CASE sent' = Append(sent, n) /\ UNCHANGED app
    <3>1. /\ Handed(m)' => Handed(m) \/ n = m
          /\ HandedOnce(m) /\ (n = m => ~Handed(m)) => HandedOnce(m)'
      BY <1>b, <2>3, AppendHanded
    <3>2. ~InSend(m)'
      BY <2>1, <2>3 DEF InSend
    <3> QED
      BY <1>a, <2>1, <2>2, <3>1, <3>2 DEF OnePlace
  <2>4. CASE sent' = sent
    <3>1. Handed(m)' = Handed(m) /\ HandedOnce(m)' = HandedOnce(m)
      BY <2>4 DEF Handed, HandedOnce
    <3>2. InSend(m)' => n = m
      BY <1>2, <2>1 DEF Send, InSend
    <3> QED
      BY <1>a, <2>1, <2>2, <3>1, <3>2 DEF OnePlace
  <2> QED
    BY <1>2, <2>3, <2>4 DEF Send
<1>3. CASE SendQueue
  <2>1. /\ app.dest \in Dest /\ app.msg \in Msg /\ app.pc = "queue"
        /\ UNCHANGED <<batch, sent, unsent>>
    BY <1>3, <1>b DEF SendQueue, ThreadState, Idle
  <2> DEFINE r == NewRoute(app.dest, app.msg)
  <2>2. r \in Route /\ r.msg = app.msg /\ pending' = AddPendingRoute(pending, r)
    BY <1>3, <1>b, <2>1, NewRouteType DEF SendQueue
  <2> HIDE DEF r
  <2>3. /\ Holds(pending, m)' => Holds(pending, m) \/ app.msg = m
        /\ Once(pending, m) /\ (app.msg = m => ~Holds(pending, m)) => Once(pending, m)'
    BY <2>2, AddKeepsPlace
  <2>4. ~InSend(m)'
    BY <1>3 DEF SendQueue, InSend, Idle
  <2>5. /\ Once(batch, m)' = Once(batch, m) /\ Holds(batch, m)' = Holds(batch, m)
        /\ Handed(m)' = Handed(m) /\ HandedOnce(m)' = HandedOnce(m)
        /\ (m \in unsent)' = (m \in unsent)
    BY <2>1 DEF Once, Holds, Handed, HandedOnce
  <2>6. app.msg = m => InSend(m)
    BY <2>1 DEF InSend
  <2> QED
    BY <1>a, <2>3, <2>4, <2>5, <2>6 DEF OnePlace
<1>4. CASE SendGiveUp
  BY <1>4, <1>c DEF SendGiveUp, InSend, Idle
<1>5. CASE SendDiscover
  <2>1. app \in [pc : {"discover", "placeholder"}, dest : Dest]
    BY <1>5, <1>b DEF SendDiscover, ThreadState, Idle
  <2>2. app'.pc = "placeholder"
    BY <1>5, <2>1 DEF SendDiscover
  <2> QED
    BY <1>5, <1>c, <2>2 DEF SendDiscover, InSend
<1>6. CASE SendPlaceholder
  <2>1. app.dest \in Dest /\ ~InSend(m)'
    BY <1>6, <1>b DEF SendPlaceholder, ThreadState, Idle, InSend
  <2>2. NewRoute(app.dest, NoMsg) \in Route /\ NewRoute(app.dest, NoMsg).msg = NoMsg
    BY <1>b, <2>1, NewRouteType
  <2> QED
    BY <1>6, <1>d, <2>1, <2>2 DEF SendPlaceholder
<1>7. ASSUME NEW d \in Dest, Discover(d) PROVE OnePlace(m)'
  BY <1>7, <1>c DEF Discover, InSend
<1>8. CASE DiscoverPlaceholder
  <2>1. worker.dest \in Dest /\ (InSend(m)' => InSend(m))
    BY <1>8, <1>b DEF DiscoverPlaceholder, ThreadState, Idle, InSend
  <2>2. NewRoute(worker.dest, NoMsg) \in Route /\ NewRoute(worker.dest, NoMsg).msg = NoMsg
    BY <1>b, <2>1, NewRouteType
  <2> QED
    BY <1>8, <1>d, <2>1, <2>2 DEF DiscoverPlaceholder
<1>9. ASSUME NEW ds \in SUBSET Dest \ {{}}, Reply(ds) PROVE OnePlace(m)'
  BY <1>9, <1>c DEF Reply, InSend
(* The copy holds nothing else than the deque it replaces. *)
<1>10. CASE TakePending
  <2>1. /\ batch' \in Seq(Route) /\ batch' = Cleaned(pending) /\ pending' = <<>>
        /\ UNCHANGED <<app, sent, unsent>>
    BY <1>10, <1>b, CleanedPicks DEF TakePending
  <2>2. /\ Holds(Cleaned(pending), m) => Holds(pending, m)
        /\ Once(pending, m) => Once(Cleaned(pending), m)
    BY <1>b, CleanedPicks, PicksOnce
  <2>3. (Holds(batch, m)' => Holds(pending, m)) /\ (Once(pending, m) => Once(batch, m)')
    BY <2>1, <2>2 DEF Holds, Once
  <2>4. ~Holds(pending, m)' /\ Once(pending, m)'
    <3>1. Len(pending') = 0
      BY <2>1
    <3> QED
      BY <3>1 DEF Holds, Once
  <2>5. /\ Handed(m)' = Handed(m) /\ HandedOnce(m)' = HandedOnce(m)
        /\ (m \in unsent)' = (m \in unsent) /\ InSend(m)' = InSend(m)
    BY <2>1 DEF Handed, HandedOnce, InSend
  <2> QED
    BY <1>a, <2>3, <2>4, <2>5 DEF OnePlace
<1>11. CASE ProcessOne
  <2> DEFINE r == Head(batch)
  <2>1. /\ r \in Route /\ batch # <<>> /\ batch' = Tail(batch)
        /\ UNCHANGED <<app, unsent>>
    BY <1>11, <1>b, HeadTailProperties DEF ProcessOne
  <2>2. /\ Holds(Tail(batch), m) => Holds(batch, m)
        /\ r.msg = m => Holds(batch, m)
        /\ Once(batch, m) => Once(Tail(batch), m)
        /\ Once(batch, m) /\ r.msg = m => ~Holds(Tail(batch), m)
    BY <1>b, <2>1, TailOnce
  <2>3. /\ Holds(batch, m)' => Holds(batch, m)
        /\ Once(batch, m) => Once(batch, m)'
        /\ Once(batch, m) /\ r.msg = m => ~Holds(batch, m)'
    BY <2>1, <2>2 DEF Holds, Once
  <2>4. (m \in unsent)' = (m \in unsent) /\ InSend(m)' = InSend(m)
    BY <2>1 DEF InSend
  <2>5. CASE UNCHANGED <<pending, sent>>
    <3>1. /\ Once(pending, m)' = Once(pending, m) /\ Holds(pending, m)' = Holds(pending, m)
          /\ Handed(m)' = Handed(m) /\ HandedOnce(m)' = HandedOnce(m)
      BY <2>5 DEF Once, Holds, Handed, HandedOnce
    <3> QED
      BY <1>a, <2>3, <2>4, <3>1 DEF OnePlace
  <2>6. CASE sent' = Append(sent, r.msg) /\ UNCHANGED pending
    <3>1. r.msg \in Msg \cup {NoMsg}
      BY <2>1 DEF Route
    <3> HIDE DEF r
    <3>2. /\ Handed(m)' => Handed(m) \/ r.msg = m
          /\ HandedOnce(m) /\ (r.msg = m => ~Handed(m)) => HandedOnce(m)'
      BY <1>b, <2>6, <3>1, AppendHanded
    <3>3. Once(pending, m)' = Once(pending, m) /\ Holds(pending, m)' = Holds(pending, m)
      BY <2>6 DEF Once, Holds
    <3> QED
      BY <1>a, <2>2, <2>3, <2>4, <3>2, <3>3 DEF OnePlace
  <2>7. CASE Requeue(r)
    <3> HIDE DEF r
    <3>1. /\ Holds(pending, m)' => Holds(pending, m) \/ r.msg = m
          /\ Once(pending, m) /\ (r.msg = m => ~Holds(pending, m)) => Once(pending, m)'
      BY <2>1, <2>7, AddKeepsPlace DEF Requeue
    <3>2. Handed(m)' = Handed(m) /\ HandedOnce(m)' = HandedOnce(m)
      BY <2>7 DEF Requeue, Handed, HandedOnce
    <3> QED
      BY <1>a, <2>2, <2>3, <2>4, <3>1, <3>2 DEF OnePlace
  <2> QED
    BY <1>11, <2>5, <2>6, <2>7 DEF ProcessOne
<1>12. CASE EndReply
  BY <1>12, <1>c DEF EndReply, InSend
<1>13. CASE ReadClock
  BY <1>13, <1>c DEF ReadClock, InSend
<1>14. CASE UNCHANGED vars
  BY <1>14, <1>c DEF vars, InSend
<1> QED
  BY <1>1, <1>2, <1>3, <1>4, <1>5, <1>6, <1>7, <1>8, <1>9, <1>10, <1>11, <1>12, <1>13,
     <1>14 DEF Next

LEMMA PlaceIsSentOnce == TypeOK /\ PlaceInv => SentOnce
<1> SUFFICES ASSUME TypeOK, PlaceInv, NEW m \in Msg
             PROVE  /\ Cardinality({i \in 1..Len(sent) : sent[i] = m}) <= 1
                    /\ Holds(pending, m) => ~Holds(batch, m)
                    /\ Handed(m) => ~Holds(pending, m) /\ ~Holds(batch, m)
  BY DEF SentOnce, Handed
<1> DEFINE S == {i \in 1..Len(sent) : sent[i] = m}
<1>1. OnePlace(m)
  BY DEF PlaceInv
<1>2. Cardinality(S) <= 1
  <2>1. CASE S = {}
    BY <2>1, FS_EmptySet
  <2>2. CASE S # {}
    <3>1. PICK i : S = {i}
      BY <1>1, <2>2 DEF OnePlace, HandedOnce
    <3>2. Cardinality({i}) = 1
      BY FS_Singleton
    <3> HIDE DEF S
    <3> QED
      BY <3>1, <3>2
  <2> QED
    BY <2>1, <2>2
<1> QED
  BY <1>1, <1>2 DEF OnePlace

(* No message goes to the next hop twice, and none that was handed over    *)
(* still waits, however send, the sweep, the copy of processPendingRoutes  *)
(* and its re-queueing interleave.                                         *)
THEOREM HandedOverOnce == Spec => []SentOnce
<1>1. QueueInv /\ PlaceInv => SentOnce
  BY PlaceIsSentOnce DEF QueueInv
<1> QED
  BY <1>1, QueueInit, QueueStep, PlaceInit, PlaceStep, PTL DEF Spec
==========================================================================
