--------------------------- MODULE CrlCacheProofs ---------------------------
(* Proofs about CrlCache, for any set of certificates, any strings on the  *)
(* list, any period and any time-out shorter than the period.              *)
EXTENDS CrlCache, TLAPS

(* Requests are made, and the cache gets its time stamp, only once the     *)
(* list of drones is there.                                                *)
ListKnown == Waiting(worker) \/ Waiting(refresher) \/ age # Never => nodes # {}

(* The time stamp is no older than the refresher's sleep or request.       *)
AgeBound ==
    age # Never => IF refresher.pc = "sleep" THEN age <= Period - refresher.t
                                             ELSE age <= Period + refresher.t

(* What is in the cache has the time stamp.                                *)
Stamped == \A c \in Cert : cache[c] # "unknown" => age # Never

(* "Revoked" is said of nothing but texts that may be on the list.         *)
OnlyTexts ==
    /\ \A c \in Cert : cache[c] = "revoked" => Text(c) \in Listable
    /\ worker.pc \in {"answered", "decided"} => (worker.onCRL => Text(worker.cert) \in Listable)
    /\ refresher.pc = "answered" => \A c \in refresher.list : Text(c) \in Listable

(* An answer that is wrong is older than the change that made it so.       *)
OlderAnswers ==
    /\ worker.pc = "answered" /\ (worker.onCRL # (Text(worker.cert) \in listed))
          => since[worker.cert] <= worker.t
    /\ refresher.pc = "answered" /\ Routed =>
          \A c \in nodes : ((c \in refresher.list) # (Text(c) \in listed))
                              => since[c] <= refresher.t

(* While the cache is wrong, a refresh that puts it right is near: the     *)
(* more so the longer ago the list changed.                                *)
RefreshComes ==
    Routed => \A c \in nodes :
        cache[c] # Status(c) =>
            IF refresher.pc = "sleep" THEN since[c] <= Period + MaxDelay - refresher.t
            ELSE since[c] <= Period + MaxDelay + refresher.t

(* The worker asks only before the cache knows the certificate.            *)
AskedEarly == Waiting(worker) /\ Routed => since[worker.cert] <= Deadline + worker.t

LEMMA Sizes == /\ Period \in Nat /\ MaxDelay \in Nat /\ MaxDelay < Period
               /\ InitialDelay \in 0..Period
               /\ Lifetime = 2 * Period /\ Never = 2 * Period + 1
               /\ Deadline = Period + 2 * MaxDelay
               /\ LongAgo = Deadline + MaxDelay + 1
  BY CrlAssumption DEF CrlAssumption, Lifetime, Never, Deadline, LongAgo

LEMMA TypeInit == Init => TypeOK
<1> SUFFICES ASSUME Init PROVE TypeOK
  OBVIOUS
<1>1. TypeOKList
  BY DEF Init, InitList, TypeOKList
<1>2. /\ age \in 0..Never
      /\ refresher \in [pc : {"sleep"}, t : 0..Period]
      /\ since \in [Cert -> 0..LongAgo]
  BY Sizes DEF Init, Sleep
<1> QED
  BY <1>1, <1>2 DEF Init, TypeOK, Idle

(* A change of the list leaves it a set of strings that may be on it, and  *)
(* the history of the other certificates alone.                            *)
LEMMA Changes ==
    ASSUME TypeOK, ListChanges
    PROVE  /\ TypeOKList'
           /\ since' \in [Cert -> 0..LongAgo]
           /\ \A c \in Cert :
                 \/ Status(c)' = Status(c) /\ since'[c] = since[c]
                      /\ (Text(c) \in listed' <=> Text(c) \in listed)
                 \/ since'[c] = 0
           /\ UNCHANGED <<up, nodes, cache, age, worker, refresher>>
<1>1. TypeOKList'
  BY DEF ListChanges, add_revoked_cert, remove_cert_from_crl, Start, TypeOK, TypeOKList
<1>2. since' = [c \in Cert |-> IF Text(c) \in listed <=> Text(c) \in listed'
                              THEN since[c] ELSE 0]
  BY DEF ListChanges
<1>3. since' \in [Cert -> 0..LongAgo]
  BY <1>2, Sizes DEF TypeOK
<1>4. ASSUME NEW c \in Cert
      PROVE  \/ Status(c)' = Status(c) /\ since'[c] = since[c]
                  /\ (Text(c) \in listed' <=> Text(c) \in listed)
             \/ since'[c] = 0
  BY <1>2 DEF Status
<1> QED
  BY <1>1, <1>3, <1>4 DEF ListChanges

LEMMA TypeStep == TypeOK /\ [Next]_vars => TypeOK'
<1> SUFFICES ASSUME TypeOK, [Next]_vars PROVE TypeOK'
  OBVIOUS
<1> USE Sizes DEF TypeOK, TypeOKList, listVars, Idle, Sleep, Waiting
<1>1. CASE ListChanges
  BY <1>1, Changes
<1>2. CASE SwitchLink
  BY <1>2 DEF SwitchLink
<1>3. CASE Tick
  <2>1. age' \in 0..Never
    BY <1>3 DEF Tick
  <2>2. worker' \in {Idle} \cup [pc : {"asking"}, cert : Cert, t : 0..MaxDelay]
            \cup [pc : {"answered"}, cert : Cert, t : 0..MaxDelay, onCRL : BOOLEAN]
    <3>1. CASE worker = Idle
      BY <1>3, <3>1 DEF Tick, Older
    <3>2. CASE worker \in [pc : {"asking"}, cert : Cert, t : 0..MaxDelay]
      BY <1>3, <3>2 DEF Tick, Older
    <3>3. CASE worker \in [pc : {"answered"}, cert : Cert, t : 0..MaxDelay, onCRL : BOOLEAN]
      BY <1>3, <3>3 DEF Tick, Older
    <3>4. CASE worker \in [pc : {"decided"}, cert : Cert, onCRL : BOOLEAN]
      BY <1>3, <3>4 DEF Tick
    <3> QED
      BY <3>1, <3>2, <3>3, <3>4
  <2>3. refresher' \in [pc : {"sleep"}, t : 0..Period]
            \cup [pc : {"asking"}, t : 0..MaxDelay]
            \cup [pc : {"answered"}, t : 0..MaxDelay, list : SUBSET Cert]
    <3>1. CASE refresher \in [pc : {"sleep"}, t : 0..Period]
      BY <1>3, <3>1 DEF Tick
    <3>2. CASE refresher \in [pc : {"asking"}, t : 0..MaxDelay]
      BY <1>3, <3>2 DEF Tick, Older
    <3>3. CASE refresher \in [pc : {"answered"}, t : 0..MaxDelay, list : SUBSET Cert]
      BY <1>3, <3>3 DEF Tick, Older
    <3> QED
      BY <3>1, <3>2, <3>3
  <2>4. since' \in [Cert -> 0..LongAgo]
    BY <1>3 DEF Tick
  <2> QED
    BY <1>3, <2>1, <2>2, <2>3, <2>4 DEF Tick
<1>4. CASE \E issued \in SUBSET Cert \ {{}} : FetchNodes(issued)
  BY <1>4 DEF FetchNodes
<1>5. CASE \E c \in Cert : UnknownNode(c) \/ CacheHit(c) \/ CacheMiss(c)
  <2>1. PICK c \in Cert : UnknownNode(c) \/ CacheHit(c) \/ CacheMiss(c)
    BY <1>5
  <2>2. CASE UnknownNode(c)
    BY <2>2 DEF UnknownNode, Decided
  <2>3. CASE CacheHit(c)
    <3>1. (cache[c] = "revoked") \in BOOLEAN
      OBVIOUS
    <3>2. worker' \in [pc : {"decided"}, cert : Cert, onCRL : BOOLEAN]
      BY <2>3, <3>1 DEF CacheHit, Decided
    <3> QED
      BY <2>3, <3>2 DEF CacheHit
  <2>4. CASE CacheMiss(c)
    BY <2>4 DEF CacheMiss, Asking
  <2> QED
    BY <2>1, <2>2, <2>3, <2>4
<1>6. CASE WorkerAnswered
  <2>1. IsRevoked(worker.cert) \in BOOLEAN
    BY DEF IsRevoked
  <2> QED
    BY <1>6, <2>1 DEF WorkerAnswered
<1>7. CASE WorkerStores
  BY <1>7 DEF WorkerStores, Decided
<1>8. CASE WorkerFails
  BY <1>8 DEF WorkerFails, Decided
<1>9. CASE Proceed
  BY <1>9 DEF Proceed
<1>10. CASE WakeUp
  BY <1>10 DEF WakeUp
<1>11. CASE RefresherAnswered
  BY <1>11 DEF RefresherAnswered, BulkCheck
<1>12. CASE RefresherStores
  BY <1>12 DEF RefresherStores, Refreshed
<1>13. CASE RefresherFails
  BY <1>13 DEF RefresherFails, Refreshed
<1>14. CASE UNCHANGED vars
  BY <1>14 DEF vars, listVars
<1> QED
  BY <1>1, <1>2, <1>3, <1>4, <1>5, <1>6, <1>7, <1>8, <1>9, <1>10, <1>11, <1>12,
     <1>13, <1>14 DEF Next, IsNodeOnCRL, RefreshCRLCache

(* Every variable has the shape the code gives it: no request outlasts     *)
(* MaxDelay, no sleep the period.                                          *)
THEOREM TypeCorrect == Spec => []TypeOK
<1> QED
  BY TypeInit, TypeStep, PTL DEF Spec

LEMMA ListStep == TypeOK /\ ListKnown /\ [Next]_vars => ListKnown'
<1> SUFFICES ASSUME TypeOK, ListKnown, [Next]_vars PROVE ListKnown'
  OBVIOUS
<1> USE Sizes DEF TypeOK, TypeOKList, Idle, Sleep, Waiting, listVars, ListKnown
<1>1. CASE ListChanges
  BY <1>1, Changes
<1>2. CASE SwitchLink
  BY <1>2 DEF SwitchLink
<1>3. CASE Tick
  BY <1>3 DEF Tick, Older
<1>4. CASE \E issued \in SUBSET Cert \ {{}} : FetchNodes(issued)
  BY <1>4 DEF FetchNodes
<1>5. CASE \E c \in Cert : UnknownNode(c) \/ CacheHit(c) \/ CacheMiss(c)
  BY <1>5 DEF UnknownNode, CacheHit, CacheMiss, Decided, Asking
<1>6. CASE WorkerAnswered
  BY <1>6 DEF WorkerAnswered
<1>7. CASE WorkerStores
  BY <1>7 DEF WorkerStores, Decided
<1>8. CASE WorkerFails
  BY <1>8 DEF WorkerFails, Decided
<1>9. CASE Proceed
  BY <1>9 DEF Proceed
<1>10. CASE WakeUp
  BY <1>10 DEF WakeUp
<1>11. CASE RefresherAnswered
  BY <1>11 DEF RefresherAnswered
<1>12. CASE RefresherStores
  BY <1>12 DEF RefresherStores, Refreshed
<1>13. CASE RefresherFails
  BY <1>13 DEF RefresherFails, Refreshed
<1>14. CASE UNCHANGED vars
  BY <1>14 DEF vars, listVars
<1> QED
  BY <1>1, <1>2, <1>3, <1>4, <1>5, <1>6, <1>7, <1>8, <1>9, <1>10, <1>11, <1>12,
     <1>13, <1>14 DEF Next, IsNodeOnCRL, RefreshCRLCache

LEMMA AgeStep == TypeOK /\ ListKnown /\ AgeBound /\ [Next]_vars => AgeBound'
<1> SUFFICES ASSUME TypeOK, ListKnown, AgeBound, [Next]_vars PROVE AgeBound'
  OBVIOUS
<1> USE Sizes DEF TypeOK, TypeOKList, Idle, Sleep, Waiting, listVars, AgeBound, ListKnown
<1>1. CASE ListChanges
  BY <1>1, Changes
<1>2. CASE SwitchLink
  BY <1>2 DEF SwitchLink
<1>3. CASE Tick
  BY <1>3 DEF Tick, Older
<1>4. CASE \E issued \in SUBSET Cert \ {{}} : FetchNodes(issued)
  BY <1>4 DEF FetchNodes
<1>5. CASE \E c \in Cert : UnknownNode(c) \/ CacheHit(c) \/ CacheMiss(c)
  BY <1>5 DEF UnknownNode, CacheHit, CacheMiss, Decided, Asking
<1>6. CASE WorkerAnswered
  BY <1>6 DEF WorkerAnswered
<1>7. CASE WorkerStores
  BY <1>7 DEF WorkerStores, Decided
<1>8. CASE WorkerFails
  BY <1>8 DEF WorkerFails, Decided
<1>9. CASE Proceed
  BY <1>9 DEF Proceed
<1>10. CASE WakeUp
  BY <1>10 DEF WakeUp
<1>11. CASE RefresherAnswered
  BY <1>11 DEF RefresherAnswered
<1>12. CASE RefresherStores
  BY <1>12 DEF RefresherStores, Refreshed
<1>13. CASE RefresherFails
  BY <1>13 DEF RefresherFails, Refreshed
<1>14. CASE UNCHANGED vars
  BY <1>14 DEF vars, listVars
<1> QED
  BY <1>1, <1>2, <1>3, <1>4, <1>5, <1>6, <1>7, <1>8, <1>9, <1>10, <1>11, <1>12,
     <1>13, <1>14 DEF Next, IsNodeOnCRL, RefreshCRLCache

LEMMA StampStep == TypeOK /\ Stamped /\ [Next]_vars => Stamped'
<1> SUFFICES ASSUME TypeOK, Stamped, [Next]_vars PROVE Stamped'
  OBVIOUS
<1> USE Sizes DEF TypeOK, TypeOKList, Idle, Sleep, Waiting, listVars, Stamped
<1>1. CASE ListChanges
  BY <1>1, Changes
<1>2. CASE SwitchLink
  BY <1>2 DEF SwitchLink
<1>3. CASE Tick
  BY <1>3 DEF Tick, Older
<1>4. CASE \E issued \in SUBSET Cert \ {{}} : FetchNodes(issued)
  BY <1>4 DEF FetchNodes
<1>5. CASE \E c \in Cert : UnknownNode(c) \/ CacheHit(c) \/ CacheMiss(c)
  BY <1>5 DEF UnknownNode, CacheHit, CacheMiss, Decided, Asking
<1>6. CASE WorkerAnswered
  BY <1>6 DEF WorkerAnswered
<1>7. CASE WorkerStores
  BY <1>7 DEF WorkerStores, Decided
<1>8. CASE WorkerFails
  BY <1>8 DEF WorkerFails, Decided
<1>9. CASE Proceed
  BY <1>9 DEF Proceed
<1>10. CASE WakeUp
  BY <1>10 DEF WakeUp
<1>11. CASE RefresherAnswered
  BY <1>11 DEF RefresherAnswered
<1>12. CASE RefresherStores
  BY <1>12 DEF RefresherStores, Refreshed
<1>13. CASE RefresherFails
  BY <1>13 DEF RefresherFails, Refreshed
<1>14. CASE UNCHANGED vars
  BY <1>14 DEF vars, listVars
<1> QED
  BY <1>1, <1>2, <1>3, <1>4, <1>5, <1>6, <1>7, <1>8, <1>9, <1>10, <1>11, <1>12,
     <1>13, <1>14 DEF Next, IsNodeOnCRL, RefreshCRLCache

LEMMA TextsStep == TypeOK /\ OnlyTexts /\ [Next]_vars => OnlyTexts'
<1> SUFFICES ASSUME TypeOK, OnlyTexts, [Next]_vars PROVE OnlyTexts'
  OBVIOUS
<1> USE Sizes DEF TypeOK, TypeOKList, Idle, Sleep, Waiting, listVars, OnlyTexts
<1>1. CASE ListChanges
  BY <1>1, Changes
<1>2. CASE SwitchLink
  BY <1>2 DEF SwitchLink
<1>3. CASE Tick
  BY <1>3 DEF Tick, Older
<1>4. CASE \E issued \in SUBSET Cert \ {{}} : FetchNodes(issued)
  BY <1>4 DEF FetchNodes
<1>5. CASE \E c \in Cert : UnknownNode(c) \/ CacheHit(c) \/ CacheMiss(c)
  <2>1. PICK c \in Cert : UnknownNode(c) \/ CacheHit(c) \/ CacheMiss(c)
    BY <1>5
  <2>2. UNCHANGED <<cache, refresher>>
    BY <2>1 DEF UnknownNode, CacheHit, CacheMiss
  <2>3. CASE UnknownNode(c)
    BY <2>2, <2>3 DEF UnknownNode, Decided
  <2>4. CASE CacheHit(c)
    <3>1. /\ worker'.pc = "decided" /\ worker'.cert = c
          /\ worker'.onCRL <=> cache[c] = "revoked"
      BY <2>4 DEF CacheHit, Decided
    <3> QED
      BY <2>2, <3>1
  <2>5. CASE CacheMiss(c)
    BY <2>2, <2>5 DEF CacheMiss, Asking
  <2> QED
    BY <2>1, <2>3, <2>4, <2>5
<1>6. CASE WorkerAnswered
  BY <1>6 DEF WorkerAnswered, IsRevoked
<1>7. CASE WorkerStores
  BY <1>7 DEF WorkerStores, Decided
<1>8. CASE WorkerFails
  BY <1>8 DEF WorkerFails, Decided
<1>9. CASE Proceed
  BY <1>9 DEF Proceed
<1>10. CASE WakeUp
  BY <1>10 DEF WakeUp
<1>11. CASE RefresherAnswered
  BY <1>11 DEF RefresherAnswered, BulkCheck, IsRevoked
<1>12. CASE RefresherStores
  BY <1>12 DEF RefresherStores, Refreshed
<1>13. CASE RefresherFails
  BY <1>13 DEF RefresherFails, Refreshed
<1>14. CASE UNCHANGED vars
  BY <1>14 DEF vars, listVars
<1> QED
  BY <1>1, <1>2, <1>3, <1>4, <1>5, <1>6, <1>7, <1>8, <1>9, <1>10, <1>11, <1>12,
     <1>13, <1>14 DEF Next, IsNodeOnCRL, RefreshCRLCache

LEMMA AnswersStep == TypeOK /\ OlderAnswers /\ [Next]_vars => OlderAnswers'
<1> SUFFICES ASSUME TypeOK, OlderAnswers, [Next]_vars PROVE OlderAnswers'
  OBVIOUS
<1> USE Sizes DEF TypeOK, TypeOKList, Idle, Sleep, Waiting, listVars, OlderAnswers, Routed
<1>1. CASE ListChanges
  BY <1>1, Changes
<1>2. CASE SwitchLink
  BY <1>2 DEF SwitchLink
<1>3. CASE Tick
  BY <1>3 DEF Tick, Older
<1>4. CASE \E issued \in SUBSET Cert \ {{}} : FetchNodes(issued)
  BY <1>4 DEF FetchNodes
<1>5. CASE \E c \in Cert : UnknownNode(c) \/ CacheHit(c) \/ CacheMiss(c)
  BY <1>5 DEF UnknownNode, CacheHit, CacheMiss, Decided, Asking
<1>6. CASE WorkerAnswered
  BY <1>6 DEF WorkerAnswered, IsRevoked
<1>7. CASE WorkerStores
  BY <1>7 DEF WorkerStores, Decided
<1>8. CASE WorkerFails
  BY <1>8 DEF WorkerFails, Decided
<1>9. CASE Proceed
  BY <1>9 DEF Proceed
<1>10. CASE WakeUp
  BY <1>10 DEF WakeUp
<1>11. CASE RefresherAnswered
  BY <1>11 DEF RefresherAnswered, BulkCheck, IsRevoked
<1>12. CASE RefresherStores
  BY <1>12 DEF RefresherStores, Refreshed
<1>13. CASE RefresherFails
  BY <1>13 DEF RefresherFails, Refreshed
<1>14. CASE UNCHANGED vars
  BY <1>14 DEF vars, listVars
<1> QED
  BY <1>1, <1>2, <1>3, <1>4, <1>5, <1>6, <1>7, <1>8, <1>9, <1>10, <1>11, <1>12,
     <1>13, <1>14 DEF Next, IsNodeOnCRL, RefreshCRLCache

LEMMA RefreshStep == TypeOK /\ ListKnown /\ OlderAnswers /\ RefreshComes /\ [Next]_vars => RefreshComes'
<1> SUFFICES ASSUME TypeOK, ListKnown, OlderAnswers, RefreshComes, [Next]_vars PROVE RefreshComes'
  OBVIOUS
<1> USE Sizes DEF TypeOK, TypeOKList, Idle, Sleep, Waiting, listVars, RefreshComes, OlderAnswers, Routed, Status
<1>1. CASE ListChanges
  BY <1>1, Changes
<1>2. CASE SwitchLink
  BY <1>2 DEF SwitchLink
<1>3. CASE Tick
  BY <1>3 DEF Tick, Older
<1>4. CASE \E issued \in SUBSET Cert \ {{}} : FetchNodes(issued)
  BY <1>4 DEF FetchNodes, ListKnown
<1>5. CASE \E c \in Cert : UnknownNode(c) \/ CacheHit(c) \/ CacheMiss(c)
  BY <1>5 DEF UnknownNode, CacheHit, CacheMiss, Decided, Asking
<1>6. CASE WorkerAnswered
  BY <1>6 DEF WorkerAnswered
<1>7. CASE WorkerStores
  BY <1>7 DEF WorkerStores, Decided
<1>8. CASE WorkerFails
  BY <1>8 DEF WorkerFails, Decided
<1>9. CASE Proceed
  BY <1>9 DEF Proceed
<1>10. CASE WakeUp
  BY <1>10 DEF WakeUp
<1>11. CASE RefresherAnswered
  BY <1>11 DEF RefresherAnswered
<1>12. CASE RefresherStores
  BY <1>12 DEF RefresherStores, Refreshed
<1>13. CASE RefresherFails
  BY <1>13 DEF RefresherFails, Refreshed
<1>14. CASE UNCHANGED vars
  BY <1>14 DEF vars, listVars
<1> QED
  BY <1>1, <1>2, <1>3, <1>4, <1>5, <1>6, <1>7, <1>8, <1>9, <1>10, <1>11, <1>12,
     <1>13, <1>14 DEF Next, IsNodeOnCRL, RefreshCRLCache

LEMMA Noticed == TypeOK /\ RefreshComes => NoticedInTime
<1> SUFFICES ASSUME TypeOK, RefreshComes, NEW c \in nodes, Routed, since[c] > Deadline,
                    cache[c] # Status(c)
             PROVE  FALSE
  BY DEF NoticedInTime
<1>1. since[c] > Period + 2 * MaxDelay /\ since[c] \in Nat
  BY Sizes DEF TypeOK
<1>2. CASE refresher.pc = "sleep"
  BY <1>1, <1>2, Sizes DEF RefreshComes, TypeOK
<1>3. CASE refresher.pc # "sleep"
  BY <1>1, <1>3, Sizes DEF RefreshComes, TypeOK
<1> QED
  BY <1>2, <1>3

LEMMA Fresh == TypeOK /\ AgeBound => NeverExpires
<1> SUFFICES ASSUME TypeOK, AgeBound PROVE NeverExpires
  OBVIOUS
<1>1. CASE refresher.pc = "sleep"
  BY <1>1, Sizes DEF TypeOK, AgeBound, NeverExpires, cacheValid
<1>2. CASE refresher.pc # "sleep"
  BY <1>2, Sizes DEF TypeOK, AgeBound, NeverExpires, cacheValid
<1> QED
  BY <1>1, <1>2

LEMMA AskedStep ==
    TypeOK /\ ListKnown /\ Stamped /\ NeverExpires /\ NoticedInTime /\ AskedEarly
        /\ [Next]_vars => AskedEarly'
<1> SUFFICES ASSUME TypeOK, ListKnown, Stamped, NeverExpires, NoticedInTime, AskedEarly,
                    [Next]_vars
             PROVE  AskedEarly'
  OBVIOUS
<1> USE Sizes DEF TypeOK, TypeOKList, Idle, Sleep, Waiting, listVars, AskedEarly, Routed
<1>1. CASE ListChanges
  BY <1>1, Changes
<1>2. CASE SwitchLink
  BY <1>2 DEF SwitchLink
<1>3. CASE Tick
  BY <1>3 DEF Tick, Older
<1>4. CASE \E issued \in SUBSET Cert \ {{}} : FetchNodes(issued)
  BY <1>4 DEF FetchNodes, ListKnown
<1>5. CASE \E c \in Cert : UnknownNode(c) \/ CacheHit(c) \/ CacheMiss(c)
  <2>1. PICK c \in Cert : UnknownNode(c) \/ CacheHit(c) \/ CacheMiss(c)
    BY <1>5
  <2>2. CASE UnknownNode(c) \/ CacheHit(c)
    BY <2>2 DEF UnknownNode, CacheHit, Decided
  <2>3. CASE CacheMiss(c)
    <3>1. /\ c \in nodes
          /\ worker' = [pc |-> "asking", cert |-> c, t |-> 0]
          /\ UNCHANGED <<nodes, since>>
      BY <2>3 DEF CacheMiss, Asking
    <3>2. cache[c] = "unknown"
      BY <2>3 DEF CacheMiss, Stamped, NeverExpires
    <3>3. Routed => since[c] <= Deadline
      BY <3>1, <3>2 DEF NoticedInTime, Status
    <3> QED
      BY <3>1, <3>3
  <2> QED
    BY <2>1, <2>2, <2>3
<1>6. CASE WorkerAnswered
  BY <1>6 DEF WorkerAnswered
<1>7. CASE WorkerStores
  BY <1>7 DEF WorkerStores, Decided
<1>8. CASE WorkerFails
  BY <1>8 DEF WorkerFails, Decided
<1>9. CASE Proceed
  BY <1>9 DEF Proceed
<1>10. CASE WakeUp
  BY <1>10 DEF WakeUp
<1>11. CASE RefresherAnswered
  BY <1>11 DEF RefresherAnswered
<1>12. CASE RefresherStores
  BY <1>12 DEF RefresherStores, Refreshed
<1>13. CASE RefresherFails
  BY <1>13 DEF RefresherFails, Refreshed
<1>14. CASE UNCHANGED vars
  BY <1>14 DEF vars, listVars
<1> QED
  BY <1>1, <1>2, <1>3, <1>4, <1>5, <1>6, <1>7, <1>8, <1>9, <1>10, <1>11, <1>12,
     <1>13, <1>14 DEF Next, IsNodeOnCRL, RefreshCRLCache

LEMMA RefusedStep ==
    TypeOK /\ OlderAnswers /\ NoticedInTime /\ AskedEarly /\ RefusedInTime /\ [Next]_vars
        => RefusedInTime'
<1> SUFFICES ASSUME TypeOK, OlderAnswers, NoticedInTime, AskedEarly, RefusedInTime,
                    [Next]_vars
             PROVE  RefusedInTime'
  OBVIOUS
<1> USE Sizes DEF TypeOK, TypeOKList, Idle, Sleep, Waiting, listVars, RefusedInTime, Routed
<1>1. CASE ListChanges
  BY <1>1, Changes
<1>2. CASE SwitchLink
  BY <1>2 DEF SwitchLink
<1>3. CASE Tick
  BY <1>3 DEF Tick, Older
<1>4. CASE \E issued \in SUBSET Cert \ {{}} : FetchNodes(issued)
  BY <1>4 DEF FetchNodes
<1>5. CASE \E c \in Cert : UnknownNode(c) \/ CacheHit(c) \/ CacheMiss(c)
  <2>1. PICK c \in Cert : UnknownNode(c) \/ CacheHit(c) \/ CacheMiss(c)
    BY <1>5
  <2>2. UNCHANGED <<listed, nodes, since>>
    BY <2>1 DEF UnknownNode, CacheHit, CacheMiss
  <2>3. CASE UnknownNode(c)
    BY <2>2, <2>3 DEF UnknownNode, Decided
  <2>4. CASE CacheHit(c)
    <3>1. /\ worker'.cert = c
          /\ worker'.onCRL <=> cache[c] = "revoked"
      BY <2>4 DEF CacheHit, Decided
    <3> QED
      BY <2>2, <3>1 DEF NoticedInTime, Status
  <2>5. CASE CacheMiss(c)
    BY <2>2, <2>5 DEF CacheMiss, Asking
  <2> QED
    BY <2>1, <2>3, <2>4, <2>5
<1>6. CASE WorkerAnswered
  BY <1>6 DEF WorkerAnswered
<1>7. CASE WorkerStores
  BY <1>7 DEF WorkerStores, Decided, OlderAnswers
<1>8. CASE WorkerFails
  BY <1>8 DEF WorkerFails, Decided, AskedEarly
<1>9. CASE Proceed
  BY <1>9 DEF Proceed
<1>10. CASE WakeUp
  BY <1>10 DEF WakeUp
<1>11. CASE RefresherAnswered
  BY <1>11 DEF RefresherAnswered
<1>12. CASE RefresherStores
  BY <1>12 DEF RefresherStores, Refreshed
<1>13. CASE RefresherFails
  BY <1>13 DEF RefresherFails, Refreshed
<1>14. CASE UNCHANGED vars
  BY <1>14 DEF vars, listVars
<1> QED
  BY <1>1, <1>2, <1>3, <1>4, <1>5, <1>6, <1>7, <1>8, <1>9, <1>10, <1>11, <1>12,
     <1>13, <1>14 DEF Next, IsNodeOnCRL, RefreshCRLCache

(* The strengthening: together the parts are inductive. *)
Inv ==
    /\ TypeOK /\ ListKnown /\ AgeBound /\ Stamped /\ OnlyTexts /\ OlderAnswers
    /\ RefreshComes /\ AskedEarly /\ RefusedInTime

LEMMA InvInit == Init => Inv
<1> SUFFICES ASSUME Init PROVE Inv
  OBVIOUS
<1>1. ListKnown /\ AgeBound /\ Stamped /\ AskedEarly
  BY DEF Init, ListKnown, AgeBound, Stamped, AskedEarly, Waiting, Idle, Sleep
<1>2. OnlyTexts
  BY DEF Init, OnlyTexts, Idle, Sleep
<1>3. OlderAnswers /\ RefreshComes
  BY DEF Init, OlderAnswers, RefreshComes, Idle, Sleep
<1>4. RefusedInTime
  BY DEF Init, RefusedInTime, Idle
<1> QED
  BY <1>1, <1>2, <1>3, <1>4, TypeInit DEF Inv

LEMMA Invariance == Spec => []Inv
<1>1. Inv /\ [Next]_vars => Inv'
  BY TypeStep, ListStep, AgeStep, StampStep, TextsStep, AnswersStep, RefreshStep,
     Noticed, Fresh, AskedStep, RefusedStep DEF Inv
<1> QED
  BY <1>1, InvInit, PTL DEF Spec

(* The cache agrees with the list about every text the GCS can be asked    *)
(* for, half a lifetime and two requests after a change or a failure.      *)
THEOREM AlwaysNoticed == Spec => []NoticedInTime
<1>1. Inv => NoticedInTime
  BY Noticed DEF Inv
<1> QED
  BY <1>1, Invariance, PTL

(* The time of a request later no message is taken of a drone whose text   *)
(* is on the list, although failed look-ups let messages pass.             *)
THEOREM AlwaysRefused == Spec => []RefusedInTime
<1>1. Inv => RefusedInTime
  BY DEF Inv
<1> QED
  BY <1>1, Invariance, PTL

(* No drone is refused for its serial number.                              *)
THEOREM NeverForASerial == Spec => []SerialRefusesNobody
<1>1. Inv => SerialRefusesNobody
  BY DEF Inv, OnlyTexts, SerialRefusesNobody
<1> QED
  BY <1>1, Invariance, PTL

(* With a list of serial numbers, which is what crl_manager.py calls the   *)
(* strings on it, isNodeOnCRL never refuses anybody.                       *)
THEOREM NobodyIsRefused ==
    ASSUME \A s \in Listable : \E c \in Cert : s = Serial(c)
    PROVE  Spec => [](worker.pc = "decided" => ~worker.onCRL)
<1>1. \A c \in Cert : Text(c) \notin Listable
  BY DEF Text, Serial
<1>2. TypeOK /\ SerialRefusesNobody => (worker.pc = "decided" => ~worker.onCRL)
  BY <1>1 DEF SerialRefusesNobody, TypeOK, Idle
<1> QED
  BY <1>2, TypeCorrect, NeverForASerial, PTL

(* Once refreshed, the cache is valid for good.                            *)
THEOREM CacheNeverExpires == Spec => []NeverExpires
<1>1. Inv => NeverExpires
  BY Fresh DEF Inv
<1> QED
  BY <1>1, Invariance, PTL
=============================================================================
