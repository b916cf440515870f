------------------------- MODULE MessageQueueProofs -------------------------
(***************************************************************************)
(* Machine-checked proofs about MessageQueue, for every number of receiver *)
(* threads, queue size and number of messages.                             *)
(***************************************************************************)
EXTENDS MessageQueue, TLAPS

(* What the sequence operators of the queue do to a sequence. *)
LEMMA TailFacts ==
    ASSUME NEW S, NEW q \in Seq(S), q # <<>>
    PROVE  /\ Head(q) = q[1] /\ Head(q) \in S
           /\ Tail(q) \in Seq(S) /\ Len(Tail(q)) = Len(q) - 1
           /\ \A i \in 1..Len(Tail(q)) : Tail(q)[i] = q[i + 1]
           /\ Len(q) \in Nat \ {0}
  OBVIOUS

LEMMA AfterDropFacts ==
    ASSUME TypeOK, messageQueue # <<>>
    PROVE  /\ AfterDrop \in Seq(1..MaxArrivals) /\ AfterDrop # <<>>
           /\ ~TooMany => AfterDrop = messageQueue
           /\ TooMany => AfterDrop = Tail(messageQueue)
<1>1. messageQueue \in Seq(1..MaxArrivals)
  BY DEF TypeOK
<1>2. CASE TooMany
  <2>1. Len(Tail(messageQueue)) >= 1 /\ Tail(messageQueue) \in Seq(1..MaxArrivals)
    BY <1>1, <1>2, TailFacts, QueueAssumption DEF TooMany
  <2> QED
    BY <1>2, <2>1 DEF AfterDrop
<1>3. CASE ~TooMany
  BY <1>1, <1>3 DEF AfterDrop
<1> QED
  BY <1>2, <1>3

LEMMA TypeInit == Init => TypeOK
  BY QueueAssumption DEF Init, TypeOK

LEMMA PushType ==
    ASSUME TypeOK, Push
    PROVE  arrived' \in 0..MaxArrivals /\ messageQueue' \in Seq(1..MaxArrivals)
<1>1. arrived' \in 1..MaxArrivals
  BY QueueAssumption DEF TypeOK, Push
<1>2. messageQueue' = Append(messageQueue, arrived')
  BY DEF Push
<1> QED
  BY <1>1, <1>2 DEF TypeOK

LEMMA TypeStep == TypeOK /\ [Next]_vars => TypeOK'
<1> SUFFICES ASSUME TypeOK, [Next]_vars PROVE TypeOK'
  OBVIOUS
<1>1. ASSUME NEW r \in Receiver, Receive(r) PROVE TypeOK'
  BY <1>1, PushType DEF TypeOK, Receive
<1>2. ASSUME NEW r \in Receiver, Notify(r) PROVE TypeOK'
  BY <1>2 DEF TypeOK, Notify, Woken
<1>3. CASE HandleIPCMessage
  BY <1>3, PushType DEF TypeOK, HandleIPCMessage, Woken
<1>4. CASE Sleep \/ WakeUp \/ Finish
  BY <1>4 DEF TypeOK, Sleep, WakeUp, Finish
<1>5. CASE Take
  <2>1. handled' \in 1..MaxArrivals /\ messageQueue' \in Seq(1..MaxArrivals)
    BY <1>5, AfterDropFacts, TailFacts DEF Take
  <2>2. handled' \in 0..MaxArrivals
    BY <2>1
  <2> QED
    BY <1>5, <2>1, <2>2 DEF TypeOK, Take
<1>6. CASE UNCHANGED vars
  BY <1>6 DEF TypeOK, vars
<1> QED
  BY <1>1, <1>2, <1>3, <1>4, <1>5, <1>6 DEF Next

(* Type correctness of the queue and its threads. *)
THEOREM TypeCorrect == Spec => []TypeOK
  BY TypeInit, TypeStep, PTL DEF Spec

--------------------------------------------------------------------------
LEMMA WakeUpStep == NoLostWakeUp /\ [Next]_vars => NoLostWakeUp'
<1> SUFFICES ASSUME NoLostWakeUp, [Next]_vars PROVE NoLostWakeUp'
  OBVIOUS
<1>1. ASSUME NEW r \in Receiver, Receive(r) \/ Notify(r) PROVE NoLostWakeUp'
  BY <1>1 DEF NoLostWakeUp, Receive, Notify, Woken
<1>2. CASE HandleIPCMessage \/ Sleep \/ WakeUp \/ Take \/ Finish
  BY <1>2 DEF NoLostWakeUp, HandleIPCMessage, Woken, Sleep, WakeUp, Take, Finish
<1>3. CASE UNCHANGED vars
  BY <1>3 DEF NoLostWakeUp, vars
<1> QED
  BY <1>1, <1>2, <1>3 DEF Next

(* clientResponseThread never sleeps on a queue with messages unless a     *)
(* receiver is about to call notify_one, however many receivers there are. *)
THEOREM WakeUpNeverLost == Spec => []NoLostWakeUp
<1>1. Init => NoLostWakeUp
  BY DEF Init, NoLostWakeUp
<1> QED
  BY <1>1, WakeUpStep, PTL DEF Spec

--------------------------------------------------------------------------
(* The messages waiting are exactly those after the last one handled. *)
Consecutive ==
    /\ handled + Len(messageQueue) = arrived
    /\ \A i \in 1..Len(messageQueue) : messageQueue[i] = handled + i

(* One message less: what is left still is numbered without a gap. *)
LEMMA HeadTaken ==
    ASSUME NEW S, NEW q \in Seq(S), q # <<>>, NEW h \in Nat, NEW a \in Nat,
           Len(q) = a - h, \A i \in 1..Len(q) : q[i] = h + i
    PROVE  /\ Head(q) = h + 1
           /\ Len(Tail(q)) = a - (h + 1)
           /\ \A i \in 1..Len(Tail(q)) : Tail(q)[i] = (h + 1) + i
<1>1. Head(q) = q[1] /\ Len(Tail(q)) = Len(q) - 1 /\ Len(q) \in Nat \ {0}
  BY TailFacts
<1>2. \A i \in 1..Len(Tail(q)) : Tail(q)[i] = q[i + 1]
  BY TailFacts
<1>3. ASSUME NEW i \in 1..Len(Tail(q)) PROVE Tail(q)[i] = (h + 1) + i
  <2>1. i + 1 \in 1..Len(q)
    BY <1>1
  <2>2. q[i + 1] = h + (i + 1)
    BY <2>1
  <2> QED
    BY <1>2, <2>2
<1> QED
  BY <1>1, <1>3

LEMMA TakeFacts ==
    ASSUME TypeOK, Consecutive, Take
    PROVE  /\ handled' = IF TooMany THEN handled + 2 ELSE handled + 1
           /\ Len(messageQueue') = arrived - handled'
           /\ \A i \in 1..Len(messageQueue') : messageQueue'[i] = handled' + i
<1> DEFINE q == messageQueue
<1>1. q \in Seq(1..MaxArrivals) /\ q # <<>> /\ handled \in Nat /\ arrived \in Nat
  BY DEF TypeOK, Take
<1>2. messageQueue' = Tail(AfterDrop) /\ handled' = Head(AfterDrop)
  BY DEF Take
<1>3. Len(q) = arrived - handled /\ \A i \in 1..Len(q) : q[i] = handled + i
  BY <1>1 DEF Consecutive
<1>4. /\ Head(q) = handled + 1
      /\ Len(Tail(q)) = arrived - (handled + 1)
      /\ \A i \in 1..Len(Tail(q)) : Tail(q)[i] = (handled + 1) + i
  BY <1>1, <1>3, HeadTaken
<1>5. CASE TooMany
  <2>1. AfterDrop = Tail(q) /\ Tail(q) \in Seq(1..MaxArrivals) /\ Tail(q) # <<>>
    BY <1>1, <1>5, AfterDropFacts
  <2> DEFINE t == Tail(q)
             h == handled + 1
  <2>2. h \in Nat /\ Len(t) = arrived - h /\ \A i \in 1..Len(t) : t[i] = h + i
    BY <1>1, <1>4
  <2> HIDE DEF t, h
  <2>3. t \in Seq(1..MaxArrivals) /\ t # <<>>
    BY <2>1 DEF t
  <2>4. /\ Head(t) = h + 1
        /\ Len(Tail(t)) = arrived - (h + 1)
        /\ \A i \in 1..Len(Tail(t)) : Tail(t)[i] = (h + 1) + i
    BY <1>1, <2>2, <2>3, HeadTaken
  <2>5. h + 1 = handled + 2
    BY <1>1 DEF h
  <2>6. messageQueue' = Tail(t) /\ handled' = Head(t)
    BY <1>2, <2>1 DEF t
  <2> QED
    BY <1>5, <2>4, <2>5, <2>6
<1>6. CASE ~TooMany
  <2>1. AfterDrop = q
    BY <1>1, <1>6, AfterDropFacts
  <2> QED
    BY <1>2, <1>4, <1>6, <2>1
<1> QED
  BY <1>5, <1>6

LEMMA PushFacts ==
    ASSUME TypeOK, Consecutive, Push, UNCHANGED handled
    PROVE  Consecutive'
<1>1. messageQueue' = Append(messageQueue, arrived + 1) /\ arrived' = arrived + 1
  BY DEF Push
<1>2. messageQueue \in Seq(1..MaxArrivals) /\ handled \in Nat /\ arrived \in Nat
  BY DEF TypeOK
<1>3. Len(messageQueue') = Len(messageQueue) + 1
  BY <1>1, <1>2
<1>4. \A i \in 1..Len(messageQueue') :
         messageQueue'[i] = IF i <= Len(messageQueue) THEN messageQueue[i] ELSE arrived + 1
  BY <1>1, <1>2
<1> QED
  BY <1>1, <1>2, <1>3, <1>4 DEF Consecutive

LEMMA ConsecutiveStep == TypeOK /\ Consecutive /\ [Next]_vars => Consecutive'
<1> SUFFICES ASSUME TypeOK, Consecutive, [Next]_vars PROVE Consecutive'
  OBVIOUS
<1>1. ASSUME NEW r \in Receiver, Receive(r) PROVE Consecutive'
  BY <1>1, PushFacts DEF Receive
<1>2. ASSUME NEW r \in Receiver, Notify(r) PROVE Consecutive'
  BY <1>2 DEF Consecutive, Notify
<1>3. CASE HandleIPCMessage
  BY <1>3, PushFacts DEF HandleIPCMessage
<1>4. CASE Sleep \/ WakeUp \/ Finish \/ UNCHANGED vars
  BY <1>4 DEF Consecutive, Sleep, WakeUp, Finish, vars
<1>5. CASE Take
  <2>1. arrived' = arrived /\ arrived \in Nat /\ handled \in Nat
    BY <1>5 DEF Take, TypeOK
  <2> QED
    BY <1>5, <2>1, TakeFacts DEF Consecutive
<1> QED
  BY <1>1, <1>2, <1>3, <1>4, <1>5 DEF Next

LEMMA SkipStep ==
    TypeOK /\ Consecutive /\ [Next]_vars =>
       [handled' # handled =>
          \/ handled' = handled + 1
          \/ handled' = handled + 2 /\ Len(messageQueue) >= MaxQueueSize]_vars
<1> SUFFICES ASSUME TypeOK, Consecutive, [Next]_vars, handled' # handled
             PROVE  \/ handled' = handled + 1
                    \/ handled' = handled + 2 /\ Len(messageQueue) >= MaxQueueSize
  OBVIOUS
<1>1. Take
  BY DEF Next, vars, Receive, Notify, HandleIPCMessage, Sleep, WakeUp, Finish
<1> QED
  BY <1>1, TakeFacts DEF TooMany

(* Messages are handled in the order they arrived, and one is skipped only *)
(* when MAX_QUEUE_SIZE messages or more wait (drone.cpp 71-82).            *)
THEOREM OrderKept == Spec => SkipsOnlyWhenFull
<1>1. Init => Consecutive
  BY DEF Init, Consecutive
<1> QED
  BY <1>1, TypeCorrect, ConsecutiveStep, SkipStep, PTL DEF Spec, SkipsOnlyWhenFull

--------------------------------------------------------------------------
LEMMA FifoStep == [Next]_vars => [Abstract!FifoNext]_(Abstract!fifoVars)
<1> SUFFICES ASSUME [Next]_vars
             PROVE  Abstract!FifoNext \/ UNCHANGED Abstract!fifoVars
  BY DEF Abstract!fifoVars
<1>1. ASSUME NEW r \in Receiver, Receive(r) PROVE Abstract!FifoNext
  BY <1>1 DEF Receive, Push, Abstract!FifoNext, Abstract!Arrive
<1>2. ASSUME NEW r \in Receiver, Notify(r) PROVE UNCHANGED Abstract!fifoVars
  BY <1>2 DEF Notify, Abstract!fifoVars
<1>3. CASE HandleIPCMessage
  BY <1>3 DEF HandleIPCMessage, Push, Abstract!FifoNext, Abstract!Arrive
<1>4. CASE Sleep \/ WakeUp \/ Finish \/ UNCHANGED vars
  BY <1>4 DEF Sleep, WakeUp, Finish, vars, Abstract!fifoVars
<1>5. CASE Take
  BY <1>5 DEF Take, AfterDrop, TooMany, Abstract!FifoNext, Abstract!Deliver, Abstract!Trimmed
<1> QED
  BY <1>1, <1>2, <1>3, <1>4, <1>5 DEF Next

(* Every step of the threads is a step of the abstract lossy queue or      *)
(* leaves it as it is; that the consumer is also as fair as the abstract   *)
(* queue is left to TLC.                                                   *)
THEOREM RefinesFifo == Spec => Abstract!SafeFifo
<1>1. Init => Abstract!FifoInit
  BY DEF Init, Abstract!FifoInit
<1> QED
  BY <1>1, FifoStep, PTL DEF Spec, Abstract!SafeFifo
=============================================================================
