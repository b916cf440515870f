---------------------------- MODULE MessageQueue ----------------------------
(***************************************************************************)
(* messageQueue of one drone: filled by the UDP receive loop, by one       *)
(* thread for every TCP connection and by the IPC server's callback,       *)
(* emptied by clientResponseThread, which sleeps on the condition variable *)
(* cv.  Critical sections of queueMutex are single steps.  UDP and TCP     *)
(* threads notify after they have released the mutex, the IPC callback     *)
(* while it holds it.  The shutdown branch is left out: nothing sets       *)
(* running to false once the thread runs.                                  *)
(*                                                                         *)
(* Operators named ...Mutant are plausible wrong versions of the           *)
(* definition that follows them; nothing uses them but mutation testing.   *)
(***************************************************************************)
EXTENDS Integers, Sequences

CONSTANTS
    Receiver,       \* threads that receive from UDP and TCP
    MaxQueueSize,   \* MAX_QUEUE_SIZE
    MaxArrivals     \* bound: messages that arrive

ASSUME QueueAssumption ==
    MaxQueueSize \in Nat /\ MaxQueueSize >= 2 /\ MaxArrivals \in Nat

VARIABLES
    messageQueue,   \* numbers of the waiting messages, oldest first
    arrived,        \* number of the last message pushed
    notifying,      \* receivers between unlock and notify_one
    consumer,       \* the clientResponseThread
    handled         \* number of the message it handles or handled last

vars == <<messageQueue, arrived, notifying, consumer, handled>>

Init ==
    /\ messageQueue = <<>>
    /\ arrived = 0
    /\ notifying = {}
    /\ consumer = "check"
    /\ handled = 0

(* Numbers a message like the one before it. *)
PushMutant ==
    /\ arrived < MaxArrivals
    /\ arrived' = arrived + 1
    /\ messageQueue' = Append(messageQueue, arrived)

Push ==
    /\ arrived < MaxArrivals
    /\ arrived' = arrived + 1
    /\ messageQueue' = Append(messageQueue, arrived')

Woken == IF consumer = "asleep" THEN "check" ELSE consumer

(* A receiver thread pushes, unlocks and then notifies. *)
Receive(r) ==
    /\ r \notin notifying
    /\ Push
    /\ notifying' = notifying \cup {r}
    /\ UNCHANGED <<consumer, handled>>

(* Returns without having called notify_one. *)
NotifyMutant(r) ==
    /\ r \in notifying
    /\ notifying' = notifying \ {r}
    /\ UNCHANGED <<messageQueue, arrived, consumer, handled>>

Notify(r) ==
    /\ r \in notifying
    /\ notifying' = notifying \ {r}
    /\ consumer' = Woken
    /\ UNCHANGED <<messageQueue, arrived, handled>>

(* handleIPCMessage *)
HandleIPCMessage ==
    /\ Push
    /\ consumer' = Woken
    /\ UNCHANGED <<notifying, handled>>

(* cv.wait: with nothing to do the consumer sleeps, and may also wake up   *)
(* for no reason.                                                          *)
Sleep ==
    /\ consumer = "check" /\ messageQueue = <<>>
    /\ consumer' = "asleep"
    /\ UNCHANGED <<messageQueue, arrived, notifying, handled>>

WakeUp ==
    /\ consumer = "asleep"
    /\ consumer' = "check"
    /\ UNCHANGED <<messageQueue, arrived, notifying, handled>>

(* At the limit the oldest message is dropped, then the next one taken. *)
(* Drops one message too early. *)
TooManyMutant == Len(messageQueue) >= MaxQueueSize - 1

TooMany == Len(messageQueue) >= MaxQueueSize

(* Drops the newest message instead of the oldest. *)
AfterDropMutant ==
    IF TooMany THEN SubSeq(messageQueue, 1, Len(messageQueue) - 1) ELSE messageQueue

AfterDrop == IF TooMany THEN Tail(messageQueue) ELSE messageQueue

Take ==
    /\ consumer = "check" /\ messageQueue # <<>>
    /\ handled' = Head(AfterDrop)
    /\ messageQueue' = Tail(AfterDrop)
    /\ consumer' = "handling"
    /\ UNCHANGED <<arrived, notifying>>

Finish ==
    /\ consumer = "handling"
    /\ consumer' = "check"
    /\ UNCHANGED <<messageQueue, arrived, notifying, handled>>

Next ==
    \/ \E r \in Receiver : Receive(r) \/ Notify(r)
    \/ HandleIPCMessage
    \/ Sleep \/ WakeUp \/ Take \/ Finish

Spec == Init /\ [][Next]_vars

(* Threads that can run do run, and handlers return.  Nothing is assumed   *)
(* of messages arriving or of spurious wake-ups.                           *)
FairSpec ==
    /\ Spec
    /\ WF_vars(Take) /\ WF_vars(Finish)
    /\ \A r \in Receiver : WF_vars(Notify(r))

--------------------------------------------------------------------------
(* Properties *)

(* Every variable has the shape the code gives it. *)
TypeOK ==
    /\ messageQueue \in Seq(1..MaxArrivals)
    /\ arrived \in 0..MaxArrivals
    /\ notifying \subseteq Receiver
    /\ consumer \in {"check", "asleep", "handling"}
    /\ handled \in 0..MaxArrivals

Abstract == INSTANCE LossyFifo WITH
    Capacity <- MaxQueueSize, waiting <- messageQueue, taken <- handled

(* The threads, the mutex and the condition variable together are the      *)
(* lossy first-in first-out queue, its fairness included: no wake-up is    *)
(* lost whatever the order in which receivers unlock and notify.           *)
ImplementsFifo == Abstract!Fifo

(* A consumer that sleeps on a queue that is not empty is about to be      *)
(* notified.                                                               *)
NoLostWakeUp == consumer = "asleep" /\ messageQueue # <<>> => notifying # {}

(* Messages are handled in the order they arrived; one is skipped only     *)
(* when MAX_QUEUE_SIZE messages wait, and never two in a row.              *)
SkipsOnlyWhenFull ==
    [][handled' # handled =>
          \/ handled' = handled + 1
          \/ handled' = handled + 2 /\ Len(messageQueue) >= MaxQueueSize]_vars

(* Every message that arrived is handled or overtaken by a later one: the  *)
(* drop at the limit is the only loss, and it never starves the queue.     *)
EventuallyPast == \A k \in 1..MaxArrivals : arrived >= k ~> handled >= k
=============================================================================
