----------------------------- MODULE LossyFifo -----------------------------
(***************************************************************************)
(* What a drone's message queue promises: messages are taken in the order  *)
(* they arrived, one at a time, and one is skipped only when Capacity      *)
(* messages or more were waiting.  Messages are numbered by arrival.       *)
(* MessageQueue, which implements it, states the assumptions on both       *)
(* constants.                                                              *)
(***************************************************************************)
EXTENDS Integers, Sequences

CONSTANTS
    Capacity,       \* from how many waiting messages on one is skipped
    MaxArrivals     \* bound: messages that arrive

VARIABLES
    waiting,        \* messages waiting, oldest first
    arrived,        \* number of the last message that arrived
    taken           \* number of the last message taken

fifoVars == <<waiting, arrived, taken>>

FifoInit == waiting = <<>> /\ arrived = 0 /\ taken = 0

Arrive ==
    /\ arrived < MaxArrivals
    /\ arrived' = arrived + 1
    /\ waiting' = Append(waiting, arrived')
    /\ UNCHANGED taken

(* What remains after the oldest message was skipped, if it must be. *)
Trimmed(q) == IF Len(q) >= Capacity THEN Tail(q) ELSE q

Deliver ==
    /\ waiting # <<>>
    /\ taken' = Head(Trimmed(waiting))
    /\ waiting' = Tail(Trimmed(waiting))
    /\ UNCHANGED arrived

FifoNext == Arrive \/ Deliver

SafeFifo == FifoInit /\ [][FifoNext]_fifoVars

Fifo == SafeFifo /\ WF_fifoVars(Deliver)
==========================================================================
