------------------------------ MODULE Terminal ------------------------------
(***************************************************************************)
(* The terminal and the drone it talks to.  The terminal's main thread     *)
(* sends a command for every line of input; auto-discover starts a thread  *)
(* that sends one again and again over the same ipc_client.  sendData      *)
(* writes a command to the socket and blocks until it reads an answer:     *)
(* nothing tells whose answer it is, and no lock keeps the threads apart.  *)
(* The drone's IPCServer takes whatever its read returns for one message,  *)
(* passes it to handleIPCMessage, which queues it, and answers "ok" once.  *)
(* Two commands that arrive together are queued as one text that is no     *)
(* JSON, and clientResponseThread drops it.                                *)
(*                                                                         *)
(* A read returns all that is there: two commands and two answers are far  *)
(* shorter than the 1023 bytes of either buffer.  The connection is there  *)
(* and holds until the terminal ends.  Commands are numbered as sent.      *)
(*                                                                         *)
(* Operators named ...Mutant are plausible wrong versions of the           *)
(* definition that follows them; nothing uses them but mutation testing.   *)
(***************************************************************************)
EXTENDS Integers, Sequences

CONSTANTS
    MaxLines,   \* bound: lines of input
    MaxCount    \* bound: the count given to auto-discover

ASSUME TerminalAssumption == MaxLines \in Nat /\ MaxCount \in Nat \ {0}

VARIABLES
    main,       \* the thread of runTerminal
    auto,       \* autoDiscoverThread, "none" if there is none
    running,    \* the flag that stops it
    left,       \* commands it has still to send
    lines,      \* lines of input so far
    wire,       \* commands in the socket, on their way to the drone
    batch,      \* what the server has read and not answered yet
    acks,       \* answers in the socket, on their way to the terminal
    queue,      \* messageQueue, every message a sequence of commands
    by,         \* history: which thread sent the commands, in order
    handled,    \* history: commands the dispatcher understood, in order
    lost        \* history: those in messages it could not parse

client == <<main, auto, running, left, lines>>
drone == <<queue, handled, lost>>
vars == <<client, wire, batch, acks, drone, by>>

Init ==
    /\ main = "prompt"
    /\ auto = "none"
    /\ running = FALSE
    /\ left = 0
    /\ lines = 0
    /\ wire = <<>>
    /\ batch = <<>>
    /\ acks = 0
    /\ queue = <<>>
    /\ by = <<>>
    /\ handled = <<>>
    /\ lost = {}

--------------------------------------------------------------------------
(* ipc_client::sendData: first send, then read *)

Send(thread) ==
    /\ wire' = Append(wire, Len(by) + 1)
    /\ by' = Append(by, thread)

(* Both threads wait at the same socket; the first to read takes all.      *)
Receive == acks > 0 /\ acks' = 0

--------------------------------------------------------------------------
(* The main thread *)

ReadLine == main = "prompt" /\ lines < MaxLines /\ lines' = lines + 1

AfterSendMutant == "prompt"

AfterSend == "waiting"

(* discover, verify, leave *)
Command ==
    /\ ReadLine
    /\ Send("main")
    /\ main' = AfterSend
    /\ UNCHANGED <<auto, running, left, batch, acks, drone>>

CommandReturns ==
    /\ main = "waiting"
    /\ Receive
    /\ main' = "prompt"
    /\ UNCHANGED <<auto, running, left, lines, wire, batch, drone, by>>

StartAuto ==
    \E count \in 1..MaxCount :
        auto' = "ready" /\ running' = TRUE /\ left' = count

(* auto-discover stops a thread that is still there and waits for its end. *)
AutoDiscover ==
    /\ ReadLine
    /\ IF auto = "none"
       THEN StartAuto /\ UNCHANGED main
       ELSE running' = FALSE /\ main' = "joining" /\ UNCHANGED <<auto, left>>
    /\ UNCHANGED <<wire, batch, acks, drone, by>>

(* Then it starts the new one, unless its arguments are wrong. *)
AutoDiscoverJoined ==
    /\ main = "joining" /\ auto = "ended"
    /\ main' = "prompt"
    /\ StartAuto \/ (auto' = "none" /\ UNCHANGED <<running, left>>)
    /\ UNCHANGED <<lines, wire, batch, acks, drone, by>>

EndOfInput ==
    /\ main = "prompt"
    /\ running' = FALSE
    /\ main' = IF auto = "none" THEN "closed" ELSE "closing"
    /\ UNCHANGED <<auto, left, lines, wire, batch, acks, drone, by>>

Closed ==
    /\ main = "closing" /\ auto = "ended"
    /\ main' = "closed"
    /\ UNCHANGED <<auto, running, left, lines, wire, batch, acks, drone, by>>

--------------------------------------------------------------------------
(* The auto-discover thread *)

AutoSends ==
    /\ auto = "ready" /\ running /\ left > 0
    /\ Send("auto")
    /\ auto' = "waiting"
    /\ UNCHANGED <<main, running, left, lines, batch, acks, drone>>

AutoStops ==
    /\ auto = "ready" /\ ~(running /\ left > 0)
    /\ auto' = "ended"
    /\ UNCHANGED <<main, running, left, lines, wire, batch, acks, drone, by>>

OneLessMutant(count) == count - 2

(* ++sent stands in the message that is printed. *)
OneLess(count) == count - 1

AutoReturns ==
    /\ auto = "waiting"
    /\ Receive
    /\ left' = OneLess(left)
    /\ auto' = IF OneLess(left) = 0 THEN "ended" ELSE "asleep"
    /\ UNCHANGED <<main, running, lines, wire, batch, drone, by>>

AutoWakes ==
    /\ auto = "asleep"
    /\ auto' = "ready"
    /\ UNCHANGED <<main, running, left, lines, wire, batch, acks, drone, by>>

--------------------------------------------------------------------------
(* IPCServer::handleClient with handleIPCMessage, and the dispatcher *)

Pushed(message) == Append(queue, message)

ServerReads ==
    /\ batch = <<>> /\ wire # <<>>
    /\ batch' = wire
    /\ wire' = <<>>
    /\ queue' = Pushed(wire)
    /\ UNCHANGED <<client, acks, by, handled, lost>>

AnsweredMutant(message) == IF Len(message) = 1 THEN acks + 1 ELSE acks

AnsweredTwiceMutant(message) == acks + 2

Answered(message) == acks + 1

ServerAnswers ==
    /\ batch # <<>>
    /\ acks' = Answered(batch)
    /\ batch' = <<>>
    /\ UNCHANGED <<client, wire, drone, by>>

ClientResponseThread ==
    /\ queue # <<>>
    /\ queue' = Tail(queue)
    /\ LET message == Head(queue) IN
       IF Len(message) = 1
       THEN handled' = handled \o message /\ UNCHANGED lost
       ELSE lost' = lost \cup {message[i] : i \in 1..Len(message)} /\ UNCHANGED handled
    /\ UNCHANGED <<client, wire, batch, acks, by>>

--------------------------------------------------------------------------
Next ==
    \/ Command \/ CommandReturns \/ AutoDiscover \/ AutoDiscoverJoined
    \/ EndOfInput \/ Closed
    \/ AutoSends \/ AutoStops \/ AutoReturns \/ AutoWakes
    \/ ServerReads \/ ServerAnswers \/ ClientResponseThread

Spec == Init /\ [][Next]_vars

(* Threads that can go on do; nothing is assumed of the input.             *)
FairSpec ==
    /\ Spec
    /\ WF_vars(CommandReturns) /\ WF_vars(AutoDiscoverJoined) /\ WF_vars(Closed)
    /\ WF_vars(AutoSends) /\ WF_vars(AutoStops) /\ WF_vars(AutoReturns)
    /\ WF_vars(AutoWakes)
    /\ WF_vars(ServerReads) /\ WF_vars(ServerAnswers) /\ WF_vars(ClientResponseThread)

--------------------------------------------------------------------------
(* Properties *)

Count(condition) == IF condition THEN 1 ELSE 0

Waiters == Count(main = "waiting") + Count(auto = "waiting")

(* Answers read, in the server, or owed for what is on the wire *)
Coming == acks + Count(batch # <<>>) + Count(wire # <<>>)

(* auto-discover has not sent anything yet. *)
Alone == \A i \in 1..Len(by) : by[i] = "main"

(* Every variable is of its type; what is under way has been sent.         *)
TypeOK ==
    /\ main \in {"prompt", "waiting", "joining", "closing", "closed"}
    /\ auto \in {"none", "ready", "waiting", "asleep", "ended"}
    /\ running \in BOOLEAN
    /\ left \in 0..MaxCount
    /\ lines \in 0..MaxLines
    /\ acks \in Nat
    /\ by \in Seq({"main", "auto"})
    /\ wire \in Seq(1..Len(by))
    /\ batch \in Seq(1..Len(by))
    /\ queue \in Seq(Seq(1..Len(by)))
    /\ handled \in Seq(1..Len(by))
    /\ lost \subseteq 1..Len(by)

(* There are never more answers than threads that wait for one: no answer  *)
(* is left in the socket, to be taken later for that to another command.   *)
NoStaleAnswer == Coming <= Waiters

(* The threads take each other's answers, and one may wait for an answer   *)
(* the other has swallowed, but never both: when both wait, an answer is   *)
(* still to come.                                                          *)
NeverBothForgotten == Waiters = 2 => Coming > 0

(* What the drone does, it does in the order of the commands, and nothing  *)
(* twice, whatever is lost in between.                                     *)
InOrder == \A i, j \in 1..Len(handled) : i < j => handled[i] < handled[j]

(* A read of the server never finds more than two commands, although a     *)
(* thread that has read the other's answer may send again before its last  *)
(* command is read: what is read together fits the buffer.                 *)
ReadFits == Len(wire) <= 2

(* A terminal in which auto-discover is not used loses no command; with it *)
(* a lost command is always lost together with another one.                *)
LostInPairs ==
    /\ Alone => lost = {}
    /\ \A c \in lost : c + 1 \in lost \/ c - 1 \in lost

(* When both threads wait, one of them goes on in the end; when there is   *)
(* only the main thread and never was another, it does.                    *)
OneGoesOn ==
    /\ Waiters = 2 ~> Waiters < 2
    /\ main = "waiting" /\ Alone ~> main # "waiting" \/ ~Alone
=============================================================================
