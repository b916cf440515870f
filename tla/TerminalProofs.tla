--------------------------- MODULE TerminalProofs ---------------------------
(* Proofs about Terminal, for any bounds of input and count.               *)
EXTENDS Terminal, TLAPS

(* What is under way has been sent: commands on the wire are counted one   *)
(* by one here, for each of them keeps a thread waiting.  NoStaleAnswer    *)
(* and ReadFits are two weaker views of this.                              *)
Owed == Len(wire) + acks + Count(batch # <<>>) <= Waiters

(* Numbers grow from what is handled over what is queued to the wire.      *)
Ordered ==
    /\ InOrder
    /\ \A i \in 1..Len(handled), j \in 1..Len(queue) :
          \A k \in 1..Len(queue[j]) : handled[i] < queue[j][k]
    /\ \A i, j \in 1..Len(queue) : i < j =>
          \A k \in 1..Len(queue[i]), l \in 1..Len(queue[j]) : queue[i][k] < queue[j][l]
    /\ \A i \in 1..Len(handled), j \in 1..Len(wire) : handled[i] < wire[j]
    /\ \A i \in 1..Len(queue), j \in 1..Len(wire) :
          \A k \in 1..Len(queue[i]) : queue[i][k] < wire[j]

(* A sequence over the commands sent stays one when another is sent.       *)
LEMMA Wider ==
    ASSUME NEW n \in Nat
    PROVE  /\ \A s \in Seq(1..n) : s \in Seq(1..n + 1)
           /\ \A s \in Seq(Seq(1..n)) : s \in Seq(Seq(1..n + 1))
<1>1. ASSUME NEW s \in Seq(1..n) PROVE s \in Seq(1..n + 1)
  OBVIOUS
<1>2. ASSUME NEW s \in Seq(Seq(1..n)) PROVE s \in Seq(Seq(1..n + 1))
  BY <1>1
<1> QED
  BY <1>1, <1>2

(* Sending adds the next number to the wire, whichever thread sends.       *)
LEMMA SendType ==
    ASSUME TypeOK, NEW thread \in {"main", "auto"}, Send(thread)
    PROVE  /\ by' \in Seq({"main", "auto"})
           /\ Len(by') = Len(by) + 1
           /\ wire' \in Seq(1..Len(by'))
           /\ batch \in Seq(1..Len(by'))
           /\ queue \in Seq(Seq(1..Len(by')))
           /\ handled \in Seq(1..Len(by'))
           /\ lost \subseteq 1..Len(by')
<1>1. by' \in Seq({"main", "auto"}) /\ Len(by') = Len(by) + 1
  BY DEF TypeOK, Send
<1>2. Len(by) \in Nat
  BY DEF TypeOK
<1>3. /\ wire \in Seq(1..Len(by) + 1) /\ batch \in Seq(1..Len(by) + 1)
      /\ handled \in Seq(1..Len(by) + 1) /\ queue \in Seq(Seq(1..Len(by) + 1))
  BY <1>2, Wider DEF TypeOK
<1>4. wire' \in Seq(1..Len(by'))
  BY <1>1, <1>2, <1>3 DEF Send
<1>5. lost \subseteq 1..Len(by')
  BY <1>1, <1>2 DEF TypeOK
<1> QED
  BY <1>1, <1>3, <1>4, <1>5

(* A thread that waits for an answer has a command left to count.          *)
TypeInv == TypeOK /\ (auto = "waiting" => left > 0)

LEMMA TypeInit == Init => TypeInv
<1> SUFFICES ASSUME Init PROVE TypeInv
  OBVIOUS
<1>1. by = <<>> /\ Len(by) = 0
  BY DEF Init
<1>2. /\ by \in Seq({"main", "auto"}) /\ wire \in Seq(1..Len(by)) /\ batch \in Seq(1..Len(by))
      /\ queue \in Seq(Seq(1..Len(by))) /\ handled \in Seq(1..Len(by))
  BY DEF Init
<1>3. left \in 0..MaxCount /\ lines \in 0..MaxLines
  BY TerminalAssumption DEF Init, TerminalAssumption
<1> QED
  BY <1>2, <1>3 DEF Init, TypeOK, TypeInv

LEMMA TypeStep == TypeInv /\ [Next]_vars => TypeInv'
<1> SUFFICES ASSUME TypeInv, [Next]_vars PROVE TypeInv'
  OBVIOUS
<1>a. MaxLines \in Nat /\ MaxCount \in Nat
  BY TerminalAssumption DEF TerminalAssumption
<1> USE <1>a DEF TypeInv, TypeOK, ReadLine, Receive, client, drone
<1>1. CASE Command
  BY <1>1, SendType DEF Command, AfterSend
<1>2. CASE CommandReturns
  BY <1>2 DEF CommandReturns
<1>b. ASSUME StartAuto
      PROVE  auto' = "ready" /\ running' = TRUE /\ left' \in 0..MaxCount
  BY <1>b DEF StartAuto
<1>3. CASE AutoDiscover
  <2>1. lines' \in 0..MaxLines /\ UNCHANGED <<wire, batch, acks, drone, by>>
    BY <1>3 DEF AutoDiscover
  <2>2. CASE auto = "none"
    BY <1>3, <2>1, <2>2, <1>b DEF AutoDiscover
  <2>3. CASE auto # "none"
    BY <1>3, <2>1, <2>3 DEF AutoDiscover
  <2> QED
    BY <2>2, <2>3
<1>4. CASE AutoDiscoverJoined
  <2>1. UNCHANGED <<lines, wire, batch, acks, drone, by>> /\ main' = "prompt"
    BY <1>4 DEF AutoDiscoverJoined
  <2>2. CASE StartAuto
    BY <2>1, <2>2, <1>b
  <2>3. CASE auto' = "none" /\ UNCHANGED <<running, left>>
    BY <2>1, <2>3
  <2> QED
    BY <1>4, <2>2, <2>3 DEF AutoDiscoverJoined
<1>5. CASE EndOfInput
  <2>1. main' \in {"closed", "closing"} /\ UNCHANGED <<auto, left, lines, wire, batch, acks, drone, by>>
    BY <1>5 DEF EndOfInput
  <2> QED
    BY <1>5, <2>1 DEF EndOfInput
<1>6. CASE Closed
  BY <1>6 DEF Closed
<1>7. CASE AutoSends
  BY <1>7, SendType DEF AutoSends
<1>8. CASE AutoStops
  BY <1>8 DEF AutoStops
<1>9. CASE AutoReturns
  BY <1>9 DEF AutoReturns, OneLess
<1>10. CASE AutoWakes
  BY <1>10 DEF AutoWakes
<1>11. CASE ServerReads
  BY <1>11 DEF ServerReads, Pushed
<1>12. CASE ServerAnswers
  BY <1>12 DEF ServerAnswers, Answered
<1>13. CASE ClientResponseThread
  <2> DEFINE message == Head(queue)
  <2>1. message \in Seq(1..Len(by)) /\ queue' \in Seq(Seq(1..Len(by)))
    BY <1>13 DEF ClientResponseThread
  <2> HIDE DEF message
  <2>2. CASE Len(message) = 1
    <3>1. handled' = handled \o message /\ lost' = lost
      BY <1>13, <2>2 DEF ClientResponseThread, message
    <3>2. handled' \in Seq(1..Len(by))
      BY <2>1, <3>1
    <3> QED
      BY <1>13, <2>1, <3>1, <3>2 DEF ClientResponseThread
  <2>3. CASE Len(message) # 1
    <3>1. handled' = handled /\ lost' = lost \cup {message[i] : i \in 1..Len(message)}
      BY <1>13, <2>3 DEF ClientResponseThread, message
    <3>2. \A i \in 1..Len(message) : message[i] \in 1..Len(by)
      BY <2>1
    <3>3. lost' \subseteq 1..Len(by)
      BY <3>1, <3>2
    <3> QED
      BY <1>13, <2>1, <3>1, <3>3 DEF ClientResponseThread
  <2> QED
    BY <2>2, <2>3
<1>14. CASE UNCHANGED vars
  BY <1>14 DEF vars
<1> QED
  BY <1>1, <1>2, <1>3, <1>4, <1>5, <1>6, <1>7, <1>8, <1>9, <1>10, <1>11, <1>12,
     <1>13, <1>14 DEF Next

LEMMA TypeInvariant == Spec => []TypeInv
<1> QED
  BY TypeInit, TypeStep, PTL DEF Spec

(* Every variable is of its type, and what is under way has been sent.     *)
THEOREM TypeCorrect == Spec => []TypeOK
<1>1. TypeInv => TypeOK
  BY DEF TypeInv
<1> QED
  BY <1>1, TypeInvariant, PTL

(***************************************************************************)
(* Answers: NoStaleAnswer, ReadFits, NeverBothForgotten                    *)
(***************************************************************************)

LEMMA OwedInit == Init => Owed
  BY DEF Init, Owed, Count, Waiters

LEMMA OwedStep == TypeInv /\ Owed /\ [Next]_vars => Owed'
<1> SUFFICES ASSUME TypeInv, Owed, [Next]_vars PROVE Owed'
  OBVIOUS
<1> USE DEF TypeInv, TypeOK, Owed, Waiters, Count, client, drone
<1>1. CASE Command
  BY <1>1 DEF Command, AfterSend, Send, ReadLine
<1>2. CASE CommandReturns
  BY <1>2 DEF CommandReturns, Receive
<1>3. CASE AutoDiscover
  BY <1>3 DEF AutoDiscover, StartAuto, ReadLine
<1>4. CASE AutoDiscoverJoined
  BY <1>4 DEF AutoDiscoverJoined, StartAuto
<1>5. CASE EndOfInput
  BY <1>5 DEF EndOfInput
<1>6. CASE Closed
  BY <1>6 DEF Closed
<1>7. CASE AutoSends
  BY <1>7 DEF AutoSends, Send
<1>8. CASE AutoStops
  BY <1>8 DEF AutoStops
<1>9. CASE AutoReturns
  BY <1>9 DEF AutoReturns, Receive
<1>10. CASE AutoWakes
  BY <1>10 DEF AutoWakes
<1>11. CASE ServerReads
  BY <1>11 DEF ServerReads
<1>12. CASE ServerAnswers
  BY <1>12 DEF ServerAnswers, Answered
<1>13. CASE ClientResponseThread
  BY <1>13 DEF ClientResponseThread
<1>14. CASE UNCHANGED vars
  BY <1>14 DEF vars
<1> QED
  BY <1>1, <1>2, <1>3, <1>4, <1>5, <1>6, <1>7, <1>8, <1>9, <1>10, <1>11, <1>12,
     <1>13, <1>14 DEF Next

(* The commands on the wire and the answers due are no more than the       *)
(* threads that wait.                                                      *)
LEMMA OwedInvariant == Spec => []Owed
<1> QED
  BY OwedInit, OwedStep, TypeInvariant, PTL DEF Spec

(* No answer is ever left for a thread that has not asked.                 *)
THEOREM NoAnswerLeft == Spec => []NoStaleAnswer
<1>1. TypeInv /\ Owed => NoStaleAnswer
  BY DEF TypeInv, TypeOK, Owed, NoStaleAnswer, Coming, Count, Waiters
<1> QED
  BY <1>1, TypeInvariant, OwedInvariant, PTL

(* The server never reads more than two commands at once.                  *)
THEOREM ReadAlwaysFits == Spec => []ReadFits
<1>1. ASSUME TypeInv, Owed PROVE ReadFits
  <2>1. Len(wire) \in Nat /\ acks \in Nat
    BY <1>1 DEF TypeInv, TypeOK
  <2>2. Waiters \in 0..2 /\ Count(batch # <<>>) \in {0, 1}
    BY DEF Waiters, Count
  <2> QED
    BY <1>1, <2>1, <2>2 DEF Owed, ReadFits
<1> QED
  BY <1>1, TypeInvariant, OwedInvariant, PTL

(* The two threads are never both left without an answer to come: a thread *)
(* that begins to wait puts a command on the wire, which becomes an answer *)
(* that only a thread that stops waiting takes away.                       *)
LEMMA ForgottenStep == TypeInv /\ NeverBothForgotten /\ [Next]_vars => NeverBothForgotten'
<1> SUFFICES ASSUME TypeInv, NeverBothForgotten, [Next]_vars PROVE NeverBothForgotten'
  OBVIOUS
<1> USE DEF TypeInv, TypeOK, NeverBothForgotten, Coming, Waiters, Count, client, drone
<1>a. ASSUME NEW thread, Send(thread) PROVE wire' # <<>>
  <2>1. wire' = Append(wire, Len(by) + 1) /\ Len(wire) \in Nat
    BY <1>a DEF Send
  <2>2. Len(wire') = Len(wire) + 1
    BY <2>1
  <2>3. Len(wire') # 0
    BY <2>1, <2>2
  <2> QED
    BY <2>3
<1>b. acks \in Nat
  OBVIOUS
<1>1. CASE Command
  <2>1. wire' # <<>> /\ UNCHANGED <<acks, batch>>
    BY <1>1, <1>a DEF Command
  <2> QED
    BY <2>1, <1>b
<1>2. CASE CommandReturns
  BY <1>2 DEF CommandReturns, Receive
<1>3. CASE AutoDiscover
  BY <1>3 DEF AutoDiscover, StartAuto, ReadLine
<1>4. CASE AutoDiscoverJoined
  BY <1>4 DEF AutoDiscoverJoined, StartAuto
<1>5. CASE EndOfInput
  BY <1>5 DEF EndOfInput
<1>6. CASE Closed
  BY <1>6 DEF Closed
<1>7. CASE AutoSends
  <2>1. wire' # <<>> /\ UNCHANGED <<acks, batch>>
    BY <1>7, <1>a DEF AutoSends
  <2> QED
    BY <2>1, <1>b
<1>8. CASE AutoStops
  BY <1>8 DEF AutoStops
<1>9. CASE AutoReturns
  BY <1>9 DEF AutoReturns, Receive
<1>10. CASE AutoWakes
  BY <1>10 DEF AutoWakes
<1>11. CASE ServerReads
  BY <1>11 DEF ServerReads
<1>12. CASE ServerAnswers
  BY <1>12 DEF ServerAnswers, Answered
<1>13. CASE ClientResponseThread
  BY <1>13 DEF ClientResponseThread
<1>14. CASE UNCHANGED vars
  BY <1>14 DEF vars
<1> QED
  BY <1>1, <1>2, <1>3, <1>4, <1>5, <1>6, <1>7, <1>8, <1>9, <1>10, <1>11, <1>12,
     <1>13, <1>14 DEF Next

(* Of two threads that wait one has an answer coming.                      *)
THEOREM OneIsAlwaysAnswered == Spec => []NeverBothForgotten
<1>1. Init => NeverBothForgotten
  BY DEF Init, NeverBothForgotten, Waiters, Count
<1> QED
  BY <1>1, ForgottenStep, TypeInvariant, PTL DEF Spec

(***************************************************************************)
(* Order                                                                   *)
(***************************************************************************)

(* The next command has a number beyond all that are under way.            *)
LEMMA SendOrdered ==
    ASSUME TypeInv, Ordered, NEW thread \in {"main", "auto"}, Send(thread),
           UNCHANGED <<queue, handled>>
    PROVE  Ordered'
<1>1. Len(by) \in Nat /\ Len(wire) \in Nat
  BY DEF TypeInv, TypeOK
<1>2. Len(wire') = Len(wire) + 1
  BY DEF Send, TypeInv, TypeOK
<1>3. ASSUME NEW j \in 1..Len(wire')
      PROVE  wire'[j] = IF j <= Len(wire) THEN wire[j] ELSE Len(by) + 1
  BY <1>2, <1>1 DEF Send, TypeInv, TypeOK
<1>4. ASSUME NEW i \in 1..Len(handled) PROVE handled[i] \in 1..Len(by)
  BY DEF TypeInv, TypeOK
<1>5. ASSUME NEW i \in 1..Len(queue), NEW k \in 1..Len(queue[i])
      PROVE  queue[i][k] \in 1..Len(by)
  <2>1. queue[i] \in Seq(1..Len(by))
    BY DEF TypeInv, TypeOK
  <2> QED
    BY <2>1
<1>6. ASSUME NEW i \in 1..Len(handled), NEW j \in 1..Len(wire')
      PROVE  handled[i] < wire'[j]
  <2>1. CASE j <= Len(wire)
    <3>1. j \in 1..Len(wire)
      BY <2>1, <1>1, <1>2
    <3> QED
      BY <3>1, <2>1, <1>3 DEF Ordered
  <2>2. CASE ~(j <= Len(wire))
    BY <2>2, <1>1, <1>3, <1>4
  <2> QED
    BY <2>1, <2>2
<1>7. ASSUME NEW i \in 1..Len(queue), NEW k \in 1..Len(queue[i]), NEW j \in 1..Len(wire')
      PROVE  queue[i][k] < wire'[j]
  <2>1. CASE j <= Len(wire)
    <3>1. j \in 1..Len(wire)
      BY <2>1, <1>1, <1>2
    <3> QED
      BY <3>1, <2>1, <1>3 DEF Ordered
  <2>2. CASE ~(j <= Len(wire))
    BY <2>2, <1>1, <1>3, <1>5
  <2> QED
    BY <2>1, <2>2
<1>8. UNCHANGED <<queue, handled>>
  OBVIOUS
<1>9. InOrder'
  BY <1>8 DEF Ordered, InOrder
<1>10. /\ \A i \in 1..Len(handled), j \in 1..Len(queue) :
            \A k \in 1..Len(queue[j]) : handled[i] < queue[j][k]
       /\ \A i, j \in 1..Len(queue) : i < j =>
            \A k \in 1..Len(queue[i]), l \in 1..Len(queue[j]) : queue[i][k] < queue[j][l]
  BY DEF Ordered
<1>11. \A i \in 1..Len(handled'), j \in 1..Len(wire') : handled'[i] < wire'[j]
  BY <1>6, <1>8
<1>12. \A i \in 1..Len(queue'), j \in 1..Len(wire') :
          \A k \in 1..Len(queue'[i]) : queue'[i][k] < wire'[j]
  BY <1>7, <1>8
<1> QED
  BY <1>8, <1>9, <1>10, <1>11, <1>12, Zenon DEF Ordered

(* What is read goes behind all that is queued.                            *)
LEMMA ReadOrdered == ASSUME TypeInv, Ordered, ServerReads PROVE Ordered'
<1>1. queue' = Append(queue, wire) /\ wire' = <<>> /\ handled' = handled
  BY DEF ServerReads, Pushed
<1>2. Len(queue) \in Nat /\ Len(queue') = Len(queue) + 1 /\ Len(wire') = 0
  BY <1>1 DEF TypeInv, TypeOK
<1>3. ASSUME NEW i \in 1..Len(queue')
      PROVE  queue'[i] = IF i <= Len(queue) THEN queue[i] ELSE wire
  <2> DEFINE S == Seq(1..Len(by))
  <2>1. queue \in Seq(S) /\ wire \in S
    BY DEF TypeInv, TypeOK
  <2> HIDE DEF S
  <2> QED
    BY <2>1, <1>1, <1>2
<1>4. InOrder'
  BY <1>1 DEF Ordered, InOrder
<1>5. ASSUME NEW i \in 1..Len(handled'), NEW j \in 1..Len(queue'),
             NEW k \in 1..Len(queue'[j])
      PROVE  handled'[i] < queue'[j][k]
  <2>1. CASE j <= Len(queue)
    <3>1. j \in 1..Len(queue) /\ queue'[j] = queue[j]
      BY <2>1, <1>2, <1>3
    <3> QED
      BY <3>1, <1>1 DEF Ordered
  <2>2. CASE ~(j <= Len(queue))
    BY <2>2, <1>1, <1>3 DEF Ordered
  <2> QED
    BY <2>1, <2>2
<1>6. ASSUME NEW i \in 1..Len(queue'), NEW j \in 1..Len(queue'), i < j,
             NEW k \in 1..Len(queue'[i]), NEW l \in 1..Len(queue'[j])
      PROVE  queue'[i][k] < queue'[j][l]
  <2>1. i \in 1..Len(queue) /\ queue'[i] = queue[i]
    BY <1>6, <1>2, <1>3
  <2>2. CASE j <= Len(queue)
    <3>1. j \in 1..Len(queue) /\ queue'[j] = queue[j]
      BY <2>2, <1>2, <1>3
    <3> QED
      BY <1>6, <2>1, <3>1 DEF Ordered
  <2>3. CASE ~(j <= Len(queue))
    BY <2>3, <2>1, <1>3 DEF Ordered
  <2> QED
    BY <2>2, <2>3
<1> QED
  BY <1>2, <1>4, <1>5, <1>6 DEF Ordered

(* The dispatcher takes the oldest message.                                *)
LEMMA DispatchOrdered ==
    ASSUME TypeInv, Ordered, ClientResponseThread PROVE Ordered'
<1>1. queue # <<>> /\ queue' = Tail(queue) /\ wire' = wire
  BY DEF ClientResponseThread
<1>2. Len(queue) \in Nat /\ Len(queue) >= 1 /\ Len(queue') = Len(queue) - 1
  BY <1>1 DEF TypeInv, TypeOK
<1>3. ASSUME NEW i \in 1..Len(queue')
      PROVE  queue'[i] = queue[i + 1] /\ i + 1 \in 1..Len(queue)
  BY <1>1, <1>2 DEF TypeInv, TypeOK
<1>4. Head(queue) = queue[1] /\ 1 \in 1..Len(queue)
  BY <1>1, <1>2 DEF TypeInv, TypeOK
<1>5. ASSUME NEW i \in 1..Len(queue'), NEW j \in 1..Len(queue'), i < j,
             NEW k \in 1..Len(queue'[i]), NEW l \in 1..Len(queue'[j])
      PROVE  queue'[i][k] < queue'[j][l]
  <2>1. i + 1 < j + 1
    BY <1>5
  <2> QED
    BY <2>1, <1>3 DEF Ordered
<1>6. ASSUME NEW i \in 1..Len(queue'), NEW k \in 1..Len(queue'[i]), NEW j \in 1..Len(wire')
      PROVE  queue'[i][k] < wire'[j]
  BY <1>1, <1>3 DEF Ordered
<1>7. CASE Len(Head(queue)) # 1
  <2>1. handled' = handled
    BY <1>7 DEF ClientResponseThread
  <2>2. ASSUME NEW i \in 1..Len(handled'), NEW j \in 1..Len(queue'),
               NEW k \in 1..Len(queue'[j])
        PROVE  handled'[i] < queue'[j][k]
    BY <2>1, <1>3 DEF Ordered
  <2> QED
    BY <2>1, <2>2, <1>1, <1>5, <1>6 DEF Ordered, InOrder
<1>8. CASE Len(Head(queue)) = 1
  <2> DEFINE c == queue[1][1]
  <2>1. Len(queue[1]) = 1 /\ 1 \in 1..Len(queue[1])
    BY <1>4, <1>8
  <2>2. handled' = handled \o queue[1]
    BY <1>4, <1>8 DEF ClientResponseThread
  <2>3. Len(handled) \in Nat /\ Len(handled') = Len(handled) + 1
    <3>1. queue[1] \in Seq(1..Len(by)) /\ handled \in Seq(1..Len(by))
      BY <1>4 DEF TypeInv, TypeOK
    <3> DEFINE S == 1..Len(by)
    <3>2. queue[1] \in Seq(S) /\ handled \in Seq(S)
      BY <3>1
    <3> HIDE DEF S
    <3>3. Len(handled \o queue[1]) = Len(handled) + Len(queue[1])
      BY <3>2
    <3> QED
      BY <2>1, <2>2, <3>2, <3>3
  <2>4. ASSUME NEW i \in 1..Len(handled')
        PROVE  handled'[i] = IF i <= Len(handled) THEN handled[i] ELSE c
    <3>1. queue[1] \in Seq(1..Len(by)) /\ handled \in Seq(1..Len(by))
      BY <1>4 DEF TypeInv, TypeOK
    <3> QED
      BY <2>1, <2>2, <2>3, <3>1
  <2>5. \A i \in 1..Len(handled) : handled[i] < c
    BY <1>4, <2>1 DEF Ordered
  <2> HIDE DEF c
  <2>6. InOrder'
    <3> SUFFICES ASSUME NEW i \in 1..Len(handled'), NEW j \in 1..Len(handled'), i < j
                 PROVE  handled'[i] < handled'[j]
      BY DEF InOrder
    <3>1. i \in 1..Len(handled) /\ handled'[i] = handled[i]
      BY <2>3, <2>4
    <3>2. CASE j <= Len(handled)
      <4>1. j \in 1..Len(handled) /\ handled'[j] = handled[j]
        BY <3>2, <2>3, <2>4
      <4> QED
        BY <3>1, <4>1 DEF Ordered, InOrder
    <3>3. CASE ~(j <= Len(handled))
      BY <3>1, <3>3, <2>4, <2>5
    <3> QED
      BY <3>2, <3>3
  <2>7. ASSUME NEW i \in 1..Len(handled'), NEW j \in 1..Len(queue'),
               NEW k \in 1..Len(queue'[j])
        PROVE  handled'[i] < queue'[j][k]
    <3>1. CASE i <= Len(handled)
      <4>1. i \in 1..Len(handled) /\ handled'[i] = handled[i]
        BY <3>1, <2>3, <2>4
      <4> QED
        BY <4>1, <1>3 DEF Ordered
    <3>2. CASE ~(i <= Len(handled))
      <4>1. handled'[i] = c /\ 1 < j + 1
        BY <3>2, <2>4
      <4> QED
        BY <4>1, <2>1, <1>3, <1>4 DEF Ordered, c
    <3> QED
      BY <3>1, <3>2
  <2>8. ASSUME NEW i \in 1..Len(handled'), NEW j \in 1..Len(wire')
        PROVE  handled'[i] < wire'[j]
    <3>1. CASE i <= Len(handled)
      <4>1. i \in 1..Len(handled) /\ handled'[i] = handled[i]
        BY <3>1, <2>3, <2>4
      <4> QED
        BY <4>1, <1>1 DEF Ordered
    <3>2. CASE ~(i <= Len(handled))
      BY <3>2, <2>4, <2>1, <1>1, <1>4 DEF Ordered, c
    <3> QED
      BY <3>1, <3>2
  <2> QED
    BY <1>5, <1>6, <2>6, <2>7, <2>8 DEF Ordered
<1> QED
  BY <1>7, <1>8

LEMMA OrderedStep == TypeInv /\ Ordered /\ [Next]_vars => Ordered'
<1> SUFFICES ASSUME TypeInv, Ordered, [Next]_vars PROVE Ordered'
  OBVIOUS
<1>1. ASSUME UNCHANGED <<wire, queue, handled>> PROVE Ordered'
  BY <1>1 DEF Ordered, InOrder
<1>2. CASE Command
  BY <1>2, SendOrdered DEF Command, drone
<1>3. CASE AutoSends
  BY <1>3, SendOrdered DEF AutoSends, drone
<1>4. CASE ServerReads
  BY <1>4, ReadOrdered
<1>5. CASE ClientResponseThread
  BY <1>5, DispatchOrdered
<1>6. CASE CommandReturns \/ AutoDiscover \/ AutoDiscoverJoined \/ EndOfInput \/ Closed
  BY <1>6, <1>1 DEF CommandReturns, AutoDiscover, AutoDiscoverJoined, EndOfInput, Closed, drone
<1>7. CASE AutoStops \/ AutoReturns \/ AutoWakes \/ ServerAnswers
  BY <1>7, <1>1 DEF AutoStops, AutoReturns, AutoWakes, ServerAnswers, drone
<1>8. CASE UNCHANGED vars
  BY <1>8, <1>1 DEF vars, drone
<1> QED
  BY <1>2, <1>3, <1>4, <1>5, <1>6, <1>7, <1>8 DEF Next

(* Commands are handled in the order in which they were sent, none twice.  *)
THEOREM OrderKept == Spec => []InOrder
<1>1. Init => Ordered
  BY DEF Init, Ordered, InOrder
<1>2. Ordered => InOrder
  BY DEF Ordered
<1> QED
  BY <1>1, <1>2, OrderedStep, TypeInvariant, PTL DEF Spec

(***************************************************************************)
(* Loss                                                                    *)
(***************************************************************************)

(* Commands in one message have numbers in a row. *)
InARow(message) == \A i, j \in 1..Len(message) : message[j] - message[i] = j - i

(* The wire holds the commands sent last, a message in the queue some that *)
(* follow each other.  While auto-discover has sent nothing, its thread    *)
(* does not wait and no message has two commands.                          *)
LossInv ==
    /\ \A i \in 1..Len(wire) : wire[i] = Len(by) - Len(wire) + i
    /\ \A i \in 1..Len(queue) : InARow(queue[i])
    /\ Alone => auto # "waiting" /\ \A i \in 1..Len(queue) : Len(queue[i]) <= 1
    /\ LostInPairs

(* A command that is sent gets the number after that of the last one.      *)
LEMMA SendInARow ==
    ASSUME TypeInv, LossInv, NEW thread \in {"main", "auto"}, Send(thread),
           UNCHANGED <<queue, lost>>
    PROVE  /\ \A i \in 1..Len(wire') : wire'[i] = Len(by') - Len(wire') + i
           /\ Alone' => Alone /\ thread = "main"
<1>1. Len(by) \in Nat /\ Len(wire) \in Nat
  BY DEF TypeInv, TypeOK
<1>2. Len(wire') = Len(wire) + 1 /\ Len(by') = Len(by) + 1
  BY DEF Send, TypeInv, TypeOK
<1>3. ASSUME NEW i \in 1..Len(wire')
      PROVE  wire'[i] = IF i <= Len(wire) THEN wire[i] ELSE Len(by) + 1
  BY <1>2, <1>1 DEF Send, TypeInv, TypeOK
<1>4. ASSUME NEW i \in 1..Len(by')
      PROVE  by'[i] = IF i <= Len(by) THEN by[i] ELSE thread
  BY <1>2, <1>1 DEF Send, TypeInv, TypeOK
<1>5. ASSUME NEW i \in 1..Len(wire') PROVE wire'[i] = Len(by') - Len(wire') + i
  <2>1. CASE i <= Len(wire)
    <3>1. i \in 1..Len(wire)
      BY <2>1, <1>1, <1>2
    <3>2. wire[i] = Len(by) - Len(wire) + i
      BY <3>1 DEF LossInv
    <3> QED
      BY <2>1, <3>2, <1>1, <1>2, <1>3
  <2>2. CASE ~(i <= Len(wire))
    BY <2>2, <1>1, <1>2, <1>3
  <2> QED
    BY <2>1, <2>2
<1>6. Alone' => Alone /\ thread = "main"
  <2> SUFFICES ASSUME Alone' PROVE Alone /\ thread = "main"
    OBVIOUS
  <2>1. ASSUME NEW i \in 1..Len(by') PROVE by'[i] = "main"
    BY DEF Alone
  <2>2. thread = "main"
    BY <1>1, <1>2, <1>4, <2>1
  <2>3. ASSUME NEW i \in 1..Len(by) PROVE by[i] = "main"
    <3>1. i \in 1..Len(by') /\ i <= Len(by)
      BY <1>1, <1>2
    <3> QED
      BY <3>1, <1>4, <2>1
  <2> QED
    BY <2>2, <2>3 DEF Alone
<1> QED
  BY <1>5, <1>6

(* What is read together was sent in a row; it is a single command unless  *)
(* both threads wait.                                                      *)
LEMMA ReadInARow == ASSUME TypeInv, Owed, LossInv, ServerReads PROVE LossInv'
<1>1. /\ queue' = Append(queue, wire) /\ wire' = <<>>
      /\ UNCHANGED <<auto, main, by, lost>>
  BY DEF ServerReads, Pushed, client
<1>2. Len(queue) \in Nat /\ Len(queue') = Len(queue) + 1 /\ Len(wire') = 0
  BY <1>1 DEF TypeInv, TypeOK
<1>3. Len(by) \in Nat /\ Len(wire) \in Nat
  BY DEF TypeInv, TypeOK
<1>4. ASSUME NEW i \in 1..Len(queue')
      PROVE  \/ queue'[i] = wire
             \/ i \in 1..Len(queue) /\ queue'[i] = queue[i]
  <2> DEFINE S == Seq(1..Len(by))
  <2>1. queue \in Seq(S) /\ wire \in S
    BY DEF TypeInv, TypeOK
  <2> HIDE DEF S
  <2> QED
    BY <2>1, <1>1, <1>2
<1>5. InARow(wire)
  BY <1>3 DEF LossInv, InARow
<1>6. \A i \in 1..Len(queue') : InARow(queue'[i])
  BY <1>4, <1>5 DEF LossInv
<1>7. Alone => Len(wire) <= 1
  <2>1. Alone => Waiters <= 1
    BY DEF LossInv, Waiters, Count
  <2>2. acks \in Nat /\ Waiters \in Nat /\ Count(batch # <<>>) \in Nat
    BY DEF TypeInv, TypeOK, Waiters, Count
  <2> QED
    BY <2>1, <2>2, <1>3 DEF Owed
<1>8. Alone' => Alone /\ auto' # "waiting" /\ \A i \in 1..Len(queue') : Len(queue'[i]) <= 1
  <2>1. Alone' => Alone
    BY <1>1 DEF Alone
  <2> QED
    BY <2>1, <1>1, <1>4, <1>7 DEF LossInv
<1>9. LostInPairs'
  BY <1>1, <1>8 DEF LossInv, LostInPairs
<1> QED
  BY <1>2, <1>6, <1>8, <1>9 DEF LossInv

(* A message that is dropped takes neighbours along, or none.              *)
LEMMA DispatchInPairs ==
    ASSUME TypeInv, LossInv, ClientResponseThread PROVE LossInv'
<1> SUFFICES ASSUME NEW message, message = Head(queue) PROVE LossInv'
  OBVIOUS
<1>1. /\ queue # <<>> /\ queue' = Tail(queue)
      /\ UNCHANGED <<auto, wire, by>>
  BY DEF ClientResponseThread, client
<1>2. Len(queue) \in Nat /\ Len(queue) >= 1 /\ Len(queue') = Len(queue) - 1
  BY <1>1 DEF TypeInv, TypeOK
<1>3. ASSUME NEW i \in 1..Len(queue')
      PROVE  i + 1 \in 1..Len(queue) /\ queue'[i] = queue[i + 1]
  BY <1>1, <1>2 DEF TypeInv, TypeOK
<1>4. message = queue[1] /\ 1 \in 1..Len(queue)
  BY <1>1, <1>2 DEF TypeInv, TypeOK
<1>5. message \in Seq(1..Len(by)) /\ Len(message) \in Nat
  BY <1>4 DEF TypeInv, TypeOK
<1>6. InARow(message) /\ (Alone => Len(message) <= 1)
  BY <1>4 DEF LossInv
<1>7. Alone' <=> Alone
  BY <1>1 DEF Alone
<1>8. LostInPairs'
  <2>1. CASE Len(message) = 1
    <3>1. lost' = lost
      BY <2>1 DEF ClientResponseThread
    <3> QED
      BY <3>1, <1>7 DEF LossInv, LostInPairs
  <2>2. CASE Len(message) # 1
    <3>1. lost' = lost \cup {message[i] : i \in 1..Len(message)}
      BY <2>2 DEF ClientResponseThread
    <3>2. Alone' => lost' = {}
      <4>1. Alone => Len(message) = 0
        BY <2>2, <1>5, <1>6
      <4>2. Alone => lost = {}
        BY DEF LossInv, LostInPairs
      <4> QED
        BY <4>1, <4>2, <3>1, <1>7
    <3>3. ASSUME NEW i \in 1..Len(message)
          PROVE  message[i] + 1 \in lost' \/ message[i] - 1 \in lost'
      <4>1. PICK j \in 1..Len(message) : j = i + 1 \/ i = j + 1
        <5>a. \A n \in Nat : \A k \in 1..n : n # 1 => n >= 2
          OBVIOUS
        <5>1. Len(message) \in Nat /\ Len(message) >= 2
          BY <2>2, <1>5, <5>a, Zenon
        <5>2. CASE i = 1
          <6>1. 2 \in 1..Len(message) /\ 2 = i + 1
            BY <5>1, <5>2
          <6> QED
            BY <6>1
        <5>3. CASE i # 1
          <6>1. i - 1 \in 1..Len(message) /\ i = (i - 1) + 1
            BY <5>1, <5>3
          <6> QED
            BY <6>1
        <5> QED
          BY <5>2, <5>3
      <4>2. message[j] - message[i] = j - i
        BY <4>1, <1>6 DEF InARow
      <4>3. message[i] \in Nat /\ message[j] \in Nat
        BY <4>1, <1>5
      <4>4. message[j] \in lost'
        BY <4>1, <3>1
      <4>5. message[j] = message[i] + 1 \/ message[j] = message[i] - 1
        BY <4>1, <4>2, <4>3
      <4> QED
        BY <4>4, <4>5
    <3>4. ASSUME NEW c \in lost' PROVE c + 1 \in lost' \/ c - 1 \in lost'
      <4>1. CASE c \in lost
        BY <4>1, <3>1 DEF LossInv, LostInPairs
      <4>2. CASE c \notin lost
        BY <4>2, <3>1, <3>3
      <4> QED
        BY <4>1, <4>2
    <3> QED
      BY <3>2, <3>4 DEF LostInPairs
  <2> QED
    BY <2>1, <2>2
<1>9. \A i \in 1..Len(queue') : InARow(queue'[i])
  BY <1>3 DEF LossInv
<1>10. Alone' => auto' # "waiting" /\ \A i \in 1..Len(queue') : Len(queue'[i]) <= 1
  BY <1>1, <1>3, <1>7 DEF LossInv
<1>11. \A i \in 1..Len(wire') : wire'[i] = Len(by') - Len(wire') + i
  BY <1>1 DEF LossInv
<1> QED
  BY <1>8, <1>9, <1>10, <1>11 DEF LossInv

LEMMA LossStep == TypeInv /\ Owed /\ LossInv /\ [Next]_vars => LossInv'
<1> SUFFICES ASSUME TypeInv, Owed, LossInv, [Next]_vars PROVE LossInv'
  OBVIOUS
<1>1. ASSUME UNCHANGED <<wire, queue, by, lost>>, auto' = "waiting" => auto = "waiting"
      PROVE  LossInv'
  BY <1>1 DEF LossInv, LostInPairs, Alone, InARow
<1>2. ASSUME NEW thread \in {"main", "auto"}, Send(thread), UNCHANGED <<queue, lost>>,
             thread = "main" => auto' = auto
      PROVE  LossInv'
  <2>1. /\ \A i \in 1..Len(wire') : wire'[i] = Len(by') - Len(wire') + i
        /\ Alone' => Alone /\ thread = "main"
    BY <1>2, SendInARow
  <2>2. Alone' => auto' # "waiting" /\ \A i \in 1..Len(queue') : Len(queue'[i]) <= 1
    BY <1>2, <2>1 DEF LossInv
  <2>3. LostInPairs'
    BY <1>2, <2>1 DEF LossInv, LostInPairs
  <2>4. \A i \in 1..Len(queue') : InARow(queue'[i])
    BY <1>2 DEF LossInv
  <2> QED
    BY <2>1, <2>2, <2>3, <2>4 DEF LossInv
<1>3. CASE Command
  BY <1>3, <1>2 DEF Command, drone
<1>4. CASE AutoSends
  BY <1>4, <1>2 DEF AutoSends, drone
<1>5. CASE ServerReads
  BY <1>5, ReadInARow
<1>6. CASE ClientResponseThread
  BY <1>6, DispatchInPairs
<1>7. CASE AutoDiscover \/ AutoDiscoverJoined
  BY <1>7, <1>1 DEF AutoDiscover, AutoDiscoverJoined, StartAuto, drone
<1>8. CASE CommandReturns \/ EndOfInput \/ Closed
  BY <1>8, <1>1 DEF CommandReturns, EndOfInput, Closed, drone
<1>9. CASE AutoStops \/ AutoReturns \/ AutoWakes \/ ServerAnswers
  BY <1>9, <1>1 DEF AutoStops, AutoReturns, AutoWakes, ServerAnswers, drone, client
<1>10. CASE UNCHANGED vars
  BY <1>10, <1>1 DEF vars, drone, client
<1> QED
  BY <1>3, <1>4, <1>5, <1>6, <1>7, <1>8, <1>9, <1>10 DEF Next

(* Without auto-discover no command is lost, and with it none is lost      *)
(* without the one sent before or after it.                                *)
THEOREM AlwaysLostInPairs == Spec => []LostInPairs
<1>1. Init => LossInv
  BY DEF Init, LossInv, InARow, LostInPairs
<1>2. LossInv => LostInPairs
  BY DEF LossInv
<1> QED
  BY <1>1, <1>2, LossStep, TypeInvariant, OwedInvariant, PTL DEF Spec
=============================================================================
