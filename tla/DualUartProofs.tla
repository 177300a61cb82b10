--------------------------- MODULE DualUartProofs ---------------------------
(***************************************************************************)
(* Every message that dual_uart_int prints is terminated, and differs from *)
(* the line that was typed at its end only, for every size of message and  *)
(* queue and every alphabet, although uart1's callback writes its          *)
(* terminators in the other buffer.                                        *)
(***************************************************************************)
EXTENDS DualUart, WellFoundedInduction, TLAPS

\* The last byte of a buffer is never written with a character: it keeps the
\* NUL it was initialised with.
Closed(m) == m \in Message /\ m[MsgSize - 1] = NUL

ClosedInv ==
  /\ rx \in [Uart -> Message]
  /\ pos \in [Uart -> Index]
  /\ queue \in [Uart -> Seq(Message)]
  /\ \A u \in Uart : Closed(rx[u]) /\ Closed(tx[u])
  /\ \A u \in Uart : \A i \in 1 .. Len(queue[u]) : Closed(queue[u][i])
  /\ tx \in [Uart -> Message]

\* Writing NUL anywhere, or a character before the last byte, keeps it.
LEMMA ClosedWrite ==
  ASSUME NEW m, Closed(m), NEW i \in Index, NEW c \in Byte,
         i < MsgSize - 1 \/ c = NUL
  PROVE  Closed([m EXCEPT ![i] = c])
BY DualUartAssumption DEF Closed, Message, Index

\* A line end, which writes NUL in one buffer and queues a copy of one.
LEMMA LineEndStep ==
  ASSUME ClosedInv, NEW u \in Uart, LineEnd(u)
  PROVE  ClosedInv'
<1> DEFINE rxEnd == [rx EXCEPT ![Terminated(u)][pos[u]] = NUL]
<1>1. rx' = rxEnd /\ tx' = tx /\ pos' = [pos EXCEPT ![u] = 0]
  BY DEF LineEnd
<1>2. pos[u] \in Index /\ NUL \in Byte /\ 0 \in Index /\ Terminated(u) \in Uart
  BY DualUartAssumption DEF ClosedInv, Byte, Index, Terminated, Uart
<1>3. rxEnd \in [Uart -> Message] /\ \A v \in Uart : Closed(rxEnd[v])
  <2>1. Closed([rx[Terminated(u)] EXCEPT ![pos[u]] = NUL])
    BY <1>2, ClosedWrite DEF ClosedInv
  <2>2. rxEnd = [rx EXCEPT ![Terminated(u)] =
                   [rx[Terminated(u)] EXCEPT ![pos[u]] = NUL]]
    BY DEF ClosedInv
  <2> QED
    BY <1>2, <2>1, <2>2 DEF ClosedInv, Closed
<1>4. /\ queue' \in [Uart -> Seq(Message)]
      /\ \A v \in Uart : \A i \in 1 .. Len(queue'[v]) : Closed(queue'[v][i])
  <2>1. CASE queue' = queue
    BY <2>1 DEF ClosedInv
  <2>2. CASE queue' = [queue EXCEPT ![u] = Append(@, rxEnd[u])]
    <3> DEFINE m == rxEnd[u]
               q == Append(queue[u], m)
    <3>1. queue[u] \in Seq(Message) /\ Closed(m) /\ m \in Message
      BY <1>3 DEF ClosedInv
    <3>2. queue' = [queue EXCEPT ![u] = q]
      BY <2>2
    <3> HIDE DEF m
    <3>3. /\ q \in Seq(Message)
          /\ \A i \in 1 .. Len(q) :
               \/ i \in 1 .. Len(queue[u]) /\ q[i] = queue[u][i]
               \/ q[i] = m
      BY <3>1
    <3>4. \A i \in 1 .. Len(q) : Closed(q[i])
      BY <3>1, <3>3 DEF ClosedInv
    <3> HIDE DEF q
    <3> QED
      BY <3>2, <3>3, <3>4 DEF ClosedInv
  <2> QED
    BY <2>1, <2>2 DEF LineEnd
<1> QED
  BY <1>1, <1>2, <1>3, <1>4 DEF ClosedInv

\* A character, of which none is stored in the last byte.
LEMMA StoreStep ==
  ASSUME ClosedInv, NEW u \in Uart, NEW c \in Char \cup {End}, Store(u, c)
  PROVE  ClosedInv'
<1>1. CASE pos[u] < MsgSize - 1
  <2>1. pos[u] \in Index /\ pos[u] + 1 \in Index /\ c \in Byte
    BY <1>1, DualUartAssumption DEF ClosedInv, Index, Byte
  <2>2. Closed([rx[u] EXCEPT ![pos[u]] = c])
    BY <1>1, <2>1, ClosedWrite DEF ClosedInv
  <2>3. rx' = [rx EXCEPT ![u] = [rx[u] EXCEPT ![pos[u]] = c]]
    BY <1>1 DEF Store, ClosedInv
  <2>4. pos' \in [Uart -> Index] /\ UNCHANGED <<queue, tx>>
    BY <1>1, <2>1 DEF Store, ClosedInv
  <2> QED
    BY <2>2, <2>3, <2>4 DEF ClosedInv, Closed
<1>2. CASE ~(pos[u] < MsgSize - 1)
  BY <1>2 DEF Store, ClosedInv
<1> QED
  BY <1>1, <1>2

\* A thread takes the first message.
LEMMA GetStep ==
  ASSUME ClosedInv, NEW u \in Uart, Get(u)
  PROVE  ClosedInv'
<1>1. queue[u] \in Seq(Message) /\ queue[u] # <<>>
  BY DEF Get, ClosedInv
<1>2. Closed(Head(queue[u]))
  BY <1>1 DEF ClosedInv
<1>3. /\ Tail(queue[u]) \in Seq(Message)
      /\ \A i \in 1 .. Len(Tail(queue[u])) : Closed(Tail(queue[u])[i])
  BY <1>1 DEF ClosedInv
<1>4. /\ tx' = [tx EXCEPT ![u] = Head(queue[u])]
      /\ queue' = [queue EXCEPT ![u] = Tail(queue[u])]
      /\ UNCHANGED <<rx, pos>>
  BY DEF Get
<1> QED
  BY <1>2, <1>3, <1>4 DEF ClosedInv, Closed

\* So every step keeps all buffers closed.
LEMMA ClosedStep == ClosedInv /\ [Next]_vars => ClosedInv'
<1> SUFFICES ASSUME ClosedInv, [Next]_vars
             PROVE  ClosedInv'
  OBVIOUS
<1>1. ASSUME NEW u \in Active, Receive(u)
      PROVE  ClosedInv'
  BY <1>1, LineEndStep, StoreStep, DualUartAssumption DEF Receive
<1>2. ASSUME NEW u \in Uart, Get(u)
      PROVE  ClosedInv'
  BY <1>2, GetStep
<1>3. ASSUME NEW u \in Uart, Printed(u)
      PROVE  ClosedInv'
  BY <1>3 DEF Printed, ClosedInv
<1>4. CASE UNCHANGED vars
  BY <1>4 DEF vars, ClosedInv
<1> QED
  BY <1>1, <1>2, <1>3, <1>4 DEF Next

\* The buffers are all NUL at first.
LEMMA ClosedInit == Init => ClosedInv
<1> SUFFICES ASSUME Init PROVE ClosedInv
  OBVIOUS
<1>1. Closed(Blank) /\ Blank \in Message /\ 0 \in Index
  BY DualUartAssumption DEF Closed, Blank, Message, Index, Byte
<1> QED
  BY <1>1 DEF Init, ClosedInv

\* print_uart() never reads past a message.
THEOREM MessagesTerminated == Spec => []AlwaysTerminated
<1>2. ClosedInv => AlwaysTerminated
  <2>1. \A m : Closed(m) => Ends(m) # {}
    BY DualUartAssumption DEF Closed, Ends, Index
  <2>2. ClosedInv =>
          \A u \in Uart : \A m \in Queued(u) \cup {tx[u]} : Closed(m)
    BY DEF ClosedInv, Queued
  <2> QED
    BY <2>1, <2>2 DEF AlwaysTerminated
<1> QED
  BY <1>2, ClosedInit, ClosedStep, PTL DEF Spec
-----------------------------------------------------------------------------
(* What a message has to do with the line that was typed.                  *)

\* What can be typed before a line end.
Line == Seq(Char \cup {End})

\* The histories follow the buffers.
HistoryInv ==
  /\ typed \in [Uart -> Line] /\ line \in [Uart -> Line]
  /\ lines \in [Uart -> Seq(Line)]
  /\ \A u \in Uart : Len(typed[u]) = pos[u] /\ Len(lines[u]) = Len(queue[u])

\* The buffer of uart1 holds what was typed; in that of uart0 the callback of
\* uart1 may have written its terminators over some of it.
Holds(u, m, l) ==
  \A i \in 1 .. Len(l) : m[i - 1] = l[i] \/ (u = "uart0" /\ m[i - 1] = NUL)

\* DamageAtEnd, with what it rests on: the same of the lines being typed.
DamageInv ==
  /\ ClosedInv /\ HistoryInv
  /\ \A u \in Uart : Holds(u, rx[u], typed[u])
  /\ \A u \in Uart : \A i \in 1 .. Len(queue[u]) :
       Resembles(u, queue[u][i], lines[u][i])
  /\ \A u \in Uart : printing[u] => Resembles(u, tx[u], line[u])

\* A set of indices has a smallest one.
LEMMA HasSmallest ==
  ASSUME NEW S, S \subseteq Nat, S # {}
  PROVE  \E i \in S : \A j \in S : i <= j
<1>1. PICK R : R = {ss \in Nat \X Nat : ss[1] < ss[2]}
  OBVIOUS
<1>2. IsWellFoundedOn(R, Nat)
  BY <1>1, NatLessThanWellFounded, Zenon DEF OpToRel
<1>3. \E i \in S : \A j \in S : <<j, i>> \notin R
  BY <1>2, WFMin
<1>4. \A i, j \in Nat : j < i => <<j, i>> \in R
  BY <1>1
<1>5. PICK i \in S : \A j \in S : <<j, i>> \notin R
  BY <1>3
<1>6. ASSUME NEW j \in S
      PROVE  i <= j
  <2>1. i \in Nat /\ j \in Nat /\ ~(j < i)
    BY <1>4, <1>5
  <2> QED
    BY <2>1
<1> QED
  BY <1>5, <1>6

\* strlen() finds the first of the terminators.
LEMMA StrLenIsFirst ==
  ASSUME NEW m, Ends(m) # {}
  PROVE  StrLen(m) \in Ends(m) /\ \A j \in Ends(m) : StrLen(m) <= j
<1>1. Ends(m) \subseteq Nat
  BY DEF Ends, Index
<1>2. \E i \in Ends(m) : \A j \in Ends(m) : i <= j
  BY <1>1, HasSmallest
<1> QED
  BY <1>2 DEF StrLen

\* The text of a message is as long as strlen() says, and has no NUL in it.
LEMMA TextOf ==
  ASSUME NEW m, Ends(m) # {}
  PROVE  /\ Len(Text(m)) = StrLen(m) /\ StrLen(m) \in Index
         /\ DOMAIN Text(m) = 1 .. StrLen(m)
         /\ \A i \in 1 .. StrLen(m) : Text(m)[i] = m[i - 1] /\ m[i - 1] # NUL
<1>1. StrLen(m) \in Index /\ \A j \in Ends(m) : StrLen(m) <= j
  BY StrLenIsFirst DEF Ends
<1>2. StrLen(m) \in Nat
  BY <1>1 DEF Index
<1>3. Len(Text(m)) = StrLen(m) /\ DOMAIN Text(m) = 1 .. StrLen(m)
  BY <1>2 DEF Text
<1>4. ASSUME NEW i \in 1 .. StrLen(m)
      PROVE  m[i - 1] # NUL
  BY <1>1, <1>2, DualUartAssumption DEF Ends, Index
<1> QED
  BY <1>1, <1>3, <1>4 DEF Text

\* What is queued at a line end of uart0, which its callback terminates there.
LEMMA CutResembles ==
  ASSUME NEW m, NEW l \in Line, Holds("uart0", m, l),
         Len(l) \in Index, m[Len(l)] = NUL
  PROVE  Resembles("uart0", m, l)
<1>1. Len(l) \in Ends(m)
  BY DEF Ends
<1>2. StrLen(m) <= Len(l)
  BY <1>1, StrLenIsFirst
<1>3. \A i \in 1 .. StrLen(m) : Text(m)[i] = l[i]
  BY <1>1, <1>2, TextOf DEF Holds, Index
<1>4. IsHead(Text(m), l)
  BY <1>1, <1>2, <1>3, TextOf DEF IsHead
<1> QED
  BY <1>1, <1>4 DEF Resembles

\* What is queued at a line end of uart1, terminated no earlier than that.
LEMMA TailResembles ==
  ASSUME NEW m, NEW l \in Line, Holds("uart1", m, l), Closed(m),
         Len(l) \in Index
  PROVE  Resembles("uart1", m, l)
<1>1. Ends(m) # {}
  BY DualUartAssumption DEF Closed, Ends, Index
<1>2. Len(l) <= StrLen(m)
  <2> SUFFICES ASSUME StrLen(m) < Len(l)
               PROVE  FALSE
    BY <1>1, TextOf DEF Index
  <2>1. StrLen(m) + 1 \in 1 .. Len(l) /\ m[StrLen(m)] = NUL
    BY <1>1, TextOf, StrLenIsFirst DEF Index, Ends
  <2>2. l[StrLen(m) + 1] = NUL
    BY <1>1, <2>1, TextOf DEF Holds, Index
  <2>3. l[StrLen(m) + 1] \in Char \cup {End}
    BY <2>1 DEF Line
  <2> QED
    BY <2>2, <2>3, DualUartAssumption
<1>3. \A i \in 1 .. Len(l) : Text(m)[i] = l[i]
  BY <1>1, <1>2, TextOf DEF Holds, Index
<1>4. IsHead(l, Text(m))
  BY <1>1, <1>2, <1>3, TextOf DEF IsHead, Line
<1> QED
  BY <1>1, <1>4 DEF Resembles
\* Every step keeps the histories as long as the buffers.
LEMMA HistoryStep ==
  ASSUME ClosedInv, HistoryInv, [Next]_vars
  PROVE  HistoryInv'
<1>1. ASSUME NEW u \in Uart, LineEnd(u)
      PROVE  HistoryInv'
  <2>1. /\ typed' = [typed EXCEPT ![u] = <<>>] /\ pos' = [pos EXCEPT ![u] = 0]
        /\ line' = line
    BY <1>1 DEF LineEnd
  <2>2. CASE UNCHANGED <<queue, lines>>
    BY <2>1, <2>2 DEF HistoryInv, ClosedInv, Line
  <2>3. ASSUME NEW m, queue' = [queue EXCEPT ![u] = Append(@, m)],
               lines' = [lines EXCEPT ![u] = Append(@, typed[u])]
        PROVE  HistoryInv'
    <3>1. queue[u] \in Seq(Message) /\ lines[u] \in Seq(Line) /\ typed[u] \in Line
      BY DEF ClosedInv, HistoryInv
    <3>2. /\ Len(Append(queue[u], m)) = Len(queue[u]) + 1
          /\ Len(Append(lines[u], typed[u])) = Len(lines[u]) + 1
          /\ Append(lines[u], typed[u]) \in Seq(Line)
      BY <3>1
    <3> QED
      BY <2>1, <2>3, <3>1, <3>2 DEF HistoryInv, ClosedInv, Line
  <2> QED
    BY <1>1, <2>2, <2>3 DEF LineEnd
<1>2. ASSUME NEW u \in Uart, NEW c \in Char \cup {End}, Store(u, c)
      PROVE  HistoryInv'
  <2>1. CASE UNCHANGED <<rx, pos, typed>>
    BY <1>2, <2>1 DEF Store, HistoryInv
  <2>2. CASE /\ pos' = [pos EXCEPT ![u] = @ + 1]
             /\ typed' = [typed EXCEPT ![u] = Append(@, c)]
    <3>1. typed[u] \in Line /\ pos[u] \in Nat
      BY DEF ClosedInv, HistoryInv, Index
    <3>2. /\ Append(typed[u], c) \in Line
          /\ Len(Append(typed[u], c)) = Len(typed[u]) + 1
      BY <3>1 DEF Line
    <3> QED
      BY <1>2, <2>2, <3>1, <3>2 DEF Store, HistoryInv, ClosedInv
  <2> QED
    BY <1>2, <2>1, <2>2 DEF Store
<1>3. ASSUME NEW u \in Uart, Get(u)
      PROVE  HistoryInv'
  <2>1. /\ queue[u] \in Seq(Message) /\ queue[u] # <<>>
        /\ lines[u] \in Seq(Line) /\ Len(lines[u]) = Len(queue[u])
    BY <1>3 DEF Get, ClosedInv, HistoryInv
  <2>2. /\ lines[u] # <<>> /\ Head(lines[u]) \in Line
        /\ Tail(lines[u]) \in Seq(Line)
        /\ Len(Tail(lines[u])) = Len(Tail(queue[u]))
    BY <2>1
  <2> QED
    BY <1>3, <2>2 DEF Get, HistoryInv, ClosedInv
<1>4. ASSUME NEW u \in Uart, Printed(u)
      PROVE  HistoryInv'
  BY <1>4 DEF Printed, HistoryInv
<1>5. CASE UNCHANGED vars
  BY <1>5 DEF vars, HistoryInv
<1> QED
  BY <1>1, <1>2, <1>3, <1>4, <1>5, DualUartAssumption DEF Next, Receive

\* The characters of a line are in the bytes before its end.
LEMMA BytesBefore ==
  ASSUME NEW end \in Index, NEW i \in 1 .. end
  PROVE  i - 1 \in Index \ {end}
<1>1. end \in Nat /\ end < MsgSize /\ i \in Nat /\ i > 0 /\ i <= end
  BY DualUartAssumption DEF Index
<1> QED
  BY <1>1, DualUartAssumption DEF Index

\* What is written in a buffer is the next character of its line, or NUL in
\* that of uart0.
LEMMA HoldsStep ==
  ASSUME DamageInv, [Next]_vars
  PROVE  \A v \in Uart : Holds(v, rx'[v], typed'[v])
<1> USE DEF DamageInv
<1>1. ASSUME NEW u \in Uart, LineEnd(u), NEW v \in Uart
      PROVE  Holds(v, rx'[v], typed'[v])
  <2>1. pos[u] \in Index /\ rx["uart0"] \in Message /\ "uart0" \in Uart
    BY DEF ClosedInv, Uart
  <2>2. /\ \A w \in Uart \ {"uart0"} : rx'[w] = rx[w]
        /\ rx'["uart0"] = [rx["uart0"] EXCEPT ![pos[u]] = NUL]
    BY <1>1, <2>1 DEF LineEnd, ClosedInv, Terminated
  <2>3. \A i \in Index : \/ rx'[v][i] = rx[v][i]
                         \/ v = "uart0" /\ rx'[v][i] = NUL
    BY <2>1, <2>2 DEF Message
  <2>4. CASE v = u
    <3>1. typed'[v] = <<>>
      BY <1>1, <2>4 DEF LineEnd, HistoryInv
    <3> QED
      BY <3>1 DEF Holds
  <2>5. CASE v # u
    <3>1. typed'[v] = typed[v] /\ Len(typed[v]) = pos[v] /\ pos[v] \in Index
      BY <1>1, <2>5 DEF LineEnd, HistoryInv, ClosedInv
    <3>2. \A i \in 1 .. pos[v] : i - 1 \in Index
      BY <3>1, BytesBefore
    <3> QED
      BY <2>3, <3>1, <3>2 DEF Holds
  <2> QED
    BY <2>4, <2>5
<1>2. ASSUME NEW u \in Uart, NEW c \in Char \cup {End}, Store(u, c),
             NEW v \in Uart
      PROVE  Holds(v, rx'[v], typed'[v])
  <2>1. CASE UNCHANGED <<rx, pos, typed>>
    BY <2>1
  <2>2. CASE /\ pos[u] < MsgSize - 1
             /\ rx' = [rx EXCEPT ![u][pos[u]] = c]
             /\ typed' = [typed EXCEPT ![u] = Append(@, c)]
    <3>1. CASE v # u
      BY <2>2, <3>1 DEF HistoryInv, ClosedInv
    <3>2. CASE v = u
      <4>1. /\ typed[u] \in Line /\ Len(typed[u]) = pos[u] /\ pos[u] \in Index
            /\ rx[u] \in Message
        BY DEF HistoryInv, ClosedInv
      <4>2. /\ rx'[u] = [rx[u] EXCEPT ![pos[u]] = c]
            /\ typed'[u] = Append(typed[u], c)
        BY <2>2 DEF HistoryInv, ClosedInv
      <4>3. /\ Len(Append(typed[u], c)) = pos[u] + 1
            /\ Append(typed[u], c)[pos[u] + 1] = c
            /\ \A i \in 1 .. pos[u] : Append(typed[u], c)[i] = typed[u][i]
        BY <4>1 DEF Line, Index
      <4>4. rx'[u][pos[u]] = c /\ \A i \in Index \ {pos[u]} : rx'[u][i] = rx[u][i]
        BY <4>1, <4>2 DEF Message
      <4>5. ASSUME NEW i \in 1 .. pos[u] + 1
            PROVE  \/ rx'[u][i - 1] = typed'[u][i]
                   \/ (u = "uart0" /\ rx'[u][i - 1] = NUL)
        <5>1. CASE i = pos[u] + 1
          BY <4>1, <4>2, <4>3, <4>4, <5>1 DEF Index
        <5>2. CASE i \in 1 .. pos[u]
          <6>1. i - 1 \in Index \ {pos[u]}
            BY <4>1, <5>2, BytesBefore
          <6> QED
            BY <4>1, <4>2, <4>3, <4>4, <5>2, <6>1 DEF Holds
        <5> QED
          BY <4>1, <5>1, <5>2 DEF Index
      <4> QED
        BY <3>2, <4>2, <4>3, <4>5 DEF Holds
    <3> QED
      BY <3>1, <3>2
  <2> QED
    BY <1>2, <2>1, <2>2 DEF Store
<1>3. CASE UNCHANGED <<rx, typed>>
  BY <1>3
<1>4. ASSUME NEW u \in Uart, Get(u) \/ Printed(u)
      PROVE  UNCHANGED <<rx, typed>>
  BY <1>4 DEF Get, Printed
<1> QED
  BY <1>1, <1>2, <1>3, <1>4, DualUartAssumption DEF Next, Receive, vars

\* What a line end queues resembles the line that was typed.
LEMMA EndResembles ==
  ASSUME DamageInv, NEW u \in Uart, LineEnd(u)
  PROVE  Resembles(u, rx'[u], typed[u])
<1>1. /\ pos[u] \in Index /\ rx["uart0"] \in Message /\ "uart0" \in Uart
      /\ typed[u] \in Line /\ Len(typed[u]) = pos[u]
      /\ Holds(u, rx[u], typed[u]) /\ Closed(rx[u])
  BY DEF DamageInv, ClosedInv, HistoryInv, Uart
<1>2. CASE u = "uart0"
  <2>1. rx'[u] = [rx[u] EXCEPT ![pos[u]] = NUL]
    BY <1>1, <1>2 DEF LineEnd, DamageInv, ClosedInv, Terminated
  <2>2. rx'[u][pos[u]] = NUL
    BY <1>1, <1>2, <2>1 DEF Message
  <2>3. \A i \in Index \ {pos[u]} : rx'[u][i] = rx[u][i]
    BY <1>1, <1>2, <2>1 DEF Message
  <2>4. \A i \in 1 .. pos[u] : i - 1 \in Index \ {pos[u]}
    BY <1>1, BytesBefore
  <2>5. Holds(u, rx'[u], typed[u])
    BY <1>1, <2>3, <2>4 DEF Holds
  <2> QED
    BY <1>1, <1>2, <2>2, <2>5, CutResembles
<1>3. CASE u = "uart1"
  <2>1. rx'[u] = rx[u]
    BY <1>1, <1>3 DEF LineEnd, DamageInv, ClosedInv, Terminated
  <2> QED
    BY <1>1, <1>3, <2>1, TailResembles
<1> QED
  BY <1>2, <1>3 DEF Uart

\* Lines and messages stay in step in the queue.
LEMMA QueuedStep ==
  ASSUME DamageInv, [Next]_vars
  PROVE  \A v \in Uart : \A i \in 1 .. Len(queue'[v]) :
           Resembles(v, queue'[v][i], lines'[v][i])
<1> DEFINE Queues(q, l) ==
             \A v \in Uart : \A i \in 1 .. Len(q[v]) : Resembles(v, q[v][i], l[v][i])
<1>1. Queues(queue, lines)
  BY DEF DamageInv
<1>2. ASSUME NEW u \in Uart, LineEnd(u)
      PROVE  Queues(queue', lines')
  <2>1. CASE UNCHANGED <<queue, lines>>
    BY <1>1, <2>1
  <2>2. ASSUME NEW m, NEW l, Resembles(u, m, l),
               queue' = [queue EXCEPT ![u] = Append(@, m)],
               lines' = [lines EXCEPT ![u] = Append(@, l)]
        PROVE  Queues(queue', lines')
    <3>1. /\ queue[u] \in Seq(Message) /\ lines[u] \in Seq(Line)
          /\ Len(lines[u]) = Len(queue[u])
      BY DEF DamageInv, ClosedInv, HistoryInv
    <3>2. /\ queue'[u] = Append(queue[u], m) /\ lines'[u] = Append(lines[u], l)
          /\ \A v \in Uart \ {u} : queue'[v] = queue[v] /\ lines'[v] = lines[v]
      BY <2>2 DEF DamageInv, ClosedInv, HistoryInv
    <3>3. \A i \in 1 .. Len(queue'[u]) :
            \/ i \in 1 .. Len(queue[u]) /\ queue'[u][i] = queue[u][i]
                 /\ lines'[u][i] = lines[u][i]
            \/ queue'[u][i] = m /\ lines'[u][i] = l
      BY <3>1, <3>2
    <3>4. \A i \in 1 .. Len(queue'[u]) : Resembles(u, queue'[u][i], lines'[u][i])
      BY <1>1, <2>2, <3>3
    <3> QED
      BY <1>1, <3>2, <3>4
  <2>3. Resembles(u, rx'[u], typed[u])
    BY <1>2, EndResembles
  <2> QED
    BY <1>2, <2>1, <2>2, <2>3 DEF LineEnd
<1>3. ASSUME NEW u \in Uart, Get(u)
      PROVE  Queues(queue', lines')
  <2>1. /\ queue[u] \in Seq(Message) /\ queue[u] # <<>>
        /\ lines[u] \in Seq(Line) /\ Len(lines[u]) = Len(queue[u])
    BY <1>3 DEF Get, DamageInv, ClosedInv, HistoryInv
  <2>2. /\ queue'[u] = Tail(queue[u]) /\ lines'[u] = Tail(lines[u])
        /\ \A v \in Uart \ {u} : queue'[v] = queue[v] /\ lines'[v] = lines[v]
    BY <1>3 DEF Get, DamageInv, ClosedInv, HistoryInv
  <2>3. \A i \in 1 .. Len(queue'[u]) :
          /\ i + 1 \in 1 .. Len(queue[u])
          /\ queue'[u][i] = queue[u][i + 1] /\ lines'[u][i] = lines[u][i + 1]
    BY <2>1, <2>2
  <2> QED
    BY <1>1, <2>2, <2>3
<1>4. ASSUME UNCHANGED <<queue, lines>>
      PROVE  Queues(queue', lines')
  BY <1>1, <1>4
<1>5. ASSUME \/ \E u \in Uart, c \in Char \cup {End} : Store(u, c)
             \/ \E u \in Uart : Printed(u)
             \/ UNCHANGED vars
      PROVE  UNCHANGED <<queue, lines>>
  BY <1>5 DEF Store, Printed, vars
<1> QED
  BY <1>2, <1>3, <1>4, <1>5, DualUartAssumption DEF Next, Receive

\* A thread takes the line with its message.
LEMMA PrintedStep ==
  ASSUME DamageInv, [Next]_vars
  PROVE  \A v \in Uart : printing'[v] => Resembles(v, tx'[v], line'[v])
<1>1. ASSUME NEW u \in Uart, Get(u), NEW v \in Uart, printing'[v]
      PROVE  Resembles(v, tx'[v], line'[v])
  <2>1. /\ queue[u] \in Seq(Message) /\ queue[u] # <<>>
        /\ lines[u] \in Seq(Line) /\ Len(lines[u]) = Len(queue[u])
    BY <1>1 DEF Get, DamageInv, ClosedInv, HistoryInv
  <2>2. /\ Head(queue[u]) = queue[u][1] /\ Head(lines[u]) = lines[u][1]
        /\ 1 \in 1 .. Len(queue[u])
    BY <2>1
  <2>3. CASE v = u
    <3>1. tx'[u] = queue[u][1] /\ line'[u] = lines[u][1]
      BY <1>1, <2>2 DEF Get, DamageInv, ClosedInv, HistoryInv
    <3> QED
      BY <2>2, <2>3, <3>1 DEF DamageInv
  <2>4. CASE v # u
    <3>1. tx'[v] = tx[v] /\ line'[v] = line[v]
      BY <1>1, <2>4 DEF Get, DamageInv, ClosedInv, HistoryInv
    <3>2. printing[v]
      BY <1>1, <2>4 DEF Get, DamageInv
    <3> QED
      BY <3>1, <3>2 DEF DamageInv
  <2> QED
    BY <2>3, <2>4
<1>2. ASSUME NEW u \in Uart, Printed(u), NEW v \in Uart, printing'[v]
      PROVE  Resembles(v, tx'[v], line'[v])
  BY <1>2 DEF Printed, DamageInv
<1>3. ASSUME \/ \E u \in Uart : LineEnd(u)
             \/ \E u \in Uart, c \in Char \cup {End} : Store(u, c)
             \/ UNCHANGED vars
      PROVE  UNCHANGED <<tx, line, printing>>
  BY <1>3 DEF LineEnd, Store, vars
<1>4. CASE UNCHANGED <<tx, line, printing>>
  BY <1>4 DEF DamageInv
<1> QED
  BY <1>1, <1>2, <1>3, <1>4, DualUartAssumption DEF Next, Receive

\* Nothing of a line but its end is ever damaged, and only as the two callbacks
\* differ: for every size of message and queue, every alphabet and any use of
\* the two UARTs.
THEOREM DamageIsAtEnd == Spec => []DamageAtEnd
<1>1. Init => DamageInv
  <2> SUFFICES ASSUME Init PROVE DamageInv
    OBVIOUS
  <2>1. ClosedInv
    BY ClosedInit
  <2>2. HistoryInv
    BY DEF Init, HistoryInv, Line
  <2>3. \A u \in Uart : typed[u] = <<>> /\ queue[u] = <<>> /\ ~printing[u]
    BY DEF Init
  <2> QED
    BY <2>1, <2>2, <2>3 DEF DamageInv, Holds
<1>2. DamageInv /\ [Next]_vars => DamageInv'
  <2> SUFFICES ASSUME DamageInv, [Next]_vars PROVE DamageInv'
    OBVIOUS
  <2>1. ClosedInv'
    BY ClosedStep DEF DamageInv
  <2>2. HistoryInv'
    BY HistoryStep DEF DamageInv
  <2> QED
    BY <2>1, <2>2, HoldsStep, QueuedStep, PrintedStep DEF DamageInv
<1>3. DamageInv => DamageAtEnd
  <2> SUFFICES ASSUME DamageInv PROVE DamageAtEnd
    OBVIOUS
  <2>1. \A u \in Uart : DOMAIN queue[u] = 1 .. Len(queue[u])
    BY DEF DamageInv, ClosedInv
  <2> QED
    BY <2>1 DEF DamageInv, DamageAtEnd
<1> QED
  BY <1>1, <1>2, <1>3, PTL DEF Spec
=============================================================================
