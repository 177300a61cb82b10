------------------------------ MODULE DualUart ------------------------------
(***************************************************************************)
(* dual_uart_int: two UARTs, each with an interrupt callback that collects *)
(* a line in a receive buffer and queues it, and two threads of the lowest *)
(* priority that print each UART's lines on the other one.                 *)
(*                                                                         *)
(* The two interrupts have the same priority, so one callback never        *)
(* interrupts the other; they interleave between characters, with the      *)
(* threads anywhere in between.  Characters are text: never NUL.           *)
(***************************************************************************)
EXTENDS Naturals, Sequences

CONSTANTS
  Char,       \* characters other than line ends
  End,        \* a line end, '\n' or '\r'
  NUL,        \* '\0'
  MsgSize,    \* MSG_SIZE: bytes of a buffer and of a queue entry
  QueueLen,   \* entries of each message queue
  Active      \* the UARTs on which something is typed

Uart == {"uart0", "uart1"}

ASSUME DualUartAssumption ==
  /\ MsgSize \in Nat /\ MsgSize > 1
  /\ QueueLen \in Nat \ {0}
  /\ Active \subseteq Uart
  /\ End \notin Char
  /\ NUL \notin Char \cup {End}

VARIABLES
  rx,       \* rx0_buf and rx1_buf
  pos,      \* rx0_buf_pos and rx1_buf_pos
  queue,    \* uart0_msgq and uart1_msgq, named by the UART that fills them
  tx,       \* tx0_buf and tx1_buf: the message being printed
  printing, \* the thread that prints the UART's messages has taken one
  typed,    \* history: the line being typed, as far as it is kept
  lines,    \* history: the lines whose messages are in queue
  line      \* history: the line whose message is in tx

vars == <<rx, pos, queue, tx, printing, typed, lines, line>>

Index == 0 .. MsgSize - 1
Byte == Char \cup {End, NUL}
Message == [Index -> Byte]
Blank == [i \in Index |-> NUL]

TypeOK ==
  /\ rx \in [Uart -> Message]
  /\ pos \in [Uart -> Index]
  /\ queue \in [Uart -> Seq(Message)]
  /\ tx \in [Uart -> Message]
  /\ printing \in [Uart -> BOOLEAN]

Init ==
  /\ rx = [u \in Uart |-> Blank]
  /\ pos = [u \in Uart |-> 0]
  /\ queue = [u \in Uart |-> <<>>]
  /\ tx = [u \in Uart |-> Blank]
  /\ printing = [u \in Uart |-> FALSE]
  /\ typed = [u \in Uart |-> <<>>]
  /\ lines = [u \in Uart |-> <<>>]
  /\ line = [u \in Uart |-> <<>>]
---------------------------------------------------------------------------
(* uart0_cb() and uart1_cb(), one character each time *)

\* The buffer in which the callback of u writes the terminator: uart1_cb()
\* writes it in rx0_buf.
Terminated(u) == "uart0"

LineEndUnterminated(u) ==                          \* a mutant of LineEnd
  /\ pos[u] > 0
  /\ IF Len(queue[u]) < QueueLen
       THEN /\ queue' = [queue EXCEPT ![u] = Append(@, rx[u])]
            /\ lines' = [lines EXCEPT ![u] = Append(@, typed[u])]
       ELSE UNCHANGED <<queue, lines>>
  /\ pos' = [pos EXCEPT ![u] = 0]
  /\ typed' = [typed EXCEPT ![u] = <<>>]
  /\ UNCHANGED <<rx, tx, printing, line>>

\* A line end after at least one character: terminate the line and queue a
\* copy of the buffer, unless the queue is full.
LineEnd(u) ==
  /\ pos[u] > 0
  /\ LET rxEnd == [rx EXCEPT ![Terminated(u)][pos[u]] = NUL] IN
     /\ rx' = rxEnd
     /\ IF Len(queue[u]) < QueueLen
          THEN /\ queue' = [queue EXCEPT ![u] = Append(@, rxEnd[u])]
               /\ lines' = [lines EXCEPT ![u] = Append(@, typed[u])]
          ELSE UNCHANGED <<queue, lines>>
  /\ pos' = [pos EXCEPT ![u] = 0]
  /\ typed' = [typed EXCEPT ![u] = <<>>]
  /\ UNCHANGED <<tx, printing, line>>

StoreWithoutRoom(u, c) ==                            \* a mutant of Store
  /\ c = End => pos[u] = 0
  /\ pos[u] \in Index
  /\ rx' = [rx EXCEPT ![u][pos[u]] = c]
  /\ pos' = [pos EXCEPT ![u] = @ + 1]
  /\ typed' = [typed EXCEPT ![u] = Append(@, c)]
  /\ UNCHANGED <<queue, tx, printing, lines, line>>

\* Any other character, and a line end at the start of a line, is stored, or
\* dropped when the buffer has room for the terminator only.
Store(u, c) ==
  /\ c = End => pos[u] = 0
  /\ IF pos[u] < MsgSize - 1
       THEN /\ rx' = [rx EXCEPT ![u][pos[u]] = c]
            /\ pos' = [pos EXCEPT ![u] = @ + 1]
            /\ typed' = [typed EXCEPT ![u] = Append(@, c)]
       ELSE UNCHANGED <<rx, pos, typed>>
  /\ UNCHANGED <<queue, tx, printing, lines, line>>

Receive(u) == LineEnd(u) \/ \E c \in Char \cup {End} : Store(u, c)
---------------------------------------------------------------------------
(* print_uart0_fn() takes from uart1_msgq, print_uart1_fn() from uart0_msgq *)

Get(u) ==
  /\ ~printing[u]
  /\ queue[u] # <<>>
  /\ tx' = [tx EXCEPT ![u] = Head(queue[u])]
  /\ line' = [line EXCEPT ![u] = Head(lines[u])]
  /\ queue' = [queue EXCEPT ![u] = Tail(@)]
  /\ lines' = [lines EXCEPT ![u] = Tail(@)]
  /\ printing' = [printing EXCEPT ![u] = TRUE]
  /\ UNCHANGED <<rx, pos, typed>>

\* print_uart() has sent the message's characters.
Printed(u) ==
  /\ printing[u]
  /\ printing' = [printing EXCEPT ![u] = FALSE]
  /\ UNCHANGED <<rx, pos, queue, tx, typed, lines, line>>

Next ==
  \/ \E u \in Active : Receive(u)
  \/ \E u \in Uart : Get(u) \/ Printed(u)

Spec == Init /\ [][Next]_vars
---------------------------------------------------------------------------
(* Properties *)

\* strlen(): the index of the first NUL, if there is one.
Ends(m) == {i \in Index : m[i] = NUL}
StrLen(m) == CHOOSE i \in Ends(m) : \A j \in Ends(m) : i <= j
Text(m) == [i \in 1 .. StrLen(m) |-> m[i - 1]]

Queued(u) == {queue[u][i] : i \in DOMAIN queue[u]}

\* print_uart() never runs past the end of a message: every message queued or
\* being printed has a terminator among its MSG_SIZE bytes, also those of
\* uart1, whose callback does not write one there.
AlwaysTerminated ==
  \A u \in Uart : \A m \in Queued(u) \cup {tx[u]} : Ends(m) # {}

\* What is printed is the line that was typed, up to the size of a message
\* ("Read characters from UART until line end is detected.  Afterwards push
\* the data to the message queue", lines 31-34, and "terminate string",
\* lines 48 and 76).
LineDelivered ==
  \A u \in Uart :
    /\ \A i \in DOMAIN queue[u] : Text(queue[u][i]) = lines[u][i]
    /\ printing[u] => Text(tx[u]) = line[u]

\* How far that is from the code: the terminators that uart1_cb() writes
\* elsewhere only cut lines of uart0 and only lengthen lines of uart1.  No
\* character is changed, and no message is joined to the line of another.
IsHead(s, t) == Len(s) <= Len(t) /\ \A i \in DOMAIN s : s[i] = t[i]

Resembles(u, m, l) ==
  /\ Ends(m) # {}
  /\ IF u = "uart0" THEN IsHead(Text(m), l) ELSE IsHead(l, Text(m))

DamageAtEnd ==
  \A u \in Uart :
    /\ \A i \in DOMAIN queue[u] : Resembles(u, queue[u][i], lines[u][i])
    /\ printing[u] => Resembles(u, tx[u], line[u])
=============================================================================
