----------------------------- MODULE NusBridge -----------------------------
(***************************************************************************)
(* The UART side of peripheral_uart_beacon/src/main.c: the bridge between  *)
(* the Nordic UART Service and an asynchronous UART.  uart_init(),         *)
(* uart_cb(), uart_work_handler(), bt_receive_cb() and ble_write_thread()  *)
(* share one heap and two k_fifos.                                         *)
(*                                                                         *)
(* The UART is the one that AsyncTx and AsyncRx promise.  It reports an    *)
(* event by a step of its own, which starts uart_cb(); the callback runs   *)
(* to its end before any thread goes on.  With Isr the callback interrupts *)
(* whatever runs (a hardware UART); without it the callback is run by a    *)
(* cooperative thread (the USB work queue of a CDC ACM UART), and so waits *)
(* for the Bluetooth receive thread and the system work queue to yield.    *)
(***************************************************************************)
EXTENDS Naturals, Sequences

CONSTANTS
  Block,      \* what the heap holds: blocks of struct uart_data_t
  BufSize,    \* UART_BUF_SIZE
  MaxWrite,   \* bound: longest write of the peer
  Isr,        \* the UART calls uart_cb() from an interrupt
  Aborts,     \* the UART may abort a transfer before all of it is sent
  NULL

\* The address of data[off] of a block.
Address == [block : Block, off : Nat]

ASSUME BridgeAssumption ==
  /\ BufSize \in Nat \ {0, 1}
  /\ MaxWrite \in Nat \ {0}
  /\ Isr \in BOOLEAN
  /\ Aborts \in BOOLEAN
  /\ NULL \notin Block \cup Address

VARIABLES
  free,        \* the blocks in the heap
  len,         \* the len field of each block
  txFifo,      \* fifo_uart_tx_data
  rxFifo,      \* fifo_uart_rx_data
  aborted,     \* static aborted_buf (the block it is in) and aborted_len
  disableReq,  \* static disable_req
  work,        \* uart_work: pending, pc and buf of its handler
  boot,        \* uart_init() and then main(): pc, rx, tx
  rcv,         \* bt_receive_cb(): pc, tx, bytes left to copy, a final CR
  ble,         \* ble_write_thread(): buf
  cb,          \* the event uart_cb() is handling
  tx, rx,      \* the UART's transmitter and receiver
  owed,        \* history: blocks to transmit, in the order they were filled
  sent         \* history: bytes of each block that were put on the line

uartVars == <<tx, rx>>
callbackVars == <<aborted, disableReq>>
bridgeVars == <<free, len, txFifo, rxFifo, callbackVars, work, boot, rcv, ble,
                cb, uartVars, owed, sent>>

At(b, off) == [block |-> b, off |-> off]

Tx == INSTANCE AsyncTx WITH current <- tx, Buf <- Address, MaxLen <- BufSize,
                            aborts <- Aborts
Rx == INSTANCE AsyncRx WITH rx <- rx, Buf <- Block, BufLen <- BufSize

NoEvent == [type |-> "none", buf |-> NULL, len |-> 0, eol |-> FALSE]
Event(type, buf, n, eol) == [type |-> type, buf |-> buf, len |-> n, eol |-> eol]

TypeOK ==
  /\ free \subseteq Block
  /\ len \in [Block -> 0 .. BufSize]
  /\ txFifo \in Seq(Block)
  /\ rxFifo \in Seq(Block)
  /\ aborted \in [buf : Block \cup {NULL}, len : 0 .. BufSize]
  /\ disableReq \in BOOLEAN
  /\ work \in [pending : BOOLEAN, pc : {"idle", "enable"},
               buf : Block \cup {NULL}]
  /\ boot \in [pc : {"alloc_rx", "alloc_tx", "tx", "enable", "done", "error"},
               rx : Block \cup {NULL}, tx : Block \cup {NULL}]
  /\ rcv \in [pc : {"idle", "alloc", "tx", "put"}, tx : Block \cup {NULL},
              left : 0 .. MaxWrite, cr : BOOLEAN]
  /\ ble \in Block \cup {NULL}
  /\ cb \in [type : {"none", "TX_DONE", "TX_ABORTED", "RX_RDY",
                     "RX_BUF_REQUEST", "RX_BUF_RELEASED", "RX_DISABLED"},
             buf : Address \cup Block \cup {NULL}, len : 0 .. BufSize,
             eol : BOOLEAN]
  /\ tx \in [buf : Address \cup {NULL}, len : 0 .. BufSize, sent : 0 .. BufSize]
  /\ rx \in [state : {"off", "on", "stopping"}, cur : Block \cup {NULL},
             next : Block \cup {NULL}, count : 0 .. BufSize]
  /\ owed \in Seq(Block)
  /\ sent \in [Block -> 0 .. BufSize]

Init ==
  /\ free = Block
  /\ len = [b \in Block |-> 0]
  /\ txFifo = <<>>
  /\ rxFifo = <<>>
  /\ aborted = [buf |-> NULL, len |-> 0]
  /\ disableReq = FALSE
  /\ work = [pending |-> FALSE, pc |-> "idle", buf |-> NULL]
  /\ boot = [pc |-> "alloc_rx", rx |-> NULL, tx |-> NULL]
  /\ rcv = [pc |-> "idle", tx |-> NULL, left |-> 0, cr |-> FALSE]
  /\ ble = NULL
  /\ cb = NoEvent
  /\ Tx!Init
  /\ Rx!Init
  /\ owed = <<>>
  /\ sent = [b \in Block |-> 0]

\* The Bluetooth receive thread and the system work queue are cooperative:
\* neither starts while the other is at work, and the main thread and
\* ble_write_thread wait for both.
CooperativeIdle == rcv.pc = "idle" /\ work.pc = "idle"
InThread == cb = NoEvent
InPreemptible == InThread /\ CooperativeIdle
MayCallback == cb = NoEvent /\ (Isr \/ CooperativeIdle)

\* What k_malloc() may return; Malloc(b) is the call that returns b.
Available == IF free = {} THEN {NULL} ELSE free
Malloc(b) == b \in Available /\ free' = free \ {b}

\* buf->len = 0, for the block that was allocated if one was.
Emptied(b) == [c \in Block |-> IF c = b THEN 0 ELSE len[c]]

\* A block of n bytes is to go out after all the blocks before it.
Owe(b, n) ==
  /\ len' = [len EXCEPT ![b] = n]
  /\ owed' = Append(owed, b)
  /\ sent' = [sent EXCEPT ![b] = 0]
---------------------------------------------------------------------------
(* uart_init() *)

UartInitRx(b) ==
  /\ boot.pc = "alloc_rx"
  /\ InPreemptible
  /\ Malloc(b)
  /\ len' = Emptied(b)
  /\ boot' = [pc |-> IF b = NULL THEN "error" ELSE "alloc_tx",
              rx |-> b, tx |-> NULL]
  /\ UNCHANGED <<txFifo, rxFifo, callbackVars, work, rcv, ble, cb, uartVars,
                 owed, sent>>

\* The welcome message fits its buffer; how long it is does not matter.
UartInitTx(b) ==
  /\ boot.pc = "alloc_tx"
  /\ InPreemptible
  /\ b \in Available
  /\ IF b = NULL
       THEN /\ free' = free \cup {boot.rx}
            /\ boot' = [pc |-> "error", rx |-> NULL, tx |-> NULL]
            /\ UNCHANGED <<len, owed, sent>>
       ELSE /\ Malloc(b)
            /\ Owe(b, 1)
            /\ boot' = [pc |-> "tx", rx |-> boot.rx, tx |-> b]
  /\ UNCHANGED <<txFifo, rxFifo, callbackVars, work, rcv, ble, cb, uartVars>>

\* Nobody else transmits or receives yet, so neither call is refused.
UartInitTransmit ==
  /\ boot.pc = "tx"
  /\ InPreemptible
  /\ Tx!Submit(At(boot.tx, 0), len[boot.tx])
  /\ boot' = [pc |-> "enable", rx |-> boot.rx, tx |-> NULL]
  /\ UNCHANGED <<free, len, txFifo, rxFifo, callbackVars, work, rcv, ble, cb,
                 rx, owed, sent>>

UartInitEnable ==
  /\ boot.pc = "enable"
  /\ InPreemptible
  /\ Rx!Enable(boot.rx)
  /\ boot' = [pc |-> "done", rx |-> NULL, tx |-> NULL]
  /\ UNCHANGED <<free, len, txFifo, rxFifo, callbackVars, work, rcv, ble, cb,
                 tx, owed, sent>>
---------------------------------------------------------------------------
(* bt_receive_cb(): the peer wrote n bytes, the last of them CR or not *)

BtReceive(n, cr) ==
  /\ boot.pc = "done"
  /\ InPreemptible
  /\ rcv' = [pc |-> "alloc", tx |-> NULL, left |-> n, cr |-> cr]
  /\ UNCHANGED <<free, len, txFifo, rxFifo, callbackVars, work, boot, ble, cb,
                 uartVars, owed, sent>>

\* One byte of the buffer is kept for the LF that follows a final CR.
TxDataSize == BufSize - 1

NotReceiving == [pc |-> "idle", tx |-> NULL, left |-> 0, cr |-> FALSE]

\* When the heap is empty the rest of the write is dropped.
ReceiveAlloc(b) ==
  /\ rcv.pc = "alloc"
  /\ InThread
  /\ Malloc(b)
  /\ IF b = NULL
       THEN rcv' = NotReceiving /\ UNCHANGED <<len, owed, sent>>
       ELSE LET n == IF rcv.left > TxDataSize THEN TxDataSize ELSE rcv.left
                lf == IF rcv.left = n /\ rcv.cr THEN 1 ELSE 0
            IN  /\ Owe(b, n + lf)
                /\ rcv' = [pc |-> "tx", tx |-> b, left |-> rcv.left - n,
                           cr |-> rcv.cr]
  /\ UNCHANGED <<txFifo, rxFifo, callbackVars, work, boot, ble, cb, uartVars>>

NextChunk ==
  rcv' = IF rcv.left = 0
           THEN NotReceiving
           ELSE [pc |-> "alloc", tx |-> NULL, left |-> rcv.left,
                 cr |-> rcv.cr]

ReceiveTx ==
  /\ rcv.pc = "tx"
  /\ InThread
  /\ IF tx = Tx!Idle
       THEN Tx!Submit(At(rcv.tx, 0), len[rcv.tx]) /\ NextChunk
       ELSE rcv' = [rcv EXCEPT !.pc = "put"] /\ UNCHANGED tx       \* -EBUSY
  /\ UNCHANGED <<free, len, txFifo, rxFifo, callbackVars, work, boot, ble, cb,
                 rx, owed, sent>>

Put(fifo, b) == Append(fifo, b)

PutFirst ==                                       \* a mutant of ReceivePut
  /\ rcv.pc = "put"
  /\ InThread
  /\ txFifo' = <<rcv.tx>> \o txFifo
  /\ NextChunk
  /\ UNCHANGED <<free, len, rxFifo, callbackVars, work, boot, ble, cb,
                 uartVars, owed, sent>>

ReceivePut ==
  /\ rcv.pc = "put"
  /\ InThread
  /\ txFifo' = Put(txFifo, rcv.tx)
  /\ NextChunk
  /\ UNCHANGED <<free, len, rxFifo, callbackVars, work, boot, ble, cb,
                 uartVars, owed, sent>>
---------------------------------------------------------------------------
(* The UART: what it does, and the events it reports to uart_cb() *)

UartSend(n) ==
  /\ Tx!Send(n)
  /\ sent' = [sent EXCEPT ![tx.buf.block] = @ + n]
  /\ UNCHANGED <<free, len, txFifo, rxFifo, callbackVars, work, boot, rcv,
                 ble, cb, rx, owed>>

UartTxEvent ==
  /\ MayCallback
  /\ Tx!Report
  /\ cb' = Event(IF tx.sent = tx.len THEN "TX_DONE" ELSE "TX_ABORTED",
                 tx.buf, tx.sent, FALSE)
  /\ UNCHANGED <<free, len, txFifo, rxFifo, callbackVars, work, boot, rcv,
                 ble, rx, owed, sent>>

\* eol: the last of the new bytes ends a line.
UartRxEvent ==
  /\ MayCallback
  /\ \/ \E n \in 1 .. BufSize, eol \in BOOLEAN :
          Rx!Ready(n) /\ cb' = Event("RX_RDY", rx.cur, n, eol)
     \/ Rx!Request /\ cb' = Event("RX_BUF_REQUEST", NULL, 0, FALSE)
     \/ Rx!Release /\ cb' = Event("RX_BUF_RELEASED", rx.cur, 0, FALSE)
     \/ Rx!Disabled /\ cb' = Event("RX_DISABLED", NULL, 0, FALSE)
  /\ UNCHANGED <<free, len, txFifo, rxFifo, callbackVars, work, boot, rcv,
                 ble, tx, owed, sent>>
---------------------------------------------------------------------------
(* uart_cb() *)

Return == cb' = NoEvent

\* s without its element at index i.
Without(s, i) == [j \in 1 .. Len(s) - 1 |-> IF j < i THEN s[j] ELSE s[j + 1]]

Remove(s, b) == Without(s, CHOOSE i \in DOMAIN s : s[i] = b)

TransmitNothing == UNCHANGED <<txFifo, tx>>                       \* a mutant

TransmitNext ==
  IF txFifo = <<>>
    THEN UNCHANGED <<txFifo, tx>>
    ELSE /\ txFifo' = Tail(txFifo)
         /\ Tx!Submit(At(Head(txFifo), 0), len[Head(txFifo)])

AbortIsOver == aborted' = [buf |-> NULL, len |-> 0]

TxDone ==
  /\ cb.type = "TX_DONE"
  /\ Return
  /\ LET buf == IF aborted.buf # NULL THEN aborted.buf ELSE cb.buf.block IN
     /\ free' = free \cup {buf}
     /\ owed' = Remove(owed, buf)
  /\ AbortIsOver
  /\ TransmitNext
  /\ UNCHANGED <<len, rxFifo, disableReq, work, boot, rcv, ble, rx, sent>>

AbortedLast == cb.len                                             \* a mutant

AbortedSoFar == aborted.len + cb.len

TxAborted ==
  /\ cb.type = "TX_ABORTED"
  /\ Return
  /\ aborted' = [buf |-> IF aborted.buf = NULL THEN cb.buf.block
                                               ELSE aborted.buf,
                 len |-> AbortedSoFar]
  /\ Tx!Submit(At(aborted'.buf, aborted'.len), len[aborted'.buf] - aborted'.len)
  /\ UNCHANGED <<free, len, txFifo, rxFifo, disableReq, work, boot, rcv, ble,
                 rx, owed, sent>>

\* The end of a line ends reception, once, so that the line is handed on.
RxRdy ==
  /\ cb.type = "RX_RDY"
  /\ Return
  /\ len' = [len EXCEPT ![cb.buf] = @ + cb.len]
  /\ IF cb.eol /\ ~disableReq
       THEN /\ disableReq' = TRUE
            /\ IF rx.state = "on" THEN Rx!Disable ELSE UNCHANGED rx
       ELSE UNCHANGED <<disableReq, rx>>
  /\ UNCHANGED <<free, txFifo, rxFifo, aborted, work, boot, rcv, ble, tx,
                 owed, sent>>

NoRetry == work' = [work EXCEPT !.pending = FALSE]                \* a mutant

\* k_work_reschedule(), also in the handler of the work itself
Reschedule == work' = [work EXCEPT !.pending = TRUE]

RxDisabled(b) ==
  /\ cb.type = "RX_DISABLED"
  /\ Return
  /\ disableReq' = FALSE
  /\ Malloc(b)
  /\ len' = Emptied(b)
  /\ IF b = NULL THEN Reschedule /\ UNCHANGED rx
                 ELSE Rx!Enable(b) /\ UNCHANGED work
  /\ UNCHANGED <<txFifo, rxFifo, aborted, boot, rcv, ble, tx, owed, sent>>

RxBufRequest(b) ==
  /\ cb.type = "RX_BUF_REQUEST"
  /\ Return
  /\ Malloc(b)
  /\ len' = Emptied(b)
  /\ IF b = NULL THEN UNCHANGED rx ELSE Rx!Respond(b)
  /\ UNCHANGED <<txFifo, rxFifo, callbackVars, work, boot, rcv, ble, tx,
                 owed, sent>>

HasMoreThanOne(b) == len[b] > 1                                   \* a mutant

HasData(b) == len[b] > 0

EmptyNotFreed ==                                                  \* a mutant
  /\ cb.type = "RX_BUF_RELEASED"
  /\ Return
  /\ rxFifo' = IF HasData(cb.buf) THEN Put(rxFifo, cb.buf) ELSE rxFifo
  /\ UNCHANGED <<free, len, txFifo, callbackVars, work, boot, rcv, ble,
                 uartVars, owed, sent>>

RxBufReleased ==
  /\ cb.type = "RX_BUF_RELEASED"
  /\ Return
  /\ IF HasData(cb.buf)
       THEN rxFifo' = Put(rxFifo, cb.buf) /\ UNCHANGED free
       ELSE free' = free \cup {cb.buf} /\ UNCHANGED rxFifo
  /\ UNCHANGED <<len, txFifo, callbackVars, work, boot, rcv, ble, uartVars,
                 owed, sent>>

UartCb ==
  \/ TxDone
  \/ TxAborted
  \/ RxRdy
  \/ \E b \in Block \cup {NULL} : RxDisabled(b) \/ RxBufRequest(b)
  \/ RxBufReleased
---------------------------------------------------------------------------
(* uart_work_handler() *)

WorkAlloc(b) ==
  /\ work.pending
  /\ InPreemptible
  /\ Malloc(b)
  /\ len' = Emptied(b)
  /\ IF b = NULL
       THEN Reschedule
       ELSE work' = [pending |-> FALSE, pc |-> "enable", buf |-> b]
  /\ UNCHANGED <<txFifo, rxFifo, callbackVars, boot, rcv, ble, cb, uartVars,
                 owed, sent>>

WorkEnable ==
  /\ work.pc = "enable"
  /\ InThread
  /\ Rx!Enable(work.buf)
  /\ work' = [pending |-> work.pending, pc |-> "idle", buf |-> NULL]
  /\ UNCHANGED <<free, len, txFifo, rxFifo, callbackVars, boot, rcv, ble, cb,
                 tx, owed, sent>>
---------------------------------------------------------------------------
(* ble_write_thread(): data that cannot be sent is dropped *)

BleGet ==
  /\ ble = NULL
  /\ boot.pc = "done"
  /\ InPreemptible
  /\ rxFifo # <<>>
  /\ ble' = Head(rxFifo)
  /\ rxFifo' = Tail(rxFifo)
  /\ UNCHANGED <<free, len, txFifo, callbackVars, work, boot, rcv, cb,
                 uartVars, owed, sent>>

BleSendFree ==
  /\ ble # NULL
  /\ InPreemptible
  /\ free' = free \cup {ble}
  /\ ble' = NULL
  /\ UNCHANGED <<len, txFifo, rxFifo, callbackVars, work, boot, rcv, cb,
                 uartVars, owed, sent>>
---------------------------------------------------------------------------
UartInit ==
  \/ \E b \in Block \cup {NULL} : UartInitRx(b) \/ UartInitTx(b)
  \/ UartInitTransmit
  \/ UartInitEnable

Receive ==
  \/ \E b \in Block \cup {NULL} : ReceiveAlloc(b)
  \/ ReceiveTx
  \/ ReceivePut

Work == (\E b \in Block \cup {NULL} : WorkAlloc(b)) \/ WorkEnable
Ble == BleGet \/ BleSendFree

Next ==
  \/ UartInit
  \/ \E n \in 1 .. MaxWrite, cr \in BOOLEAN : BtReceive(n, cr)
  \/ Receive
  \/ \E n \in 1 .. BufSize : UartSend(n)
  \/ UartTxEvent
  \/ UartRxEvent
  \/ UartCb
  \/ Work
  \/ Ble

Spec == Init /\ [][Next]_bridgeVars

\* Every piece of code runs when its turn comes and the UART does what it is
\* asked to.  The UART's events leave the threads time to run (SF), and the
\* work is retried until a block is there; nobody makes data come in.
Fairness ==
  /\ WF_bridgeVars(UartInit)
  /\ SF_bridgeVars(Receive)
  /\ WF_bridgeVars(\E n \in 1 .. BufSize : UartSend(n))
  /\ SF_bridgeVars(UartTxEvent)
  /\ SF_bridgeVars(UartRxEvent /\ rx.state = "stopping")
  /\ WF_bridgeVars(UartCb)
  /\ SF_bridgeVars(Work)
  /\ SF_bridgeVars(Ble)

FairSpec == Spec /\ Fairness
---------------------------------------------------------------------------
(* Properties *)

Elements(s) == {s[i] : i \in DOMAIN s}

Place == {"heap", "tx fifo", "rx fifo", "transmitter", "transmitted",
          "receiver", "next", "released", "bt_receive_cb",
          "ble_write_thread", "uart_work_handler", "uart_init"}

IsIn(b, place) ==
  CASE place = "heap" -> b \in free
    [] place = "tx fifo" -> b \in Elements(txFifo)
    [] place = "rx fifo" -> b \in Elements(rxFifo)
    [] place = "transmitter" -> tx # Tx!Idle /\ tx.buf.block = b
    [] place = "transmitted" -> /\ cb.type \in {"TX_DONE", "TX_ABORTED"}
                                /\ cb.buf.block = b
    [] place = "receiver" -> rx.cur = b
    [] place = "next" -> rx.next = b
    [] place = "released" -> cb.type = "RX_BUF_RELEASED" /\ cb.buf = b
    [] place = "bt_receive_cb" -> rcv.tx = b
    [] place = "ble_write_thread" -> ble = b
    [] place = "uart_work_handler" -> work.buf = b
    [] place = "uart_init" -> b \in {boot.rx, boot.tx}

\* The places block b is in.
Places(b) == {place \in Place : IsIn(b, place)}

NoDuplicates(s) == \A i, j \in DOMAIN s : s[i] = s[j] => i = j

\* No block of the heap is leaked, freed twice or used after it was freed,
\* although a thread and the callback that interrupts it pass blocks to each
\* other: every block is in one place, and in a fifo it is there once.
BlockInOnePlace ==
  /\ \A b \in Block : \E place \in Place : Places(b) = {place}
  /\ NoDuplicates(txFifo)
  /\ NoDuplicates(rxFifo)

\* The bytes that the bridge counts are those that the UART moved.  However
\* often the UART aborts a transfer, it is resumed where it stopped, and the
\* block is freed when each of its bytes was put on the line once: through
\* aborted_buf, since CONTAINER_OF (lines 128 and 133) may be applied to
\* nothing but the address of a data array.  In a block that is being received
\* len is what was reported of it, so that data[len - 1] is the last byte
\* received.  And no data array is overrun: "Keep the last byte of TX buffer
\* for potential LF char" (line 505).
BytesAccounted ==
  /\ \A b \in Block : len[b] <= BufSize
  /\ rx.cur # NULL =>
       len[rx.cur] = rx.count - (IF cb.type = "RX_RDY" THEN cb.len ELSE 0)
  /\ rx.next # NULL => len[rx.next] = 0
  /\ tx # Tx!Idle => sent[tx.buf.block] = tx.buf.off + tx.sent
  /\ cb.type = "TX_DONE" => sent[cb.buf.block] = len[cb.buf.block]
  /\ cb.type \in {"TX_DONE", "TX_ABORTED"} =>
       \/ aborted.buf = NULL /\ cb.buf.off = 0
       \/ aborted.buf = cb.buf.block /\ aborted.len = cb.buf.off

\* Data goes out in the order in which the peer wrote it (and the welcome
\* message before it).  It holds when the callback cannot interrupt
\* bt_receive_cb() between the -EBUSY of uart_tx() and k_fifo_put().
SentInOrder == tx # Tx!Idle => tx.buf.block = Head(owed)

\* No data waits in the fifo for a transmitter that does nothing.
NothingStranded == txFifo # <<>> /\ cb = NoEvent => tx # Tx!Idle

\* With a UART that calls back from an interrupt one block at most is
\* stranded in the fifo while the transmitter is idle, ...
OneStranded ==
  cb = NoEvent /\ rcv.pc = "idle" /\ tx = Tx!Idle => Len(txFifo) <= 1

\* ... and when a block was transmitted before an older one, the oldest is
\* the very next to be transmitted.
OvertakenOnce ==
  [][tx = Tx!Idle /\ tx' # Tx!Idle /\ cb.type = "TX_DONE"
     => tx'.buf.block = Head(owed')]_bridgeVars

\* Received bytes are freed by ble_write_thread() only, not by the receive
\* path on one of its many ways out.
ReceivedReachesBle ==
  [][\A b \in Block :
       Places(b) \subseteq {"receiver", "next", "released", "rx fifo",
                            "ble_write_thread"} /\ len[b] > 0
       => \/ ble = b
          \/ Places(b)' \subseteq {"receiver", "released", "rx fifo",
                                   "ble_write_thread"}]_bridgeVars

\* Reception that is off comes back: a retry is pending whenever no buffer
\* could be allocated in UART_RX_DISABLED, and the request to disable it is
\* forgotten exactly when it is over.
ReceptionRetried ==
  /\ boot.pc = "done" /\ rx.state = "off" /\ cb.type # "RX_DISABLED" =>
       work.pending \/ work.pc = "enable"
  /\ work.pending \/ work.pc = "enable" => rx.state = "off"
  /\ disableReq => rx.state = "stopping" \/ cb.type = "RX_DISABLED"

\* Once the peer leaves the bridge alone, reception is always enabled again,
\* even if the heap was exhausted: what the other direction holds of it is
\* given back but for a stranded block.
ReceptionResumes ==
  <>[](rcv.pc = "idle") => (rx.state = "off" ~> rx.state = "on")

\* Every block put in the fifo is transmitted, without help of later data.
FifoDrains ==
  \A b \in Block : b \in Elements(txFifo) ~> b \notin Elements(txFifo)
=============================================================================
