-------------------------- MODULE NusBridgeProofs --------------------------
(***************************************************************************)
(* What holds of the bridge for every heap, buffer size and length of the  *)
(* peer's writes: every block is in one place, the bytes of each block are *)
(* accounted for, data goes out in the order it was written but for the    *)
(* one block that can be stranded, what was received is handed on, and     *)
(* reception which is off is always about to be retried.                   *)
(***************************************************************************)
EXTENDS NusBridge, SequenceTheorems, TLAPS

TxEvents == {"TX_DONE", "TX_ABORTED"}
RxEvents == {"RX_RDY", "RX_BUF_REQUEST", "RX_BUF_RELEASED", "RX_DISABLED"}

\* Every variable that names a block names one, in three parts; how long the
\* blocks are is left open.
HeapTypes ==
  /\ free \subseteq Block
  /\ len \in [Block -> Nat]
  /\ txFifo \in Seq(Block)
  /\ rxFifo \in Seq(Block)
  /\ aborted \in [buf : Block \cup {NULL}, len : Nat]
  /\ ble \in Block \cup {NULL}

ThreadTypes ==
  /\ work \in [pending : BOOLEAN, pc : {"idle", "enable"},
               buf : Block \cup {NULL}]
  /\ work.pc = "enable" => work.buf \in Block
  /\ boot \in [pc : {"alloc_rx", "alloc_tx", "tx", "enable", "done", "error"},
               rx : Block \cup {NULL}, tx : Block \cup {NULL}]
  /\ boot.pc \in {"alloc_tx", "tx", "enable"} => boot.rx \in Block
  /\ boot.pc = "tx" => boot.tx \in Block
  /\ rcv \in [pc : {"idle", "alloc", "tx", "put"}, tx : Block \cup {NULL},
              left : Nat, cr : BOOLEAN]
  /\ rcv.pc \in {"tx", "put"} => rcv.tx \in Block

UartTypes ==
  /\ cb \in [type : {"none"} \cup TxEvents \cup RxEvents,
             buf : Address \cup Block \cup {NULL}, len : Nat, eol : BOOLEAN]
  /\ cb.type \in TxEvents => cb.buf \in Address
  /\ cb.type \in {"RX_RDY", "RX_BUF_RELEASED"} => cb.buf \in Block
  /\ tx \in [buf : Address \cup {NULL}, len : Int, sent : Nat]
  /\ tx.buf = NULL => tx = Tx!Idle
  /\ rx \in [state : {"off", "on", "stopping"}, cur : Block \cup {NULL},
             next : Block \cup {NULL}, count : Nat]

Types == HeapTypes /\ ThreadTypes /\ UartTypes

\* The types hold at the start, ...
LEMMA InitTypes == Init => Types
<1> SUFFICES ASSUME Init PROVE Types
  OBVIOUS
<1>1. HeapTypes
  BY DEF Init, HeapTypes
<1>2. ThreadTypes
  BY DEF Init, ThreadTypes
<1>3. UartTypes
  BY DEF Init, UartTypes, Tx!Init, Tx!Idle, Rx!Init, Rx!Off, NoEvent,
     TxEvents, RxEvents
<1> QED BY <1>1, <1>2, <1>3 DEF Types

\* ... and are kept by uart_init(), ...
LEMMA InitStepTypes ==
  ASSUME Types, UartInit
  PROVE  Types'
<1> USE DEF Types
<1>1. CASE \E b \in Block \cup {NULL} : UartInitRx(b)
  <2>1. HeapTypes'
    BY <1>1, BridgeAssumption DEF UartInitRx, Malloc, Available, Emptied,
       HeapTypes, callbackVars
  <2>2. ThreadTypes'
    BY <1>1, BridgeAssumption DEF UartInitRx, Malloc, Available,
       ThreadTypes, HeapTypes
  <2>3. UartTypes'
    BY <1>1 DEF UartInitRx, UartTypes, uartVars
  <2> QED BY <2>1, <2>2, <2>3
<1>2. CASE \E b \in Block \cup {NULL} : UartInitTx(b)
  <2>1. HeapTypes'
    BY <1>2, BridgeAssumption DEF UartInitTx, Malloc, Available, Owe,
       HeapTypes, ThreadTypes, callbackVars
  <2>2. ThreadTypes'
    BY <1>2, BridgeAssumption DEF UartInitTx, Malloc, Available,
       ThreadTypes, HeapTypes
  <2>3. UartTypes'
    BY <1>2 DEF UartInitTx, UartTypes, uartVars
  <2> QED BY <2>1, <2>2, <2>3
<1>3. CASE UartInitTransmit
  <2>1. HeapTypes'
    BY <1>3 DEF UartInitTransmit, HeapTypes, callbackVars
  <2>2. ThreadTypes'
    BY <1>3, BridgeAssumption DEF UartInitTransmit, ThreadTypes
  <2>3. UartTypes'
    BY <1>3, BridgeAssumption DEF UartInitTransmit, Tx!Submit, Tx!Idle,
       At, Address, UartTypes, HeapTypes, ThreadTypes, uartVars
  <2> QED BY <2>1, <2>2, <2>3
<1>4. CASE UartInitEnable
  <2>1. HeapTypes'
    BY <1>4 DEF UartInitEnable, HeapTypes, callbackVars
  <2>2. ThreadTypes'
    BY <1>4, BridgeAssumption DEF UartInitEnable, ThreadTypes
  <2>3. UartTypes'
    BY <1>4, BridgeAssumption DEF UartInitEnable, Rx!Enable, Rx!Off,
       UartTypes, ThreadTypes, uartVars
  <2> QED BY <2>1, <2>2, <2>3
<1> QED BY <1>1, <1>2, <1>3, <1>4 DEF UartInit

\* ... bt_receive_cb(), ...
LEMMA ReceiveStepTypes ==
  ASSUME Types, Receive \/ \E n \in 1 .. MaxWrite, cr \in BOOLEAN : BtReceive(n, cr)
  PROVE  Types'
<1> USE DEF Types
<1>1. CASE \E n \in 1 .. MaxWrite, cr \in BOOLEAN : BtReceive(n, cr)
  <2>1. HeapTypes'
    BY <1>1 DEF BtReceive, HeapTypes, callbackVars
  <2>2. ThreadTypes'
    BY <1>1, BridgeAssumption DEF BtReceive, ThreadTypes
  <2>3. UartTypes'
    BY <1>1 DEF BtReceive, UartTypes, uartVars
  <2> QED BY <2>1, <2>2, <2>3
<1>2. CASE \E b \in Block \cup {NULL} : ReceiveAlloc(b)
  <2>1. HeapTypes'
    BY <1>2, BridgeAssumption DEF ReceiveAlloc, TxDataSize, Malloc,
       Available, Owe, HeapTypes, ThreadTypes, callbackVars
  <2>2. ThreadTypes'
    <3>1. PICK b \in Available : ReceiveAlloc(b)
      BY <1>2 DEF ReceiveAlloc, Malloc
    <3>2. CASE b = NULL
      <4>1. rcv' = NotReceiving /\ UNCHANGED <<work, boot>>
        BY <3>1, <3>2 DEF ReceiveAlloc
      <4> QED BY <4>1 DEF NotReceiving, ThreadTypes
    <3>3. CASE b # NULL
      <4>1. b \in Block
        BY <3>3 DEF Available, HeapTypes
      <4>2. rcv.left \in Nat /\ rcv.cr \in BOOLEAN /\ TxDataSize \in Nat
        BY BridgeAssumption DEF ThreadTypes, TxDataSize
      <4>3. /\ UNCHANGED <<work, boot>>
            /\ \E n \in Nat : /\ n <= rcv.left
                             /\ rcv' = [pc |-> "tx", tx |-> b,
                                        left |-> rcv.left - n, cr |-> rcv.cr]
        BY <3>1, <3>3, <4>2 DEF ReceiveAlloc
      <4> QED BY <4>1, <4>2, <4>3 DEF ThreadTypes
    <3> QED BY <3>2, <3>3
  <2>3. UartTypes'
    BY <1>2 DEF ReceiveAlloc, UartTypes, uartVars
  <2> QED BY <2>1, <2>2, <2>3
<1>3. CASE ReceiveTx
  <2>1. HeapTypes'
    BY <1>3 DEF ReceiveTx, HeapTypes, callbackVars
  <2>2. ThreadTypes'
    <3>1. NextChunk => ThreadTypes'
      BY <1>3 DEF ReceiveTx, NextChunk, NotReceiving, ThreadTypes
    <3>2. rcv' = [rcv EXCEPT !.pc = "put"] /\ rcv.pc = "tx" => ThreadTypes'
      BY <1>3 DEF ReceiveTx, ThreadTypes
    <3> QED BY <1>3, <3>1, <3>2 DEF ReceiveTx
  <2>3. UartTypes'
    BY <1>3, BridgeAssumption DEF ReceiveTx, Tx!Submit, Tx!Idle, At,
       Address, UartTypes, HeapTypes, ThreadTypes, uartVars
  <2> QED BY <2>1, <2>2, <2>3
<1>4. CASE ReceivePut
  <2>1. HeapTypes'
    BY <1>4, BridgeAssumption DEF ReceivePut, Put, HeapTypes,
       ThreadTypes, callbackVars
  <2>2. ThreadTypes'
    BY <1>4, BridgeAssumption DEF ReceivePut, NextChunk, NotReceiving,
       ThreadTypes
  <2>3. UartTypes'
    BY <1>4 DEF ReceivePut, UartTypes, uartVars
  <2> QED BY <2>1, <2>2, <2>3
<1> QED BY <1>1, <1>2, <1>3, <1>4 DEF Receive

\* ... the UART, ...
LEMMA UartStepTypes ==
  ASSUME Types, (\E n \in 1 .. BufSize : UartSend(n)) \/ UartTxEvent \/ UartRxEvent
  PROVE  Types'
<1> USE DEF Types
<1>1. CASE \E n \in 1 .. BufSize : UartSend(n)
  <2>1. HeapTypes'
    BY <1>1 DEF UartSend, HeapTypes, callbackVars
  <2>2. ThreadTypes'
    BY <1>1 DEF UartSend, ThreadTypes
  <2>3. UartTypes'
    BY <1>1, BridgeAssumption DEF UartSend, Tx!Send, Tx!Idle, UartTypes,
       uartVars
  <2> QED BY <2>1, <2>2, <2>3
<1>2. CASE UartTxEvent
  <2>1. HeapTypes'
    BY <1>2 DEF UartTxEvent, HeapTypes, callbackVars
  <2>2. ThreadTypes'
    BY <1>2 DEF UartTxEvent, ThreadTypes
  <2>3. UartTypes'
    BY <1>2, BridgeAssumption DEF UartTxEvent, Tx!Report, Tx!Idle, Event,
       TxEvents, RxEvents, UartTypes, uartVars
  <2> QED BY <2>1, <2>2, <2>3
<1>3. CASE UartRxEvent
  <2>1. HeapTypes'
    BY <1>3 DEF UartRxEvent, HeapTypes, callbackVars
  <2>2. ThreadTypes'
    BY <1>3 DEF UartRxEvent, ThreadTypes
  <2>3. UartTypes'
    <3>1. ASSUME NEW n \in 1 .. BufSize, NEW eol \in BOOLEAN, Rx!Ready(n),
                 cb' = Event("RX_RDY", rx.cur, n, eol), tx' = tx
          PROVE  UartTypes'
      BY <3>1, BridgeAssumption DEF Rx!Ready, Event, TxEvents, RxEvents,
         UartTypes
    <3>2. CASE Rx!Request /\ cb' = Event("RX_BUF_REQUEST", NULL, 0, FALSE)
      BY <1>3, <3>2 DEF UartRxEvent, Rx!Request, Event, TxEvents, RxEvents,
                        UartTypes
    <3>3. CASE Rx!Release /\ cb' = Event("RX_BUF_RELEASED", rx.cur, 0, FALSE)
      BY <1>3, <3>3 DEF UartRxEvent, Rx!Release, Event, TxEvents, RxEvents,
                        UartTypes
    <3>4. CASE Rx!Disabled /\ cb' = Event("RX_DISABLED", NULL, 0, FALSE)
      BY <1>3, <3>4 DEF UartRxEvent, Rx!Disabled, Rx!Off, Event, TxEvents,
                        RxEvents, UartTypes
    <3> QED BY <1>3, <3>1, <3>2, <3>3, <3>4 DEF UartRxEvent
  <2> QED BY <2>1, <2>2, <2>3
<1> QED BY <1>1, <1>2, <1>3

\* ... uart_cb(), ...
LEMMA CallbackStepTypes ==
  ASSUME Types, UartCb
  PROVE  Types'
<1> USE DEF Types
<1>1. CASE TxDone
  <2>1. HeapTypes'
    <3>1. cb.buf.block \in Block
      BY <1>1 DEF TxDone, UartTypes, TxEvents, Address
    <3>2. free' \subseteq Block
      BY <1>1, <3>1 DEF TxDone, HeapTypes
    <3>3. txFifo' \in Seq(Block)
      <4>1. txFifo' = txFifo \/ (txFifo # <<>> /\ txFifo' = Tail(txFifo))
        BY <1>1 DEF TxDone, TransmitNext
      <4>2. txFifo # <<>> => Tail(txFifo) \in Seq(Block)
        BY HeadTailProperties DEF HeapTypes
      <4> QED BY <4>1, <4>2 DEF HeapTypes
    <3>4. aborted' \in [buf : Block \cup {NULL}, len : Nat]
      BY <1>1 DEF TxDone, AbortIsOver
    <3> QED BY <1>1, <3>2, <3>3, <3>4 DEF TxDone, HeapTypes
  <2>2. ThreadTypes'
    BY <1>1 DEF TxDone, ThreadTypes
  <2>3. UartTypes'
    BY <1>1, BridgeAssumption DEF TxDone, Return, NoEvent, TxEvents,
       RxEvents, TransmitNext, Tx!Submit, Tx!Idle, At, Address,
       UartTypes, HeapTypes, uartVars
  <2> QED BY <2>1, <2>2, <2>3
<1>2. CASE TxAborted
  <2>1. HeapTypes'
    <3>1. cb.buf.block \in Block /\ cb.len \in Nat
      BY <1>2 DEF TxAborted, UartTypes, TxEvents, Address
    <3>2. aborted' \in [buf : Block \cup {NULL}, len : Nat]
      BY <1>2, <3>1 DEF TxAborted, AbortedSoFar, HeapTypes
    <3> QED BY <1>2, <3>2 DEF TxAborted, HeapTypes
  <2>2. ThreadTypes'
    BY <1>2 DEF TxAborted, ThreadTypes
  <2>3. UartTypes'
    BY <1>2, BridgeAssumption DEF TxAborted, Return, NoEvent, TxEvents,
       RxEvents, AbortedSoFar, Tx!Submit, Tx!Idle, At, Address,
       UartTypes, HeapTypes, uartVars
  <2> QED BY <2>1, <2>2, <2>3
<1>3. CASE RxRdy
  <2>1. HeapTypes'
    BY <1>3, BridgeAssumption DEF RxRdy, TxEvents, RxEvents, HeapTypes,
       UartTypes, callbackVars
  <2>2. ThreadTypes'
    BY <1>3 DEF RxRdy, ThreadTypes
  <2>3. UartTypes'
    BY <1>3, BridgeAssumption DEF RxRdy, Return, NoEvent, TxEvents,
       RxEvents, Rx!Disable, UartTypes, uartVars
  <2> QED BY <2>1, <2>2, <2>3
<1>4. CASE \E b \in Block \cup {NULL} : RxDisabled(b)
  <2>1. HeapTypes'
    BY <1>4, BridgeAssumption DEF RxDisabled, Malloc, Available, Emptied,
       HeapTypes, callbackVars
  <2>2. ThreadTypes'
    BY <1>4, BridgeAssumption DEF RxDisabled, Reschedule, ThreadTypes
  <2>3. UartTypes'
    <3>1. PICK b \in Available : RxDisabled(b)
      BY <1>4 DEF RxDisabled, Malloc
    <3>2. CASE b = NULL
      BY <3>1, <3>2 DEF RxDisabled, Return, NoEvent, TxEvents, RxEvents,
                        UartTypes
    <3>3. CASE b # NULL
      <4>1. b \in Block
        BY <3>3 DEF Available, HeapTypes
      <4> QED BY <3>1, <3>3, <4>1 DEF RxDisabled, Return, NoEvent, TxEvents,
                                      RxEvents, Rx!Enable, Rx!Off, UartTypes
    <3> QED BY <3>2, <3>3
  <2> QED BY <2>1, <2>2, <2>3
<1>5. CASE \E b \in Block \cup {NULL} : RxBufRequest(b)
  <2>1. HeapTypes'
    BY <1>5, BridgeAssumption DEF RxBufRequest, Emptied, Malloc,
       Available, HeapTypes, callbackVars
  <2>2. ThreadTypes'
    BY <1>5 DEF RxBufRequest, ThreadTypes
  <2>3. UartTypes'
    <3>1. PICK b \in Available : RxBufRequest(b)
      BY <1>5 DEF RxBufRequest, Malloc
    <3>2. CASE b = NULL
      BY <3>1, <3>2 DEF RxBufRequest, Return, NoEvent, TxEvents, RxEvents,
                        UartTypes
    <3>3. CASE b # NULL
      <4>1. b \in Block
        BY <3>3 DEF Available, HeapTypes
      <4> QED BY <3>1, <3>3, <4>1 DEF RxBufRequest, Return, NoEvent, TxEvents,
                                      RxEvents, Rx!Respond, UartTypes
    <3> QED BY <3>2, <3>3
  <2> QED BY <2>1, <2>2, <2>3
<1>6. CASE RxBufReleased
  <2>1. HeapTypes'
    <3>1. cb.buf \in Block
      BY <1>6 DEF RxBufReleased, UartTypes
    <3>2. \/ rxFifo' = Append(rxFifo, cb.buf) /\ free' = free
          \/ rxFifo' = rxFifo /\ free' = free \cup {cb.buf}
      BY <1>6 DEF RxBufReleased, Put
    <3>3. rxFifo' \in Seq(Block) /\ free' \subseteq Block
      <4>1. rxFifo \in Seq(Block) /\ free \subseteq Block
        BY DEF HeapTypes
      <4>2. Append(rxFifo, cb.buf) \in Seq(Block)
        BY <3>1, <4>1, AppendProperties
      <4> QED BY <3>1, <3>2, <4>1, <4>2
    <3> QED BY <1>6, <3>3 DEF RxBufReleased, HeapTypes, callbackVars
  <2>2. ThreadTypes'
    BY <1>6 DEF RxBufReleased, ThreadTypes
  <2>3. UartTypes'
    BY <1>6, BridgeAssumption DEF RxBufReleased, Return, NoEvent,
       TxEvents, RxEvents, UartTypes, uartVars
  <2> QED BY <2>1, <2>2, <2>3
<1> QED BY <1>1, <1>2, <1>3, <1>4, <1>5, <1>6 DEF UartCb

\* ... the retry work and ble_write_thread(), ...
LEMMA ThreadStepTypes ==
  ASSUME Types, Work \/ Ble
  PROVE  Types'
<1> USE DEF Types
<1>1. CASE \E b \in Block \cup {NULL} : WorkAlloc(b)
  <2>1. HeapTypes'
    BY <1>1, BridgeAssumption DEF WorkAlloc, Malloc, Available, Emptied,
       HeapTypes, callbackVars
  <2>2. ThreadTypes'
    <3>1. PICK b \in Available : WorkAlloc(b)
      BY <1>1 DEF WorkAlloc, Malloc
    <3>2. CASE b = NULL
      BY <3>1, <3>2 DEF WorkAlloc, Reschedule, ThreadTypes
    <3>3. CASE b # NULL
      <4>1. b \in Block
        BY <3>3 DEF Available, HeapTypes
      <4>2. /\ work' = [pending |-> FALSE, pc |-> "enable", buf |-> b]
            /\ UNCHANGED <<boot, rcv>>
        BY <3>1, <3>3 DEF WorkAlloc
      <4> QED BY <4>1, <4>2 DEF ThreadTypes
    <3> QED BY <3>2, <3>3
  <2>3. UartTypes'
    BY <1>1 DEF WorkAlloc, UartTypes, uartVars
  <2> QED BY <2>1, <2>2, <2>3
<1>2. CASE WorkEnable
  <2>1. HeapTypes'
    BY <1>2 DEF WorkEnable, HeapTypes, callbackVars
  <2>2. ThreadTypes'
    BY <1>2, BridgeAssumption DEF WorkEnable, ThreadTypes
  <2>3. UartTypes'
    BY <1>2, BridgeAssumption DEF WorkEnable, Rx!Enable, Rx!Off,
       UartTypes, ThreadTypes, uartVars
  <2> QED BY <2>1, <2>2, <2>3
<1>3. CASE BleGet
  <2>1. HeapTypes'
    BY <1>3, BridgeAssumption DEF BleGet, HeapTypes, callbackVars
  <2>2. ThreadTypes'
    BY <1>3 DEF BleGet, ThreadTypes
  <2>3. UartTypes'
    BY <1>3 DEF BleGet, UartTypes, uartVars
  <2> QED BY <2>1, <2>2, <2>3
<1>4. CASE BleSendFree
  <2>1. HeapTypes'
    BY <1>4, BridgeAssumption DEF BleSendFree, HeapTypes, callbackVars
  <2>2. ThreadTypes'
    BY <1>4 DEF BleSendFree, ThreadTypes
  <2>3. UartTypes'
    BY <1>4 DEF BleSendFree, UartTypes, uartVars
  <2> QED BY <2>1, <2>2, <2>3
<1> QED BY <1>1, <1>2, <1>3, <1>4 DEF Work, Ble

\* ... so by every step.
LEMMA NextTypes ==
  ASSUME Types, [Next]_bridgeVars
  PROVE  Types'
<1>1. CASE UNCHANGED bridgeVars
  BY <1>1 DEF bridgeVars, callbackVars, uartVars, Types, HeapTypes,
              ThreadTypes, UartTypes
<1> QED
  BY <1>1, InitStepTypes, ReceiveStepTypes, UartStepTypes, CallbackStepTypes,
     ThreadStepTypes DEF Next

\* The types always hold.
LEMMA TypesInvariant == Spec => []Types
<1>1. Types /\ [Next]_bridgeVars => Types'
  BY NextTypes
<1> QED BY InitTypes, <1>1, PTL DEF Spec
---------------------------------------------------------------------------
(* How much is stranded in the transmit fifo *)

\* While no transmit event is handled the transmitter is idle only with an
\* almost empty fifo: bt_receive_cb() saw -EBUSY when it is about to put, so
\* the transmitter has gone idle since, and did so on an empty fifo.
StrandInv ==
  tx = Tx!Idle /\ cb.type \notin TxEvents =>
    /\ Len(txFifo) <= 1
    /\ rcv.pc = "put" => txFifo = <<>>

\* Without interrupts it does not come to that: the callback has waited for
\* bt_receive_cb() to put its block.
CoopInv ==
  /\ tx = Tx!Idle /\ cb.type \notin TxEvents =>
       txFifo = <<>> /\ rcv.pc # "put"
  /\ cb # NoEvent => rcv.pc = "idle"

\* A transfer that was submitted is there.
LEMMA SubmitNotIdle ==
  ASSUME NEW b \in Address, NEW n, Tx!Submit(b, n)
  PROVE  tx = Tx!Idle /\ tx' # Tx!Idle
<1>1. tx' = [buf |-> b, len |-> n, sent |-> 0] /\ tx = Tx!Idle
  BY DEF Tx!Submit, Tx!Idle
<1>2. tx'.buf # NULL
  BY <1>1, BridgeAssumption
<1> QED BY <1>1, <1>2 DEF Tx!Idle

\* A place in a block is an address.
LEMMA AtAddress ==
  ASSUME NEW b \in Block, NEW n \in Nat
  PROVE  At(b, n) \in Address
BY DEF At, Address

\* Every step keeps it.
LEMMA NextStranded ==
  ASSUME Types, StrandInv, [Next]_bridgeVars
  PROVE  StrandInv'
<1>1. CASE UNCHANGED <<tx, cb, txFifo>> /\ rcv'.pc # "put"
  BY <1>1 DEF StrandInv
<1>2. CASE UNCHANGED <<tx, cb, txFifo, rcv>>
  BY <1>2 DEF StrandInv
<1>3. CASE UartInit
  <2>1. CASE UartInitTransmit
    <3>1. At(boot.tx, 0) \in Address
      BY <2>1, AtAddress DEF UartInitTransmit, Types, ThreadTypes
    <3> QED BY <2>1, <3>1, SubmitNotIdle DEF UartInitTransmit, StrandInv
  <2> QED BY <1>2, <1>3, <2>1
            DEF UartInit, UartInitRx, UartInitTx, UartInitEnable, uartVars
<1>4. CASE \E n \in 1 .. MaxWrite, cr \in BOOLEAN : BtReceive(n, cr)
  BY <1>1, <1>4 DEF BtReceive, uartVars
<1>5. CASE \E b \in Block \cup {NULL} : ReceiveAlloc(b)
  BY <1>1, <1>5 DEF ReceiveAlloc, NotReceiving, uartVars
<1>6. CASE ReceiveTx
  <2>1. CASE tx = Tx!Idle
    <3>1. At(rcv.tx, 0) \in Address
      BY <1>6, AtAddress DEF ReceiveTx, Types, ThreadTypes
    <3> QED BY <1>6, <2>1, <3>1, SubmitNotIdle DEF ReceiveTx, StrandInv
  <2>2. CASE tx # Tx!Idle
    BY <1>6, <2>2 DEF ReceiveTx, StrandInv
  <2> QED BY <2>1, <2>2
<1>7. CASE ReceivePut
  <2>1. cb.type \notin TxEvents
    BY <1>7 DEF ReceivePut, InThread, NoEvent, TxEvents
  <2>2. rcv'.pc # "put"
    BY <1>7 DEF ReceivePut, NextChunk, NotReceiving
  <2>3. CASE tx = Tx!Idle
    <3>1. txFifo = <<>> /\ rcv.tx \in Block
      BY <1>7, <2>1, <2>3 DEF ReceivePut, StrandInv, Types, ThreadTypes
    <3>2. txFifo' = <<rcv.tx>>
      BY <1>7, <3>1 DEF ReceivePut, Put
    <3> QED BY <2>2, <3>2 DEF StrandInv
  <2>4. CASE tx # Tx!Idle
    BY <1>7, <2>4 DEF ReceivePut, StrandInv, uartVars
  <2> QED BY <2>3, <2>4
<1>8. CASE \E n \in 1 .. BufSize : UartSend(n)
  <2>1. tx # Tx!Idle /\ UNCHANGED <<cb, txFifo, rcv>>
    BY <1>8 DEF UartSend, Tx!Send, Tx!Idle
  <2>2. tx' # Tx!Idle
    <3>1. PICK n \in 1 .. BufSize : tx' = [tx EXCEPT !.sent = @ + n]
      BY <1>8 DEF UartSend, Tx!Send
    <3>2. tx'.buf = tx.buf /\ tx.buf # NULL
      BY <2>1, <3>1 DEF Types, UartTypes
    <3> QED BY <3>2 DEF Tx!Idle
  <2> QED BY <2>2 DEF StrandInv
<1>9. CASE UartTxEvent
  <2>1. cb'.type \in TxEvents
    BY <1>9 DEF UartTxEvent, Event, TxEvents
  <2> QED BY <2>1 DEF StrandInv
<1>10. CASE UartRxEvent
  <2>1. cb.type \notin TxEvents /\ UNCHANGED <<tx, txFifo, rcv>>
    BY <1>10 DEF UartRxEvent, MayCallback, NoEvent, TxEvents
  <2> QED BY <2>1 DEF StrandInv
<1>11. CASE TxDone
  <2>1. CASE txFifo = <<>>
    BY <1>11, <2>1 DEF TxDone, TransmitNext, StrandInv
  <2>2. CASE txFifo # <<>>
    <3>1. At(Head(txFifo), 0) \in Address
      BY <2>2, AtAddress, HeadTailProperties DEF Types, HeapTypes
    <3>2. Tx!Submit(At(Head(txFifo), 0), len[Head(txFifo)])
      BY <1>11, <2>2 DEF TxDone, TransmitNext
    <3> QED BY <3>1, <3>2, SubmitNotIdle DEF StrandInv
  <2> QED BY <2>1, <2>2
<1>12. CASE TxAborted
  <2>1. aborted'.buf \in Block /\ aborted'.len \in Nat
    <3>1. aborted' \in [buf : Block \cup {NULL}, len : Nat]
      BY NextTypes DEF Types, HeapTypes
    <3>2. cb.buf.block \in Block
      BY <1>12 DEF TxAborted, Types, UartTypes, TxEvents, Address
    <3>3. aborted'.buf # NULL
      BY <1>12, <3>2, BridgeAssumption DEF TxAborted
    <3> QED BY <3>1, <3>3
  <2>2. At(aborted'.buf, aborted'.len) \in Address
    BY <2>1, AtAddress
  <2>3. \E n : Tx!Submit(At(aborted'.buf, aborted'.len), n)
    BY <1>12 DEF TxAborted
  <2> QED BY <2>2, <2>3, SubmitNotIdle DEF StrandInv
<1>13. CASE RxRdy \/ RxBufReleased
            \/ \E b \in Block \cup {NULL} : RxDisabled(b) \/ RxBufRequest(b)
  <2>1. cb.type \notin TxEvents /\ UNCHANGED <<tx, txFifo, rcv>>
    BY <1>13 DEF RxRdy, RxBufReleased, RxDisabled, RxBufRequest, TxEvents,
                 uartVars
  <2> QED BY <2>1 DEF StrandInv
<1>14. CASE Work \/ Ble
  BY <1>2, <1>14 DEF Work, WorkAlloc, WorkEnable, Ble, BleGet, BleSendFree,
                     uartVars
<1>15. CASE UNCHANGED bridgeVars
  BY <1>2, <1>15 DEF bridgeVars, uartVars
<1> QED
  BY <1>3, <1>4, <1>5, <1>6, <1>7, <1>8, <1>9, <1>10, <1>11, <1>12, <1>13,
     <1>14, <1>15 DEF Next, Receive, UartCb

\* However many blocks wait for the transmitter, one at most is left in the
\* fifo when it goes idle: uart_cb() takes the next one at UART_TX_DONE, and
\* only the block of one interrupted bt_receive_cb() can come too late.
THEOREM OneBlockStranded == Spec => []OneStranded
<1>1. Init => StrandInv
  BY DEF Init, StrandInv
<1>2. Types /\ StrandInv /\ [Next]_bridgeVars => StrandInv'
  BY NextStranded
<1>3. StrandInv => OneStranded
  BY DEF StrandInv, OneStranded, NoEvent, TxEvents
<1> QED BY TypesInvariant, <1>1, <1>2, <1>3, PTL DEF Spec

\* Every step of a bridge whose callbacks wait keeps it.
LEMMA NextCoop ==
  ASSUME ~Isr, Types, CoopInv, [Next]_bridgeVars
  PROVE  CoopInv'
<1>1. ASSUME UNCHANGED <<tx, cb, txFifo>>, rcv'.pc # "put",
             rcv'.pc = "idle" \/ cb = NoEvent
      PROVE  CoopInv'
  BY <1>1 DEF CoopInv
<1>2. CASE UNCHANGED <<tx, cb, txFifo, rcv>>
  BY <1>2 DEF CoopInv
<1>3. CASE UartInit
  <2>1. CASE UartInitTransmit
    <3>1. At(boot.tx, 0) \in Address
      BY <2>1, AtAddress DEF UartInitTransmit, Types, ThreadTypes
    <3> QED BY <2>1, <3>1, SubmitNotIdle DEF UartInitTransmit, CoopInv
  <2> QED BY <1>2, <1>3, <2>1
            DEF UartInit, UartInitRx, UartInitTx, UartInitEnable, uartVars
<1>4. CASE \E n \in 1 .. MaxWrite, cr \in BOOLEAN : BtReceive(n, cr)
  BY <1>1, <1>4 DEF BtReceive, uartVars, InPreemptible, InThread
<1>5. CASE \E b \in Block \cup {NULL} : ReceiveAlloc(b)
  BY <1>1, <1>5 DEF ReceiveAlloc, NotReceiving, uartVars, InThread
<1>6. CASE ReceiveTx
  <2>1. cb = NoEvent /\ cb' = NoEvent
    BY <1>6 DEF ReceiveTx, InThread
  <2>2. CASE tx = Tx!Idle
    <3>1. At(rcv.tx, 0) \in Address
      BY <1>6, AtAddress DEF ReceiveTx, Types, ThreadTypes
    <3> QED BY <1>6, <2>1, <2>2, <3>1, SubmitNotIdle DEF ReceiveTx, CoopInv
  <2>3. CASE tx # Tx!Idle
    BY <1>6, <2>1, <2>3 DEF ReceiveTx, CoopInv
  <2> QED BY <2>2, <2>3
<1>7. CASE ReceivePut
  <2>1. cb = NoEvent /\ UNCHANGED <<cb, tx>>
    BY <1>7 DEF ReceivePut, InThread, uartVars
  <2>2. tx # Tx!Idle
    BY <1>7, <2>1 DEF ReceivePut, CoopInv, NoEvent, TxEvents
  <2> QED BY <2>1, <2>2 DEF CoopInv
<1>8. CASE \E n \in 1 .. BufSize : UartSend(n)
  <2>1. tx # Tx!Idle /\ UNCHANGED <<cb, txFifo, rcv>>
    BY <1>8 DEF UartSend, Tx!Send, Tx!Idle
  <2>2. tx' # Tx!Idle
    <3>1. PICK n \in 1 .. BufSize : tx' = [tx EXCEPT !.sent = @ + n]
      BY <1>8 DEF UartSend, Tx!Send
    <3>2. tx'.buf = tx.buf /\ tx.buf # NULL
      BY <2>1, <3>1 DEF Types, UartTypes
    <3> QED BY <3>2 DEF Tx!Idle
  <2> QED BY <2>1, <2>2 DEF CoopInv
<1>9. CASE UartTxEvent
  <2>1. cb'.type \in TxEvents /\ rcv'.pc = "idle"
    BY <1>9 DEF UartTxEvent, MayCallback, CooperativeIdle, Event, TxEvents
  <2> QED BY <2>1 DEF CoopInv
<1>10. CASE UartRxEvent
  <2>1. /\ cb.type \notin TxEvents
        /\ UNCHANGED <<tx, txFifo, rcv>>
        /\ rcv.pc = "idle"
    BY <1>10 DEF UartRxEvent, MayCallback, CooperativeIdle, NoEvent, TxEvents
  <2> QED BY <2>1 DEF CoopInv
<1>11. CASE TxDone
  <2>1. cb' = NoEvent /\ UNCHANGED rcv /\ rcv.pc = "idle"
    BY <1>11 DEF TxDone, Return, CoopInv, NoEvent
  <2>2. CASE txFifo = <<>>
    BY <1>11, <2>1, <2>2 DEF TxDone, TransmitNext, CoopInv
  <2>3. CASE txFifo # <<>>
    <3>1. At(Head(txFifo), 0) \in Address
      BY <2>3, AtAddress, HeadTailProperties DEF Types, HeapTypes
    <3>2. Tx!Submit(At(Head(txFifo), 0), len[Head(txFifo)])
      BY <1>11, <2>3 DEF TxDone, TransmitNext
    <3> QED BY <2>1, <3>1, <3>2, SubmitNotIdle DEF CoopInv
  <2> QED BY <2>2, <2>3
<1>12. CASE TxAborted
  <2>1. aborted'.buf \in Block /\ aborted'.len \in Nat
    <3>1. aborted' \in [buf : Block \cup {NULL}, len : Nat]
      BY NextTypes DEF Types, HeapTypes
    <3>2. cb.buf.block \in Block
      BY <1>12 DEF TxAborted, Types, UartTypes, TxEvents, Address
    <3>3. aborted'.buf # NULL
      BY <1>12, <3>2, BridgeAssumption DEF TxAborted
    <3> QED BY <3>1, <3>3
  <2>2. At(aborted'.buf, aborted'.len) \in Address
    BY <2>1, AtAddress
  <2>3. \E n : Tx!Submit(At(aborted'.buf, aborted'.len), n)
    BY <1>12 DEF TxAborted
  <2>4. cb' = NoEvent
    BY <1>12 DEF TxAborted, Return
  <2> QED BY <2>2, <2>3, <2>4, SubmitNotIdle DEF CoopInv
<1>13. CASE RxRdy \/ RxBufReleased
            \/ \E b \in Block \cup {NULL} : RxDisabled(b) \/ RxBufRequest(b)
  <2>1. cb.type \notin TxEvents /\ UNCHANGED <<tx, txFifo, rcv>> /\ Return
    BY <1>13 DEF RxRdy, RxBufReleased, RxDisabled, RxBufRequest, TxEvents,
                 uartVars
  <2> QED BY <2>1 DEF CoopInv, Return
<1>14. CASE Work \/ Ble
  BY <1>2, <1>14 DEF Work, WorkAlloc, WorkEnable, Ble, BleGet, BleSendFree,
                     uartVars
<1>15. CASE UNCHANGED bridgeVars
  BY <1>2, <1>15 DEF bridgeVars, uartVars
<1> QED
  BY <1>3, <1>4, <1>5, <1>6, <1>7, <1>8, <1>9, <1>10, <1>11, <1>12, <1>13,
     <1>14, <1>15 DEF Next, Receive, UartCb

\* When the UART calls back from a cooperative thread, as a CDC ACM UART
\* does, no data ever waits for a transmitter that does nothing.
THEOREM CoopStrandsNothing ==
  ASSUME ~Isr
  PROVE  Spec => []NothingStranded
<1>1. Init => CoopInv
  BY DEF Init, CoopInv, NoEvent
<1>2. Types /\ CoopInv /\ [Next]_bridgeVars => CoopInv'
  BY NextCoop
<1>3. CoopInv => NothingStranded
  BY DEF CoopInv, NothingStranded, NoEvent, TxEvents
<1> QED BY TypesInvariant, <1>1, <1>2, <1>3, PTL DEF Spec
---------------------------------------------------------------------------
(* Reception is retried *)

Retrying == work.pending \/ work.pc = "enable"

\* Who keeps the receiver's state: uart_init() until it is done, then the
\* receiver itself, uart_cb() while it handles UART_RX_DISABLED, and the work
\* while it is off.
ReceptionInv ==
  /\ rx.state = "off" => rx = Rx!Off
  /\ Retrying => rx.state = "off" /\ cb.type # "RX_DISABLED"
  /\ work.pc = "enable" => ~work.pending
  /\ boot.pc # "done" =>
       rx.state = "off" /\ ~Retrying /\ cb.type \notin RxEvents
  /\ boot.pc = "done" /\ rx.state = "off" => Retrying \/ cb.type = "RX_DISABLED"
  /\ cb.type = "RX_DISABLED" => rx.state = "off"
  /\ cb.type = "RX_RDY" => rx.state # "off"
  /\ disableReq => rx.state = "stopping" \/ cb.type = "RX_DISABLED"

\* Every step keeps it.
LEMMA NextReception ==
  ASSUME Types, ReceptionInv, [Next]_bridgeVars
  PROVE  ReceptionInv'
<1> USE DEF ReceptionInv, Retrying
<1>1. ASSUME UNCHANGED <<rx, work, disableReq, boot>>,
             cb' = cb \/ (cb.type \notin {"RX_RDY", "RX_DISABLED"}
                          /\ cb'.type \notin RxEvents)
      PROVE  ReceptionInv'
  BY <1>1 DEF RxEvents
<1>2. CASE UartInit
  <2>1. CASE UartInitEnable
    BY <1>2, <2>1, BridgeAssumption
       DEF UartInitEnable, Rx!Enable, Rx!Off, InPreemptible, InThread, NoEvent,
           Types, ThreadTypes, callbackVars
  <2>2. CASE ~UartInitEnable
    BY <1>2, <2>2 DEF UartInit, UartInitRx, UartInitTx, UartInitTransmit,
                      callbackVars, uartVars
  <2> QED BY <2>1, <2>2
<1>3. CASE Receive \/ \E n \in 1 .. MaxWrite, cr \in BOOLEAN : BtReceive(n, cr)
  BY <1>1, <1>3 DEF Receive, BtReceive, ReceiveAlloc, ReceiveTx, ReceivePut,
                    callbackVars, uartVars
<1>4. CASE (\E n \in 1 .. BufSize : UartSend(n)) \/ Ble
  BY <1>1, <1>4 DEF UartSend, Ble, BleGet, BleSendFree, callbackVars, uartVars
<1>5. CASE UartTxEvent
  BY <1>1, <1>5 DEF UartTxEvent, MayCallback, Event, NoEvent, RxEvents,
                    callbackVars
<1>6. CASE TxDone \/ TxAborted \/ RxBufReleased
  BY <1>1, <1>6 DEF TxDone, TxAborted, RxBufReleased, Return, NoEvent,
                    RxEvents, callbackVars, uartVars
<1>7. CASE UartRxEvent
  <2>1. /\ cb = NoEvent
        /\ UNCHANGED <<work, disableReq, boot>>
    BY <1>7 DEF UartRxEvent, MayCallback, callbackVars
  <2>2. CASE \E n \in 1 .. BufSize, eol \in BOOLEAN :
                Rx!Ready(n) /\ cb' = Event("RX_RDY", rx.cur, n, eol)
    <3>1. rx.state # "off" /\ rx'.state = rx.state /\ cb'.type = "RX_RDY"
      BY <2>2 DEF Rx!Ready, Rx!Off, Event, Types, UartTypes
    <3> QED BY <2>1, <3>1
  <2>3. CASE Rx!Request /\ cb' = Event("RX_BUF_REQUEST", NULL, 0, FALSE)
    BY <2>1, <2>3 DEF Rx!Request, Event, NoEvent
  <2>4. CASE Rx!Release /\ cb' = Event("RX_BUF_RELEASED", rx.cur, 0, FALSE)
    <3>1. /\ rx.state # "off" /\ rx'.state \in {rx.state, "stopping"}
          /\ cb'.type = "RX_BUF_RELEASED"
      BY <2>4 DEF Rx!Release, Rx!Off, Event
    <3> QED BY <2>1, <3>1 DEF NoEvent
  <2>5. CASE Rx!Disabled /\ cb' = Event("RX_DISABLED", NULL, 0, FALSE)
    BY <2>1, <2>5 DEF Rx!Disabled, Rx!Off, Event, NoEvent
  <2> QED BY <1>7, <2>2, <2>3, <2>4, <2>5 DEF UartRxEvent
<1>8. CASE RxRdy
  <2>1. /\ cb.type = "RX_RDY" /\ cb' = NoEvent
        /\ UNCHANGED <<work, boot>>
    BY <1>8 DEF RxRdy, Return
  <2>2. /\ rx'.state # "off"
        /\ disableReq' => rx'.state = "stopping"
    BY <1>8, <2>1 DEF RxRdy, Rx!Disable, Types, UartTypes
  <2> QED BY <2>1, <2>2 DEF NoEvent, RxEvents
<1>9. CASE \E b \in Block \cup {NULL} : RxDisabled(b)
  <2>1. PICK b : RxDisabled(b)
    BY <1>9
  <2>2. /\ cb.type = "RX_DISABLED" /\ cb' = NoEvent
        /\ ~disableReq' /\ UNCHANGED boot
        /\ \/ rx' = rx /\ Reschedule
           \/ Rx!Enable(b) /\ UNCHANGED work
    BY <2>1 DEF RxDisabled, Return
  <2>3. rx' = rx /\ Reschedule => ReceptionInv'
    BY <2>2 DEF Reschedule, NoEvent, RxEvents, Types, ThreadTypes
  <2>4. Rx!Enable(b) /\ UNCHANGED work => ReceptionInv'
    BY <2>2 DEF Rx!Enable, Rx!Off, NoEvent, RxEvents
  <2> QED BY <2>2, <2>3, <2>4
<1>10. CASE \E b \in Block \cup {NULL} : RxBufRequest(b)
  <2>1. PICK b : RxBufRequest(b)
    BY <1>10
  <2>2. /\ cb.type = "RX_BUF_REQUEST" /\ cb' = NoEvent
        /\ UNCHANGED <<work, boot, disableReq>>
        /\ rx' = rx \/ Rx!Respond(b)
    BY <2>1 DEF RxBufRequest, Return, callbackVars
  <2>3. rx' = rx \/ (rx.state = "on" /\ rx'.state = "on")
    BY <2>2 DEF Rx!Respond, Types, UartTypes
  <2> QED BY <2>2, <2>3 DEF NoEvent, RxEvents
<1>11. CASE Work
  <2>1. ASSUME NEW b, WorkAlloc(b)
        PROVE  ReceptionInv'
    <3>1. /\ work.pending /\ cb = NoEvent
          /\ UNCHANGED <<cb, rx, boot, disableReq>>
          /\ \/ Reschedule
             \/ work' = [pending |-> FALSE, pc |-> "enable", buf |-> b]
      BY <2>1 DEF WorkAlloc, InPreemptible, InThread, callbackVars, uartVars
    <3> QED BY <3>1 DEF Reschedule, Types, ThreadTypes
  <2>2. CASE WorkEnable
    <3>1. /\ work.pc = "enable" /\ cb = NoEvent /\ Rx!Enable(work.buf)
          /\ work' = [pending |-> work.pending, pc |-> "idle", buf |-> NULL]
          /\ UNCHANGED <<cb, boot, disableReq>>
      BY <2>2 DEF WorkEnable, InThread, callbackVars
    <3> QED BY <3>1 DEF Rx!Enable, Rx!Off, NoEvent
  <2> QED BY <1>11, <2>1, <2>2 DEF Work
<1>12. CASE UNCHANGED bridgeVars
  BY <1>1, <1>12 DEF bridgeVars, callbackVars, uartVars
<1> QED
  BY <1>2, <1>3, <1>4, <1>5, <1>6, <1>7, <1>8, <1>9, <1>10, <1>11, <1>12
     DEF Next, UartCb

\* Reception that is off is about to be enabled, whatever the heap holds: at
\* every moment its state is in the hands of exactly one of uart_init(), the
\* receiver, uart_cb() and the work.
THEOREM ReceptionIsRetried == Spec => []ReceptionRetried
<1>1. Init => ReceptionInv
  BY DEF Init, ReceptionInv, Retrying, Rx!Init, Rx!Off, NoEvent, RxEvents
<1>2. Types /\ ReceptionInv /\ [Next]_bridgeVars => ReceptionInv'
  BY NextReception
<1>3. ReceptionInv => ReceptionRetried
  BY DEF ReceptionInv, Retrying, ReceptionRetried
<1> QED BY TypesInvariant, <1>1, <1>2, <1>3, PTL DEF Spec
---------------------------------------------------------------------------
(* Every block is in one place *)

\* BlockInOnePlace without the set of the places a block is in: of all places
\* the block is in p and in no other.
OnePlace ==
  \A b \in Block : \E p \in Place : \A q \in Place : IsIn(b, q) <=> q = p

PlaceInv == OnePlace /\ NoDuplicates(txFifo) /\ NoDuplicates(rxFifo)

\* What is in the hands of the threads and of the receiver, and when.
HandsInv ==
  /\ work.buf # NULL => work.pc = "enable"
  /\ rcv.tx # NULL => rcv.pc \in {"tx", "put"}
  /\ boot.rx # NULL => boot.pc \in {"alloc_tx", "tx", "enable"}
  /\ boot.tx # NULL => boot.pc = "tx" /\ boot.tx # boot.rx
  /\ boot.pc # "done" => rcv.pc = "idle"
  /\ rx.cur = NULL => rx.next = NULL /\ rx.count = 0
  /\ rx.cur # NULL => rx.cur # rx.next
  /\ cb.type = "RX_RDY" => cb.buf = rx.cur

\* aborted_buf says how much was sent of the block at address a, ...
AbortOf(a) ==
  \/ aborted.buf = NULL /\ aborted.len = 0 /\ a.off = 0
  \/ aborted.buf = a.block /\ aborted.len = a.off
\* ... which is the one being transmitted, or reported by the callback.
AbortInv ==
  /\ tx # Tx!Idle => AbortOf(tx.buf)
  /\ cb.type \in TxEvents => AbortOf(cb.buf) /\ tx = Tx!Idle
  /\ tx = Tx!Idle /\ cb.type \notin TxEvents =>
       aborted.buf = NULL /\ aborted.len = 0

\* What is in a fifo with one block more, ...
LEMMA AppendElements ==
  ASSUME NEW s \in Seq(Block), NEW b \in Block
  PROVE  /\ Elements(Append(s, b)) = Elements(s) \cup {b}
         /\ NoDuplicates(s) /\ b \notin Elements(s) => NoDuplicates(Append(s, b))
<1> DEFINE t == Append(s, b)
<1>1. /\ DOMAIN s = 1 .. Len(s) /\ DOMAIN t = 1 .. Len(s) + 1
      /\ Len(s) \in Nat
      /\ \A i \in 1 .. Len(s) : t[i] = s[i]
      /\ t[Len(s) + 1] = b
  BY AppendProperties
<1> HIDE DEF t
<1>2. Elements(t) = Elements(s) \cup {b}
  <2>1. \A i \in 1 .. Len(s) + 1 : i \in 1 .. Len(s) \/ i = Len(s) + 1
    BY <1>1
  <2>2. Elements(t) \subseteq Elements(s) \cup {b}
    BY <1>1, <2>1 DEF Elements
  <2>3. \A i \in 1 .. Len(s) : i \in 1 .. Len(s) + 1
    BY <1>1
  <2>4. Len(s) + 1 \in 1 .. Len(s) + 1
    BY <1>1
  <2>5. Elements(s) \cup {b} \subseteq Elements(t)
    BY <1>1, <2>3, <2>4 DEF Elements
  <2> QED BY <2>2, <2>5
<1>3. ASSUME NoDuplicates(s), b \notin Elements(s)
      PROVE  NoDuplicates(t)
  BY <1>1, <1>3 DEF NoDuplicates, Elements
<1> QED BY <1>2, <1>3 DEF t

\* ... and with its first one less.
LEMMA TailElements ==
  ASSUME NEW s \in Seq(Block), s # <<>>, NoDuplicates(s)
  PROVE  /\ Head(s) \in Block /\ Head(s) \in Elements(s)
         /\ Elements(Tail(s)) = Elements(s) \ {Head(s)}
         /\ NoDuplicates(Tail(s))
<1> DEFINE t == Tail(s)
<1>1. /\ DOMAIN s = 1 .. Len(s) /\ DOMAIN t = 1 .. Len(s) - 1
      /\ Len(s) \in Nat /\ Len(s) > 0
      /\ \A i \in 1 .. Len(s) - 1 : t[i] = s[i + 1]
      /\ Head(s) = s[1] /\ Head(s) \in Block
  BY HeadTailProperties
<1> HIDE DEF t
<1>2. 1 \in DOMAIN s /\ \A i \in 1 .. Len(s) - 1 : i + 1 \in DOMAIN s
  BY <1>1
<1>3. \A i \in DOMAIN s : i # 1 => i - 1 \in DOMAIN t /\ t[i - 1] = s[i]
  BY <1>1
<1>4. Elements(t) = Elements(s) \ {Head(s)}
  <2>1. Elements(t) \subseteq Elements(s) \ {Head(s)}
    <3> SUFFICES ASSUME NEW i \in DOMAIN t
                 PROVE  t[i] \in Elements(s) /\ t[i] # Head(s)
      BY DEF Elements
    <3>1. i + 1 \in DOMAIN s /\ t[i] = s[i + 1] /\ i + 1 # 1
      BY <1>1, <1>2
    <3> QED BY <1>1, <1>2, <3>1 DEF NoDuplicates, Elements
  <2>2. Elements(s) \ {Head(s)} \subseteq Elements(t)
    BY <1>1, <1>3 DEF Elements
  <2> QED BY <2>1, <2>2
<1>5. NoDuplicates(t)
  BY <1>1, <1>2 DEF NoDuplicates
<1>6. Head(s) \in Elements(s)
  BY <1>1, <1>2 DEF Elements
<1> QED BY <1>1, <1>4, <1>5, <1>6 DEF t

\* A block that is submitted is in the transmitter, ...
LEMMA SubmitAt ==
  ASSUME NEW b \in Block, NEW n \in Nat, NEW k, Tx!Submit(At(b, n), k)
  PROVE  tx = Tx!Idle /\ tx' # Tx!Idle /\ tx'.buf.block = b
<1>1. tx' = [buf |-> At(b, n), len |-> k, sent |-> 0] /\ At(b, n) \in Address
  BY AtAddress DEF Tx!Submit
<1> QED BY <1>1, SubmitNotIdle DEF At

\* ... and stays there while bytes of it are sent.
LEMMA SendKeeps ==
  ASSUME Types, NEW n, Tx!Send(n)
  PROVE  /\ tx # Tx!Idle /\ tx' # Tx!Idle /\ tx'.buf = tx.buf
         /\ tx'.len = tx.len /\ tx'.sent = tx.sent + n
<1>1. tx # Tx!Idle /\ tx' = [tx EXCEPT !.sent = @ + n]
  BY DEF Tx!Send, Tx!Idle
<1>2. tx.buf # NULL /\ tx'.buf = tx.buf /\ tx'.len = tx.len /\ tx'.sent = tx.sent + n
  BY <1>1 DEF Types, UartTypes
<1> QED BY <1>1, <1>2 DEF Tx!Idle

\* No block is the NULL pointer.
LEMMA NullNoBlock == NULL \notin Block
BY BridgeAssumption

\* The places there are.
LEMMA PlaceNames ==
  /\ "heap" \in Place /\ "tx fifo" \in Place /\ "rx fifo" \in Place
  /\ "transmitter" \in Place /\ "transmitted" \in Place
  /\ "receiver" \in Place /\ "next" \in Place /\ "released" \in Place
  /\ "bt_receive_cb" \in Place /\ "ble_write_thread" \in Place
  /\ "uart_work_handler" \in Place /\ "uart_init" \in Place
BY DEF Place

\* A block enters or leaves a place only when what that place consists of
\* changes.
LEMMA Unmoved ==
  ASSUME NEW c \in Block
  PROVE  /\ UNCHANGED free => (IsIn(c, "heap")' <=> IsIn(c, "heap"))
         /\ UNCHANGED txFifo => (IsIn(c, "tx fifo")' <=> IsIn(c, "tx fifo"))
         /\ UNCHANGED rxFifo => (IsIn(c, "rx fifo")' <=> IsIn(c, "rx fifo"))
         /\ UNCHANGED tx =>
              (IsIn(c, "transmitter")' <=> IsIn(c, "transmitter"))
         /\ UNCHANGED cb \/ {cb.type, cb'.type} \cap TxEvents = {} =>
              (IsIn(c, "transmitted")' <=> IsIn(c, "transmitted"))
         /\ rx'.cur = rx.cur => (IsIn(c, "receiver")' <=> IsIn(c, "receiver"))
         /\ rx'.next = rx.next => (IsIn(c, "next")' <=> IsIn(c, "next"))
         /\ UNCHANGED cb \/ "RX_BUF_RELEASED" \notin {cb.type, cb'.type} =>
              (IsIn(c, "released")' <=> IsIn(c, "released"))
         /\ rcv'.tx = rcv.tx =>
              (IsIn(c, "bt_receive_cb")' <=> IsIn(c, "bt_receive_cb"))
         /\ UNCHANGED ble =>
              (IsIn(c, "ble_write_thread")' <=> IsIn(c, "ble_write_thread"))
         /\ work'.buf = work.buf =>
              (IsIn(c, "uart_work_handler")' <=> IsIn(c, "uart_work_handler"))
         /\ boot'.rx = boot.rx /\ boot'.tx = boot.tx =>
              (IsIn(c, "uart_init")' <=> IsIn(c, "uart_init"))
BY DEF IsIn, TxEvents

\* A step that moves no block keeps every block in one place.
LEMMA Kept ==
  ASSUME OnePlace, \A c \in Block, q \in Place : IsIn(c, q)' <=> IsIn(c, q)
  PROVE  OnePlace'
BY DEF OnePlace

\* Block b moves from place p to place r, and no other block moves.
Move(b, p, r) ==
  /\ IsIn(b, p) /\ \A c \in Block : IsIn(c, p)' <=> IsIn(c, p) /\ c # b
  /\ \A c \in Block : IsIn(c, r)' <=> IsIn(c, r) \/ c = b
  /\ \A c \in Block, q \in Place :
       q \notin {p, r} => (IsIn(c, q)' <=> IsIn(c, q))

\* So does one that moves a single block.
LEMMA Moved ==
  ASSUME OnePlace, NEW b \in Block, NEW p \in Place, NEW r \in Place, p # r,
         Move(b, p, r)
  PROVE  OnePlace'
<1>1. ASSUME NEW c \in Block, c # b
      PROVE  \E s \in Place : \A q \in Place : IsIn(c, q)' <=> q = s
  <2>1. \A q \in Place : IsIn(c, q)' <=> IsIn(c, q)
    BY <1>1 DEF Move
  <2> QED BY <2>1 DEF OnePlace
<1>2. \A q \in Place : IsIn(b, q) <=> q = p
  BY DEF OnePlace, Move
<1>3. \A q \in Place : IsIn(b, q)' <=> q = r
  BY <1>2 DEF Move
<1> QED BY <1>1, <1>3 DEF OnePlace

\* uart_init() moves one block at a time.
LEMMA InitPlaces ==
  ASSUME Types, HandsInv, OnePlace, UartInit
  PROVE  OnePlace'
<1>1. ASSUME NEW b \in Block \cup {NULL}, UartInitRx(b)
      PROVE  OnePlace'
  <2>1. CASE b = NULL
    <3>1. /\ UNCHANGED <<free, txFifo, rxFifo, work, rcv, ble, cb, tx, rx>>
          /\ boot'.rx = boot.rx /\ boot'.tx = boot.tx
      BY <1>1, <2>1, NullNoBlock DEF UartInitRx, Malloc, Types, HeapTypes,
         HandsInv, uartVars
    <3> QED BY <3>1, Kept, Unmoved DEF Place
  <2>2. CASE b # NULL
    <3>1. /\ b \in Block /\ b \in free /\ free' = free \ {b}
          /\ boot.rx = NULL /\ boot.tx = NULL /\ boot'.rx = b /\ boot'.tx = NULL
      BY <1>1, <2>2 DEF UartInitRx, Malloc, Available, HandsInv
    <3>2. UNCHANGED <<txFifo, rxFifo, work, rcv, ble, cb, tx, rx>>
      BY <1>1 DEF UartInitRx, uartVars
    <3>3. \A c \in Block, q \in Place :
           q \notin {"heap", "uart_init"} => (IsIn(c, q)' <=> IsIn(c, q))
      BY <3>1, <3>2, Unmoved DEF Place
    <3>4. /\ IsIn(b, "heap")
          /\ \A c \in Block : IsIn(c, "heap")' <=> IsIn(c, "heap") /\ c # b
      BY <3>1, NullNoBlock DEF IsIn
    <3>5. \A c \in Block : IsIn(c, "uart_init")'
               <=> IsIn(c, "uart_init") \/ c = b
      BY <3>1, NullNoBlock DEF IsIn
    <3>6. Move(b, "heap", "uart_init")
      BY <3>3, <3>4, <3>5 DEF Move
    <3> QED BY <3>1, <3>6, Moved, PlaceNames
  <2> QED BY <2>1, <2>2
<1>2. ASSUME NEW b \in Block \cup {NULL}, UartInitTx(b)
      PROVE  OnePlace'
  <2>1. CASE b = NULL
    <3>1. /\ boot.rx \in Block /\ free' = free \cup {boot.rx}
          /\ boot.tx = NULL /\ boot'.rx = NULL /\ boot'.tx = NULL
      BY <1>2, <2>1 DEF UartInitTx, Types, ThreadTypes, HandsInv
    <3>2. UNCHANGED <<txFifo, rxFifo, work, rcv, ble, cb, tx, rx>>
      BY <1>2 DEF UartInitTx, uartVars
    <3>3. \A c \in Block, q \in Place :
           q \notin {"uart_init", "heap"} => (IsIn(c, q)' <=> IsIn(c, q))
      BY <3>1, <3>2, Unmoved DEF Place
    <3>4. /\ IsIn(boot.rx, "uart_init")
          /\ \A c \in Block : IsIn(c, "uart_init")'
               <=> IsIn(c, "uart_init") /\ c # boot.rx
      BY <3>1, NullNoBlock DEF IsIn
    <3>5. \A c \in Block : IsIn(c, "heap")' <=> IsIn(c, "heap") \/ c = boot.rx
      BY <3>1, NullNoBlock DEF IsIn
    <3>6. Move(boot.rx, "uart_init", "heap")
      BY <3>3, <3>4, <3>5 DEF Move
    <3> QED BY <3>1, <3>6, Moved, PlaceNames
  <2>2. CASE b # NULL
    <3>1. /\ b \in Block /\ b \in free /\ free' = free \ {b}
          /\ boot.tx = NULL /\ boot'.rx = boot.rx /\ boot'.tx = b
      BY <1>2, <2>2 DEF UartInitTx, Malloc, Available, HandsInv
    <3>2. UNCHANGED <<txFifo, rxFifo, work, rcv, ble, cb, tx, rx>>
      BY <1>2 DEF UartInitTx, uartVars
    <3>3. \A c \in Block, q \in Place :
           q \notin {"heap", "uart_init"} => (IsIn(c, q)' <=> IsIn(c, q))
      BY <3>1, <3>2, Unmoved DEF Place
    <3>4. /\ IsIn(b, "heap")
          /\ \A c \in Block : IsIn(c, "heap")' <=> IsIn(c, "heap") /\ c # b
      BY <3>1, NullNoBlock DEF IsIn
    <3>5. \A c \in Block : IsIn(c, "uart_init")'
               <=> IsIn(c, "uart_init") \/ c = b
      BY <3>1, NullNoBlock DEF IsIn
    <3>6. Move(b, "heap", "uart_init")
      BY <3>3, <3>4, <3>5 DEF Move
    <3> QED BY <3>1, <3>6, Moved, PlaceNames
  <2> QED BY <2>1, <2>2
<1>3. CASE UartInitTransmit
  <2>1. /\ boot.tx \in Block /\ boot.tx # boot.rx
        /\ boot'.rx = boot.rx /\ boot'.tx = NULL
        /\ tx = Tx!Idle /\ tx' # Tx!Idle /\ tx'.buf.block = boot.tx
    <3>1. boot.tx \in Block /\ boot.tx # boot.rx
      BY <1>3, NullNoBlock DEF UartInitTransmit, Types, ThreadTypes, HandsInv
    <3> QED BY <1>3, <3>1, SubmitAt, 0 \in Nat DEF UartInitTransmit
  <2>2. UNCHANGED <<free, txFifo, rxFifo, work, rcv, ble, cb, rx>>
    BY <1>3 DEF UartInitTransmit, uartVars
  <2>3. \A c \in Block, q \in Place :
         q \notin {"uart_init", "transmitter"} => (IsIn(c, q)' <=> IsIn(c, q))
    BY <2>1, <2>2, Unmoved DEF Place
  <2>4. /\ IsIn(boot.tx, "uart_init")
        /\ \A c \in Block : IsIn(c, "uart_init")'
             <=> IsIn(c, "uart_init") /\ c # boot.tx
    BY <2>1, NullNoBlock DEF IsIn
  <2>5. \A c \in Block : IsIn(c, "transmitter")'
             <=> IsIn(c, "transmitter") \/ c = boot.tx
    BY <2>1, NullNoBlock DEF IsIn
  <2>6. Move(boot.tx, "uart_init", "transmitter")
    BY <2>3, <2>4, <2>5 DEF Move
  <2> QED BY <2>1, <2>6, Moved, PlaceNames
<1>4. CASE UartInitEnable
  <2>1. /\ boot.rx \in Block /\ boot.tx = NULL
        /\ boot'.rx = NULL /\ boot'.tx = NULL
        /\ rx.cur = NULL /\ rx'.cur = boot.rx /\ rx'.next = rx.next
    BY <1>4 DEF UartInitEnable, Types, ThreadTypes, HandsInv, Rx!Enable, Rx!Off
  <2>2. UNCHANGED <<free, txFifo, rxFifo, work, rcv, ble, cb, tx>>
    BY <1>4 DEF UartInitEnable, uartVars
  <2>3. \A c \in Block, q \in Place :
         q \notin {"uart_init", "receiver"} => (IsIn(c, q)' <=> IsIn(c, q))
    BY <2>1, <2>2, Unmoved DEF Place
  <2>4. /\ IsIn(boot.rx, "uart_init")
        /\ \A c \in Block : IsIn(c, "uart_init")'
             <=> IsIn(c, "uart_init") /\ c # boot.rx
    BY <2>1, NullNoBlock DEF IsIn
  <2>5. \A c \in Block : IsIn(c, "receiver")'
             <=> IsIn(c, "receiver") \/ c = boot.rx
    BY <2>1, NullNoBlock DEF IsIn
  <2>6. Move(boot.rx, "uart_init", "receiver")
    BY <2>3, <2>4, <2>5 DEF Move
  <2> QED BY <2>1, <2>6, Moved, PlaceNames
<1> QED BY <1>1, <1>2, <1>3, <1>4 DEF UartInit

\* So do the threads and the retry work, ...
LEMMA ThreadPlaces ==
  ASSUME Types, HandsInv, PlaceInv,
         Receive \/ Work \/ Ble
           \/ \E n \in 1 .. MaxWrite, cr \in BOOLEAN : BtReceive(n, cr)
  PROVE  OnePlace'
<1>0. OnePlace
  BY DEF PlaceInv
<1>1. CASE \E n \in 1 .. MaxWrite, cr \in BOOLEAN : BtReceive(n, cr)
  <2>1. /\ UNCHANGED <<free, txFifo, rxFifo, work, boot, ble, cb, tx, rx>>
      /\ rcv'.tx = rcv.tx
    BY <1>1 DEF BtReceive, InPreemptible, CooperativeIdle, HandsInv, uartVars
  <2> QED BY <1>0, <2>1, Kept, Unmoved DEF Place
<1>2. ASSUME NEW b \in Block \cup {NULL}, ReceiveAlloc(b)
      PROVE  OnePlace'
  <2>1. CASE b = NULL
    <3>1. /\ UNCHANGED <<free, txFifo, rxFifo, work, boot, ble, cb, tx, rx>>
          /\ rcv'.tx = rcv.tx
      BY <1>2, <2>1, NullNoBlock
         DEF ReceiveAlloc, Malloc, NotReceiving, Types, HeapTypes, HandsInv,
             uartVars
    <3> QED BY <1>0, <3>1, Kept, Unmoved DEF Place
  <2>2. CASE b # NULL
    <3>1. /\ b \in Block /\ b \in free /\ free' = free \ {b}
          /\ rcv.tx = NULL /\ rcv'.tx = b
      BY <1>2, <2>2 DEF ReceiveAlloc, Malloc, Available, HandsInv
    <3>2. UNCHANGED <<txFifo, rxFifo, work, boot, ble, cb, tx, rx>>
      BY <1>2 DEF ReceiveAlloc, uartVars
    <3>3. \A c \in Block, q \in Place :
           q \notin {"heap", "bt_receive_cb"} => (IsIn(c, q)' <=> IsIn(c, q))
      BY <3>1, <3>2, Unmoved DEF Place
    <3>4. /\ IsIn(b, "heap")
          /\ \A c \in Block : IsIn(c, "heap")' <=> IsIn(c, "heap") /\ c # b
      BY <3>1, NullNoBlock DEF IsIn
    <3>5. \A c \in Block : IsIn(c, "bt_receive_cb")'
               <=> IsIn(c, "bt_receive_cb") \/ c = b
      BY <3>1, NullNoBlock DEF IsIn
    <3>6. Move(b, "heap", "bt_receive_cb")
      BY <3>3, <3>4, <3>5 DEF Move
    <3> QED BY <1>0, <3>1, <3>6, Moved, PlaceNames
  <2> QED BY <2>1, <2>2
<1>3. CASE ReceiveTx
  <2>1. CASE tx = Tx!Idle
    <3>1. /\ rcv.tx \in Block /\ rcv'.tx = NULL
          /\ tx = Tx!Idle /\ tx' # Tx!Idle /\ tx'.buf.block = rcv.tx
      <4>1. rcv.tx \in Block
        BY <1>3 DEF ReceiveTx, Types, ThreadTypes
      <4>2. rcv'.tx = NULL
        BY <1>3, <2>1 DEF ReceiveTx, NextChunk, NotReceiving
      <4> QED BY <1>3, <2>1, <4>1, <4>2, SubmitAt, 0 \in Nat DEF ReceiveTx
    <3>2. UNCHANGED <<free, txFifo, rxFifo, work, boot, ble, cb, rx>>
      BY <1>3, <2>1 DEF ReceiveTx, uartVars
    <3>3. \A c \in Block, q \in Place :
           q \notin {"bt_receive_cb", "transmitter"} => (IsIn(c, q)' <=> IsIn(c, q))
      BY <3>1, <3>2, Unmoved DEF Place
    <3>4. /\ IsIn(rcv.tx, "bt_receive_cb")
          /\ \A c \in Block : IsIn(c, "bt_receive_cb")'
               <=> IsIn(c, "bt_receive_cb") /\ c # rcv.tx
      BY <3>1, NullNoBlock DEF IsIn
    <3>5. \A c \in Block : IsIn(c, "transmitter")'
               <=> IsIn(c, "transmitter") \/ c = rcv.tx
      BY <3>1, NullNoBlock DEF IsIn
    <3>6. Move(rcv.tx, "bt_receive_cb", "transmitter")
      BY <3>3, <3>4, <3>5 DEF Move
    <3> QED BY <1>0, <3>1, <3>6, Moved, PlaceNames
  <2>2. CASE tx # Tx!Idle
    <3>1. /\ UNCHANGED <<free, txFifo, rxFifo, work, boot, ble, cb, tx, rx>>
        /\ rcv'.tx = rcv.tx
      BY <1>3, <2>2 DEF ReceiveTx, Types, ThreadTypes
    <3> QED BY <1>0, <3>1, Kept, Unmoved DEF Place
  <2> QED BY <2>1, <2>2
<1>4. CASE ReceivePut
  <2>1. /\ rcv.tx \in Block /\ rcv'.tx = NULL
        /\ Elements(txFifo') = Elements(txFifo) \cup {rcv.tx}
    <3>1. rcv.tx \in Block /\ txFifo \in Seq(Block)
      BY <1>4 DEF ReceivePut, Types, ThreadTypes, HeapTypes
    <3>2. rcv'.tx = NULL /\ txFifo' = Append(txFifo, rcv.tx)
      BY <1>4 DEF ReceivePut, NextChunk, NotReceiving, Put
    <3> QED BY <3>1, <3>2, AppendElements
  <2>2. UNCHANGED <<free, rxFifo, work, boot, ble, cb, tx, rx>>
    BY <1>4 DEF ReceivePut, uartVars
  <2>3. \A c \in Block, q \in Place :
         q \notin {"bt_receive_cb", "tx fifo"} => (IsIn(c, q)' <=> IsIn(c, q))
    BY <2>1, <2>2, Unmoved DEF Place
  <2>4. /\ IsIn(rcv.tx, "bt_receive_cb")
        /\ \A c \in Block : IsIn(c, "bt_receive_cb")'
             <=> IsIn(c, "bt_receive_cb") /\ c # rcv.tx
    BY <2>1, NullNoBlock DEF IsIn
  <2>5. \A c \in Block : IsIn(c, "tx fifo")'
             <=> IsIn(c, "tx fifo") \/ c = rcv.tx
    BY <2>1, NullNoBlock DEF IsIn
  <2>6. Move(rcv.tx, "bt_receive_cb", "tx fifo")
    BY <2>3, <2>4, <2>5 DEF Move
  <2> QED BY <1>0, <2>1, <2>6, Moved, PlaceNames
<1>5. ASSUME NEW b \in Block \cup {NULL}, WorkAlloc(b)
      PROVE  OnePlace'
  <2>1. CASE b = NULL
    <3>1. /\ UNCHANGED <<free, txFifo, rxFifo, boot, rcv, ble, cb, tx, rx>>
          /\ work'.buf = work.buf
      BY <1>5, <2>1, NullNoBlock
         DEF WorkAlloc, Malloc, Reschedule, Types, HeapTypes, ThreadTypes,
             uartVars
    <3> QED BY <1>0, <3>1, Kept, Unmoved DEF Place
  <2>2. CASE b # NULL
    <3>1. /\ b \in Block /\ b \in free /\ free' = free \ {b}
          /\ work.buf = NULL /\ work'.buf = b
      BY <1>5, <2>2 DEF WorkAlloc, InPreemptible, CooperativeIdle, Malloc,
         Available, HandsInv
    <3>2. UNCHANGED <<txFifo, rxFifo, boot, rcv, ble, cb, tx, rx>>
      BY <1>5 DEF WorkAlloc, uartVars
    <3>3. \A c \in Block, q \in Place :
           q \notin {"heap", "uart_work_handler"} => (IsIn(c, q)' <=> IsIn(c, q))
      BY <3>1, <3>2, Unmoved DEF Place
    <3>4. /\ IsIn(b, "heap")
          /\ \A c \in Block : IsIn(c, "heap")' <=> IsIn(c, "heap") /\ c # b
      BY <3>1, NullNoBlock DEF IsIn
    <3>5. \A c \in Block : IsIn(c, "uart_work_handler")'
               <=> IsIn(c, "uart_work_handler") \/ c = b
      BY <3>1, NullNoBlock DEF IsIn
    <3>6. Move(b, "heap", "uart_work_handler")
      BY <3>3, <3>4, <3>5 DEF Move
    <3> QED BY <1>0, <3>1, <3>6, Moved, PlaceNames
  <2> QED BY <2>1, <2>2
<1>6. CASE WorkEnable
  <2>1. /\ work.buf \in Block /\ work'.buf = NULL
        /\ rx.cur = NULL /\ rx'.cur = work.buf /\ rx'.next = rx.next
    BY <1>6 DEF WorkEnable, Types, ThreadTypes, Rx!Enable, Rx!Off
  <2>2. UNCHANGED <<free, txFifo, rxFifo, boot, rcv, ble, cb, tx>>
    BY <1>6 DEF WorkEnable
  <2>3. \A c \in Block, q \in Place :
         q \notin {"uart_work_handler", "receiver"} => (IsIn(c, q)' <=> IsIn(c, q))
    BY <2>1, <2>2, Unmoved DEF Place
  <2>4. /\ IsIn(work.buf, "uart_work_handler")
        /\ \A c \in Block : IsIn(c, "uart_work_handler")'
             <=> IsIn(c, "uart_work_handler") /\ c # work.buf
    BY <2>1, NullNoBlock DEF IsIn
  <2>5. \A c \in Block : IsIn(c, "receiver")'
             <=> IsIn(c, "receiver") \/ c = work.buf
    BY <2>1, NullNoBlock DEF IsIn
  <2>6. Move(work.buf, "uart_work_handler", "receiver")
    BY <2>3, <2>4, <2>5 DEF Move
  <2> QED BY <1>0, <2>1, <2>6, Moved, PlaceNames
<1>7. CASE BleGet
  <2>1. /\ Head(rxFifo) \in Block /\ Head(rxFifo) \in Elements(rxFifo)
        /\ Elements(rxFifo') = Elements(rxFifo) \ {Head(rxFifo)}
        /\ ble = NULL /\ ble' = Head(rxFifo)
    BY <1>7, TailElements DEF BleGet, Types, HeapTypes, PlaceInv
  <2>2. UNCHANGED <<free, txFifo, work, boot, rcv, cb, tx, rx>>
    BY <1>7 DEF BleGet, uartVars
  <2>3. \A c \in Block, q \in Place :
         q \notin {"rx fifo", "ble_write_thread"} => (IsIn(c, q)' <=> IsIn(c, q))
    BY <2>1, <2>2, Unmoved DEF Place
  <2>4. /\ IsIn(Head(rxFifo), "rx fifo")
        /\ \A c \in Block : IsIn(c, "rx fifo")'
             <=> IsIn(c, "rx fifo") /\ c # Head(rxFifo)
    BY <2>1, NullNoBlock DEF IsIn
  <2>5. \A c \in Block : IsIn(c, "ble_write_thread")'
             <=> IsIn(c, "ble_write_thread") \/ c = Head(rxFifo)
    BY <2>1, NullNoBlock DEF IsIn
  <2>6. Move(Head(rxFifo), "rx fifo", "ble_write_thread")
    BY <2>3, <2>4, <2>5 DEF Move
  <2> QED BY <1>0, <2>1, <2>6, Moved, PlaceNames
<1>8. CASE BleSendFree
  <2>1. /\ ble \in Block /\ ble' = NULL /\ free' = free \cup {ble}
    BY <1>8 DEF BleSendFree, Types, HeapTypes
  <2>2. UNCHANGED <<txFifo, rxFifo, work, boot, rcv, cb, tx, rx>>
    BY <1>8 DEF BleSendFree, uartVars
  <2>3. \A c \in Block, q \in Place :
         q \notin {"ble_write_thread", "heap"} => (IsIn(c, q)' <=> IsIn(c, q))
    BY <2>1, <2>2, Unmoved DEF Place
  <2>4. /\ IsIn(ble, "ble_write_thread")
        /\ \A c \in Block : IsIn(c, "ble_write_thread")'
             <=> IsIn(c, "ble_write_thread") /\ c # ble
    BY <2>1, NullNoBlock DEF IsIn
  <2>5. \A c \in Block : IsIn(c, "heap")' <=> IsIn(c, "heap") \/ c = ble
    BY <2>1, NullNoBlock DEF IsIn
  <2>6. Move(ble, "ble_write_thread", "heap")
    BY <2>3, <2>4, <2>5 DEF Move
  <2> QED BY <1>0, <2>1, <2>6, Moved, PlaceNames
<1> QED BY <1>1, <1>2, <1>3, <1>4, <1>5, <1>6, <1>7, <1>8 DEF Receive, Work,
           Ble

\* ... the UART ...
LEMMA UartPlaces ==
  ASSUME Types, HandsInv, PlaceInv,
         UartTxEvent \/ UartRxEvent \/ \E n \in 1 .. BufSize : UartSend(n)
  PROVE  OnePlace'
<1>0. OnePlace
  BY DEF PlaceInv
<1>1. CASE \E n \in 1 .. BufSize : UartSend(n)
  <2>1. /\ tx # Tx!Idle /\ tx' # Tx!Idle /\ tx'.buf = tx.buf
    BY <1>1, SendKeeps DEF UartSend
  <2>2. UNCHANGED <<free, txFifo, rxFifo, work, boot, rcv, ble, cb, rx>>
    BY <1>1 DEF UartSend
  <2>3. \A c \in Block : IsIn(c, "transmitter")' <=> IsIn(c, "transmitter")
    BY <2>1 DEF IsIn
  <2> QED BY <1>0, <2>2, <2>3, Kept, Unmoved DEF Place
<1>2. CASE UartTxEvent
  <2>1. /\ tx.buf.block \in Block /\ tx # Tx!Idle /\ tx' = Tx!Idle
        /\ cb.type \notin TxEvents /\ cb'.type \in TxEvents
        /\ cb'.buf.block = tx.buf.block
    <3>1. tx # Tx!Idle /\ tx' = Tx!Idle /\ cb = NoEvent
            /\ cb'.type \in TxEvents /\ cb'.buf = tx.buf
      BY <1>2 DEF UartTxEvent, Tx!Report, MayCallback, Event, TxEvents
    <3>2. tx.buf.block \in Block
      BY <3>1 DEF Types, UartTypes, Address
    <3> QED BY <3>1, <3>2 DEF NoEvent, TxEvents
  <2>2. /\ UNCHANGED <<free, txFifo, rxFifo, work, boot, rcv, ble, rx>>
        /\ "RX_BUF_RELEASED" \notin {cb.type, cb'.type}
    BY <1>2, <2>1 DEF UartTxEvent, MayCallback, NoEvent, TxEvents
  <2>3. \A c \in Block, q \in Place :
         q \notin {"transmitter", "transmitted"} => (IsIn(c, q)' <=> IsIn(c, q))
    BY <2>1, <2>2, Unmoved DEF Place
  <2>4. /\ IsIn(tx.buf.block, "transmitter")
        /\ \A c \in Block : IsIn(c, "transmitter")'
             <=> IsIn(c, "transmitter") /\ c # tx.buf.block
    BY <2>1, NullNoBlock DEF IsIn, TxEvents
  <2>5. \A c \in Block : IsIn(c, "transmitted")'
             <=> IsIn(c, "transmitted") \/ c = tx.buf.block
    BY <2>1, NullNoBlock DEF IsIn, TxEvents
  <2>6. Move(tx.buf.block, "transmitter", "transmitted")
    BY <2>3, <2>4, <2>5 DEF Move
  <2> QED BY <1>0, <2>1, <2>6, Moved, PlaceNames
<1>3. CASE UartRxEvent
  <2>1. /\ cb.type = "none"
        /\ UNCHANGED <<free, txFifo, rxFifo, work, boot, rcv, ble, tx>>
    BY <1>3 DEF UartRxEvent, MayCallback, NoEvent
  <2>2. ASSUME cb'.type \in {"RX_RDY", "RX_BUF_REQUEST", "RX_DISABLED"},
               rx'.cur = rx.cur, rx'.next = rx.next
        PROVE  OnePlace'
    <3>1. /\ {cb.type, cb'.type} \cap TxEvents = {}
          /\ "RX_BUF_RELEASED" \notin {cb.type, cb'.type}
      BY <2>1, <2>2 DEF TxEvents
    <3> QED BY <1>0, <2>1, <2>2, <3>1, Kept, Unmoved DEF Place
  <2>3. ASSUME NEW n \in 1 .. BufSize, NEW eol \in BOOLEAN,
               Rx!Ready(n), cb' = Event("RX_RDY", rx.cur, n, eol)
        PROVE  OnePlace'
    BY <2>2, <2>3 DEF Rx!Ready, Event, Types, UartTypes
  <2>4. CASE Rx!Request /\ cb' = Event("RX_BUF_REQUEST", NULL, 0, FALSE)
    BY <2>2, <2>4 DEF Rx!Request, Event
  <2>5. CASE Rx!Disabled /\ cb' = Event("RX_DISABLED", NULL, 0, FALSE)
    BY <2>2, <2>5 DEF Rx!Disabled, Rx!Off, Event, HandsInv
  <2>6. CASE Rx!Release /\ cb' = Event("RX_BUF_RELEASED", rx.cur, 0, FALSE)
    <3>1. /\ rx.cur \in Block /\ rx.cur # rx.next
          /\ rx'.cur = rx.next /\ rx'.next = NULL
          /\ cb'.type = "RX_BUF_RELEASED" /\ cb'.buf = rx.cur
      BY <2>6 DEF Rx!Release, Event, Types, UartTypes, HandsInv
    <3>2. ASSUME NEW c \in Block, c \notin {rx.cur, rx.next}, NEW q \in Place
          PROVE  IsIn(c, q)' <=> IsIn(c, q)
      <4>1. q \notin {"receiver", "next", "released"} =>
              (IsIn(c, q)' <=> IsIn(c, q))
        BY <2>1, <3>1, Unmoved DEF Place, TxEvents
      <4>2. q \in {"receiver", "next", "released"} =>
              (IsIn(c, q)' <=> IsIn(c, q))
        BY <2>1, <3>1, <3>2, NullNoBlock DEF IsIn
      <4> QED BY <4>1, <4>2
    <3>3. ASSUME NEW c \in Block, c \in {rx.cur, rx.next}, NEW q \in Place
          PROVE  IsIn(c, q)' <=>
                   q = (IF c = rx.cur THEN "released" ELSE "receiver")
      <4>1. IsIn(c, q) <=> q = (IF c = rx.cur THEN "receiver" ELSE "next")
        <5>1. IsIn(c, IF c = rx.cur THEN "receiver" ELSE "next")
          BY <3>3 DEF IsIn
        <5> QED BY <1>0, <5>1, PlaceNames DEF OnePlace
      <4>2. q \notin {"receiver", "next", "released"} =>
              (IsIn(c, q)' <=> IsIn(c, q))
        BY <2>1, <3>1, Unmoved DEF Place, TxEvents
      <4>3. /\ IsIn(c, "released")' <=> c = rx.cur
            /\ IsIn(c, "receiver")' <=> c = rx.next
            /\ ~IsIn(c, "next")'
        BY <3>1, NullNoBlock DEF IsIn
      <4> QED BY <3>1, <3>3, <4>1, <4>2, <4>3
    <3>4. \A c \in Block : c \in {rx.cur, rx.next} =>
            (IF c = rx.cur THEN "released" ELSE "receiver") \in Place
      BY PlaceNames
    <3> QED BY <1>0, <3>2, <3>3, <3>4 DEF OnePlace
  <2> QED BY <1>3, <2>3, <2>4, <2>5, <2>6 DEF UartRxEvent
<1> QED BY <1>1, <1>2, <1>3

\* ... and uart_cb(), whichever event it handles.
LEMMA CallbackPlaces ==
  ASSUME Types, HandsInv, PlaceInv, AbortInv, UartCb
  PROVE  OnePlace'
<1>0. OnePlace
  BY DEF PlaceInv
<1>1. CASE TxDone
  <2> DEFINE b == cb.buf.block
             h == Head(txFifo)
  <2>1. /\ b \in Block
        /\ cb.type \in TxEvents /\ cb.type # "RX_BUF_RELEASED"
        /\ cb'.type = "none"
        /\ free' = free \cup {b}
        /\ tx = Tx!Idle
    <3>1. cb.type = "TX_DONE" /\ cb.type \in TxEvents /\ cb' = NoEvent
      BY <1>1 DEF TxDone, Return, TxEvents
    <3>2. cb.buf \in Address /\ b \in Block /\ b # NULL
      BY <3>1, NullNoBlock DEF Types, UartTypes, Address
    <3>3. tx = Tx!Idle /\ (aborted.buf = NULL \/ aborted.buf = b)
      BY <3>1 DEF AbortInv, AbortOf
    <3>4. free' = free \cup {b}
      BY <1>1, <3>2, <3>3 DEF TxDone
    <3> QED BY <3>1, <3>2, <3>3, <3>4 DEF NoEvent
  <2>2. UNCHANGED <<rxFifo, work, boot, rcv, ble, rx>>
    BY <1>1 DEF TxDone
  <2>3. "none" \notin TxEvents
    BY DEF TxEvents
  <2> HIDE DEF b
  <2>4. CASE txFifo = <<>>
    <3>1. UNCHANGED <<txFifo, tx>>
      BY <1>1, <2>4 DEF TxDone, TransmitNext
    <3>2. \A c \in Block, q \in Place :
            q \notin {"transmitted", "heap"} => (IsIn(c, q)' <=> IsIn(c, q))
      BY <2>1, <2>2, <3>1, Unmoved DEF Place
    <3>3. \A c \in Block : /\ IsIn(c, "transmitted") <=> c = b
                           /\ ~IsIn(c, "transmitted")'
                           /\ IsIn(c, "heap")' <=> IsIn(c, "heap") \/ c = b
      BY <2>1 DEF IsIn, TxEvents, b
    <3>4. Move(b, "transmitted", "heap")
      BY <2>1, <3>2, <3>3 DEF Move
    <3> QED BY <1>0, <2>1, <3>4, Moved, PlaceNames
  <2>5. CASE txFifo # <<>>
    <3>1. /\ h \in Block /\ h \in Elements(txFifo)
          /\ Elements(txFifo') = Elements(txFifo) \ {h}
      BY <1>1, <2>5, TailElements
         DEF TxDone, TransmitNext, Types, HeapTypes, PlaceInv
    <3>2. tx' # Tx!Idle /\ tx'.buf.block = h
      <4>1. Tx!Submit(At(h, 0), len[h])
        BY <1>1, <2>5 DEF TxDone, TransmitNext
      <4> QED BY <3>1, <4>1, SubmitAt, 0 \in Nat
    <3> HIDE DEF h
    <3>3. IsIn(b, "transmitted") /\ IsIn(h, "tx fifo")
      BY <2>1, <3>1 DEF IsIn, TxEvents, b
    <3>4. b # h
      BY <1>0, <2>1, <3>3, PlaceNames DEF OnePlace
    <3>5. \A c \in Block, q \in Place :
            q \notin {"transmitted", "heap", "tx fifo", "transmitter"} =>
              (IsIn(c, q)' <=> IsIn(c, q))
      BY <2>1, <2>2, Unmoved DEF Place
    <3>6. \A c \in Block :
            /\ ~IsIn(c, "transmitted")'
            /\ IsIn(c, "transmitted") => c = b
            /\ IsIn(c, "heap")' <=> IsIn(c, "heap") \/ c = b
            /\ IsIn(c, "tx fifo")' <=> IsIn(c, "tx fifo") /\ c # h
            /\ ~IsIn(c, "transmitter")
            /\ IsIn(c, "transmitter")' <=> c = h
      BY <2>1, <3>1, <3>2 DEF IsIn, TxEvents, b
    <3>7. ASSUME NEW c \in Block, c \notin {b, h}, NEW q \in Place
          PROVE  IsIn(c, q)' <=> IsIn(c, q)
      BY <3>5, <3>6, <3>7
    <3>8. ASSUME NEW c \in Block, c \in {b, h}, NEW q \in Place
          PROVE  IsIn(c, q)' <=> q = (IF c = b THEN "heap" ELSE "transmitter")
      <4>1. IsIn(c, q) <=> q = (IF c = b THEN "transmitted" ELSE "tx fifo")
        BY <1>0, <3>3, <3>8, PlaceNames DEF OnePlace
      <4> QED BY <3>4, <3>5, <3>6, <3>8, <4>1
    <3>9. \A c \in Block :
            (IF c = b THEN "heap" ELSE "transmitter") \in Place
      BY PlaceNames
    <3> QED BY <1>0, <3>7, <3>8, <3>9 DEF OnePlace
  <2> QED BY <2>4, <2>5
<1>2. CASE TxAborted
  <2> DEFINE b == cb.buf.block
  <2>1. /\ b \in Block
        /\ cb.type \in TxEvents /\ cb.type # "RX_BUF_RELEASED"
        /\ cb'.type \notin TxEvents /\ cb'.type # "RX_BUF_RELEASED"
        /\ tx = Tx!Idle /\ tx' # Tx!Idle /\ tx'.buf.block = b
    <3>1. cb.type \in TxEvents /\ cb.type # "RX_BUF_RELEASED" /\ cb' = NoEvent
      BY <1>2 DEF TxAborted, Return, TxEvents
    <3>2. cb.buf \in Address /\ b \in Block /\ b # NULL /\ cb.len \in Nat
      BY <3>1, NullNoBlock DEF Types, UartTypes, Address
    <3>3. tx = Tx!Idle /\ (aborted.buf = NULL \/ aborted.buf = b)
      BY <3>1 DEF AbortInv, AbortOf
    <3>4. aborted'.buf = b /\ aborted'.len \in Nat
      BY <1>2, <3>2, <3>3 DEF TxAborted, AbortedSoFar, Types, HeapTypes
    <3>5. Tx!Submit(At(b, aborted'.len), len[aborted'.buf] - aborted'.len)
      BY <1>2, <3>4 DEF TxAborted
    <3> QED BY <3>1, <3>2, <3>3, <3>4, <3>5, SubmitAt DEF NoEvent, TxEvents
  <2>2. UNCHANGED <<free, txFifo, rxFifo, work, boot, rcv, ble, rx>>
    BY <1>2 DEF TxAborted
  <2>3. \A c \in Block : /\ IsIn(c, "transmitted") <=> c = b
                         /\ ~IsIn(c, "transmitted")'
                         /\ ~IsIn(c, "transmitter")
                         /\ IsIn(c, "transmitter")' <=> c = b
    BY <2>1 DEF IsIn, TxEvents
  <2> HIDE DEF b
  <2>4. \A c \in Block, q \in Place :
          q \notin {"transmitted", "transmitter"} => (IsIn(c, q)' <=> IsIn(c, q))
    BY <2>1, <2>2, Unmoved DEF Place
  <2>5. Move(b, "transmitted", "transmitter")
    BY <2>1, <2>3, <2>4 DEF Move
  <2> QED BY <1>0, <2>1, <2>5, Moved, PlaceNames
<1>3. ASSUME cb.type \in {"RX_RDY", "RX_BUF_REQUEST", "RX_DISABLED"}, Return,
             UNCHANGED <<txFifo, rxFifo, boot, rcv, ble, tx>>, work'.buf = work.buf
      PROVE  /\ UNCHANGED free /\ rx'.cur = rx.cur /\ rx'.next = rx.next => OnePlace'
             /\ \A c \in Block, q \in Place :
                  q \notin {"heap", "receiver", "next"} => (IsIn(c, q)' <=> IsIn(c, q))
  <2>1. /\ {cb.type, cb'.type} \cap TxEvents = {}
        /\ "RX_BUF_RELEASED" \notin {cb.type, cb'.type}
    BY <1>3 DEF Return, NoEvent, TxEvents
  <2>2. \A c \in Block, q \in Place :
          q \notin {"heap", "receiver", "next"} => (IsIn(c, q)' <=> IsIn(c, q))
    BY <1>3, <2>1, Unmoved DEF Place
  <2>3. UNCHANGED free /\ rx'.cur = rx.cur /\ rx'.next = rx.next => OnePlace'
    BY <1>0, <2>2, Unmoved, Kept
  <2> QED BY <2>2, <2>3
<1>4. CASE RxRdy
  <2>1. /\ cb.type = "RX_RDY" /\ Return
        /\ UNCHANGED <<txFifo, rxFifo, boot, rcv, ble, tx>> /\ work'.buf = work.buf
        /\ UNCHANGED free
    BY <1>4 DEF RxRdy
  <2>2. rx'.cur = rx.cur /\ rx'.next = rx.next
    BY <1>4 DEF RxRdy, Rx!Disable, Types, UartTypes
  <2> QED BY <1>3, <2>1, <2>2
<1>5. ASSUME NEW b \in Block \cup {NULL}, RxDisabled(b)
      PROVE  OnePlace'
  <2>1. /\ cb.type = "RX_DISABLED" /\ Return
        /\ UNCHANGED <<txFifo, rxFifo, boot, rcv, ble, tx>> /\ work'.buf = work.buf
    BY <1>5 DEF RxDisabled, Reschedule, Types, ThreadTypes
  <2>2. CASE b = NULL
    <3>1. UNCHANGED free /\ UNCHANGED rx
      BY <1>5, <2>2, NullNoBlock DEF RxDisabled, Malloc, Types, HeapTypes
    <3> QED BY <1>3, <2>1, <3>1
  <2>3. CASE b # NULL
    <3>1. /\ b \in Block /\ b \in free /\ free' = free \ {b}
          /\ rx.cur = NULL /\ rx'.cur = b /\ rx'.next = rx.next
      <4>1. b \in Block /\ b \in free /\ free' = free \ {b}
        BY <1>5, <2>3 DEF RxDisabled, Malloc, Available
      <4>2. Rx!Enable(b)
        BY <1>5, <2>3 DEF RxDisabled
      <4> QED BY <4>1, <4>2 DEF Rx!Enable, Rx!Off
    <3>2. \A c \in Block, q \in Place :
            q \notin {"heap", "receiver"} => (IsIn(c, q)' <=> IsIn(c, q))
      BY <1>3, <2>1, <3>1, Unmoved
    <3>3. \A c \in Block : /\ IsIn(c, "heap")' <=> IsIn(c, "heap") /\ c # b
                           /\ IsIn(c, "receiver")' <=> IsIn(c, "receiver") \/ c = b
      BY <3>1, NullNoBlock DEF IsIn
    <3>4. Move(b, "heap", "receiver")
      BY <3>1, <3>2, <3>3 DEF Move, IsIn
    <3> QED BY <1>0, <3>1, <3>4, Moved, PlaceNames
  <2> QED BY <2>2, <2>3
<1>6. ASSUME NEW b \in Block \cup {NULL}, RxBufRequest(b)
      PROVE  OnePlace'
  <2>1. /\ cb.type = "RX_BUF_REQUEST" /\ Return
        /\ UNCHANGED <<txFifo, rxFifo, boot, rcv, ble, tx>> /\ work'.buf = work.buf
    BY <1>6 DEF RxBufRequest
  <2>2. CASE b = NULL
    <3>1. UNCHANGED free /\ UNCHANGED rx
      BY <1>6, <2>2, NullNoBlock DEF RxBufRequest, Malloc, Types, HeapTypes
    <3> QED BY <1>3, <2>1, <3>1
  <2>3. CASE b # NULL
    <3>1. /\ b \in Block /\ b \in free /\ free' = free \ {b}
          /\ rx.next = NULL
          /\ \/ rx.cur = NULL /\ rx'.cur = b /\ rx'.next = rx.next
             \/ rx'.cur = rx.cur /\ rx'.next = b
      BY <1>6, <2>3 DEF RxBufRequest, Malloc, Available, Rx!Respond, Types,
         UartTypes
    <3>2. CASE rx.cur = NULL /\ rx'.cur = b /\ rx'.next = rx.next
      <4>1. \A c \in Block, q \in Place :
              q \notin {"heap", "receiver"} => (IsIn(c, q)' <=> IsIn(c, q))
        BY <1>3, <2>1, <3>2, Unmoved
      <4>2. \A c \in Block : /\ IsIn(c, "heap")' <=> IsIn(c, "heap") /\ c # b
                             /\ IsIn(c, "receiver")' <=> IsIn(c, "receiver") \/ c = b
        BY <3>1, <3>2, NullNoBlock DEF IsIn
      <4>3. Move(b, "heap", "receiver")
        BY <3>1, <4>1, <4>2 DEF Move, IsIn
      <4> QED BY <1>0, <3>1, <4>3, Moved, PlaceNames
    <3>3. CASE rx'.cur = rx.cur /\ rx'.next = b
      <4>1. \A c \in Block, q \in Place :
              q \notin {"heap", "next"} => (IsIn(c, q)' <=> IsIn(c, q))
        BY <1>3, <2>1, <3>3, Unmoved
      <4>2. \A c \in Block : /\ IsIn(c, "heap")' <=> IsIn(c, "heap") /\ c # b
                             /\ IsIn(c, "next")' <=> IsIn(c, "next") \/ c = b
        BY <3>1, <3>3, NullNoBlock DEF IsIn
      <4>3. Move(b, "heap", "next")
        BY <3>1, <4>1, <4>2 DEF Move, IsIn
      <4> QED BY <1>0, <3>1, <4>3, Moved, PlaceNames
    <3> QED BY <3>1, <3>2, <3>3
  <2> QED BY <2>2, <2>3
<1>7. CASE RxBufReleased
  <2> DEFINE b == cb.buf
  <2>1. /\ b \in Block /\ cb.type = "RX_BUF_RELEASED" /\ cb'.type = "none"
        /\ {cb.type, cb'.type} \cap TxEvents = {}
    BY <1>7 DEF RxBufReleased, Types, UartTypes, Return, NoEvent, TxEvents
  <2>2. UNCHANGED <<txFifo, work, boot, rcv, ble, tx, rx>>
    BY <1>7 DEF RxBufReleased, uartVars
  <2>3. \/ Elements(rxFifo') = Elements(rxFifo) \cup {b} /\ UNCHANGED free
        \/ free' = free \cup {b} /\ UNCHANGED rxFifo
    BY <1>7, <2>1, AppendElements DEF RxBufReleased, Put, Types, HeapTypes
  <2>4. \A c \in Block : /\ IsIn(c, "released") <=> c = b
                         /\ ~IsIn(c, "released")'
    BY <2>1 DEF IsIn
  <2>5. \A c \in Block, q \in Place :
          q \notin {"released", "heap", "rx fifo"} => (IsIn(c, q)' <=> IsIn(c, q))
    BY <2>1, <2>2, Unmoved DEF Place
  <2> HIDE DEF b
  <2>6. CASE Elements(rxFifo') = Elements(rxFifo) \cup {b} /\ UNCHANGED free
    <3>1. \A c \in Block : IsIn(c, "rx fifo")' <=> IsIn(c, "rx fifo") \/ c = b
      BY <2>6 DEF IsIn
    <3>2. \A c \in Block : IsIn(c, "heap")' <=> IsIn(c, "heap")
      BY <2>6, Unmoved
    <3>3. Move(b, "released", "rx fifo")
      BY <2>1, <2>4, <2>5, <3>1, <3>2 DEF Move
    <3> QED BY <1>0, <2>1, <3>3, Moved, PlaceNames
  <2>7. CASE free' = free \cup {b} /\ UNCHANGED rxFifo
    <3>1. \A c \in Block : IsIn(c, "heap")' <=> IsIn(c, "heap") \/ c = b
      BY <2>7 DEF IsIn
    <3>2. \A c \in Block : IsIn(c, "rx fifo")' <=> IsIn(c, "rx fifo")
      BY <2>7, Unmoved
    <3>3. Move(b, "released", "heap")
      BY <2>1, <2>4, <2>5, <3>1, <3>2 DEF Move
    <3> QED BY <1>0, <2>1, <3>3, Moved, PlaceNames
  <2> QED BY <2>3, <2>6, <2>7
<1> QED BY <1>1, <1>2, <1>4, <1>5, <1>6, <1>7 DEF UartCb

\* A block that is put in a fifo was somewhere else before.
LEMMA NextFifos ==
  ASSUME Types, PlaceInv, Next
  PROVE  NoDuplicates(txFifo)' /\ NoDuplicates(rxFifo)'
<1>1. ASSUME txFifo' \in {txFifo, Tail(txFifo)},
             txFifo' = Tail(txFifo) => txFifo # <<>>
      PROVE  NoDuplicates(txFifo)'
  BY <1>1, TailElements DEF PlaceInv, Types, HeapTypes
<1>2. UNCHANGED txFifo => NoDuplicates(txFifo)'
  BY DEF PlaceInv
<1>3. UNCHANGED rxFifo => NoDuplicates(rxFifo)'
  BY DEF PlaceInv
<1>4. CASE ReceivePut
  <2>1. rcv.tx \in Block /\ txFifo' = Append(txFifo, rcv.tx) /\ UNCHANGED rxFifo
    BY <1>4 DEF ReceivePut, Put, Types, ThreadTypes
  <2>2. IsIn(rcv.tx, "bt_receive_cb")
    BY DEF IsIn
  <2>3. ~IsIn(rcv.tx, "tx fifo")
    BY <2>1, <2>2, PlaceNames DEF PlaceInv, OnePlace
  <2>4. rcv.tx \notin Elements(txFifo)
    BY <2>3 DEF IsIn
  <2> QED BY <1>3, <2>1, <2>4, AppendElements DEF PlaceInv, Types, HeapTypes
<1>5. CASE TxDone
  <2>1. UNCHANGED rxFifo
    BY <1>5 DEF TxDone
  <2>2. CASE txFifo = <<>>
    BY <1>2, <1>3, <1>5, <2>1, <2>2 DEF TxDone, TransmitNext
  <2>3. CASE txFifo # <<>>
    <3>1. txFifo' = Tail(txFifo)
      BY <1>5, <2>3 DEF TxDone, TransmitNext
    <3> QED BY <1>1, <1>3, <2>1, <2>3, <3>1
  <2> QED BY <2>2, <2>3
<1>6. CASE BleGet
  <2>1. rxFifo # <<>> /\ rxFifo' = Tail(rxFifo) /\ UNCHANGED txFifo
    BY <1>6 DEF BleGet
  <2> QED BY <1>2, <2>1, TailElements DEF PlaceInv, Types, HeapTypes
<1>7. CASE RxBufReleased
  <2>1. cb.type = "RX_BUF_RELEASED" /\ cb.buf \in Block
    BY <1>7 DEF RxBufReleased, Types, UartTypes
  <2>2. IsIn(cb.buf, "released")
    BY <2>1 DEF IsIn
  <2>3. ~IsIn(cb.buf, "rx fifo")
    BY <2>1, <2>2, PlaceNames DEF PlaceInv, OnePlace
  <2>4. cb.buf \notin Elements(rxFifo)
    BY <2>3 DEF IsIn
  <2>5. (rxFifo' = Append(rxFifo, cb.buf) \/ UNCHANGED rxFifo) /\ UNCHANGED txFifo
    BY <1>7 DEF RxBufReleased, Put
  <2>6. rxFifo' = Append(rxFifo, cb.buf) => NoDuplicates(rxFifo)'
    BY <2>1, <2>4, AppendElements DEF PlaceInv, Types, HeapTypes
  <2> QED BY <1>2, <1>3, <2>5, <2>6
<1>8. CASE UartInit \/ \E n \in 1 .. MaxWrite, cr \in BOOLEAN : BtReceive(n, cr)
  BY <1>2, <1>3, <1>8
     DEF UartInit, UartInitRx, UartInitTx, UartInitTransmit, UartInitEnable,
         BtReceive
<1>9. CASE (\E b \in Block \cup {NULL} : ReceiveAlloc(b)) \/ ReceiveTx
  BY <1>2, <1>3, <1>9 DEF ReceiveAlloc, ReceiveTx
<1>10. CASE (\E n \in 1 .. BufSize : UartSend(n)) \/ UartTxEvent \/ UartRxEvent
  BY <1>2, <1>3, <1>10 DEF UartSend, UartTxEvent, UartRxEvent
<1>11. CASE TxAborted \/ RxRdy \/ \E b \in Block \cup {NULL} : RxDisabled(b) \/ RxBufRequest(b)
  BY <1>2, <1>3, <1>11 DEF TxAborted, RxRdy, RxDisabled, RxBufRequest
<1>12. CASE Work \/ BleSendFree
  BY <1>2, <1>3, <1>12 DEF Work, WorkAlloc, WorkEnable, BleSendFree
<1> QED BY <1>4, <1>5, <1>6, <1>7, <1>8, <1>9, <1>10, <1>11, <1>12
        DEF Next, Receive, UartCb, Ble

\* Every step keeps aborted_buf about the transmitted block.
LEMMA NextAbort ==
  ASSUME Types, AbortInv, Next
  PROVE  AbortInv'
<1>1. cb = NoEvent => cb.type \notin TxEvents
  BY DEF NoEvent, TxEvents
<1>2. cb' = NoEvent => cb'.type \notin TxEvents
  BY DEF NoEvent, TxEvents
<1>3. ASSUME UNCHANGED <<aborted, tx>>,
             UNCHANGED cb \/ {cb.type, cb'.type} \cap TxEvents = {}
      PROVE  AbortInv'
  BY <1>3 DEF AbortInv, AbortOf
<1>4. ASSUME NEW b \in Block, NEW n, Tx!Submit(At(b, 0), n), UNCHANGED aborted,
             InThread, UNCHANGED cb
      PROVE  AbortInv'
  <2>1. tx = Tx!Idle /\ tx' # Tx!Idle
    BY <1>4, SubmitAt, 0 \in Nat
  <2>2. tx'.buf.off = 0
    BY <1>4 DEF Tx!Submit, At
  <2>3. aborted.buf = NULL /\ aborted.len = 0
    BY <1>1, <1>4, <2>1 DEF AbortInv, InThread
  <2> QED BY <1>1, <1>4, <2>1, <2>2, <2>3 DEF AbortInv, AbortOf, InThread
<1>5. CASE UartInit
  <2>1. CASE UartInitTransmit
    <3>1. boot.tx \in Block
      BY <2>1 DEF UartInitTransmit, Types, ThreadTypes
    <3> QED BY <1>4, <2>1, <3>1 DEF UartInitTransmit, InPreemptible,
               callbackVars
  <2>2. CASE ~UartInitTransmit
    BY <1>3, <1>5, <2>2
       DEF UartInit, UartInitRx, UartInitTx, UartInitEnable, callbackVars,
           uartVars
  <2> QED BY <2>1, <2>2
<1>6. CASE ReceiveTx
  <2>1. CASE tx = Tx!Idle
    <3>1. rcv.tx \in Block
      BY <1>6 DEF ReceiveTx, Types, ThreadTypes
    <3> QED BY <1>4, <1>6, <2>1, <3>1 DEF ReceiveTx, callbackVars
  <2>2. CASE tx # Tx!Idle
    BY <1>3, <1>6, <2>2 DEF ReceiveTx, callbackVars
  <2> QED BY <2>1, <2>2
<1>7. CASE \/ \E n \in 1 .. MaxWrite, cr \in BOOLEAN : BtReceive(n, cr)
           \/ \E b \in Block \cup {NULL} : ReceiveAlloc(b)
           \/ ReceivePut \/ Work \/ Ble
  BY <1>3, <1>7
     DEF BtReceive, ReceiveAlloc, ReceivePut, Work, WorkAlloc, WorkEnable, Ble,
         BleGet, BleSendFree, callbackVars, uartVars
<1>8. CASE \E n \in 1 .. BufSize : UartSend(n)
  <2>1. tx # Tx!Idle /\ tx' # Tx!Idle /\ tx'.buf = tx.buf
    BY <1>8, SendKeeps DEF UartSend
  <2>2. UNCHANGED <<aborted, cb>>
    BY <1>8 DEF UartSend, callbackVars
  <2> QED BY <2>1, <2>2 DEF AbortInv, AbortOf
<1>9. CASE UartTxEvent
  <2>1. /\ tx # Tx!Idle /\ tx' = Tx!Idle /\ UNCHANGED aborted
        /\ cb'.type \in TxEvents /\ cb'.buf = tx.buf
    BY <1>9 DEF UartTxEvent, Tx!Report, Event, TxEvents, callbackVars
  <2> QED BY <2>1 DEF AbortInv, AbortOf
<1>10. CASE UartRxEvent
  <2>1. cb'.type \notin TxEvents /\ cb = NoEvent /\ UNCHANGED <<aborted, tx>>
    BY <1>10 DEF UartRxEvent, Event, MayCallback, TxEvents, callbackVars
  <2> QED BY <1>1, <1>3, <2>1
<1>11. CASE TxDone
  <2>1. /\ cb.type \in TxEvents /\ cb'.type \notin TxEvents
        /\ aborted'.buf = NULL /\ aborted'.len = 0
    BY <1>2, <1>11 DEF TxDone, TxEvents, Return, AbortIsOver
  <2>2. CASE tx' = tx
    BY <2>1, <2>2 DEF AbortInv
  <2>3. CASE txFifo # <<>> /\ Tx!Submit(At(Head(txFifo), 0), len[Head(txFifo)])
    <3>1. tx'.buf.off = 0
      BY <2>3 DEF Tx!Submit, At
    <3>2. Head(txFifo) \in Block
      BY <2>3, HeadTailProperties DEF Types, HeapTypes
    <3>3. tx' # Tx!Idle
      BY <2>3, <3>2, SubmitAt, 0 \in Nat
    <3> QED BY <2>1, <3>1, <3>3 DEF AbortInv, AbortOf
  <2> QED BY <1>11, <2>2, <2>3 DEF TxDone, TransmitNext
<1>12. CASE TxAborted
  <2>1. /\ cb.type \in TxEvents /\ cb'.type \notin TxEvents
        /\ cb.buf.block \in Block /\ cb.len \in Nat
    BY <1>2, <1>12 DEF TxAborted, TxEvents, Return, Types, UartTypes, Address
  <2>2. aborted'.buf = cb.buf.block /\ aborted'.len \in Nat
    BY <1>12, <2>1 DEF TxAborted, AbortedSoFar, AbortInv, AbortOf, Types,
       HeapTypes
  <2>3. Tx!Submit(At(aborted'.buf, aborted'.len), len[aborted'.buf] - aborted'.len)
    BY <1>12 DEF TxAborted
  <2>4. tx' # Tx!Idle
    BY <2>1, <2>2, <2>3, SubmitAt
  <2>5. tx'.buf.block = aborted'.buf /\ tx'.buf.off = aborted'.len
    BY <2>3 DEF Tx!Submit, At
  <2> QED BY <2>1, <2>4, <2>5 DEF AbortInv, AbortOf
<1>13. CASE \/ RxRdy \/ RxBufReleased
            \/ \E b \in Block \cup {NULL} : RxDisabled(b) \/ RxBufRequest(b)
  <2>1. cb.type \notin TxEvents /\ cb' = NoEvent /\ UNCHANGED <<aborted, tx>>
    BY <1>13 DEF RxRdy, RxBufReleased, RxDisabled, RxBufRequest, Return,
                 TxEvents, callbackVars, uartVars
  <2> QED BY <1>2, <1>3, <2>1
<1> QED BY <1>5, <1>6, <1>7, <1>8, <1>9, <1>10, <1>11, <1>12, <1>13
        DEF Next, Receive, UartCb

\* Every step keeps what is in hand.
LEMMA NextHands ==
  ASSUME Types, HandsInv, OnePlace, Next
  PROVE  HandsInv'
<1> DEFINE Hands == /\ work.buf # NULL => work.pc = "enable"
                    /\ rcv.tx # NULL => rcv.pc \in {"tx", "put"}
                    /\ boot.rx # NULL => boot.pc \in {"alloc_tx", "tx", "enable"}
                    /\ boot.tx # NULL => boot.pc = "tx" /\ boot.tx # boot.rx
                    /\ boot.pc # "done" => rcv.pc = "idle"
           Receiving == /\ rx.cur = NULL => rx.next = NULL /\ rx.count = 0
                        /\ rx.cur # NULL => rx.cur # rx.next
           Ready == cb.type = "RX_RDY" => cb.buf = rx.cur
<1>1. Hands /\ Receiving /\ Ready
  BY DEF HandsInv
<1>2. Hands' /\ Receiving' /\ Ready' => HandsInv'
  BY DEF HandsInv
<1>3. UNCHANGED <<work, rcv, boot>> => Hands'
  BY <1>1
<1>4. UNCHANGED rx => Receiving'
  BY <1>1
<1>5. UNCHANGED <<cb, rx>> \/ cb'.type # "RX_RDY" => Ready'
  BY <1>1
<1>6. cb = NoEvent /\ UNCHANGED cb => cb'.type # "RX_RDY"
  BY DEF NoEvent
<1>7. ASSUME NEW b, Rx!Enable(b) PROVE Receiving'
  <2>1. rx'.cur = b /\ rx'.next = NULL /\ rx'.count = 0
    BY <1>7 DEF Rx!Enable, Rx!Off
  <2> QED BY <2>1
<1> HIDE DEF Hands, Receiving, Ready
<1>8. CASE UartInit
  <2>1. ASSUME NEW b \in Block \cup {NULL}, UartInitRx(b)
        PROVE  Hands' /\ Receiving' /\ Ready'
    <3>1. Hands'
      BY <1>1, <2>1 DEF UartInitRx, Hands
    <3> QED BY <1>4, <1>5, <2>1, <3>1 DEF UartInitRx, uartVars
  <2>2. ASSUME NEW b \in Block \cup {NULL}, UartInitTx(b)
        PROVE  Hands' /\ Receiving' /\ Ready'
    <3>1. CASE b = NULL
      <4>1. Hands'
        BY <1>1, <2>2, <3>1 DEF UartInitTx, Hands
      <4> QED BY <1>4, <1>5, <2>2, <4>1 DEF UartInitTx, uartVars
    <3>2. CASE b # NULL
      <4>1. /\ b \in Block /\ boot.pc = "alloc_tx" /\ IsIn(b, "heap")
            /\ boot' = [pc |-> "tx", rx |-> boot.rx, tx |-> b]
            /\ UNCHANGED <<work, rcv>>
        BY <2>2, <3>2 DEF UartInitTx, Available, IsIn
      <4>2. b # boot.rx
        <5>1. boot.rx = b => IsIn(b, "uart_init")
          BY DEF IsIn
        <5> QED BY <4>1, <5>1, PlaceNames DEF OnePlace
      <4>3. Hands'
        BY <1>1, <4>1, <4>2 DEF Hands
      <4> QED BY <1>4, <1>5, <2>2, <4>3 DEF UartInitTx, uartVars
    <3> QED BY <3>1, <3>2
  <2>3. CASE UartInitTransmit
    <3>1. Hands'
      BY <1>1, <2>3 DEF UartInitTransmit, Hands
    <3> QED BY <1>2, <1>4, <1>5, <2>3, <3>1 DEF UartInitTransmit
  <2>4. CASE UartInitEnable
    <3>1. Hands'
      BY <1>1, <2>4 DEF UartInitEnable, Hands
    <3> QED BY <1>2, <1>5, <1>6, <1>7, <2>4, <3>1
            DEF UartInitEnable, InPreemptible, InThread
  <2> QED BY <1>2, <1>8, <2>1, <2>2, <2>3, <2>4 DEF UartInit
<1>9. CASE \/ Receive \/ Ble \/ \E b \in Block \cup {NULL} : WorkAlloc(b)
           \/ \E n \in 1 .. MaxWrite, cr \in BOOLEAN : BtReceive(n, cr)
  <2>1. Receiving' /\ Ready'
    BY <1>4, <1>5, <1>9 DEF Receive, Ble, WorkAlloc, BtReceive, ReceiveAlloc,
       ReceiveTx, ReceivePut, BleGet, BleSendFree, uartVars
  <2>2. CASE \E n \in 1 .. MaxWrite, cr \in BOOLEAN : BtReceive(n, cr)
    BY <1>1, <1>2, <2>1, <2>2 DEF BtReceive, Hands
  <2>3. ASSUME NEW b \in Block \cup {NULL}, ReceiveAlloc(b) PROVE Hands'
    <3>1. UNCHANGED <<work, boot>> /\ (rcv'.tx = NULL \/ rcv'.pc = "tx") /\ rcv.pc = "alloc"
      BY <2>3 DEF ReceiveAlloc, NotReceiving
    <3>2. boot.pc = "done"
      BY <1>1, <3>1 DEF Hands
    <3> QED BY <1>1, <3>1, <3>2 DEF Hands
  <2>4. CASE ReceiveTx \/ ReceivePut
    <3>1. /\ UNCHANGED <<work, boot>> /\ rcv.pc \in {"tx", "put"}
          /\ rcv'.tx = NULL \/ rcv'.pc = "put"
      BY <2>4 DEF ReceiveTx, ReceivePut, NextChunk, NotReceiving, Types,
         ThreadTypes
    <3>2. boot.pc = "done"
      BY <1>1, <3>1 DEF Hands
    <3>3. Hands'
      BY <1>1, <3>1, <3>2 DEF Hands
    <3> QED BY <1>2, <2>1, <3>3
  <2>5. ASSUME NEW b \in Block \cup {NULL}, WorkAlloc(b) PROVE Hands'
    BY <1>1, <2>5 DEF WorkAlloc, Reschedule, Hands, Types, ThreadTypes
  <2>6. CASE Ble
    BY <1>2, <1>3, <2>1, <2>6 DEF Ble, BleGet, BleSendFree
  <2> QED BY <1>2, <1>9, <2>1, <2>2, <2>3, <2>4, <2>5, <2>6 DEF Receive
<1>10. CASE WorkEnable
  <2>1. Hands'
    BY <1>1, <1>10 DEF WorkEnable, Hands
  <2> QED BY <1>2, <1>5, <1>6, <1>7, <1>10, <2>1 DEF WorkEnable, InThread
<1>11. CASE (\E n \in 1 .. BufSize : UartSend(n)) \/ UartTxEvent
  <2>1. Hands' /\ Receiving'
    BY <1>3, <1>4, <1>11 DEF UartSend, UartTxEvent
  <2>2. Ready'
    BY <1>5, <1>11 DEF UartSend, UartTxEvent, Event
  <2> QED BY <1>2, <2>1, <2>2
<1>12. CASE UartRxEvent
  <2>1. Hands'
    BY <1>3, <1>12 DEF UartRxEvent
  <2>2. ASSUME NEW n \in 1 .. BufSize, NEW eol \in BOOLEAN,
               Rx!Ready(n), cb' = Event("RX_RDY", rx.cur, n, eol)
        PROVE  Receiving' /\ Ready'
    <3>1. /\ rx.cur # NULL /\ rx'.cur = rx.cur /\ rx'.next = rx.next
          /\ cb'.buf = rx.cur
      BY <2>2 DEF Rx!Ready, Event, Types, UartTypes
    <3> QED BY <1>1, <3>1 DEF Receiving, Ready
  <2>3. CASE Rx!Request /\ cb' = Event("RX_BUF_REQUEST", NULL, 0, FALSE)
    BY <1>2, <1>4, <1>5, <2>1, <2>3 DEF Rx!Request, Event
  <2>4. CASE Rx!Release /\ cb' = Event("RX_BUF_RELEASED", rx.cur, 0, FALSE)
    <3>1. rx'.next = NULL /\ rx'.count = 0
      BY <2>4 DEF Rx!Release
    <3>2. Receiving'
      BY <3>1 DEF Receiving
    <3> QED BY <1>2, <1>5, <2>1, <2>4, <3>2 DEF Event
  <2>5. CASE Rx!Disabled /\ cb' = Event("RX_DISABLED", NULL, 0, FALSE)
    <3>1. rx'.next = NULL /\ rx'.count = 0
      BY <2>5 DEF Rx!Disabled, Rx!Off
    <3>2. Receiving'
      BY <3>1 DEF Receiving
    <3> QED BY <1>2, <1>5, <2>1, <2>5, <3>2 DEF Event
  <2> QED BY <1>2, <1>12, <2>1, <2>2, <2>3, <2>4, <2>5 DEF UartRxEvent
<1>13. CASE UartCb
  <2>1. Ready'
    BY <1>5, <1>13 DEF UartCb, TxDone, TxAborted, RxRdy, RxDisabled,
       RxBufRequest,
       RxBufReleased, Return, NoEvent
  <2>2. CASE TxDone \/ TxAborted \/ RxBufReleased
    BY <1>2, <1>3, <1>4, <2>1, <2>2 DEF TxDone, TxAborted, RxBufReleased,
       uartVars
  <2>3. CASE RxRdy
    <3>1. /\ rx'.cur = rx.cur /\ rx'.next = rx.next /\ rx'.count = rx.count
      BY <2>3 DEF RxRdy, Rx!Disable, Types, UartTypes
    <3>2. Receiving'
      BY <1>1, <3>1 DEF Receiving
    <3> QED BY <1>2, <1>3, <2>1, <2>3, <3>2 DEF RxRdy
  <2>4. ASSUME NEW b \in Block \cup {NULL}, RxDisabled(b)
        PROVE  Hands' /\ Receiving'
    <3>1. UNCHANGED <<rcv, boot>> /\ work'.buf = work.buf /\ work'.pc = work.pc
      BY <2>4 DEF RxDisabled, Reschedule, Types, ThreadTypes
    <3>2. Hands'
      BY <1>1, <3>1 DEF Hands
    <3>3. Receiving'
      BY <1>4, <1>7, <2>4 DEF RxDisabled
    <3> QED BY <3>2, <3>3
  <2>5. ASSUME NEW b \in Block \cup {NULL}, RxBufRequest(b)
        PROVE  Hands' /\ Receiving'
    <3>1. Hands'
      BY <1>3, <2>5 DEF RxBufRequest
    <3>2. CASE b = NULL
      BY <1>4, <2>5, <3>1, <3>2 DEF RxBufRequest
    <3>3. CASE b # NULL
      <4>1. b \in Block /\ IsIn(b, "heap")
        BY <2>5, <3>3 DEF RxBufRequest, Malloc, Available, IsIn
      <4>2. rx.cur # b
        <5>1. rx.cur = b => IsIn(b, "receiver")
          BY DEF IsIn
        <5> QED BY <4>1, <5>1, PlaceNames DEF OnePlace
      <4>3. /\ rx.next = NULL
            /\ \/ rx.cur = NULL /\ rx'.cur = b /\ rx'.next = NULL
               \/ rx.cur # NULL /\ rx'.cur = rx.cur /\ rx'.next = b
        BY <2>5, <3>3 DEF RxBufRequest, Rx!Respond, Types, UartTypes
      <4>4. Receiving'
        BY <1>1, <3>3, <4>2, <4>3 DEF Receiving
      <4> QED BY <3>1, <4>4
    <3> QED BY <3>2, <3>3
  <2> QED BY <1>2, <1>13, <2>1, <2>2, <2>3, <2>4, <2>5 DEF UartCb
<1> QED BY <1>8, <1>9, <1>10, <1>11, <1>12, <1>13 DEF Next, Work

\* Where the blocks are, always.
LEMMA PlacesInvariant == Spec => [](Types /\ HandsInv /\ AbortInv /\ PlaceInv)
<1> DEFINE Inv == Types /\ HandsInv /\ AbortInv /\ PlaceInv
<1>1. Init => Inv
  <2> SUFFICES ASSUME Init PROVE Inv
    OBVIOUS
  <2>1. HandsInv /\ AbortInv
    BY DEF Init, HandsInv, AbortInv, AbortOf, Rx!Init, Rx!Off, Tx!Init,
       NoEvent, TxEvents
  <2>2. \A b \in Block, q \in Place : IsIn(b, q) <=> q = "heap"
    <3> SUFFICES ASSUME NEW b \in Block, NEW q \in Place
                 PROVE  IsIn(b, q) <=> q = "heap"
      OBVIOUS
    <3>1. /\ b \in free /\ txFifo = <<>> /\ rxFifo = <<>> /\ tx = Tx!Idle
          /\ cb.type = "none" /\ rx.cur = NULL /\ rx.next = NULL
          /\ rcv.tx = NULL /\ ble = NULL /\ work.buf = NULL
          /\ boot.rx = NULL /\ boot.tx = NULL /\ b # NULL
      BY NullNoBlock DEF Init, Rx!Init, Rx!Off, Tx!Init, NoEvent
    <3>2. b \notin Elements(txFifo) /\ b \notin Elements(rxFifo)
      BY <3>1 DEF Elements
    <3> QED BY <3>1, <3>2 DEF IsIn, Place
  <2>3. NoDuplicates(txFifo) /\ NoDuplicates(rxFifo)
    BY DEF Init, NoDuplicates
  <2> QED BY <2>1, <2>2, <2>3, InitTypes, PlaceNames DEF PlaceInv, OnePlace
<1>2. Inv /\ [Next]_bridgeVars => Inv'
  <2> SUFFICES ASSUME Inv, [Next]_bridgeVars PROVE Inv'
    OBVIOUS
  <2>1. CASE Next
    <3>1. OnePlace'
      BY <2>1, InitPlaces, ThreadPlaces, UartPlaces, CallbackPlaces DEF Next,
         PlaceInv
    <3> QED BY <2>1, <3>1, NextTypes, NextHands, NextAbort, NextFifos
               DEF PlaceInv
  <2>2. CASE UNCHANGED bridgeVars
    <3>1. \A b \in Block, q \in Place : IsIn(b, q)' <=> IsIn(b, q)
      BY <2>2, Unmoved DEF Place, bridgeVars, uartVars
    <3>2. OnePlace'
      BY <3>1, Kept DEF PlaceInv
    <3>3. HandsInv' /\ AbortInv' /\ NoDuplicates(txFifo)' /\ NoDuplicates(rxFifo)'
      BY <2>2 DEF bridgeVars, uartVars, callbackVars, HandsInv, AbortInv,
         AbortOf,
                  PlaceInv, NoDuplicates
    <3> QED BY <3>2, <3>3, NextTypes DEF PlaceInv
  <2> QED BY <2>1, <2>2
<1> QED BY <1>1, <1>2, PTL DEF Spec

\* No block of the heap is leaked, freed twice or used after it was freed, on
\* none of the ways through uart_init(), uart_cb(), bt_receive_cb(),
\* uart_work_handler() and ble_write_thread(), however uart_cb() interrupts the
\* others.
THEOREM BlocksAreKept == Spec => []BlockInOnePlace
<1>1. PlaceInv => BlockInOnePlace
  <2> SUFFICES ASSUME PlaceInv, NEW b \in Block
               PROVE  \E place \in Place : Places(b) = {place}
    BY DEF PlaceInv, BlockInOnePlace
  <2>1. PICK p \in Place : \A q \in Place : IsIn(b, q) <=> q = p
    BY DEF PlaceInv, OnePlace
  <2>2. Places(b) = {p}
    BY <2>1 DEF Places
  <2> QED BY <2>2
<1> QED BY <1>1, PlacesInvariant, PTL
---------------------------------------------------------------------------
(* The bytes are accounted for *)

\* A block of the heap is in nobody's hands.
LEMMA HeapApart ==
  ASSUME OnePlace, NEW b \in free, b \in Block
  PROVE  /\ b \notin Elements(txFifo)
         /\ tx # Tx!Idle => tx.buf.block # b
         /\ cb.type \in TxEvents => cb.buf.block # b
         /\ b \notin {rx.cur, rx.next, rcv.tx, work.buf, boot.rx, boot.tx}
<1>1. IsIn(b, "heap")
  BY DEF IsIn
<1>2. \A q \in Place : IsIn(b, q) => q = "heap"
  BY <1>1, PlaceNames DEF OnePlace
<1>3. /\ ~IsIn(b, "tx fifo") /\ ~IsIn(b, "transmitter")
      /\ ~IsIn(b, "transmitted") /\ ~IsIn(b, "receiver") /\ ~IsIn(b, "next")
      /\ ~IsIn(b, "bt_receive_cb") /\ ~IsIn(b, "uart_work_handler")
      /\ ~IsIn(b, "uart_init")
  BY <1>2, PlaceNames
<1> QED BY <1>3 DEF IsIn, TxEvents

\* Nor is the block that is received, ...
LEMMA ReceiverApart ==
  ASSUME OnePlace, rx.cur \in Block
  PROVE  /\ tx # Tx!Idle => tx.buf.block # rx.cur
         /\ cb.type \in TxEvents => cb.buf.block # rx.cur
         /\ rx.cur \notin {rx.next, work.buf, boot.rx}
<1>1. IsIn(rx.cur, "receiver")
  BY DEF IsIn
<1>2. \A q \in Place : IsIn(rx.cur, q) => q = "receiver"
  BY <1>1, PlaceNames DEF OnePlace
<1>3. /\ ~IsIn(rx.cur, "transmitter") /\ ~IsIn(rx.cur, "transmitted")
      /\ ~IsIn(rx.cur, "next") /\ ~IsIn(rx.cur, "uart_work_handler")
      /\ ~IsIn(rx.cur, "uart_init")
  BY <1>2, PlaceNames
<1> QED BY <1>3 DEF IsIn, TxEvents

\* ... nor the one that is transmitted.
LEMMA TransmitterApart ==
  ASSUME OnePlace, tx # Tx!Idle, tx.buf.block \in Block
  PROVE  tx.buf.block \notin Elements(txFifo) \cup {rcv.tx, boot.tx}
<1>1. IsIn(tx.buf.block, "transmitter")
  BY DEF IsIn
<1>2. /\ ~IsIn(tx.buf.block, "tx fifo") /\ ~IsIn(tx.buf.block, "bt_receive_cb")
      /\ ~IsIn(tx.buf.block, "uart_init")
  BY <1>1, PlaceNames DEF OnePlace
<1> QED BY <1>2 DEF IsIn

\* The count of a block that was just allocated, ...
LEMMA EmptiedLen ==
  ASSUME Types, NEW b, len' = Emptied(b)
  PROVE  \A c \in Block : len'[c] = IF c = b THEN 0 ELSE len[c]
BY DEF Emptied, Types, HeapTypes

\* ... and of one that was just filled with the peer's data.
LEMMA OweLen ==
  ASSUME Types, sent \in [Block -> Nat], NEW b \in Block, NEW n, Owe(b, n)
  PROVE  \A c \in Block : /\ len'[c] = IF c = b THEN n ELSE len[c]
                          /\ sent'[c] = IF c = b THEN 0 ELSE sent[c]
BY DEF Owe, Types, HeapTypes

\* What is in the receiver was stored and reported, but for what the callback
\* has not counted yet; what was allocated for it is empty.
RxCountInv ==
  /\ rx.cur # NULL =>
       len[rx.cur] = rx.count - (IF cb.type = "RX_RDY" THEN cb.len ELSE 0)
  /\ cb.type = "RX_RDY" => cb.len <= rx.count
  /\ rx.count <= BufSize
  /\ rx.next # NULL => len[rx.next] = 0
  /\ boot.rx # NULL => len[boot.rx] = 0
  /\ work.buf # NULL => len[work.buf] = 0

\* Every step keeps the counts of received bytes.
LEMMA NextRxCount ==
  ASSUME Types, HandsInv, OnePlace, sent \in [Block -> Nat], RxCountInv, Next
  PROVE  RxCountInv'
<1>1. ASSUME UNCHANGED rx,
             UNCHANGED cb \/ "RX_RDY" \notin {cb.type, cb'.type},
             boot'.rx \in {boot.rx, NULL}, work'.buf \in {work.buf, NULL},
             \A c \in {rx.cur, rx.next, boot.rx, work.buf} \ {NULL} :
               len'[c] = len[c]
      PROVE  RxCountInv'
  BY <1>1 DEF RxCountInv
<1>2. UNCHANGED len =>
        \A c \in {rx.cur, rx.next, boot.rx, work.buf} \ {NULL} : len'[c] = len[c]
  OBVIOUS
<1>3. \A c \in {rx.cur, rx.next, boot.rx, work.buf} \ {NULL} : c \in Block
  BY DEF Types, UartTypes, ThreadTypes
<1>4. ASSUME NEW b, b \in free \/ b = NULL, len' = Emptied(b)
      PROVE  \A c \in {rx.cur, rx.next, boot.rx, work.buf} \ {NULL} :
               len'[c] = len[c]
  BY <1>3, <1>4, EmptiedLen, HeapApart DEF Types, HeapTypes
<1>5. ASSUME NEW b \in free, NEW n, Owe(b, n)
      PROVE  \A c \in {rx.cur, rx.next, boot.rx, work.buf} \ {NULL} :
               len'[c] = len[c]
  BY <1>3, <1>5, OweLen, HeapApart DEF Types, HeapTypes
<1>6. ASSUME NEW b \in Block, Rx!Enable(b), cb'.type # "RX_RDY", len'[b] = 0,
             boot'.rx \in {boot.rx, NULL}, work'.buf \in {work.buf, NULL},
             \A c \in {boot.rx, work.buf} \ {NULL} : len'[c] = len[c]
      PROVE  RxCountInv'
  <2>1. rx'.cur = b /\ rx'.next = NULL /\ rx'.count = 0
    BY <1>6 DEF Rx!Enable, Rx!Off
  <2>2. BufSize >= 0
    BY BridgeAssumption
  <2> QED BY <1>6, <2>1, <2>2 DEF RxCountInv
<1>7. cb = NoEvent => cb.type # "RX_RDY"
  BY DEF NoEvent
<1>8. \A b \in Available : b \in free \/ b = NULL
  BY DEF Available
<1>9. ASSUME NEW b \in Block \cup {NULL}, UartInitRx(b) PROVE RxCountInv'
  <2>1. /\ len' = Emptied(b)
        /\ UNCHANGED <<rx, cb, work>> /\ boot'.rx = b
    BY <1>8, <1>9 DEF UartInitRx, Malloc, uartVars
  <2>2. b # NULL => len'[b] = 0
    BY <1>9, <2>1, EmptiedLen DEF UartInitRx
  <2>3. \A c \in {rx.cur, rx.next, boot.rx, work.buf} \ {NULL} : len'[c] = len[c]
    BY <1>4, <1>8, <1>9 DEF UartInitRx, Malloc
  <2> QED BY <2>1, <2>2, <2>3 DEF RxCountInv
<1>10. ASSUME NEW b \in Block \cup {NULL}, UartInitTx(b) PROVE RxCountInv'
  <2>1. UNCHANGED <<rx, cb, work>> /\ boot'.rx \in {boot.rx, NULL}
    BY <1>10 DEF UartInitTx, uartVars
  <2>2. \A c \in {rx.cur, rx.next, boot.rx, work.buf} \ {NULL} : len'[c] = len[c]
    BY <1>2, <1>5, <1>8, <1>10 DEF UartInitTx
  <2> QED BY <1>1, <2>1, <2>2
<1>11. CASE UartInitTransmit
  BY <1>1, <1>2, <1>11 DEF UartInitTransmit
<1>12. CASE UartInitEnable
  <2>1. boot.rx \in Block /\ UNCHANGED <<cb, len, work>> /\ boot'.rx = NULL
        /\ cb = NoEvent /\ Rx!Enable(boot.rx)
    BY <1>12 DEF UartInitEnable, InPreemptible, InThread, Types, ThreadTypes
  <2>2. len[boot.rx] = 0
    BY <2>1, NullNoBlock DEF RxCountInv
  <2> QED BY <1>6, <1>7, <2>1, <2>2
<1>13. CASE \/ \E n \in 1 .. MaxWrite, cr \in BOOLEAN : BtReceive(n, cr)
            \/ ReceiveTx \/ ReceivePut \/ Ble \/ \E n \in 1 .. BufSize : UartSend(n)
  BY <1>1, <1>2, <1>13 DEF BtReceive, ReceiveTx, ReceivePut, Ble, BleGet,
     BleSendFree, UartSend, uartVars
<1>14. ASSUME NEW b \in Block \cup {NULL}, ReceiveAlloc(b) PROVE RxCountInv'
  <2>1. UNCHANGED <<rx, cb, work, boot>>
    BY <1>14 DEF ReceiveAlloc, uartVars
  <2>2. \A c \in {rx.cur, rx.next, boot.rx, work.buf} \ {NULL} : len'[c] = len[c]
    <3>1. CASE b = NULL
      BY <1>2, <1>14, <3>1 DEF ReceiveAlloc
    <3>2. CASE b # NULL
      <4>1. b \in free /\ \E n : Owe(b, n)
        BY <1>8, <1>14, <3>2 DEF ReceiveAlloc, Malloc
      <4> QED BY <1>5, <4>1
    <3> QED BY <3>1, <3>2
  <2> QED BY <1>1, <2>1, <2>2
<1>15. CASE UartTxEvent
  <2>1. cb.type # "RX_RDY" /\ cb'.type # "RX_RDY"
    BY <1>7, <1>15 DEF UartTxEvent, MayCallback, Event
  <2> QED BY <1>1, <1>2, <1>15, <2>1 DEF UartTxEvent
<1>16. CASE UartRxEvent
  <2>1. cb.type # "RX_RDY" /\ UNCHANGED <<len, work, boot>>
    BY <1>7, <1>16 DEF UartRxEvent, MayCallback
  <2>2. ASSUME NEW n \in 1 .. BufSize, NEW eol \in BOOLEAN,
               Rx!Ready(n), cb' = Event("RX_RDY", rx.cur, n, eol)
        PROVE  RxCountInv'
    <3>1. /\ rx.cur # NULL /\ rx'.cur = rx.cur /\ rx'.next = rx.next
          /\ rx'.count = rx.count + n /\ rx.count + n <= BufSize
          /\ rx.count \in Nat
          /\ cb'.type = "RX_RDY" /\ cb'.len = n
      BY <2>2 DEF Rx!Ready, Event, Types, UartTypes
    <3>2. len[rx.cur] = rx.count
      <4>1. len[rx.cur] = rx.count - 0
        BY <2>1, <3>1 DEF RxCountInv
      <4> QED BY <3>1, <4>1
    <3> QED BY <2>1, <3>1, <3>2 DEF RxCountInv
  <2>3. CASE Rx!Request /\ cb' = Event("RX_BUF_REQUEST", NULL, 0, FALSE)
    BY <1>1, <1>2, <2>1, <2>3 DEF Rx!Request, Event
  <2>4. CASE Rx!Release /\ cb' = Event("RX_BUF_RELEASED", rx.cur, 0, FALSE)
    <3>1. rx'.cur = rx.next /\ rx'.next = NULL /\ rx'.count = 0
          /\ cb'.type # "RX_RDY"
      BY <2>4 DEF Rx!Release, Event
    <3>2. BufSize >= 0
      BY BridgeAssumption
    <3> QED BY <2>1, <3>1, <3>2 DEF RxCountInv
  <2>5. CASE Rx!Disabled /\ cb' = Event("RX_DISABLED", NULL, 0, FALSE)
    <3>1. rx'.cur = NULL /\ rx'.next = NULL /\ rx'.count = 0
          /\ cb'.type # "RX_RDY"
      BY <2>5 DEF Rx!Disabled, Rx!Off, Event
    <3>2. BufSize >= 0
      BY BridgeAssumption
    <3> QED BY <2>1, <3>1, <3>2 DEF RxCountInv
  <2> QED BY <1>16, <2>2, <2>3, <2>4, <2>5 DEF UartRxEvent
<1>17. CASE TxDone \/ TxAborted \/ RxBufReleased
  <2>1. cb.type # "RX_RDY" /\ cb'.type # "RX_RDY" /\ UNCHANGED <<len, rx, work, boot>>
    BY <1>17 DEF TxDone, TxAborted, RxBufReleased, Return, NoEvent, uartVars
  <2> QED BY <1>1, <1>2, <2>1
<1>18. CASE RxRdy
  <2>1. /\ cb.type = "RX_RDY" /\ cb'.type # "RX_RDY" /\ UNCHANGED <<work, boot>>
        /\ cb.buf = rx.cur /\ rx.cur \in Block /\ cb.len \in Nat
        /\ len' = [len EXCEPT ![rx.cur] = @ + cb.len]
    BY <1>18 DEF RxRdy, Return, NoEvent, HandsInv, Types, UartTypes
  <2>2. rx'.cur = rx.cur /\ rx'.next = rx.next /\ rx'.count = rx.count /\ rx.count \in Nat
    BY <1>18 DEF RxRdy, Rx!Disable, Types, UartTypes
  <2>3. rx.cur \notin {rx.next, boot.rx, work.buf}
    BY <2>1, ReceiverApart
  <2>4. /\ \A c \in Block : c # rx.cur => len'[c] = len[c]
        /\ len'[rx.cur] = len[rx.cur] + cb.len /\ len[rx.cur] \in Nat
    BY <2>1 DEF Types, HeapTypes
  <2>5. rx.cur # NULL /\ len[rx.cur] = rx.count - cb.len /\ cb.len <= rx.count
    BY <2>1, NullNoBlock DEF RxCountInv
  <2>6. len'[rx.cur] = rx.count - 0
    BY <2>1, <2>2, <2>4, <2>5
  <2>7. \A c \in {rx.next, boot.rx, work.buf} \ {NULL} : len'[c] = len[c]
    BY <1>3, <2>3, <2>4
  <2> QED BY <2>1, <2>2, <2>6, <2>7 DEF RxCountInv
<1>19. ASSUME NEW b \in Block \cup {NULL}, RxDisabled(b) PROVE RxCountInv'
  <2>1. /\ cb.type # "RX_RDY" /\ cb'.type # "RX_RDY"
        /\ UNCHANGED boot /\ work'.buf = work.buf
    BY <1>8, <1>19 DEF RxDisabled, Malloc, Return, NoEvent, Reschedule,
       Types, ThreadTypes
  <2>2. len' = Emptied(b) /\ (b \in free \/ b = NULL)
    BY <1>8, <1>19 DEF RxDisabled, Malloc
  <2>3. \A c \in {rx.cur, rx.next, boot.rx, work.buf} \ {NULL} : len'[c] = len[c]
    BY <1>4, <2>2
  <2>4. CASE b = NULL
    BY <1>1, <1>19, <2>1, <2>3, <2>4 DEF RxDisabled
  <2>5. CASE b # NULL
    <3>1. b \in Block /\ len'[b] = 0 /\ Rx!Enable(b)
      BY <1>19, <2>2, <2>5, EmptiedLen DEF RxDisabled
    <3> QED BY <1>6, <2>1, <2>3, <3>1
  <2> QED BY <2>4, <2>5
<1>20. ASSUME NEW b \in Block \cup {NULL}, RxBufRequest(b) PROVE RxCountInv'
  <2>1. /\ cb.type # "RX_RDY" /\ cb'.type # "RX_RDY"
        /\ UNCHANGED <<boot, work>>
    BY <1>20 DEF RxBufRequest, Return, NoEvent
  <2>2. len' = Emptied(b) /\ (b \in free \/ b = NULL)
    BY <1>8, <1>20 DEF RxBufRequest, Malloc
  <2>3. \A c \in {rx.cur, rx.next, boot.rx, work.buf} \ {NULL} : len'[c] = len[c]
    BY <1>4, <2>2
  <2>4. CASE b = NULL
    BY <1>1, <1>20, <2>1, <2>3, <2>4 DEF RxBufRequest
  <2>5. CASE b # NULL
    <3>1. b \in Block /\ len'[b] = 0 /\ Rx!Respond(b)
      BY <1>20, <2>2, <2>5, EmptiedLen DEF RxBufRequest
    <3>2. /\ rx'.count = rx.count
          /\ \/ rx.cur = NULL /\ rx'.cur = b /\ rx'.next = rx.next
             \/ rx.cur # NULL /\ rx'.cur = rx.cur /\ rx'.next = b
      BY <3>1 DEF Rx!Respond, Types, UartTypes
    <3>3. CASE rx.cur = NULL /\ rx'.cur = b /\ rx'.next = rx.next
      <4>1. rx.count = 0 /\ rx.next = NULL
        BY <3>3 DEF HandsInv
      <4> QED BY <2>1, <2>3, <3>1, <3>2, <3>3, <4>1 DEF RxCountInv
    <3>4. CASE rx.cur # NULL /\ rx'.cur = rx.cur /\ rx'.next = b
      BY <2>1, <2>3, <3>1, <3>2, <3>4 DEF RxCountInv
    <3> QED BY <3>2, <3>3, <3>4
  <2> QED BY <2>4, <2>5
<1>21. ASSUME NEW b \in Block \cup {NULL}, WorkAlloc(b) PROVE RxCountInv'
  <2>1. /\ UNCHANGED <<rx, cb, boot>>
        /\ work'.buf = b \/ work'.buf = work.buf
    BY <1>21 DEF WorkAlloc, Reschedule, uartVars, Types, ThreadTypes
  <2>2. len' = Emptied(b) /\ (b \in free \/ b = NULL)
    BY <1>8, <1>21 DEF WorkAlloc, Malloc
  <2>3. \A c \in {rx.cur, rx.next, boot.rx, work.buf} \ {NULL} : len'[c] = len[c]
    BY <1>4, <2>2
  <2>4. b # NULL => len'[b] = 0
    BY <2>2, EmptiedLen
  <2> QED BY <2>1, <2>3, <2>4 DEF RxCountInv
<1>22. CASE WorkEnable
  <2>1. /\ work.buf \in Block /\ UNCHANGED <<cb, len, boot>> /\ work'.buf = NULL
        /\ cb = NoEvent /\ Rx!Enable(work.buf)
    BY <1>22 DEF WorkEnable, InThread, Types, ThreadTypes
  <2>2. len[work.buf] = 0
    BY <2>1, NullNoBlock DEF RxCountInv
  <2> QED BY <1>6, <1>7, <2>1, <2>2
<1> QED BY <1>9, <1>10, <1>11, <1>12, <1>13, <1>14, <1>15, <1>16, <1>17, <1>18,
           <1>19, <1>20, <1>21, <1>22 DEF Next, UartInit, Receive, UartCb, Work

\* No step writes past the end of a block's data.
LEMMA NextLen ==
  ASSUME Types, HandsInv, RxCountInv, \A b \in Block : len[b] <= BufSize, Next
  PROVE  \A b \in Block : len'[b] <= BufSize
<1>1. UNCHANGED len => \A b \in Block : len'[b] <= BufSize
  OBVIOUS
<1>2. ASSUME NEW b, len' = Emptied(b)
      PROVE  \A c \in Block : len'[c] <= BufSize
  BY <1>2, EmptiedLen, BridgeAssumption
<1>3. ASSUME NEW b, NEW n \in Nat, n <= BufSize, Owe(b, n)
      PROVE  \A c \in Block : len'[c] <= BufSize
  BY <1>3 DEF Owe, Types, HeapTypes
<1>4. CASE UartInit
  BY <1>1, <1>2, <1>3, <1>4, BridgeAssumption DEF UartInit, UartInitRx,
     UartInitTx,
     UartInitTransmit, UartInitEnable
<1>5. ASSUME NEW b \in Block \cup {NULL}, ReceiveAlloc(b)
      PROVE  \A c \in Block : len'[c] <= BufSize
  <2>1. CASE b = NULL
    BY <1>1, <1>5, <2>1 DEF ReceiveAlloc
  <2>2. CASE b # NULL
    <3>1. rcv.left \in Nat /\ TxDataSize \in Nat /\ TxDataSize = BufSize - 1 /\ BufSize \in Nat
      BY BridgeAssumption DEF Types, ThreadTypes, TxDataSize
    <3>2. \E n \in Nat : n <= BufSize /\ Owe(b, n)
      <4> DEFINE n == IF rcv.left > TxDataSize THEN TxDataSize ELSE rcv.left
                 lf == IF rcv.left = n /\ rcv.cr THEN 1 ELSE 0
      <4>1. Owe(b, n + lf)
        BY <1>5, <2>2 DEF ReceiveAlloc
      <4>2. n \in Nat /\ n <= TxDataSize /\ lf \in {0, 1}
        BY <3>1
      <4>3. n + lf \in Nat /\ n + lf <= BufSize
        BY <3>1, <4>2
      <4> QED BY <4>1, <4>3
    <3> QED BY <1>3, <3>2
  <2> QED BY <2>1, <2>2
<1>6. CASE RxRdy
  <2>1. /\ cb.type = "RX_RDY" /\ cb.buf = rx.cur /\ rx.cur \in Block
        /\ cb.len \in Nat /\ rx.count \in Nat
        /\ len' = [len EXCEPT ![rx.cur] = @ + cb.len]
    BY <1>6 DEF RxRdy, HandsInv, Types, UartTypes
  <2>2. len[rx.cur] = rx.count - cb.len /\ rx.count <= BufSize
    BY <2>1, NullNoBlock DEF RxCountInv
  <2>3. \A b \in Block : len'[b] = IF b = rx.cur THEN rx.count ELSE len[b]
    BY <2>1, <2>2 DEF Types, HeapTypes
  <2> QED BY <2>2, <2>3
<1>7. CASE \E b \in Block \cup {NULL} : RxDisabled(b) \/ RxBufRequest(b) \/ WorkAlloc(b)
  BY <1>2, <1>7 DEF RxDisabled, RxBufRequest, WorkAlloc
<1>8. CASE \/ \E n \in 1 .. MaxWrite, cr \in BOOLEAN : BtReceive(n, cr)
           \/ ReceiveTx \/ ReceivePut \/ Ble \/ WorkEnable
           \/ \E n \in 1 .. BufSize : UartSend(n)
           \/ UartTxEvent \/ UartRxEvent \/ TxDone \/ TxAborted \/ RxBufReleased
  BY <1>1, <1>8 DEF BtReceive, ReceiveTx, ReceivePut, Ble, BleGet, BleSendFree,
     WorkEnable, UartSend, UartTxEvent, UartRxEvent, TxDone, TxAborted, RxBufReleased
<1> QED BY <1>4, <1>5, <1>6, <1>7, <1>8 DEF Next, Receive, UartCb, Work

\* What of the waiting and the transmitted blocks is on the line.
Waiting == Elements(txFifo) \cup ({rcv.tx, boot.tx} \ {NULL})
LineInv ==
  /\ sent \in [Block -> Nat]
  /\ \A b \in Waiting : sent[b] = 0
  /\ tx # Tx!Idle =>
       /\ sent[tx.buf.block] = tx.buf.off + tx.sent
       /\ len[tx.buf.block] = tx.buf.off + tx.len
  /\ cb.type \in TxEvents => sent[cb.buf.block] = cb.buf.off + cb.len
  /\ cb.type = "TX_DONE" => sent[cb.buf.block] = len[cb.buf.block]

\* Every step keeps the counts of the bytes to be transmitted.
LEMMA NextLine ==
  ASSUME Types, HandsInv, AbortInv, PlaceInv, LineInv, Next
  PROVE  LineInv'
<1>0. OnePlace
  BY DEF PlaceInv
<1>1. /\ tx # Tx!Idle => tx.buf.block \in Block
      /\ cb.type \in TxEvents => cb.buf.block \in Block
      /\ Waiting \subseteq Block
  BY NullNoBlock DEF Types, HeapTypes, ThreadTypes, UartTypes, Address,
     Waiting, Elements
<1>2. "TX_DONE" \in TxEvents /\ NoEvent.type \notin TxEvents
  BY DEF TxEvents, NoEvent
<1>3. ASSUME Waiting' \subseteq Waiting, UNCHANGED <<tx, sent>>,
             UNCHANGED cb \/ cb'.type \notin TxEvents,
             \A c \in Block : \/ tx # Tx!Idle /\ c = tx.buf.block
                              \/ cb.type \in TxEvents /\ c = cb.buf.block
                              => len'[c] = len[c]
      PROVE  LineInv'
  BY <1>1, <1>2, <1>3 DEF LineInv
<1>4. ASSUME NEW b \in free \cup {NULL}, len' = Emptied(b)
      PROVE  \A c \in Block : \/ tx # Tx!Idle /\ c = tx.buf.block
                              \/ cb.type \in TxEvents /\ c = cb.buf.block
                              => len'[c] = len[c]
  BY <1>0, <1>4, EmptiedLen, HeapApart, NullNoBlock DEF Types, HeapTypes
<1>5. \A b \in Available : b \in free \cup {NULL}
  BY DEF Available
<1>6. ASSUME NEW b \in free, NEW n, Owe(b, n),
             Waiting' \subseteq Waiting \cup {b}, UNCHANGED <<tx, cb>>
      PROVE  LineInv'
  <2>1. b \in Block
    BY DEF Types, HeapTypes
  <2>2. \A c \in Block : /\ len'[c] = IF c = b THEN n ELSE len[c]
                         /\ sent'[c] = IF c = b THEN 0 ELSE sent[c]
    BY <1>6, <2>1, OweLen DEF LineInv
  <2>3. /\ tx # Tx!Idle => tx.buf.block # b
        /\ cb.type \in TxEvents => cb.buf.block # b
    BY <1>0, <2>1, HeapApart
  <2>4. \A c \in Waiting' : sent'[c] = 0
    BY <1>1, <1>6, <2>1, <2>2 DEF LineInv
  <2>5. sent' \in [Block -> Nat]
    BY <1>6 DEF Owe, LineInv
  <2> QED BY <1>1, <1>2, <1>6, <2>2, <2>3, <2>4, <2>5 DEF LineInv
<1>7. ASSUME NEW b \in Waiting, Tx!Submit(At(b, 0), len[b]),
             Waiting' \subseteq Waiting, UNCHANGED <<len, sent>>,
             cb'.type \notin TxEvents
      PROVE  LineInv'
  <2>1. /\ tx'.buf.block = b /\ tx'.buf.off = 0 /\ tx'.sent = 0 /\ tx'.len = len[b]
    BY <1>7 DEF Tx!Submit, At
  <2>2. sent[b] = 0 /\ len[b] \in Nat
    BY <1>1, <1>7 DEF LineInv, Types, HeapTypes
  <2>3. /\ sent'[tx'.buf.block] = tx'.buf.off + tx'.sent
        /\ len'[tx'.buf.block] = tx'.buf.off + tx'.len
    BY <1>7, <2>1, <2>2
  <2> QED BY <1>2, <1>7, <2>3 DEF LineInv
<1>8. CASE UartInit
  <2>1. ASSUME NEW b \in Block \cup {NULL}, UartInitRx(b) PROVE LineInv'
    <3>1. /\ Waiting' \subseteq Waiting /\ UNCHANGED <<tx, sent, cb>>
      BY <2>1 DEF UartInitRx, uartVars, Waiting
    <3> QED BY <1>3, <1>4, <1>5, <2>1, <3>1 DEF UartInitRx, Malloc
  <2>2. ASSUME NEW b \in Block \cup {NULL}, UartInitTx(b) PROVE LineInv'
    <3>1. CASE b = NULL
      <4>1. Waiting' \subseteq Waiting /\ UNCHANGED <<tx, sent, cb, len>>
        BY <2>2, <3>1 DEF UartInitTx, uartVars, Waiting
      <4> QED BY <1>3, <4>1
    <3>2. CASE b # NULL
      <4>1. Waiting' \subseteq Waiting \cup {b} /\ UNCHANGED <<tx, cb>>
        BY <2>2, <3>2 DEF UartInitTx, uartVars, Waiting
      <4>2. b \in free /\ Owe(b, 1)
        BY <1>5, <2>2, <3>2 DEF UartInitTx
      <4> QED BY <1>6, <4>1, <4>2
    <3> QED BY <3>1, <3>2
  <2>3. CASE UartInitTransmit
    <3>1. boot.tx \in Waiting /\ Waiting' \subseteq Waiting
      BY <2>3, NullNoBlock DEF UartInitTransmit, Waiting, Types, ThreadTypes
    <3> QED BY <1>2, <1>7, <2>3, <3>1 DEF UartInitTransmit, InPreemptible,
               InThread
  <2>4. CASE UartInitEnable
    <3>1. Waiting' \subseteq Waiting
      BY <2>4 DEF UartInitEnable, Waiting
    <3> QED BY <1>3, <2>4, <3>1 DEF UartInitEnable
  <2> QED BY <1>8, <2>1, <2>2, <2>3, <2>4 DEF UartInit
<1>9. CASE Receive \/ \E n \in 1 .. MaxWrite, cr \in BOOLEAN : BtReceive(n, cr)
  <2>1. CASE \E n \in 1 .. MaxWrite, cr \in BOOLEAN : BtReceive(n, cr)
    <3>1. Waiting' \subseteq Waiting
      BY <2>1 DEF BtReceive, Waiting
    <3> QED BY <1>3, <2>1, <3>1 DEF BtReceive, uartVars
  <2>2. ASSUME NEW b \in Block \cup {NULL}, ReceiveAlloc(b) PROVE LineInv'
    <3>1. UNCHANGED <<tx, cb>>
      BY <2>2 DEF ReceiveAlloc, uartVars
    <3>2. CASE b = NULL
      <4>1. Waiting' \subseteq Waiting /\ UNCHANGED <<sent, len>>
        BY <2>2, <3>2 DEF ReceiveAlloc, NotReceiving, Waiting
      <4> QED BY <1>3, <3>1, <4>1
    <3>3. CASE b # NULL
      <4>1. b \in free /\ \E n : Owe(b, n)
        BY <1>5, <2>2, <3>3 DEF ReceiveAlloc, Malloc
      <4>2. rcv'.tx = b /\ UNCHANGED <<txFifo, boot>>
        BY <2>2, <3>3 DEF ReceiveAlloc
      <4>3. Waiting' \subseteq Waiting \cup {b}
        BY <4>2 DEF Waiting
      <4> QED BY <1>6, <3>1, <4>1, <4>3
    <3> QED BY <3>2, <3>3
  <2>3. CASE ReceiveTx
    <3>1. CASE tx = Tx!Idle
      <4>1. rcv.tx \in Waiting /\ Waiting' \subseteq Waiting
        BY <2>3, <3>1, NullNoBlock
           DEF ReceiveTx, NextChunk, NotReceiving, Waiting, Types, ThreadTypes
      <4> QED BY <1>2, <1>7, <2>3, <3>1, <4>1 DEF ReceiveTx, InThread
    <3>2. CASE tx # Tx!Idle
      <4>1. Waiting' \subseteq Waiting
        BY <2>3, <3>2 DEF ReceiveTx, Waiting, Types, ThreadTypes
      <4> QED BY <1>3, <2>3, <3>2, <4>1 DEF ReceiveTx
    <3> QED BY <3>1, <3>2
  <2>4. CASE ReceivePut
    <3>1. /\ rcv.tx \in Block /\ rcv'.tx = NULL /\ UNCHANGED boot
          /\ Elements(txFifo') = Elements(txFifo) \cup {rcv.tx}
      BY <2>4, AppendElements DEF ReceivePut, NextChunk, NotReceiving, Put,
         Types, ThreadTypes, HeapTypes
    <3>2. Waiting' \subseteq Waiting
      BY <3>1, NullNoBlock DEF Waiting
    <3> QED BY <1>3, <2>4, <3>2 DEF ReceivePut, uartVars
  <2> QED BY <1>9, <2>1, <2>2, <2>3, <2>4 DEF Receive
<1>10. ASSUME NEW n \in 1 .. BufSize, UartSend(n) PROVE LineInv'
  <2>1. /\ tx # Tx!Idle /\ tx' # Tx!Idle /\ tx'.buf = tx.buf
        /\ tx'.len = tx.len /\ tx'.sent = tx.sent + n
    BY <1>10, SendKeeps DEF UartSend
  <2>2. UNCHANGED <<txFifo, rcv, boot, len, cb>>
    BY <1>10 DEF UartSend
  <2>3. sent' = [sent EXCEPT ![tx.buf.block] = @ + n] /\ n \in Nat
    BY <1>10, BridgeAssumption DEF UartSend
  <2>4. tx.buf.block \notin Waiting
    BY <1>0, <1>1, <2>1, TransmitterApart DEF Waiting
  <2>5. \A c \in Waiting' : sent'[c] = 0
    BY <1>1, <2>2, <2>3, <2>4 DEF LineInv, Waiting
  <2>6. cb.type \notin TxEvents
    BY <2>1 DEF AbortInv
  <2>7. tx.buf.off \in Nat /\ tx.sent \in Nat
    BY <2>1 DEF Types, UartTypes, Address
  <2>8. sent'[tx.buf.block] = tx.buf.off + tx'.sent
    BY <1>1, <2>1, <2>3, <2>7 DEF LineInv
  <2>9. sent' \in [Block -> Nat]
    BY <1>1, <2>1, <2>3 DEF LineInv
  <2> QED BY <1>2, <2>1, <2>2, <2>5, <2>6, <2>8, <2>9 DEF LineInv
<1>11. CASE UartTxEvent
  <2>1. /\ tx # Tx!Idle /\ tx' = Tx!Idle /\ UNCHANGED <<len, sent>>
        /\ cb'.buf = tx.buf /\ cb'.len = tx.sent
        /\ cb'.type = "TX_DONE" => tx.sent = tx.len
    BY <1>11 DEF UartTxEvent, Tx!Report, Event
  <2>2. Waiting' \subseteq Waiting
    BY <1>11 DEF UartTxEvent, Waiting
  <2> QED BY <2>1, <2>2 DEF LineInv
<1>12. CASE UartRxEvent
  <2>1. Waiting' \subseteq Waiting /\ cb'.type \notin TxEvents /\ UNCHANGED <<tx, sent, len>>
    BY <1>12 DEF UartRxEvent, Waiting, Event, TxEvents
  <2> QED BY <1>3, <2>1
<1>13. CASE TxDone
  <2>1. cb.type \in TxEvents /\ cb'.type \notin TxEvents /\ UNCHANGED <<len, sent, rcv, boot>>
    BY <1>2, <1>13 DEF TxDone, Return
  <2>2. CASE txFifo = <<>>
    <3>1. UNCHANGED <<txFifo, tx>>
      BY <1>13, <2>2 DEF TxDone, TransmitNext
    <3>2. Waiting' \subseteq Waiting
      BY <2>1, <3>1 DEF Waiting
    <3> QED BY <1>3, <2>1, <3>1, <3>2
  <2>3. CASE txFifo # <<>>
    <3>1. /\ txFifo' = Tail(txFifo)
          /\ Tx!Submit(At(Head(txFifo), 0), len[Head(txFifo)])
      BY <1>13, <2>3 DEF TxDone, TransmitNext
    <3>2. /\ Head(txFifo) \in Elements(txFifo)
          /\ Elements(Tail(txFifo)) \subseteq Elements(txFifo)
      BY <2>3, TailElements DEF Types, HeapTypes, PlaceInv
    <3>3. Head(txFifo) \in Waiting /\ Waiting' \subseteq Waiting
      BY <2>1, <3>1, <3>2 DEF Waiting
    <3> QED BY <1>7, <2>1, <3>1, <3>3
  <2> QED BY <2>2, <2>3
<1>14. CASE TxAborted
  <2>1. /\ cb.type \in TxEvents /\ cb'.type \notin TxEvents
        /\ UNCHANGED <<txFifo, rcv, boot, len, sent>>
        /\ cb.buf.block \in Block /\ cb.buf.off \in Nat /\ cb.len \in Nat
    BY <1>2, <1>14 DEF TxAborted, TxEvents, Return, Types, UartTypes, Address
  <2>2. aborted'.buf = cb.buf.block /\ aborted'.len = cb.buf.off + cb.len
    <3>1. AbortOf(cb.buf)
      BY <2>1 DEF AbortInv
    <3>2. aborted.len + cb.len = cb.buf.off + cb.len
      BY <2>1, <3>1 DEF AbortOf
    <3> QED BY <1>14, <2>1, <3>1, <3>2 DEF TxAborted, AbortedSoFar, AbortOf
  <2>3. /\ tx'.buf.block = cb.buf.block /\ tx'.buf.off = aborted'.len
        /\ tx'.len = len[cb.buf.block] - aborted'.len /\ tx'.sent = 0
    BY <1>14, <2>2 DEF TxAborted, Tx!Submit, At
  <2>4. sent[cb.buf.block] = cb.buf.off + cb.len /\ len[cb.buf.block] \in Nat
    BY <2>1 DEF LineInv, Types, HeapTypes
  <2>5. /\ sent'[tx'.buf.block] = tx'.buf.off + tx'.sent
        /\ len'[tx'.buf.block] = tx'.buf.off + tx'.len
    BY <2>1, <2>2, <2>3, <2>4
  <2>6. \A c \in Waiting' : sent'[c] = 0
    BY <2>1 DEF LineInv, Waiting
  <2> QED BY <1>2, <2>1, <2>5, <2>6 DEF LineInv
<1>15. CASE RxRdy
  <2>1. /\ cb.type = "RX_RDY" /\ cb.buf = rx.cur /\ rx.cur \in Block
        /\ len' = [len EXCEPT ![rx.cur] = @ + cb.len] /\ cb' = NoEvent
        /\ UNCHANGED <<tx, sent>>
    BY <1>15 DEF RxRdy, Return, HandsInv, Types, UartTypes
  <2>2. \A c \in Block : \/ tx # Tx!Idle /\ c = tx.buf.block
                         \/ cb.type \in TxEvents /\ c = cb.buf.block
                         => len'[c] = len[c]
    BY <1>0, <2>1, ReceiverApart DEF Types, HeapTypes
  <2>3. Waiting' \subseteq Waiting
    BY <1>15 DEF RxRdy, Waiting
  <2> QED BY <1>2, <1>3, <2>1, <2>2, <2>3
<1>16. ASSUME NEW b \in Block \cup {NULL},
              RxDisabled(b) \/ RxBufRequest(b) \/ WorkAlloc(b)
       PROVE  LineInv'
  <2>1. b \in free \cup {NULL} /\ len' = Emptied(b)
    BY <1>5, <1>16 DEF RxDisabled, RxBufRequest, WorkAlloc, Malloc
  <2>2. /\ Waiting' \subseteq Waiting /\ UNCHANGED <<tx, sent>>
        /\ UNCHANGED cb \/ cb'.type \notin TxEvents
    BY <1>2, <1>16 DEF RxDisabled, RxBufRequest, WorkAlloc, Return, uartVars,
       Waiting
  <2> QED BY <1>3, <1>4, <2>1, <2>2
<1>17. CASE RxBufReleased \/ WorkEnable \/ Ble
  <2>1. /\ Waiting' \subseteq Waiting /\ UNCHANGED <<tx, sent, len>>
        /\ UNCHANGED cb \/ cb'.type \notin TxEvents
    BY <1>2, <1>17 DEF RxBufReleased, WorkEnable, Ble, BleGet, BleSendFree,
       Return, uartVars, Waiting
  <2> QED BY <1>3, <2>1
<1> QED BY <1>8, <1>9, <1>10, <1>11, <1>12, <1>13, <1>14, <1>15, <1>16, <1>17
        DEF Next, UartCb, Work

\* The counts of both directions, and the bound they keep in the data arrays.
CountInv == RxCountInv /\ (\A b \in Block : len[b] <= BufSize) /\ LineInv

\* The counts, always.
LEMMA CountInvariant == Spec => [](Types /\ HandsInv /\ AbortInv /\ PlaceInv /\ CountInv)
<1> DEFINE InPlaces == Types /\ HandsInv /\ AbortInv /\ PlaceInv
<1>1. Init => CountInv
  <2> SUFFICES ASSUME Init PROVE CountInv
    OBVIOUS
  <2>1. RxCountInv /\ \A b \in Block : len[b] <= BufSize
    BY BridgeAssumption DEF Init, RxCountInv, Rx!Init, Rx!Off, NoEvent
  <2>2. Waiting = {}
    BY DEF Init, Waiting, Elements
  <2>3. sent \in [Block -> Nat] /\ tx = Tx!Idle /\ cb.type \notin TxEvents
        /\ cb.type # "TX_DONE"
    BY DEF Init, Tx!Init, NoEvent, TxEvents
  <2> QED BY <2>1, <2>2, <2>3 DEF CountInv, LineInv
<1>2. InPlaces /\ CountInv /\ [Next]_bridgeVars => CountInv'
  <2> SUFFICES ASSUME InPlaces, CountInv, [Next]_bridgeVars PROVE CountInv'
    OBVIOUS
  <2>1. CASE Next
    BY <2>1, NextRxCount, NextLen, NextLine DEF CountInv, PlaceInv, LineInv
  <2>2. CASE UNCHANGED bridgeVars
    BY <2>2 DEF bridgeVars, uartVars, CountInv, RxCountInv, LineInv, Waiting
  <2> QED BY <2>1, <2>2
<1> QED BY <1>1, <1>2, PlacesInvariant, PTL DEF Spec

\* Each block is freed when all its bytes are on the line, an aborted transfer
\* goes on where it stopped, and no data array is overrun, whatever the UART
\* reports and however long the peer's writes are.
THEOREM BytesAreAccounted == Spec => []BytesAccounted
<1>1. AbortInv /\ CountInv => BytesAccounted
  BY DEF CountInv, RxCountInv, LineInv, AbortInv, AbortOf, BytesAccounted,
     TxEvents
<1> QED BY <1>1, CountInvariant, PTL
---------------------------------------------------------------------------
(* Data goes out in order *)

\* A sequence without one of its elements.
LEMMA WithoutOne ==
  ASSUME NEW s \in Seq(Block), NEW i \in DOMAIN s
  PROVE  /\ Without(s, i) \in Seq(Block)
         /\ Len(Without(s, i)) = Len(s) - 1
         /\ \A j \in 1 .. Len(s) - 1 :
              Without(s, i)[j] = IF j < i THEN s[j] ELSE s[j + 1]
         /\ \A j \in DOMAIN s : j # i => s[j] \in Elements(Without(s, i))
<1> DEFINE t == Without(s, i)
<1>1. /\ Len(s) \in Nat /\ Len(s) > 0 /\ i \in 1 .. Len(s)
      /\ DOMAIN s = 1 .. Len(s) /\ \A j \in 1 .. Len(s) : s[j] \in Block
  BY LenProperties
<1>2. t = [j \in 1 .. Len(s) - 1 |-> IF j < i THEN s[j] ELSE s[j + 1]]
  BY DEF Without
<1>3. \A j \in 1 .. Len(s) - 1 : (IF j < i THEN s[j] ELSE s[j + 1]) \in Block
  BY <1>1
<1>4. t \in [1 .. Len(s) - 1 -> Block] /\ Len(s) - 1 \in Nat
  BY <1>1, <1>2, <1>3
<1>5. t \in Seq(Block) /\ Len(t) = Len(s) - 1
  BY <1>4, SeqDef, LenProperties
<1>6. ASSUME NEW j \in DOMAIN s, j # i PROVE s[j] \in Elements(t)
  <2>1. CASE j < i
    <3>1. j \in DOMAIN t /\ t[j] = s[j]
      BY <1>1, <1>2, <2>1
    <3> QED BY <3>1 DEF Elements
  <2>2. CASE ~(j < i)
    <3>1. j - 1 \in DOMAIN t /\ t[j - 1] = s[j]
      BY <1>1, <1>2, <1>6, <2>2
    <3> QED BY <3>1 DEF Elements
  <2> QED BY <2>1, <2>2
<1> QED BY <1>2, <1>5, <1>6

\* Sequences with the same elements are the same.
LEMMA SameSequence ==
  ASSUME NEW s \in Seq(Block), NEW t \in Seq(Block), Len(s) = Len(t),
         \A j \in 1 .. Len(s) : s[j] = t[j]
  PROVE  s = t
BY SeqEqual

\* An element is left out before or after another is appended.
LEMMA WithoutAppend ==
  ASSUME NEW s \in Seq(Block), NEW b \in Block
  PROVE  /\ \A i \in DOMAIN s :
              Without(Append(s, b), i) = Append(Without(s, i), b)
         /\ Without(Append(s, b), Len(s) + 1) = s
         /\ DOMAIN Append(s, b) = 1 .. Len(s) + 1
<1> DEFINE t == Append(s, b)
<1>1. /\ t \in Seq(Block) /\ Len(t) = Len(s) + 1 /\ DOMAIN t = 1 .. Len(s) + 1
      /\ Len(s) \in Nat /\ DOMAIN s = 1 .. Len(s)
      /\ \A j \in 1 .. Len(s) : t[j] = s[j]
      /\ t[Len(s) + 1] = b
  BY AppendProperties, LenProperties
<1> HIDE DEF t
<1>2. ASSUME NEW i \in DOMAIN s
      PROVE  Without(t, i) = Append(Without(s, i), b)
  <2> DEFINE u == Without(s, i)
             v == Append(u, b)
             w == Without(t, i)
  <2>1. i \in DOMAIN t
    BY <1>1
  <2>2. /\ u \in Seq(Block) /\ Len(u) = Len(s) - 1
        /\ \A j \in 1 .. Len(s) - 1 : u[j] = IF j < i THEN s[j] ELSE s[j + 1]
    BY WithoutOne
  <2>3. /\ w \in Seq(Block) /\ Len(w) = Len(s)
        /\ \A j \in 1 .. Len(s) : w[j] = IF j < i THEN t[j] ELSE t[j + 1]
    <3>1. Len(t) - 1 = Len(s) /\ t \in Seq(Block)
      BY <1>1
    <3> QED BY <2>1, <3>1, WithoutOne
  <2> HIDE DEF u, w
  <2>4. /\ v \in Seq(Block) /\ Len(v) = Len(s)
        /\ \A j \in 1 .. Len(s) - 1 : v[j] = u[j]
        /\ v[Len(s)] = b
    <3>1. Len(u) + 1 = Len(s) /\ 1 .. Len(u) = 1 .. Len(s) - 1
      BY <1>1, <2>2
    <3>2. /\ v \in Seq(Block) /\ Len(v) = Len(u) + 1
          /\ \A j \in 1 .. Len(u) : v[j] = u[j]
          /\ v[Len(u) + 1] = b
      BY <2>2, AppendProperties
    <3> QED BY <3>1, <3>2
  <2> HIDE DEF v
  <2>5. ASSUME NEW j \in 1 .. Len(s) PROVE w[j] = v[j]
    <3>0. /\ Len(s) \in Nat /\ j \in Nat /\ 1 <= j /\ j <= Len(s)
          /\ i \in Nat /\ i <= Len(s)
      BY <1>1
    <3>1. CASE j < Len(s)
      <4>1. j \in 1 .. Len(s) - 1 /\ j + 1 \in 1 .. Len(s)
        BY <3>0, <3>1
      <4>2. v[j] = IF j < i THEN s[j] ELSE s[j + 1]
        BY <2>2, <2>4, <4>1
      <4> QED BY <1>1, <2>3, <4>1, <4>2
    <3>2. CASE j = Len(s)
      BY <1>1, <2>3, <2>4, <3>0, <3>2
    <3> QED BY <3>0, <3>1, <3>2
  <2>6. w = v
    BY <2>3, <2>4, <2>5, SameSequence
  <2> QED BY <2>6 DEF u, v, w
<1>3. Without(t, Len(s) + 1) = s
  <2> DEFINE w == Without(t, Len(s) + 1)
  <2>1. Len(s) + 1 \in DOMAIN t
    BY <1>1
  <2>2. /\ w \in Seq(Block) /\ Len(w) = Len(s)
        /\ \A j \in 1 .. Len(s) : w[j] = t[j]
    <3>1. Len(t) - 1 = Len(s) /\ t \in Seq(Block)
      BY <1>1
    <3>2. /\ w \in Seq(Block) /\ Len(w) = Len(s)
          /\ \A j \in 1 .. Len(s) :
               w[j] = IF j < Len(s) + 1 THEN t[j] ELSE t[j + 1]
      BY <2>1, <3>1, WithoutOne
    <3> QED BY <1>1, <3>2
  <2> HIDE DEF w
  <2>3. w = s
    BY <1>1, <2>2, SameSequence
  <2> QED BY <2>3 DEF w
<1> QED BY <1>1, <1>2, <1>3 DEF t

\* Without its first element a sequence is its tail.
LEMMA WithoutFirst ==
  ASSUME NEW s \in Seq(Block), s # <<>>
  PROVE  /\ Without(s, 1) = Tail(s) /\ Head(s) = s[1] /\ 1 \in DOMAIN s
         /\ Head(s) \in Block /\ Tail(s) \in Seq(Block)
<1>1. /\ Len(s) \in Nat /\ Len(s) > 0 /\ DOMAIN s = 1 .. Len(s)
      /\ Tail(s) \in Seq(Block) /\ Len(Tail(s)) = Len(s) - 1
      /\ \A j \in 1 .. Len(s) - 1 : Tail(s)[j] = s[j + 1]
      /\ Head(s) = s[1] /\ Head(s) \in Block
  BY HeadTailProperties, EmptySeq
<1>2. 1 \in DOMAIN s
  BY <1>1
<1> DEFINE w == Without(s, 1)
<1>3. /\ w \in Seq(Block) /\ Len(w) = Len(s) - 1
      /\ \A j \in 1 .. Len(s) - 1 : w[j] = s[j + 1]
  <2>1. /\ w \in Seq(Block) /\ Len(w) = Len(s) - 1
        /\ \A j \in 1 .. Len(s) - 1 : w[j] = IF j < 1 THEN s[j] ELSE s[j + 1]
    BY <1>2, WithoutOne
  <2>2. \A j \in 1 .. Len(s) - 1 : ~(j < 1)
    BY <1>1
  <2> QED BY <2>1, <2>2
<1> HIDE DEF w
<1>4. w = Tail(s)
  BY <1>1, <1>3, SameSequence
<1> QED BY <1>1, <1>2, <1>4 DEF w

\* Removing an element that occurs once leaves out that one.
LEMMA RemoveOnly ==
  ASSUME NEW s \in Seq(Block), NEW i \in DOMAIN s,
         \A j \in DOMAIN s : s[j] = s[i] => j = i
  PROVE  Remove(s, s[i]) = Without(s, i)
<1> DEFINE k == CHOOSE j \in DOMAIN s : s[j] = s[i]
<1>1. k \in DOMAIN s /\ s[k] = s[i]
  OBVIOUS
<1>2. k = i
  BY <1>1
<1> QED BY <1>2 DEF Remove

\* The block that bt_receive_cb() or uart_init() is about to transmit.
Hand == IF rcv.tx # NULL THEN rcv.tx ELSE boot.tx
\* The block that is being transmitted, or that the callback handles.
Current == IF tx # Tx!Idle THEN tx.buf.block
           ELSE IF cb.type \in TxEvents THEN cb.buf.block ELSE NULL
\* What is to be transmitted after the current block.
Due == IF Hand = NULL THEN txFifo ELSE Append(txFifo, Hand)
\* The current block has place i in the order; the first one, if the callback
\* cannot interrupt bt_receive_cb().
Position(i) ==
  /\ i \in DOMAIN owed
  /\ owed[i] = Current
  /\ Without(owed, i) = Due
  /\ Isr \/ i = 1
\* What is owed is that block, somewhere, and all the others in their order.
DueInv ==
  /\ owed \in Seq(Block)
  /\ IF Current = NULL THEN owed = Due ELSE \E i \in Nat : Position(i)

\* A step that leaves the order alone.
LEMMA SameDue ==
  ASSUME DueInv, UNCHANGED <<owed, txFifo>>, Hand' = Hand, Current' = Current
  PROVE  DueInv'
BY DEF DueInv, Position, Due

\* Where the current block is found.
LEMMA CurrentIs ==
  ASSUME Types
  PROVE  /\ tx # Tx!Idle => Current = tx.buf.block /\ Current \in Block /\ Current # NULL
         /\ tx = Tx!Idle /\ cb.type \in TxEvents =>
              Current = cb.buf.block /\ Current \in Block /\ Current # NULL
         /\ tx = Tx!Idle /\ cb.type \notin TxEvents => Current = NULL
<1>1. tx # Tx!Idle => tx.buf.block \in Block
  BY DEF Types, UartTypes, Address
<1>2. cb.type \in TxEvents => cb.buf.block \in Block
  BY DEF Types, UartTypes, Address
<1> QED BY <1>1, <1>2, NullNoBlock DEF Current

\* A block is filled, handed to the transmitter or put in the fifo.
LEMMA OweDue ==
  ASSUME Types, DueInv, NEW b \in Block, owed' = Append(owed, b), Hand = NULL,
         Hand' = b, UNCHANGED txFifo, Current' = Current
  PROVE  DueInv'
<1>1. Due = txFifo /\ Due' = Append(txFifo, b)
  BY NullNoBlock DEF Due
<1>2. owed \in Seq(Block) /\ owed' \in Seq(Block)
  BY AppendProperties DEF DueInv
<1>3. CASE Current = NULL
  BY <1>1, <1>2, <1>3 DEF DueInv
<1>4. CASE Current # NULL
  <2>1. PICK i \in Nat : Position(i)
    BY <1>4 DEF DueInv
  <2>2. i \in DOMAIN owed'  /\ owed'[i] = owed[i]
    <3>1. DOMAIN owed = 1 .. Len(owed) /\ Len(owed) \in Nat
      BY <1>2, LenProperties
    <3>2. i \in 1 .. Len(owed) /\ i \in 1 .. Len(owed) + 1
      BY <2>1, <3>1 DEF Position
    <3> QED BY <1>2, <3>2, AppendProperties, WithoutAppend
  <2>3. Without(owed', i) = Append(Without(owed, i), b)
    BY <1>2, <2>1, WithoutAppend DEF Position
  <2>4. Position(i)'
    BY <1>1, <2>1, <2>2, <2>3 DEF Position
  <2> QED BY <1>2, <1>4, <2>4 DEF DueInv
<1> QED BY <1>3, <1>4

\* The block in hand goes to the idle transmitter.
LEMMA SubmitDue ==
  ASSUME Types, DueInv, Current = NULL, Hand \in Block, Hand' = NULL, Current' = Hand,
         UNCHANGED <<txFifo, owed>>, Isr \/ txFifo = <<>>
  PROVE  DueInv'
<1>1. /\ txFifo \in Seq(Block) /\ owed = Append(txFifo, Hand) /\ owed \in Seq(Block)
      /\ Due' = txFifo
  BY NullNoBlock DEF DueInv, Due, Types, HeapTypes
<1>2. PICK i \in Nat : i = Len(txFifo) + 1
  BY <1>1, LenProperties
<1>3. i \in DOMAIN owed /\ owed[i] = Hand /\ (txFifo = <<>> => i = 1)
  BY <1>1, <1>2, WithoutAppend, AppendProperties, EmptySeq
<1>4. Without(owed, i) = txFifo
  BY <1>1, <1>2, WithoutAppend
<1>5. owed' = owed /\ Current' = Hand /\ Due' = txFifo /\ (Isr \/ i = 1)
  BY <1>1, <1>3
<1>6. Position(i)'
  BY <1>3, <1>4, <1>5 DEF Position
<1>7. Current' # NULL /\ owed' \in Seq(Block)
  BY <1>1, <1>5, NullNoBlock
<1> QED BY <1>6, <1>7 DEF DueInv

\* The block in hand goes to the fifo.
LEMMA PutDue ==
  ASSUME Types, DueInv, Hand \in Block, Hand' = NULL, Current' = Current,
         txFifo' = Append(txFifo, Hand), UNCHANGED owed
  PROVE  DueInv'
<1>1. Due' = Due
  BY NullNoBlock DEF Due
<1> QED BY <1>1 DEF DueInv, Position

\* Of the blocks owed it is the current one that is done, and the oldest one
\* that follows it.
LEMMA DoneDue ==
  ASSUME Types, AbortInv, PlaceInv, DueInv, TxDone
  PROVE  /\ DueInv'
         /\ tx' # Tx!Idle => tx'.buf.block = Head(owed')
<1> DEFINE b == cb.buf.block
<1>1. /\ tx = Tx!Idle /\ cb.type \in TxEvents /\ cb'.type \notin TxEvents
      /\ aborted.buf = NULL \/ aborted.buf = b
      /\ UNCHANGED <<rcv, boot>>
  BY DEF TxDone, TxEvents, Return, NoEvent, AbortInv, AbortOf
<1>2. b \in Block /\ b # NULL /\ Current = b
  BY <1>1, CurrentIs
<1>3. owed' = Remove(owed, b)
  BY <1>1, <1>2 DEF TxDone
<1>4. PICK i \in Nat : Position(i)
  BY <1>2 DEF DueInv
<1>5. owed \in Seq(Block) /\ i \in DOMAIN owed /\ owed[i] = b /\ Without(owed, i) = Due
  BY <1>2, <1>4 DEF DueInv, Position
<1>6. b \notin Elements(txFifo) /\ b # Hand
  <2>1. IsIn(b, "transmitted")
    BY <1>1 DEF IsIn, TxEvents
  <2>2. /\ ~IsIn(b, "tx fifo") /\ ~IsIn(b, "bt_receive_cb") /\ ~IsIn(b, "uart_init")
    BY <1>2, <2>1, PlaceNames DEF PlaceInv, OnePlace
  <2> QED BY <2>2 DEF IsIn, Hand
<1> HIDE DEF b
<1>7. Hand \in Block \cup {NULL} /\ txFifo \in Seq(Block)
  BY DEF Hand, Types, ThreadTypes, HeapTypes
<1>8. b \notin Elements(Due)
  <2>1. Elements(Due) \subseteq Elements(txFifo) \cup {Hand}
    BY <1>7, AppendElements DEF Due
  <2> QED BY <1>6, <2>1
<1>9. \A j \in DOMAIN owed : owed[j] = owed[i] => j = i
  BY <1>5, <1>8, WithoutOne
<1>10. owed' = Due /\ owed' \in Seq(Block)
  BY <1>3, <1>5, <1>9, RemoveOnly, WithoutOne
<1>11. Hand' = Hand
  BY <1>1 DEF Hand
<1>12. CASE txFifo = <<>>
  <2>1. UNCHANGED <<txFifo, tx>>
    BY <1>12 DEF TxDone, TransmitNext
  <2>2. Current' = NULL /\ Due' = Due
    BY <1>1, <1>11, <2>1 DEF Current, Due
  <2> QED BY <1>1, <1>10, <2>1, <2>2 DEF DueInv
<1>13. CASE txFifo # <<>>
  <2> DEFINE h == Head(txFifo)
  <2>1. h \in Block /\ Tail(txFifo) \in Seq(Block) /\ txFifo' = Tail(txFifo)
        /\ Tx!Submit(At(h, 0), len[h])
    BY <1>7, <1>13, WithoutFirst DEF TxDone, TransmitNext
  <2>2. tx' # Tx!Idle /\ tx'.buf.block = h
    BY <2>1, SubmitAt, 0 \in Nat
  <2>3. Current' = h /\ h # NULL
    BY <2>1, <2>2, NullNoBlock DEF Current
  <2>4. /\ Due \in Seq(Block) /\ Due # <<>> /\ Head(Due) = h
        /\ Tail(Due) = IF Hand = NULL THEN Tail(txFifo) ELSE Append(Tail(txFifo), Hand)
    BY <1>7, <1>13, HeadTailAppend, AppendProperties DEF Due
  <2>5. Due' = Tail(Due)
    BY <1>11, <2>1, <2>4 DEF Due
  <2>6. owed'[1] = h /\ Without(owed', 1) = Tail(Due) /\ 1 \in DOMAIN owed'
    BY <1>10, <2>4, WithoutFirst
  <2> HIDE DEF h
  <2>7. Position(1)'
    BY <2>3, <2>5, <2>6 DEF Position
  <2> QED BY <1>10, <2>2, <2>3, <2>4, <2>7 DEF DueInv
<1> QED BY <1>12, <1>13

\* Every step keeps the order of what is due.
LEMMA NextDue ==
  ASSUME Types, HandsInv, AbortInv, PlaceInv, DueInv,
         Isr \/ CoopInv, Next
  PROVE  DueInv'
<1>1. Hand \in Block \cup {NULL}
  BY DEF Hand, Types, ThreadTypes
<1>2. UNCHANGED <<rcv, boot>> => Hand' = Hand
  BY DEF Hand
<1>3. UNCHANGED <<tx, cb>> => Current' = Current
  BY DEF Current, TxEvents
<1>4. ASSUME UNCHANGED tx, {cb.type, cb'.type} \cap TxEvents = {}
      PROVE  Current' = Current
  BY <1>4 DEF Current
<1>5. NoEvent.type \notin TxEvents
  BY DEF NoEvent, TxEvents
<1>6. ASSUME cb = NoEvent, tx = Tx!Idle
      PROVE  Current = NULL /\ (Isr \/ txFifo = <<>>)
  BY <1>5, <1>6 DEF Current, CoopInv
<1>7. CASE UartInit
  <2>1. rcv.tx = NULL /\ UNCHANGED rcv
    BY <1>7 DEF HandsInv, UartInit, UartInitRx, UartInitTx, UartInitTransmit,
       UartInitEnable
  <2>2. ASSUME NEW b \in Block \cup {NULL}, UartInitRx(b) PROVE DueInv'
    <3>1. Hand' = Hand
      BY <2>1, <2>2 DEF UartInitRx, Hand, HandsInv
    <3> QED BY <1>3, <2>2, <3>1, SameDue DEF UartInitRx, uartVars
  <2>3. ASSUME NEW b \in Block \cup {NULL}, UartInitTx(b) PROVE DueInv'
    <3>1. UNCHANGED <<tx, cb, txFifo>> /\ Hand = NULL
      BY <2>1, <2>3 DEF UartInitTx, uartVars, Hand, HandsInv
    <3>2. CASE b = NULL
      <4>1. Hand' = NULL /\ UNCHANGED owed
        BY <2>1, <2>3, <3>2 DEF UartInitTx, Hand
      <4> QED BY <1>3, <3>1, <4>1, SameDue
    <3>3. CASE b # NULL
      <4>1. Hand' = b /\ owed' = Append(owed, b)
        BY <2>1, <2>3, <3>3 DEF UartInitTx, Owe, Hand
      <4> QED BY <1>3, <3>1, <3>3, <4>1, OweDue
    <3> QED BY <3>2, <3>3
  <2>4. CASE UartInitTransmit
    <3>1. /\ cb = NoEvent /\ tx = Tx!Idle /\ tx' # Tx!Idle /\ tx'.buf.block = boot.tx
          /\ boot.tx \in Block /\ boot'.tx = NULL /\ UNCHANGED <<owed, txFifo>>
      BY <2>4, SubmitAt, 0 \in Nat DEF UartInitTransmit, InPreemptible,
         InThread,
         Tx!Submit, Types, ThreadTypes
    <3>2. Hand = boot.tx /\ Hand' = NULL /\ Current' = boot.tx
      BY <2>1, <3>1 DEF Hand, Current
    <3> QED BY <1>6, <3>1, <3>2, SubmitDue
  <2>5. CASE UartInitEnable
    <3>1. Hand' = Hand
      BY <2>1, <2>5 DEF UartInitEnable, Hand, HandsInv
    <3> QED BY <1>3, <2>5, <3>1, SameDue DEF UartInitEnable
  <2> QED BY <1>7, <2>2, <2>3, <2>4, <2>5 DEF UartInit
<1>8. CASE Receive \/ \E n \in 1 .. MaxWrite, cr \in BOOLEAN : BtReceive(n, cr)
  <2>1. boot.tx = NULL /\ UNCHANGED boot
    BY <1>8 DEF HandsInv, Receive, BtReceive, ReceiveAlloc, ReceiveTx,
       ReceivePut
  <2>2. CASE \E n \in 1 .. MaxWrite, cr \in BOOLEAN : BtReceive(n, cr)
    <3>1. UNCHANGED <<tx, cb, owed, txFifo>> /\ Hand' = Hand
      BY <2>1, <2>2 DEF BtReceive, uartVars, Hand, HandsInv, InPreemptible,
         CooperativeIdle
    <3> QED BY <1>3, <3>1, SameDue
  <2>3. ASSUME NEW b \in Block \cup {NULL}, ReceiveAlloc(b) PROVE DueInv'
    <3>1. UNCHANGED <<tx, cb, txFifo>> /\ Hand = NULL
      BY <2>1, <2>3 DEF ReceiveAlloc, uartVars, Hand, HandsInv
    <3>2. CASE b = NULL
      <4>1. Hand' = NULL /\ UNCHANGED owed
        BY <2>1, <2>3, <3>2 DEF ReceiveAlloc, NotReceiving, Hand
      <4> QED BY <1>3, <3>1, <4>1, SameDue
    <3>3. CASE b # NULL
      <4>1. Hand' = b /\ owed' = Append(owed, b)
        BY <2>1, <2>3, <3>3 DEF ReceiveAlloc, Owe, Hand
      <4> QED BY <1>3, <3>1, <3>3, <4>1, OweDue
    <3> QED BY <3>2, <3>3
  <2>4. CASE ReceiveTx
    <3>1. CASE tx = Tx!Idle
      <4>1. /\ cb = NoEvent /\ rcv.tx \in Block /\ UNCHANGED <<owed, txFifo>>
            /\ Tx!Submit(At(rcv.tx, 0), len[rcv.tx]) /\ rcv'.tx = NULL
        BY <2>4, <3>1 DEF ReceiveTx, InThread, NextChunk, NotReceiving,
           Types, ThreadTypes
      <4>2. tx' # Tx!Idle /\ tx'.buf.block = rcv.tx
        BY <4>1, SubmitAt, 0 \in Nat
      <4>3. Hand = rcv.tx /\ Hand' = NULL /\ Current' = rcv.tx
        BY <2>1, <4>1, <4>2, NullNoBlock DEF Hand, Current
      <4> QED BY <1>6, <3>1, <4>1, <4>3, SubmitDue
    <3>2. CASE tx # Tx!Idle
      <4>1. UNCHANGED <<tx, cb, owed, txFifo>> /\ Hand' = Hand
        BY <2>1, <2>4, <3>2 DEF ReceiveTx, Hand, Types, ThreadTypes
      <4> QED BY <1>3, <4>1, SameDue
    <3> QED BY <3>1, <3>2
  <2>5. CASE ReceivePut
    <3>1. /\ rcv.tx \in Block /\ rcv'.tx = NULL /\ UNCHANGED <<tx, cb, owed>>
          /\ txFifo' = Append(txFifo, rcv.tx)
      BY <2>5 DEF ReceivePut, NextChunk, NotReceiving, Put, uartVars, Types,
         ThreadTypes
    <3>2. Hand = rcv.tx /\ Hand' = NULL
      BY <2>1, <3>1, NullNoBlock DEF Hand
    <3> QED BY <1>3, <3>1, <3>2, PutDue
  <2> QED BY <1>8, <2>2, <2>3, <2>4, <2>5 DEF Receive
<1>9. CASE \E n \in 1 .. BufSize : UartSend(n)
  <2>1. tx # Tx!Idle /\ tx' # Tx!Idle /\ tx'.buf = tx.buf
    BY <1>9, SendKeeps DEF UartSend
  <2>2. UNCHANGED <<owed, txFifo, rcv, boot>> /\ Current' = Current
    BY <1>9, <2>1 DEF UartSend, Current
  <2> QED BY <1>2, <2>2, SameDue
<1>10. CASE UartTxEvent
  <2>1. /\ tx # Tx!Idle /\ tx' = Tx!Idle /\ cb'.type \in TxEvents /\ cb'.buf = tx.buf
    BY <1>10 DEF UartTxEvent, Tx!Report, Event, TxEvents
  <2>2. UNCHANGED <<owed, txFifo, rcv, boot>> /\ Current' = Current
    BY <1>10, <2>1 DEF UartTxEvent, Current
  <2> QED BY <1>2, <2>2, SameDue
<1>11. CASE UartRxEvent
  <2>1. {cb.type, cb'.type} \cap TxEvents = {}
    BY <1>11 DEF UartRxEvent, MayCallback, NoEvent, Event, TxEvents
  <2>2. UNCHANGED <<owed, txFifo, rcv, boot, tx>>
    BY <1>11 DEF UartRxEvent
  <2> QED BY <1>2, <1>4, <2>1, <2>2, SameDue
<1>12. CASE TxDone
  BY <1>12, DoneDue
<1>13. CASE TxAborted
  <2>1. /\ tx = Tx!Idle /\ cb.type \in TxEvents /\ cb.buf.block \in Block /\ cb.len \in Nat
        /\ aborted.buf = NULL \/ aborted.buf = cb.buf.block
    BY <1>13 DEF TxAborted, TxEvents, AbortInv, AbortOf, Types, UartTypes,
       Address
  <2>2. aborted'.buf = cb.buf.block /\ aborted'.len \in Nat
    BY <1>13, <2>1 DEF TxAborted, AbortedSoFar, Types, HeapTypes
  <2>3. tx' # Tx!Idle /\ tx'.buf.block = cb.buf.block
    BY <1>13, <2>1, <2>2, SubmitAt DEF TxAborted
  <2>4. UNCHANGED <<owed, txFifo, rcv, boot>> /\ Current' = Current
    BY <1>13, <2>1, <2>3 DEF TxAborted, Current
  <2> QED BY <1>2, <2>4, SameDue
<1>14. CASE \/ RxRdy \/ RxBufReleased
            \/ \E b \in Block \cup {NULL} : RxDisabled(b) \/ RxBufRequest(b)
  <2>1. /\ {cb.type, cb'.type} \cap TxEvents = {}
        /\ UNCHANGED <<owed, txFifo, rcv, boot, tx>>
    BY <1>14 DEF RxRdy, RxBufReleased, RxDisabled, RxBufRequest, Return,
       NoEvent,
       TxEvents, uartVars
  <2> QED BY <1>2, <1>4, <2>1, SameDue
<1>15. CASE Work \/ Ble
  <2>1. UNCHANGED <<owed, txFifo, rcv, boot, tx, cb>>
    BY <1>15 DEF Work, WorkAlloc, WorkEnable, Ble, BleGet, BleSendFree,
       uartVars
  <2> QED BY <1>2, <1>3, <2>1, SameDue
<1> QED BY <1>7, <1>8, <1>9, <1>10, <1>11, <1>12, <1>13, <1>14, <1>15
           DEF Next, UartCb

\* With callbacks that wait it is always so.
LEMMA CoopInvariant ==
  ASSUME ~Isr
  PROVE  Spec => []CoopInv
<1>1. Init => CoopInv
  BY DEF Init, CoopInv, NoEvent
<1>2. Types /\ CoopInv /\ [Next]_bridgeVars => CoopInv'
  BY NextCoop
<1> QED BY TypesInvariant, <1>1, <1>2, PTL DEF Spec

\* The order, always.
LEMMA DueInvariant == Spec => [](Types /\ HandsInv /\ AbortInv /\ PlaceInv /\ DueInv)
<1> DEFINE InPlaces == Types /\ HandsInv /\ AbortInv /\ PlaceInv
<1>1. Init => DueInv
  <2>1. Init => Current = NULL /\ Due = <<>> /\ owed = <<>>
    BY DEF Init, Current, Due, Hand, Tx!Init, NoEvent, TxEvents
  <2> QED BY <2>1, EmptySeq DEF DueInv
<1>2. InPlaces /\ DueInv /\ (Isr \/ CoopInv) /\ [Next]_bridgeVars => DueInv'
  <2> SUFFICES ASSUME InPlaces, DueInv, Isr \/ CoopInv, [Next]_bridgeVars
               PROVE  DueInv'
    OBVIOUS
  <2>1. CASE Next
    BY <2>1, NextDue
  <2>2. CASE UNCHANGED bridgeVars
    BY <2>2, SameDue DEF bridgeVars, uartVars, Hand, Current
  <2> QED BY <2>1, <2>2
<1>3. Spec => [](Isr \/ CoopInv)
  <2>1. CASE Isr
    BY <2>1, PTL
  <2>2. CASE ~Isr
    BY <2>2, CoopInvariant, PTL
  <2> QED BY <2>1, <2>2
<1> QED BY PlacesInvariant, <1>1, <1>2, <1>3, PTL DEF Spec

\* A UART that calls back from a cooperative thread sends what the peer wrote
\* in the order it was written.
THEOREM CoopSendsInOrder ==
  ASSUME ~Isr
  PROVE  Spec => []SentInOrder
<1>1. Types /\ DueInv => SentInOrder
  <2> SUFFICES ASSUME Types, DueInv, tx # Tx!Idle
               PROVE  tx.buf.block = Head(owed)
    BY DEF SentInOrder
  <2>1. Current = tx.buf.block /\ Current # NULL
    BY CurrentIs
  <2>2. Position(1) /\ owed \in Seq(Block)
    BY <2>1 DEF DueInv, Position
  <2>3. owed # <<>> /\ owed[1] = Current
    BY <2>2, EmptySeq, LenProperties DEF Position
  <2> QED BY <2>1, <2>2, <2>3, WithoutFirst
<1> QED BY <1>1, DueInvariant, PTL

\* With any UART the block that uart_cb() takes from the fifo when another is
\* done is the oldest one: a block is overtaken once at most.
THEOREM StrandedIsNext == Spec => OvertakenOnce
<1> DEFINE InPlaces == Types /\ HandsInv /\ AbortInv /\ PlaceInv
           Overtake == tx = Tx!Idle /\ tx' # Tx!Idle /\ cb.type = "TX_DONE"
                       => tx'.buf.block = Head(owed')
<1>1. InPlaces /\ DueInv /\ [Next]_bridgeVars => Overtake
  <2> SUFFICES ASSUME InPlaces, DueInv, Next, tx = Tx!Idle, tx' # Tx!Idle,
                      cb.type = "TX_DONE"
               PROVE  tx'.buf.block = Head(owed')
    BY DEF bridgeVars, uartVars
  <2>1. cb # NoEvent
    BY DEF NoEvent
  <2>2. TxDone
    BY <2>1 DEF Next, UartInit, UartInitRx, UartInitTx, UartInitTransmit,
       UartInitEnable,
       BtReceive, Receive, ReceiveAlloc, ReceiveTx, ReceivePut, UartSend, Tx!Send,
       UartTxEvent, UartRxEvent, MayCallback, InPreemptible, InThread, UartCb,
       TxAborted, RxRdy, RxDisabled, RxBufRequest, RxBufReleased, Work, WorkAlloc,
       WorkEnable, Ble, BleGet, BleSendFree
  <2> QED BY <2>2, DoneDue
<1> QED BY <1>1, DueInvariant, PTL DEF Spec, OvertakenOnce
---------------------------------------------------------------------------
(* What was received is handed on *)

\* The three places of received data on its way to ble_write_thread().
LEMMA ReceiverKeeps ==
  ASSUME Types, HandsInv, NEW b \in Block, rx.cur = b, Next
  PROVE  IsIn(b, "receiver")' \/ IsIn(b, "released")'
<1>1. rx.cur # NULL
  BY NullNoBlock
<1>2. SUFFICES rx'.cur = b \/ (cb'.type = "RX_BUF_RELEASED" /\ cb'.buf = b)
  BY DEF IsIn
<1>3. \A c : ~Rx!Enable(c)
  BY <1>1 DEF Rx!Enable, Rx!Off
<1>4. CASE UartInit \/ Receive \/ Work \/ Ble
           \/ \E n \in 1 .. MaxWrite, cr \in BOOLEAN : BtReceive(n, cr)
  BY <1>3, <1>4 DEF UartInit, UartInitRx, UartInitTx, UartInitTransmit,
     UartInitEnable, BtReceive, Receive, ReceiveAlloc, ReceiveTx, ReceivePut, Work,
     WorkAlloc, WorkEnable, Ble, BleGet, BleSendFree, uartVars
<1>5. CASE (\E n \in 1 .. BufSize : UartSend(n)) \/ UartTxEvent
  BY <1>5 DEF UartSend, UartTxEvent
<1>6. CASE UartRxEvent
  <2>1. CASE \E n \in 1 .. BufSize : Rx!Ready(n)
    BY <2>1 DEF Rx!Ready, Types, UartTypes
  <2>2. CASE Rx!Request \/ Rx!Disabled
    BY <1>1, <2>2 DEF Rx!Request, Rx!Disabled
  <2>3. CASE cb' = Event("RX_BUF_RELEASED", rx.cur, 0, FALSE)
    BY <2>3 DEF Event
  <2> QED BY <1>6, <2>1, <2>2, <2>3 DEF UartRxEvent
<1>7. CASE UartCb
  <2>1. CASE TxDone \/ TxAborted \/ RxBufReleased
    BY <2>1 DEF TxDone, TxAborted, RxBufReleased, uartVars
  <2>2. CASE RxRdy
    BY <2>2 DEF RxRdy, Rx!Disable, Types, UartTypes
  <2>3. CASE \E c \in Block \cup {NULL} : RxDisabled(c)
    BY <1>3, <2>3 DEF RxDisabled
  <2>4. CASE \E c \in Block \cup {NULL} : RxBufRequest(c)
    BY <1>1, <2>4 DEF RxBufRequest, Rx!Respond, Types, UartTypes
  <2> QED BY <1>7, <2>1, <2>2, <2>3, <2>4 DEF UartCb
<1> QED BY <1>4, <1>5, <1>6, <1>7 DEF Next

\* A block with data that is released goes to the fifo of received blocks, ...
LEMMA ReleasedKeeps ==
  ASSUME Types, NEW b \in Block, cb.type = "RX_BUF_RELEASED", cb.buf = b,
         len[b] > 0, Next
  PROVE  IsIn(b, "released")' \/ IsIn(b, "rx fifo")'
<1>1. ~InThread /\ ~InPreemptible /\ ~MayCallback
  BY DEF InThread, InPreemptible, MayCallback, NoEvent
<1>2. CASE RxBufReleased
  <2>1. rxFifo' = Append(rxFifo, b)
    BY <1>2 DEF RxBufReleased, HasData, Put
  <2>2. b \in Elements(rxFifo')
    BY <2>1, AppendElements DEF Types, HeapTypes
  <2> QED BY <2>2 DEF IsIn
<1>3. CASE ~RxBufReleased
  <2>1. UNCHANGED cb
    BY <1>1, <1>3 DEF Next, UartInit, UartInitRx, UartInitTx, UartInitTransmit,
       UartInitEnable, BtReceive, Receive, ReceiveAlloc, ReceiveTx, ReceivePut,
       UartSend, UartTxEvent, UartRxEvent, UartCb, TxDone, TxAborted, RxRdy,
       RxDisabled, RxBufRequest, Work, WorkAlloc, WorkEnable, Ble, BleGet,
       BleSendFree
  <2> QED BY <2>1 DEF IsIn
<1> QED BY <1>2, <1>3

\* ... and from there to ble_write_thread() only.
LEMMA RxFifoKeeps ==
  ASSUME Types, PlaceInv, NEW b \in Block, b \in Elements(rxFifo), Next
  PROVE  IsIn(b, "rx fifo")' \/ IsIn(b, "ble_write_thread")'
<1>1. CASE BleGet
  <2>1. Elements(rxFifo') = Elements(rxFifo) \ {ble'}
    BY <1>1, TailElements DEF BleGet, Types, HeapTypes, PlaceInv
  <2> QED BY <2>1 DEF IsIn
<1>2. CASE RxBufReleased
  <2>1. /\ rxFifo \in Seq(Block) /\ cb.buf \in Block
        /\ UNCHANGED rxFifo \/ rxFifo' = Append(rxFifo, cb.buf)
    BY <1>2 DEF RxBufReleased, Put, Types, HeapTypes, UartTypes
  <2>2. b \in Elements(rxFifo')
    BY <2>1, AppendElements
  <2> QED BY <2>2 DEF IsIn
<1>3. CASE ~BleGet /\ ~RxBufReleased
  <2>1. UNCHANGED rxFifo
    BY <1>3 DEF Next, UartInit, UartInitRx, UartInitTx, UartInitTransmit,
       UartInitEnable, BtReceive, Receive, ReceiveAlloc, ReceiveTx, ReceivePut,
       UartSend, UartTxEvent, UartRxEvent, UartCb, TxDone, TxAborted, RxRdy,
       RxDisabled, RxBufRequest, Work, WorkAlloc, WorkEnable, Ble, BleSendFree
  <2> QED BY <2>1 DEF IsIn
<1> QED BY <1>1, <1>2, <1>3

Received == {"receiver", "next", "released", "rx fifo", "ble_write_thread"}
HandedOn == {"receiver", "released", "rx fifo", "ble_write_thread"}

\* So one with data moves on among these places, or was freed by the thread.
LEMMA ReceivedStep ==
  ASSUME Types, HandsInv, PlaceInv, PlaceInv', RxCountInv, [Next]_bridgeVars,
         NEW b \in Block, Places(b) \subseteq Received, len[b] > 0
  PROVE  ble = b \/ Places(b)' \subseteq HandedOn
<1> SUFFICES ASSUME ble # b PROVE Places(b)' \subseteq HandedOn
  OBVIOUS
<1>1. PICK p \in Place : \A q \in Place : IsIn(b, q) <=> q = p
  BY DEF PlaceInv, OnePlace
<1>2. p \in Received /\ p # "ble_write_thread"
  <2>1. IsIn(b, p)
    BY <1>1
  <2>2. p \in Received
    BY <2>1 DEF Places
  <2>3. p # "ble_write_thread"
    BY <2>1 DEF IsIn
  <2> QED BY <2>2, <2>3
<1>3. p # "next"
  <2>1. b # NULL /\ len[b] # 0
    BY NullNoBlock DEF Types, HeapTypes
  <2>2. rx.next # b
    BY <2>1 DEF RxCountInv
  <2> QED BY <1>1, <2>2 DEF IsIn
<1>4. ASSUME NEW q \in HandedOn, IsIn(b, q)'
      PROVE  Places(b)' \subseteq HandedOn
  <2>1. q \in Place
    BY PlaceNames DEF HandedOn
  <2>2. \A r \in Place : IsIn(b, r)' => r = q
    BY <1>4, <2>1 DEF PlaceInv, OnePlace
  <2> QED BY <2>2 DEF Places
<1>5. p \in HandedOn /\ p \in {"receiver", "released", "rx fifo"} /\ IsIn(b, p)
  BY <1>1, <1>2, <1>3 DEF Received, HandedOn
<1>6. CASE UNCHANGED bridgeVars
  <2>1. IsIn(b, p)'
    BY <1>5, <1>6, Unmoved DEF bridgeVars, uartVars
  <2> QED BY <1>4, <1>5, <2>1
<1>7. CASE Next
  <2>1. CASE p = "receiver"
    <3>1. IsIn(b, "receiver")' \/ IsIn(b, "released")'
      BY <1>5, <1>7, <2>1, ReceiverKeeps DEF IsIn
    <3> QED BY <1>4, <3>1 DEF HandedOn
  <2>2. CASE p = "released"
    <3>1. IsIn(b, "released")' \/ IsIn(b, "rx fifo")'
      BY <1>5, <1>7, <2>2, ReleasedKeeps DEF IsIn
    <3> QED BY <1>4, <3>1 DEF HandedOn
  <2>3. CASE p = "rx fifo"
    <3>1. IsIn(b, "rx fifo")' \/ IsIn(b, "ble_write_thread")'
      BY <1>5, <1>7, <2>3, RxFifoKeeps DEF IsIn
    <3> QED BY <1>4, <3>1 DEF HandedOn
  <2> QED BY <1>5, <2>1, <2>2, <2>3
<1> QED BY <1>6, <1>7

\* Data that was received is freed by nobody but ble_write_thread().
THEOREM ReceivedIsHandedOn == Spec => ReceivedReachesBle
<1>1. /\ Types /\ HandsInv /\ AbortInv /\ PlaceInv
      /\ Types' /\ HandsInv' /\ AbortInv' /\ PlaceInv'
      /\ CountInv /\ [Next]_bridgeVars
      => [\A b \in Block :
            Places(b) \subseteq {"receiver", "next", "released", "rx fifo",
                                 "ble_write_thread"} /\ len[b] > 0
            => \/ ble = b
               \/ Places(b)' \subseteq {"receiver", "released", "rx fifo",
                                        "ble_write_thread"}]_bridgeVars
  BY ReceivedStep DEF CountInv, Received, HandedOn
<1> QED BY <1>1, PlacesInvariant, CountInvariant, PTL DEF Spec,
           ReceivedReachesBle
=============================================================================
