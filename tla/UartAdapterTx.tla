--------------------------- MODULE UartAdapterTx ---------------------------
(***************************************************************************)
(* Transmit half of the UART asynchronous API adapter                      *)
(* (peripheral_uart_beacon/src/uart_async_adapter.c): tx(), tx_abort(),    *)
(* the transmit part of uart_irq_handler() and tx_timeout().               *)
(*                                                                         *)
(* The grain is the one at which another context can get in: a region      *)
(* under data->lock is one step (the lock masks interrupts on this single  *)
(* core), and so is each access made outside the lock.                     *)
(*                                                                         *)
(* The client is any code that submits a buffer only while it owns it; it  *)
(* may call the API from the contexts named in Calls, both from its own    *)
(* code and from inside the callback.  Calls that the receive half's       *)
(* callbacks make are calls from "handler" or "timer" here.                *)
(***************************************************************************)
EXTENDS Preemption

CONSTANTS
  Buf,        \* transmit buffers of the client
  MaxLen,     \* bound: longest transfer submitted
  FifoSize,   \* bytes the target UART queues
  Timeouts,   \* subset of {"forever", "finite"}: timeouts given to tx()
  Calls,      \* [Ctx -> SUBSET {"tx", "tx_abort"}]: the API calls made there
  NULL        \* the null pointer

ASSUME TxAssumption ==
  /\ MaxLen \in Nat \ {0}
  /\ FifoSize \in Nat \ {0}
  /\ Timeouts \subseteq {"forever", "finite"}
  /\ Calls \in [Ctx -> SUBSET {"tx", "tx_abort"}]
  /\ NULL \notin Buf
  /\ NULL \notin Nat

VARIABLES
  tx,       \* data->tx: buf, curr (curr_buf - buf), left (size_left), enabled
  irq,      \* the target's TX interrupt is enabled
  armed,    \* data->tx.timeout_timer is running
  fifo,     \* bytes in the target's transmit queue
  pc,       \* where each context is
  ret,      \* where each context goes on when its API call returns
  tmo,      \* the timeout argument of each context's tx() call
  ev,       \* the local struct uart_event of each context
  lent      \* length of the transfer the client has given each buffer for,
            \* 0 while the client owns the buffer

txVars == <<tx, irq, armed, fifo, pc, ret, tmo, ev, lent>>

NoTransfer == [buf |-> NULL, curr |-> NULL, left |-> 0]
NoEvent == [type |-> "none", buf |-> NULL, len |-> 0]

\* Program points, named after the function they are in.
Labels == {"idle", "tx_irq_enable", "tx_timer_start",
           "abort_timer_stop", "abort_irq_disable", "abort_lock",
           "fill", "check_complete", "complete_left", "complete_enabled",
           "complete_irq_disable", "complete_lock", "notify", "callback"}

TypeOK ==
  /\ tx \in [buf : Buf \cup {NULL}, curr : Nat \cup {NULL}, left : Nat,
             enabled : BOOLEAN]
  /\ irq \in BOOLEAN
  /\ armed \in BOOLEAN
  /\ fifo \in 0 .. FifoSize
  /\ pc \in [Ctx -> Labels]
  /\ ret \in [Ctx -> {"idle", "callback"}]
  /\ tmo \in [Ctx -> {"forever", "finite"}]
  /\ ev \in [Ctx -> [type : {"none", "TX_DONE", "TX_ABORTED"},
                     buf : Buf \cup {NULL}, len : Nat]]
  /\ lent \in [Buf -> 0 .. MaxLen]

Init ==
  /\ tx = [buf |-> NULL, curr |-> NULL, left |-> 0, enabled |-> FALSE]
  /\ irq = FALSE
  /\ armed = FALSE
  /\ fifo = 0
  /\ pc = [c \in Ctx |-> "idle"]
  /\ ret = [c \in Ctx |-> "idle"]
  /\ tmo = [c \in Ctx |-> "forever"]
  /\ ev = [c \in Ctx |-> NoEvent]
  /\ lent = [b \in Buf |-> 0]

Running == {c \in Ctx : pc[c] # "idle"}

At(c, label) == pc[c] = label /\ MayStep(c, Running)
GoTo(c, label) == pc' = [pc EXCEPT ![c] = label]

\* The client calls the API from its own code or from its callback.
MayCall(c, call) ==
  /\ call \in Calls[c]
  /\ \/ pc[c] = "idle" /\ MayStart(c, Running)
     \/ At(c, "callback")
---------------------------------------------------------------------------
(* tx() *)

\* The locked region.  A busy adapter returns -EBUSY, a transfer of no
\* bytes returns 0, and neither changes anything.
Tx(c, b, len, t) ==
  /\ MayCall(c, "tx")
  /\ lent[b] = 0
  /\ len > 0
  /\ tx.buf = NULL
  /\ tx' = [buf |-> b, curr |-> 0, left |-> len, enabled |-> TRUE]
  /\ lent' = [lent EXCEPT ![b] = len]
  /\ ret' = [ret EXCEPT ![c] = pc[c]]
  /\ tmo' = [tmo EXCEPT ![c] = t]
  /\ GoTo(c, "tx_irq_enable")
  /\ UNCHANGED <<irq, armed, fifo, ev>>

TxIrqNotEnabled(c) ==                             \* a mutant of the next one
  /\ At(c, "tx_irq_enable")
  /\ GoTo(c, IF tmo[c] = "forever" THEN ret[c] ELSE "tx_timer_start")
  /\ UNCHANGED <<tx, irq, armed, fifo, ret, tmo, ev, lent>>

TxIrqEnable(c) ==
  /\ At(c, "tx_irq_enable")
  /\ irq' = TRUE
  /\ GoTo(c, IF tmo[c] = "forever" THEN ret[c] ELSE "tx_timer_start")
  /\ UNCHANGED <<tx, armed, fifo, ret, tmo, ev, lent>>

TxTimerStart(c) ==
  /\ At(c, "tx_timer_start")
  /\ armed' = TRUE
  /\ GoTo(c, ret[c])
  /\ UNCHANGED <<tx, irq, fifo, ret, tmo, ev, lent>>
---------------------------------------------------------------------------
(* tx_abort() and tx_timeout() *)

AbortEnabled(c) ==
  /\ tx' = [tx EXCEPT !.enabled = FALSE]
  /\ ret' = [ret EXCEPT ![c] = pc[c]]
  /\ GoTo(c, "abort_timer_stop")
  /\ UNCHANGED <<irq, fifo, tmo, ev, lent>>

TxAbort(c) ==
  /\ MayCall(c, "tx_abort")
  /\ AbortEnabled(c)
  /\ UNCHANGED armed

TxTimeout ==
  /\ armed
  /\ pc["timer"] = "idle"
  /\ MayStart("timer", Running)
  /\ armed' = FALSE
  /\ AbortEnabled("timer")

AbortTimerStop(c) ==
  /\ At(c, "abort_timer_stop")
  /\ armed' = FALSE
  /\ GoTo(c, "abort_irq_disable")
  /\ UNCHANGED <<tx, irq, fifo, ret, tmo, ev, lent>>

AbortIrqDisable(c) ==
  /\ At(c, "abort_irq_disable")
  /\ irq' = FALSE
  /\ GoTo(c, "abort_lock")
  /\ UNCHANGED <<tx, armed, fifo, ret, tmo, ev, lent>>

TakeKeepingBuf(c, type) ==                       \* a mutant of TakeTransfer
  /\ ev' = [ev EXCEPT ![c] = [type |-> type, buf |-> tx.buf, len |-> tx.curr]]
  /\ tx' = [tx EXCEPT !.left = 0]
  /\ GoTo(c, "notify")

\* Take the transfer away from the adapter and keep it in the local event.
TakeTransfer(c, type) ==
  /\ ev' = [ev EXCEPT ![c] = [type |-> type, buf |-> tx.buf, len |-> tx.curr]]
  /\ tx' = [buf |-> NULL, curr |-> NULL, left |-> 0, enabled |-> tx.enabled]
  /\ GoTo(c, "notify")

AbortLock(c) ==
  /\ At(c, "abort_lock")
  /\ IF tx.buf = NULL
       THEN GoTo(c, ret[c]) /\ UNCHANGED <<tx, ev>>        \* -EFAULT
       ELSE TakeTransfer(c, "TX_ABORTED")
  /\ UNCHANGED <<irq, armed, fifo, ret, tmo, lent>>
---------------------------------------------------------------------------
(* uart_irq_handler(), transmit part *)

IrqTxReady == irq /\ fifo < FifoSize
IrqTxComplete == fifo = 0

AfterReadyUnchecked ==                                        \* a mutant
  IF tx.enabled THEN "complete_left" ELSE "idle"

AfterReady == IF tx.enabled /\ IrqTxComplete THEN "complete_left" ELSE "idle"

\* The interrupt may come from the receiver too.
IrqHandler ==
  /\ pc["handler"] = "idle"
  /\ MayStart("handler", Running)
  /\ tx.enabled
  /\ GoTo("handler", IF IrqTxReady THEN "fill" ELSE AfterReady)
  /\ UNCHANGED <<tx, irq, armed, fifo, ret, tmo, ev, lent>>

\* on_tx_ready(): n is what uart_fifo_fill() takes, 0 when it fails.
OnTxReady(n) ==
  /\ At("handler", "fill")
  /\ n <= tx.left
  /\ fifo + n <= FifoSize
  /\ IF n = 0
       THEN UNCHANGED <<tx, fifo>>
       ELSE /\ tx' = [tx EXCEPT !.curr = @ + n, !.left = @ - n]
            /\ fifo' = fifo + n
  /\ GoTo("handler", "check_complete")
  /\ UNCHANGED <<irq, armed, ret, tmo, ev, lent>>

CheckComplete ==
  /\ At("handler", "check_complete")
  /\ GoTo("handler", AfterReady)
  /\ UNCHANGED <<tx, irq, armed, fifo, ret, tmo, ev, lent>>

CompleteLeftIgnored ==                             \* a mutant of CompleteLeft
  /\ At("handler", "complete_left")
  /\ GoTo("handler", "complete_enabled")
  /\ UNCHANGED <<tx, irq, armed, fifo, ret, tmo, ev, lent>>

\* on_tx_complete(), one step per access outside the lock.
CompleteLeft ==
  /\ At("handler", "complete_left")
  /\ GoTo("handler", IF tx.left = 0 THEN "complete_enabled" ELSE "idle")
  /\ UNCHANGED <<tx, irq, armed, fifo, ret, tmo, ev, lent>>

CompleteEnabled ==
  /\ At("handler", "complete_enabled")
  /\ tx' = [tx EXCEPT !.enabled = FALSE]
  /\ GoTo("handler", "complete_irq_disable")
  /\ UNCHANGED <<irq, armed, fifo, ret, tmo, ev, lent>>

CompleteIrqDisable ==
  /\ At("handler", "complete_irq_disable")
  /\ irq' = FALSE
  /\ GoTo("handler", "complete_lock")
  /\ UNCHANGED <<tx, armed, fifo, ret, tmo, ev, lent>>

CompleteLock ==
  /\ At("handler", "complete_lock")
  /\ IF tx.buf = NULL
       THEN GoTo("handler", "idle") /\ UNCHANGED <<tx, ev>>
       ELSE TakeTransfer("handler", "TX_DONE")
  /\ UNCHANGED <<irq, armed, fifo, ret, tmo, lent>>
---------------------------------------------------------------------------
(* user_callback(): the client gets its buffer back, and may call the API  *)
(* before it returns.  The callback is the last thing every function here  *)
(* does, so a callback nested in another one, of an abort inside a         *)
(* callback, returns to the same point as the outer one.                   *)

Notify(c) ==
  /\ At(c, "notify")
  /\ lent' = [lent EXCEPT ![ev[c].buf] = 0]
  /\ ev' = [ev EXCEPT ![c] = NoEvent]
  /\ GoTo(c, "callback")
  /\ UNCHANGED <<tx, irq, armed, fifo, ret, tmo>>

CallbackReturn(c) ==
  /\ At(c, "callback")
  /\ GoTo(c, "idle")
  /\ UNCHANGED <<tx, irq, armed, fifo, ret, tmo, ev, lent>>

\* The target UART puts a byte on the line.
Drain ==
  /\ fifo > 0
  /\ fifo' = fifo - 1
  /\ UNCHANGED <<tx, irq, armed, pc, ret, tmo, ev, lent>>
---------------------------------------------------------------------------
ApiStep(c) ==
  \/ TxIrqEnable(c)
  \/ TxTimerStart(c)
  \/ AbortTimerStop(c)
  \/ AbortIrqDisable(c)
  \/ AbortLock(c)
  \/ Notify(c)
  \/ CallbackReturn(c)

HandlerStep ==
  \/ \E n \in 0 .. FifoSize : OnTxReady(n)
  \/ CheckComplete
  \/ CompleteLeft
  \/ CompleteEnabled
  \/ CompleteIrqDisable
  \/ CompleteLock

ClientCall(c) ==
  \/ \E b \in Buf, len \in 0 .. MaxLen, t \in Timeouts : Tx(c, b, len, t)
  \/ TxAbort(c)

Next ==
  \/ \E c \in Ctx : ClientCall(c) \/ ApiStep(c)
  \/ TxTimeout
  \/ IrqHandler
  \/ HandlerStep
  \/ Drain

Spec == Init /\ [][Next]_txVars

\* Every step of the adapter's code is taken: interrupts and timers come at
\* a finite rate, so that even the thread gets its turn (SF).  The interrupt
\* is served while it is enabled, the line drains, and the target's queue
\* takes bytes again and again (its driver does not fail for ever).
Fairness ==
  /\ \A c \in Ctx : SF_txVars(ApiStep(c))
  /\ WF_txVars(HandlerStep)
  /\ WF_txVars(irq /\ IrqHandler)
  /\ WF_txVars(Drain)
  /\ SF_txVars(\E n \in 1 .. FifoSize : OnTxReady(n))

FairSpec == Spec /\ Fairness
---------------------------------------------------------------------------
(* Properties *)

\* The __ASSERT_NO_MSGs of on_tx_ready() (line 386) and of on_tx_complete()
\* (lines 416 and 417) never fire, whatever the client does and however the
\* contexts preempt each other: when bytes are left, or a transfer is there,
\* the cursor is a place in the buffer.
AssertionsHold ==
  /\ pc["handler"] = "fill" /\ tx.left # 0 => tx.curr # NULL
  /\ pc["handler"] = "complete_lock" /\ tx.buf # NULL =>
       tx.curr # NULL /\ tx.curr >= 0

\* Who is to give buffer b back: the adapter's data, or a context that has
\* taken the transfer away and not yet called the client.
Holders(b) ==
  {c \in Ctx : pc[c] = "notify" /\ ev[c].buf = b}
    \cup (IF tx.buf = b THEN {"adapter"} ELSE {})

\* A buffer handed to tx() is reported once and only once: while the client
\* waits for it exactly one place holds it, and no report is ever due for a
\* buffer the client owns.  The UART handler, tx_abort() and the timeout all
\* compete for the same transfer.
ReportedOnce ==
  \A b \in Buf :
    /\ lent[b] = 0 => Holders(b) = {}
    /\ lent[b] > 0 => \E h \in Ctx \cup {"adapter"} : Holders(b) = {h}

\* UART_TX_DONE means "Transfer really finished" (line 418): all the bytes
\* of the transfer have been queued, and have left the target.
DoneMeansSent ==
  \A c \in Ctx :
    pc[c] = "notify" /\ ev[c].type = "TX_DONE" =>
      ev[c].len = lent[ev[c].buf] /\ fifo = 0

\* When the client at last leaves the adapter alone, every transfer it has
\* submitted is reported: no abort and no order of enabling and disabling
\* the interrupt outside the lock leaves one stuck.
Reported ==
  <>[][~\E c \in Ctx : ClientCall(c)]_txVars =>
    \A b \in Buf : lent[b] > 0 ~> lent[b] = 0

\* What the promise of the asynchronous API is about: the transfer that is
\* not reported yet and how much of it has been sent.
pendingIn == {c \in Ctx : pc[c] = "notify"}

Current ==
  IF tx.buf # NULL
    THEN [buf |-> tx.buf, len |-> lent[tx.buf], sent |-> tx.curr]
    ELSE IF pendingIn # {}
           THEN LET c == CHOOSE d \in pendingIn : TRUE
                IN  [buf |-> ev[c].buf, len |-> lent[ev[c].buf],
                     sent |-> ev[c].len]
           ELSE [buf |-> NULL, len |-> 0, sent |-> 0]

Promise == INSTANCE AsyncTx WITH current <- Current, aborts <- FALSE

\* For a client that never aborts and gives no timeout (the NUS bridge) the
\* adapter implements the promise: one transfer at a time, sent from its
\* first byte to its last, reported only when all of it is sent, and always
\* reported.
ImplementsPromise == Promise!Spec
=============================================================================
