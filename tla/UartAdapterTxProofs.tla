------------------------ MODULE UartAdapterTxProofs ------------------------
(***************************************************************************)
(* What holds of the transmit half of the adapter for every set of         *)
(* buffers, every transfer length, every queue size and every client, and  *)
(* that it keeps the promise AsyncTx for a client as the NUS bridge.       *)
(***************************************************************************)
EXTENDS UartAdapterTx, TLAPS

\* The cursor and the number of bytes left belong to the transfer: there are
\* none without one.
CursorInv ==
  /\ tx.buf = NULL <=> tx.curr = NULL
  /\ tx.buf = NULL => tx.left = 0

\* The empty event is an event.
LEMMA NoEventTyped ==
  NoEvent \in [type : {"none", "TX_DONE", "TX_ABORTED"},
              buf : Buf \cup {NULL}, len : Nat]
BY DEF NoEvent

\* A transfer taken out of the adapter leaves well-typed events.
LEMMA TakeTyped ==
  ASSUME TypeOK, CursorInv, tx.buf # NULL, NEW c \in Ctx,
         NEW type \in {"TX_DONE", "TX_ABORTED"}, TakeTransfer(c, type)
  PROVE  /\ tx' \in [buf : Buf \cup {NULL}, curr : Nat \cup {NULL}, left : Nat,
                     enabled : BOOLEAN]
         /\ CursorInv'
         /\ pc' \in [Ctx -> Labels]
         /\ ev' \in [Ctx -> [type : {"none", "TX_DONE", "TX_ABORTED"},
                            buf : Buf \cup {NULL}, len : Nat]]
<1>1. [type |-> type, buf |-> tx.buf, len |-> tx.curr]
        \in [type : {"none", "TX_DONE", "TX_ABORTED"},
             buf : Buf \cup {NULL}, len : Nat]
  BY DEF TypeOK, CursorInv
<1>2. ev' \in [Ctx -> [type : {"none", "TX_DONE", "TX_ABORTED"},
                      buf : Buf \cup {NULL}, len : Nat]]
  BY <1>1 DEF TakeTransfer, TypeOK
<1> QED
  BY <1>2 DEF TakeTransfer, TypeOK, CursorInv, GoTo, Labels

\* Type correctness, with the cursor's invariant, in one step.
LEMMA TypeStep == TypeOK /\ CursorInv /\ [Next]_txVars => TypeOK' /\ CursorInv'
<1> SUFFICES ASSUME TypeOK, CursorInv, [Next]_txVars
             PROVE  TypeOK' /\ CursorInv'
  OBVIOUS
<1> USE TxAssumption DEF TypeOK, CursorInv, Labels, GoTo
<1>1. ASSUME NEW c \in Ctx, NEW b \in Buf, NEW len \in 0 .. MaxLen,
             NEW t \in Timeouts, Tx(c, b, len, t)
      PROVE  TypeOK' /\ CursorInv'
  <2>1. pc[c] \in {"idle", "callback"} /\ t \in {"forever", "finite"}
    BY <1>1 DEF Tx, MayCall, At
  <2>2. pc' \in [Ctx -> Labels] /\ ret' \in [Ctx -> {"idle", "callback"}]
        /\ tmo' \in [Ctx -> {"forever", "finite"}]
    BY <1>1, <2>1 DEF Tx
  <2>3. lent' \in [Buf -> 0 .. MaxLen]
    BY <1>1 DEF Tx
  <2>4. /\ tx' \in [buf : Buf \cup {NULL}, curr : Nat \cup {NULL}, left : Nat,
                    enabled : BOOLEAN]
        /\ CursorInv'
    BY <1>1 DEF Tx
  <2> QED
    BY <1>1, <2>2, <2>3, <2>4 DEF Tx
<1>2. ASSUME NEW c \in Ctx, TxAbort(c)
      PROVE  TypeOK' /\ CursorInv'
  <2>1. pc[c] \in {"idle", "callback"}
    BY <1>2 DEF TxAbort, MayCall, At
  <2>2. pc' \in [Ctx -> Labels] /\ ret' \in [Ctx -> {"idle", "callback"}]
    BY <1>2, <2>1 DEF TxAbort, AbortEnabled
  <2> QED
    BY <1>2, <2>2 DEF TxAbort, AbortEnabled
<1>3. ASSUME NEW c \in Ctx, TxIrqEnable(c)
      PROVE  TypeOK' /\ CursorInv'
  BY <1>3 DEF TxIrqEnable
<1>4. ASSUME NEW c \in Ctx, TxTimerStart(c)
      PROVE  TypeOK' /\ CursorInv'
  BY <1>4 DEF TxTimerStart
<1>5. ASSUME NEW c \in Ctx, AbortTimerStop(c)
      PROVE  TypeOK' /\ CursorInv'
  BY <1>5 DEF AbortTimerStop
<1>6. ASSUME NEW c \in Ctx, AbortIrqDisable(c)
      PROVE  TypeOK' /\ CursorInv'
  BY <1>6 DEF AbortIrqDisable
<1>7. ASSUME NEW c \in Ctx, AbortLock(c)
      PROVE  TypeOK' /\ CursorInv'
  <2>1. CASE tx.buf = NULL
    <3>1. pc' = [pc EXCEPT ![c] = ret[c]] /\ UNCHANGED <<tx, ev>>
      BY <1>7, <2>1 DEF AbortLock
    <3>2. pc' \in [Ctx -> Labels]
      BY <3>1
    <3> QED
      BY <1>7, <3>1, <3>2 DEF AbortLock
  <2>2. CASE tx.buf # NULL
    BY <1>7, <2>2, TakeTyped DEF AbortLock
  <2> QED
    BY <2>1, <2>2
<1>8. ASSUME NEW c \in Ctx, Notify(c)
      PROVE  TypeOK' /\ CursorInv'
  <2>1. lent' \in [Buf -> 0 .. MaxLen]
    <3> HIDE DEF TypeOK, CursorInv
    <3>1. lent' = [lent EXCEPT ![ev[c].buf] = 0]
      BY <1>8 DEF Notify
    <3>2. lent \in [Buf -> 0 .. MaxLen] /\ 0 \in 0 .. MaxLen
      BY TxAssumption DEF TypeOK
    <3> QED
      BY <3>1, <3>2
  <2>2. ev' \in [Ctx -> [type : {"none", "TX_DONE", "TX_ABORTED"},
                       buf : Buf \cup {NULL}, len : Nat]]
    BY <1>8, NoEventTyped DEF Notify
  <2> QED
    BY <1>8, <2>1, <2>2 DEF Notify
<1>9. ASSUME NEW c \in Ctx, CallbackReturn(c)
      PROVE  TypeOK' /\ CursorInv'
  BY <1>9 DEF CallbackReturn
<1>10. CASE TxTimeout
  BY <1>10 DEF TxTimeout, AbortEnabled, Ctx
<1>11. CASE IrqHandler
  BY <1>11 DEF IrqHandler, AfterReady, Ctx
<1>12. ASSUME NEW n \in 0 .. FifoSize, OnTxReady(n)
       PROVE  TypeOK' /\ CursorInv'
  <2>1. CASE n = 0
    BY <1>12, <2>1 DEF OnTxReady, Ctx
  <2>2. CASE n # 0
    <3>1. tx.buf # NULL /\ tx.curr \in Nat
      BY <1>12, <2>2 DEF OnTxReady
    <3>2. tx' = [buf |-> tx.buf, curr |-> tx.curr + n, left |-> tx.left - n,
                 enabled |-> tx.enabled]
      BY <1>12, <2>2 DEF OnTxReady
    <3>3. tx.curr + n \in Nat /\ tx.left - n \in Nat
      BY <1>12, <3>1 DEF OnTxReady
    <3>4. tx.curr + n # NULL
      BY <3>3
    <3>5. /\ tx' \in [buf : Buf \cup {NULL}, curr : Nat \cup {NULL}, left : Nat,
                      enabled : BOOLEAN]
          /\ CursorInv'
      BY <3>1, <3>2, <3>3, <3>4
    <3> QED
      BY <1>12, <2>2, <3>5 DEF OnTxReady, Ctx
  <2> QED
    BY <2>1, <2>2
<1>13. CASE CheckComplete
  BY <1>13 DEF CheckComplete, AfterReady, Ctx
<1>14. CASE CompleteLeft
  BY <1>14 DEF CompleteLeft, Ctx
<1>15. CASE CompleteEnabled
  BY <1>15 DEF CompleteEnabled, Ctx
<1>16. CASE CompleteIrqDisable
  BY <1>16 DEF CompleteIrqDisable, Ctx
<1>17. CASE CompleteLock
  <2>1. CASE tx.buf = NULL
    BY <1>17, <2>1 DEF CompleteLock, Ctx
  <2>2. CASE tx.buf # NULL
    BY <1>17, <2>2, TakeTyped DEF CompleteLock, Ctx
  <2> QED
    BY <2>1, <2>2
<1>18. CASE Drain
  BY <1>18 DEF Drain
<1>19. CASE UNCHANGED txVars
  BY <1>19 DEF txVars
<1>20. QED
  BY <1>1, <1>2, <1>3, <1>4, <1>5, <1>6, <1>7, <1>8, <1>9, <1>10, <1>11,
     <1>12, <1>13, <1>14, <1>15, <1>16, <1>17, <1>18, <1>19
     DEF Next, ClientCall, ApiStep, HandlerStep

\* The adapter's data keeps its types and the cursor its transfer.
THEOREM TypeCorrect == Spec => [](TypeOK /\ CursorInv)
<1>1. Init => TypeOK /\ CursorInv
  <2> SUFFICES ASSUME Init PROVE TypeOK /\ CursorInv
    OBVIOUS
  <2>1. ev \in [Ctx -> [type : {"none", "TX_DONE", "TX_ABORTED"},
                      buf : Buf \cup {NULL}, len : Nat]]
    BY NoEventTyped DEF Init
  <2>2. tx \in [buf : Buf \cup {NULL}, curr : Nat \cup {NULL}, left : Nat,
               enabled : BOOLEAN] /\ CursorInv
    BY DEF Init, CursorInv
  <2>3. pc \in [Ctx -> Labels] /\ ret \in [Ctx -> {"idle", "callback"}]
        /\ tmo \in [Ctx -> {"forever", "finite"}]
    BY DEF Init, Labels
  <2>4. fifo \in 0 .. FifoSize /\ lent \in [Buf -> 0 .. MaxLen]
    BY TxAssumption DEF Init
  <2> QED
    BY <2>1, <2>2, <2>3, <2>4 DEF Init, TypeOK
<1>2. QED
  BY <1>1, TypeStep, PTL DEF Spec

\* The assertions of on_tx_ready() and on_tx_complete() never fire, for any
\* client, any timeouts and any preemption.
THEOREM AssertionsNeverFire == Spec => []AssertionsHold
<1>1. TypeOK /\ CursorInv => AssertionsHold
  BY TxAssumption DEF TypeOK, CursorInv, AssertionsHold
<1>2. QED
  BY <1>1, TypeCorrect, PTL

---------------------------------------------------------------------------
\* Every buffer the client has handed over is held, in the adapter's data or
\* in the event of a context about to report it, and by one holder only.
OwnInv ==
  /\ tx.buf # NULL => lent[tx.buf] > 0
  /\ \A c \in Ctx :
       pc[c] = "notify" =>
         ev[c].buf \in Buf /\ lent[ev[c].buf] > 0 /\ ev[c].buf # tx.buf
  /\ \A c, d \in Ctx :
       pc[c] = "notify" /\ pc[d] = "notify" /\ c # d => ev[c].buf # ev[d].buf
  /\ \A b \in Buf :
       lent[b] > 0 =>
         tx.buf = b \/ \E c \in Ctx : pc[c] = "notify" /\ ev[c].buf = b

\* A step that moves no buffer keeps the invariant.
LEMMA QuietStep ==
  ASSUME OwnInv, tx'.buf = tx.buf, UNCHANGED <<ev, lent>>,
         \A c \in Ctx : pc'[c] = "notify" <=> pc[c] = "notify"
  PROVE  OwnInv'
BY DEF OwnInv

\* Taking the transfer moves its buffer from the adapter to the event.
LEMMA TakeStep ==
  ASSUME TypeOK, OwnInv, tx.buf # NULL, UNCHANGED lent,
         NEW c \in Ctx, pc[c] # "notify",
         NEW type \in {"TX_DONE", "TX_ABORTED"}, TakeTransfer(c, type)
  PROVE  OwnInv'
<1>1. /\ tx'.buf = NULL
      /\ tx.buf \in Buf
      /\ ev'[c].buf = tx.buf
      /\ pc'[c] = "notify"
      /\ \A d \in Ctx \ {c} : ev'[d] = ev[d] /\ pc'[d] = pc[d]
  BY DEF TakeTransfer, GoTo, TypeOK
<1> QED
  BY <1>1, TxAssumption DEF OwnInv

\* Every step keeps the holders apart.
LEMMA OwnStep == TypeOK /\ OwnInv /\ [Next]_txVars => OwnInv'
<1> SUFFICES ASSUME TypeOK, OwnInv, [Next]_txVars
             PROVE  OwnInv'
  OBVIOUS
<1>a. pc \in [Ctx -> Labels] /\ ret \in [Ctx -> {"idle", "callback"}]
  BY DEF TypeOK
<1> USE DEF GoTo
<1>1. ASSUME NEW c \in Ctx, NEW b \in Buf, NEW len \in 0 .. MaxLen,
             NEW t \in Timeouts, Tx(c, b, len, t)
      PROVE  OwnInv'
  <2>1. /\ tx.buf = NULL /\ lent[b] = 0 /\ len > 0
        /\ tx'.buf = b
        /\ lent'[b] = len
        /\ \A d \in Buf \ {b} : lent'[d] = lent[d]
        /\ ev' = ev
        /\ \A d \in Ctx : pc'[d] = "notify" <=> pc[d] = "notify"
    BY <1>1, <1>a DEF Tx, MayCall, At, TypeOK
  <2>2. tx'.buf \in Buf /\ NULL \notin Buf
    BY <2>1, TxAssumption
  <2> QED
    BY <2>1, <2>2 DEF OwnInv
<1>2. ASSUME NEW c \in Ctx, TxAbort(c)
      PROVE  OwnInv'
  <2>1. tx'.buf = tx.buf /\ \A d \in Ctx : pc'[d] = "notify" <=> pc[d] = "notify"
    BY <1>2, <1>a DEF TxAbort, AbortEnabled, MayCall, At, TypeOK
  <2> QED
    BY <1>2, <2>1, QuietStep DEF TxAbort, AbortEnabled
<1>3. ASSUME NEW c \in Ctx, TxIrqEnable(c)
      PROVE  OwnInv'
  <2>1. \A d \in Ctx : pc'[d] = "notify" <=> pc[d] = "notify"
    BY <1>3, <1>a DEF TxIrqEnable, At
  <2> QED
    BY <1>3, <2>1, QuietStep DEF TxIrqEnable
<1>4. ASSUME NEW c \in Ctx, TxTimerStart(c)
      PROVE  OwnInv'
  <2>1. \A d \in Ctx : pc'[d] = "notify" <=> pc[d] = "notify"
    BY <1>4, <1>a DEF TxTimerStart, At
  <2> QED
    BY <1>4, <2>1, QuietStep DEF TxTimerStart
<1>5. ASSUME NEW c \in Ctx, AbortTimerStop(c)
      PROVE  OwnInv'
  <2>1. \A d \in Ctx : pc'[d] = "notify" <=> pc[d] = "notify"
    BY <1>5, <1>a DEF AbortTimerStop, At
  <2> QED
    BY <1>5, <2>1, QuietStep DEF AbortTimerStop
<1>6. ASSUME NEW c \in Ctx, AbortIrqDisable(c)
      PROVE  OwnInv'
  <2>1. \A d \in Ctx : pc'[d] = "notify" <=> pc[d] = "notify"
    BY <1>6, <1>a DEF AbortIrqDisable, At
  <2> QED
    BY <1>6, <2>1, QuietStep DEF AbortIrqDisable
<1>7. ASSUME NEW c \in Ctx, AbortLock(c)
      PROVE  OwnInv'
  <2>1. CASE tx.buf = NULL
    <3>1. \A d \in Ctx : pc'[d] = "notify" <=> pc[d] = "notify"
      BY <1>7, <2>1, <1>a DEF AbortLock, At
    <3> QED
      BY <1>7, <2>1, <3>1, QuietStep DEF AbortLock
  <2>2. CASE tx.buf # NULL
    BY <1>7, <2>2, TakeStep DEF AbortLock, At
  <2> QED
    BY <2>1, <2>2
<1>8. ASSUME NEW c \in Ctx, Notify(c)
      PROVE  OwnInv'
  <2>1. /\ pc[c] = "notify" /\ pc'[c] = "callback"
        /\ tx' = tx
        /\ \A d \in Ctx \ {c} : pc'[d] = pc[d] /\ ev'[d] = ev[d]
    BY <1>8, <1>a DEF Notify, At, TypeOK
  <2>2. /\ ev[c].buf \in Buf
        /\ lent'[ev[c].buf] = 0
        /\ \A b \in Buf \ {ev[c].buf} : lent'[b] = lent[b]
    BY <1>8, <2>1 DEF Notify, OwnInv, TypeOK
  <2>3. tx.buf = NULL \/ tx.buf \in Buf
    BY DEF TypeOK
  <2> QED
    BY <2>1, <2>2, <2>3 DEF OwnInv
<1>9. ASSUME NEW c \in Ctx, CallbackReturn(c)
      PROVE  OwnInv'
  <2>1. \A d \in Ctx : pc'[d] = "notify" <=> pc[d] = "notify"
    BY <1>9, <1>a DEF CallbackReturn, At
  <2> QED
    BY <1>9, <2>1, QuietStep DEF CallbackReturn
<1>10. CASE TxTimeout
  <2>1. tx'.buf = tx.buf /\ \A d \in Ctx : pc'[d] = "notify" <=> pc[d] = "notify"
    BY <1>10, <1>a DEF TxTimeout, AbortEnabled, TypeOK
  <2> QED
    BY <1>10, <2>1, QuietStep DEF TxTimeout, AbortEnabled
<1>11. CASE IrqHandler \/ CheckComplete \/ CompleteLeft
  <2>1. \A d \in Ctx : pc'[d] = "notify" <=> pc[d] = "notify"
    BY <1>11, <1>a DEF IrqHandler, CheckComplete, CompleteLeft, AfterReady, At
  <2> QED
    BY <1>11, <2>1, QuietStep DEF IrqHandler, CheckComplete, CompleteLeft
<1>12. ASSUME NEW n \in 0 .. FifoSize, OnTxReady(n)
       PROVE  OwnInv'
  <2>1. tx'.buf = tx.buf /\ \A d \in Ctx : pc'[d] = "notify" <=> pc[d] = "notify"
    BY <1>12, <1>a DEF OnTxReady, At, TypeOK
  <2> QED
    BY <1>12, <2>1, QuietStep DEF OnTxReady
<1>13. CASE CompleteEnabled \/ CompleteIrqDisable
  <2>1. tx'.buf = tx.buf /\ \A d \in Ctx : pc'[d] = "notify" <=> pc[d] = "notify"
    BY <1>13, <1>a DEF CompleteEnabled, CompleteIrqDisable, At, TypeOK
  <2> QED
    BY <1>13, <2>1, QuietStep DEF CompleteEnabled, CompleteIrqDisable
<1>14. CASE CompleteLock
  <2>1. CASE tx.buf = NULL
    <3>1. \A d \in Ctx : pc'[d] = "notify" <=> pc[d] = "notify"
      BY <1>14, <2>1, <1>a DEF CompleteLock, At
    <3> QED
      BY <1>14, <2>1, <3>1, QuietStep DEF CompleteLock
  <2>2. CASE tx.buf # NULL
    BY <1>14, <2>2, TakeStep DEF CompleteLock, At, Ctx
  <2> QED
    BY <2>1, <2>2
<1>15. CASE Drain \/ UNCHANGED txVars
  BY <1>15, QuietStep DEF Drain, txVars
<1> QED
  BY <1>1, <1>2, <1>3, <1>4, <1>5, <1>6, <1>7, <1>8, <1>9, <1>10, <1>11,
     <1>12, <1>13, <1>14, <1>15
     DEF Next, ClientCall, ApiStep, HandlerStep

\* Ownership by a single holder is what ReportedOnce says.
LEMMA OwnedIsReportedOnce == TypeOK /\ OwnInv => ReportedOnce
<1> SUFFICES ASSUME TypeOK, OwnInv, NEW b \in Buf
             PROVE  /\ lent[b] = 0 => Holders(b) = {}
                    /\ lent[b] > 0 =>
                         \E h \in Ctx \cup {"adapter"} : Holders(b) = {h}
  BY DEF ReportedOnce
<1>1. lent[b] = 0 => Holders(b) = {}
  BY TxAssumption DEF OwnInv, Holders, TypeOK
<1>2. ASSUME tx.buf = b PROVE Holders(b) = {"adapter"}
  BY <1>2 DEF OwnInv, Holders
<1>3. ASSUME NEW c \in Ctx, pc[c] = "notify", ev[c].buf = b
      PROVE  Holders(b) = {c}
  BY <1>3 DEF OwnInv, Holders
<1> QED
  BY <1>1, <1>2, <1>3 DEF OwnInv

\* A buffer given to tx() is reported once and only once, for any client.
THEOREM BuffersReportedOnce == Spec => []ReportedOnce
<1>1. Init => OwnInv
  BY DEF Init, OwnInv
<1>2. Spec => []OwnInv
  BY <1>1, OwnStep, TypeCorrect, PTL DEF Spec
<1> QED
  BY <1>2, OwnedIsReportedOnce, TypeCorrect, PTL
---------------------------------------------------------------------------
\* No transfer can start while the handler completes one: either the timer
\* cannot preempt the handler, or the client submits nothing from there.
NoPreemptingTx == Prio["handler"] = Prio["timer"] \/ "tx" \notin Calls["timer"]

Completing == {"complete_enabled", "complete_irq_disable", "complete_lock"}

\* Between the unlocked test of size_left and the locked region the test
\* stays true, the target's queue stays empty, and a transfer's bytes are
\* either behind or ahead of its cursor.
SentInv ==
  /\ tx.buf # NULL => tx.curr + tx.left = lent[tx.buf]
  /\ pc["handler"] \in Completing \cup {"complete_left"} => fifo = 0
  /\ pc["handler"] \in Completing => tx.left = 0
  /\ \A c \in Ctx :
       pc[c] = "notify" /\ ev[c].type = "TX_DONE" =>
         c = "handler" /\ fifo = 0 /\ ev[c].len = lent[ev[c].buf]

\* A step after which the transfer, the events due, the target's queue and
\* the handler are as before, or the handler is where no promise is made.
LEMMA QuietSent ==
  ASSUME SentInv, UNCHANGED <<ev, lent, fifo>>,
         tx'.buf = tx.buf, tx'.curr = tx.curr, tx'.left = tx.left,
         \A c \in Ctx : pc'[c] = "notify" => pc[c] = "notify",
         \/ pc'["handler"] = pc["handler"]
         \/ pc'["handler"] \notin Completing \cup {"complete_left"}
  PROVE  SentInv'
BY DEF SentInv

\* tx() accepts nothing while the handler is completing a transfer.
LEMMA NoTxWhileCompleting ==
  ASSUME NoPreemptingTx, TypeOK, NEW c \in Ctx, MayCall(c, "tx"),
         pc["handler"] \in Completing
  PROVE  FALSE
<1>1. "handler" \in Running /\ pc["handler"] # "callback" /\ pc["handler"] # "idle"
  BY DEF Running, Completing, Ctx
<1>2. /\ Prio \in [Ctx -> Nat]
      /\ Prio["thread"] < Prio["handler"]
      /\ Prio["handler"] <= Prio["timer"]
  BY PrioAssumption
<1>3. c # "handler"
  BY <1>1 DEF MayCall, At
<1>4. Prio["handler"] < Prio[c]
  BY <1>1, <1>3 DEF MayCall, At, MayStart, MayStep
<1>5. c = "timer"
  BY <1>2, <1>3, <1>4 DEF Ctx
<1> QED
  BY <1>2, <1>4, <1>5 DEF MayCall, NoPreemptingTx, Ctx

\* A transfer that is taken out when it is done has been sent.
LEMMA TakeSent ==
  ASSUME TypeOK, CursorInv, SentInv, tx.buf # NULL, UNCHANGED <<lent, fifo>>,
         NEW c \in Ctx, NEW type \in {"TX_DONE", "TX_ABORTED"},
         TakeTransfer(c, type),
         type = "TX_DONE" => c = "handler" /\ fifo = 0 /\ tx.left = 0
  PROVE  SentInv'
<1>1. /\ tx'.buf = NULL /\ tx'.left = 0
      /\ ev'[c].type = type /\ ev'[c].buf = tx.buf /\ ev'[c].len = tx.curr
      /\ pc'[c] = "notify"
      /\ \A d \in Ctx \ {c} : ev'[d] = ev[d] /\ pc'[d] = pc[d]
  BY DEF TakeTransfer, GoTo, TypeOK
<1>2. ASSUME type = "TX_DONE" PROVE ev'[c].len = lent[tx.buf]
  <2>1. tx.curr + tx.left = lent[tx.buf] /\ tx.left = 0
    BY <1>2 DEF SentInv
  <2>2. tx.curr \in Nat \cup {NULL}
    BY DEF TypeOK
  <2>3. tx.curr # NULL
    BY DEF CursorInv
  <2> QED
    BY <1>1, <2>1, <2>2, <2>3
<1>3. \/ pc'["handler"] = pc["handler"]
      \/ pc'["handler"] \notin Completing \cup {"complete_left"}
  BY <1>1 DEF Completing, Ctx
<1> QED
  BY <1>1, <1>2, <1>3 DEF SentInv

\* Every step keeps it, as no transfer can start inside on_tx_complete().
LEMMA SentStep ==
  ASSUME NoPreemptingTx, TypeOK, CursorInv, OwnInv, SentInv, [Next]_txVars
  PROVE  SentInv'
<1>a. pc \in [Ctx -> Labels] /\ ret \in [Ctx -> {"idle", "callback"}]
  BY DEF TypeOK
<1>b. "handler" \in Ctx
  BY DEF Ctx
<1>c. "timer" \in Ctx /\ "timer" # "handler"
  BY DEF Ctx
<1> USE DEF GoTo, Completing
<1>1. ASSUME NEW c \in Ctx, NEW b \in Buf, NEW len \in 0 .. MaxLen,
             NEW t \in Timeouts, Tx(c, b, len, t)
      PROVE  SentInv'
  <2>1. /\ MayCall(c, "tx")
        /\ lent[b] = 0
        /\ tx'.buf = b /\ tx'.curr = 0 /\ tx'.left = len
        /\ lent'[b] = len
        /\ \A d \in Buf \ {b} : lent'[d] = lent[d]
        /\ ev' = ev /\ fifo' = fifo
        /\ pc[c] \in {"idle", "callback"}
        /\ pc'[c] = "tx_irq_enable"
        /\ \A d \in Ctx \ {c} : pc'[d] = pc[d]
    BY <1>1, <1>a DEF Tx, MayCall, At, TypeOK
  <2>2. pc["handler"] \notin Completing
    BY <2>1, NoTxWhileCompleting
  <2>3. \A d \in Ctx : pc[d] = "notify" => ev[d].buf \in Buf \ {b}
    BY <2>1 DEF OwnInv
  <2>4. pc'["handler"] \in Completing \cup {"complete_left"} =>
          pc["handler"] = pc'["handler"]
    BY <2>1, <1>b
  <2> QED
    BY <2>1, <2>2, <2>3, <2>4 DEF SentInv
<1>2. ASSUME NEW c \in Ctx, TxAbort(c)
      PROVE  SentInv'
  <2>1. /\ tx'.buf = tx.buf /\ tx'.curr = tx.curr /\ tx'.left = tx.left
        /\ pc'[c] = "abort_timer_stop"
        /\ \A d \in Ctx \ {c} : pc'[d] = pc[d]
    BY <1>2, <1>a DEF TxAbort, AbortEnabled, TypeOK
  <2> QED
    BY <1>2, <2>1, <1>b, QuietSent DEF TxAbort, AbortEnabled
<1>3. ASSUME NEW c \in Ctx,
             TxIrqEnable(c) \/ TxTimerStart(c) \/ AbortTimerStop(c)
               \/ AbortIrqDisable(c) \/ CallbackReturn(c)
      PROVE  SentInv'
  <2>1. /\ pc'[c] \in {"idle", "callback", "tx_timer_start",
                       "abort_irq_disable", "abort_lock"}
        /\ \A d \in Ctx \ {c} : pc'[d] = pc[d]
        /\ UNCHANGED <<tx, ev, lent, fifo>>
    BY <1>3, <1>a DEF TxIrqEnable, TxTimerStart, AbortTimerStop,
                      AbortIrqDisable, CallbackReturn
  <2> QED
    BY <2>1, <1>b, QuietSent
<1>4. ASSUME NEW c \in Ctx, AbortLock(c)
      PROVE  SentInv'
  <2>1. CASE tx.buf = NULL
    <3>1. /\ pc'[c] \in {"idle", "callback"}
          /\ \A d \in Ctx \ {c} : pc'[d] = pc[d]
          /\ UNCHANGED <<tx, ev, lent, fifo>>
      BY <1>4, <2>1, <1>a DEF AbortLock
    <3> QED
      BY <3>1, <1>b, QuietSent
  <2>2. CASE tx.buf # NULL
    BY <1>4, <2>2, TakeSent DEF AbortLock
  <2> QED
    BY <2>1, <2>2
<1>5. ASSUME NEW c \in Ctx, Notify(c)
      PROVE  SentInv'
  <2>1. /\ pc[c] = "notify" /\ pc'[c] = "callback"
        /\ tx' = tx /\ fifo' = fifo
        /\ \A d \in Ctx \ {c} : pc'[d] = pc[d] /\ ev'[d] = ev[d]
        /\ \A b \in Buf \ {ev[c].buf} : lent'[b] = lent[b]
    BY <1>5, <1>a DEF Notify, At, TypeOK
  <2>2. tx.buf # NULL => tx.buf \in Buf \ {ev[c].buf}
    BY <2>1 DEF OwnInv, TypeOK
  <2>3. \A d \in Ctx \ {c} :
          pc[d] = "notify" => ev[d].buf \in Buf \ {ev[c].buf}
    BY <2>1 DEF OwnInv
  <2> QED
    BY <2>1, <2>2, <2>3, <1>b DEF SentInv
<1>6. CASE TxTimeout
  <2>1. /\ tx'.buf = tx.buf /\ tx'.curr = tx.curr /\ tx'.left = tx.left
        /\ pc'["timer"] = "abort_timer_stop"
        /\ \A d \in Ctx \ {"timer"} : pc'[d] = pc[d]
        /\ UNCHANGED <<ev, lent, fifo>>
    BY <1>6, <1>a, <1>c DEF TxTimeout, AbortEnabled, TypeOK
  <2> QED
    BY <2>1, <1>b, <1>c, QuietSent
<1>7. CASE IrqHandler \/ CheckComplete
  <2>1. /\ pc["handler"] \in {"idle", "check_complete"}
        /\ pc'["handler"] \in {"idle", "fill", "complete_left"}
        /\ pc'["handler"] = "complete_left" => fifo = 0
        /\ \A d \in Ctx \ {"handler"} : pc'[d] = pc[d]
        /\ UNCHANGED <<tx, ev, lent, fifo>>
    BY <1>7, <1>a, <1>b
       DEF IrqHandler, CheckComplete, AfterReady, IrqTxComplete, At
  <2> QED
    BY <2>1 DEF SentInv
<1>8. ASSUME NEW n \in 0 .. FifoSize, OnTxReady(n)
      PROVE  SentInv'
  <2>1. /\ pc["handler"] = "fill" /\ pc'["handler"] = "check_complete"
        /\ \A d \in Ctx \ {"handler"} : pc'[d] = pc[d]
        /\ UNCHANGED <<ev, lent>>
        /\ tx'.buf = tx.buf
    BY <1>8, <1>a, <1>b DEF OnTxReady, At, TypeOK
  <2>2. \A d \in Ctx :
          pc'[d] = "notify" => d # "handler" /\ pc[d] = "notify"
    BY <2>1
  <2>3. tx'.buf # NULL => tx'.curr + tx'.left = lent'[tx'.buf]
    <3>1. CASE n = 0
      BY <1>8, <3>1 DEF OnTxReady, SentInv
    <3>2. CASE n # 0
      <4>1. /\ tx'.curr = tx.curr + n /\ tx'.left = tx.left - n
            /\ n <= tx.left
        BY <1>8, <3>2 DEF OnTxReady, TypeOK
      <4>2. tx.buf # NULL /\ tx.curr \in Nat /\ tx.left \in Nat
        BY <1>8, <3>2, <4>1 DEF CursorInv, TypeOK
      <4>3. tx.curr + tx.left = lent[tx.buf]
        BY <4>2 DEF SentInv
      <4> QED
        BY <2>1, <4>1, <4>2, <4>3
    <3> QED
      BY <3>1, <3>2
  <2> QED
    BY <2>1, <2>2, <2>3 DEF SentInv
<1>9. CASE CompleteLeft
  <2>1. /\ pc["handler"] = "complete_left"
        /\ pc'["handler"] = "idle" \/ tx.left = 0
        /\ \A d \in Ctx \ {"handler"} : pc'[d] = pc[d]
        /\ pc'["handler"] # "notify"
        /\ UNCHANGED <<tx, ev, lent, fifo>>
    BY <1>9, <1>a, <1>b DEF CompleteLeft, At
  <2> QED
    BY <2>1 DEF SentInv
<1>10. CASE CompleteEnabled \/ CompleteIrqDisable
  <2>1. /\ pc["handler"] \in Completing /\ pc'["handler"] \in Completing
        /\ \A d \in Ctx \ {"handler"} : pc'[d] = pc[d]
        /\ tx'.buf = tx.buf /\ tx'.curr = tx.curr /\ tx'.left = tx.left
        /\ UNCHANGED <<ev, lent, fifo>>
    BY <1>10, <1>a, <1>b DEF CompleteEnabled, CompleteIrqDisable, At, TypeOK
  <2> QED
    BY <2>1 DEF SentInv
<1>11. CASE CompleteLock
  <2>1. fifo = 0 /\ tx.left = 0
    BY <1>11 DEF CompleteLock, At, SentInv
  <2>2. CASE tx.buf = NULL
    <3>1. /\ pc'["handler"] = "idle"
          /\ \A d \in Ctx \ {"handler"} : pc'[d] = pc[d]
          /\ UNCHANGED <<tx, ev, lent, fifo>>
      BY <1>11, <2>2, <1>a, <1>b DEF CompleteLock
    <3> QED
      BY <3>1, <1>b, QuietSent
  <2>3. CASE tx.buf # NULL
    BY <1>11, <2>1, <2>3, <1>b, TakeSent DEF CompleteLock
  <2> QED
    BY <2>2, <2>3
<1>12. CASE Drain
  <2>1. fifo # 0 /\ fifo' \in Nat /\ UNCHANGED <<tx, pc, ev, lent>>
    BY <1>12 DEF Drain, TypeOK
  <2> QED
    BY <2>1 DEF SentInv
<1>13. CASE UNCHANGED txVars
  BY <1>13, QuietSent DEF txVars
<1> QED
  BY <1>1, <1>2, <1>3, <1>4, <1>5, <1>6, <1>7, <1>8, <1>9, <1>10, <1>11,
     <1>12, <1>13
     DEF Next, ClientCall, ApiStep, HandlerStep

\* UART_TX_DONE is reported only for transfers really finished, for every
\* client that keeps tx() out of the reach of a preempting timer.
THEOREM DoneIsSent ==
  ASSUME NoPreemptingTx
  PROVE  Spec => []DoneMeansSent
<1>1. Init => OwnInv /\ SentInv
  BY DEF Init, OwnInv, SentInv, Completing, Ctx
<1>2. TypeOK /\ CursorInv /\ OwnInv /\ SentInv /\ [Next]_txVars
        => OwnInv' /\ SentInv'
  BY OwnStep, SentStep
<1>3. Spec => [](OwnInv /\ SentInv)
  BY <1>1, <1>2, TypeCorrect, PTL DEF Spec
<1>4. SentInv => DoneMeansSent
  BY DEF SentInv, DoneMeansSent
<1> QED
  BY <1>3, <1>4, PTL
---------------------------------------------------------------------------
(* The refinement.                                                         *)

\* A client as the NUS bridge: no aborts, and no timeouts that abort.
NeverAborts ==
  /\ \A c \in Ctx : "tx_abort" \notin Calls[c]
  /\ "finite" \notin Timeouts

AbortPlaces == {"abort_timer_stop", "abort_irq_disable", "abort_lock"}

\* Then the handler alone takes transfers out of the adapter, when they are
\* done, and no other one is accepted until it has called the client.
DoneInv ==
  /\ ~armed
  /\ \A c \in Ctx : /\ tmo[c] = "forever"
                    /\ pc[c] \notin AbortPlaces \cup {"tx_timer_start"}
                    /\ pc[c] = "notify" => c = "handler"
  /\ pc["handler"] = "notify" => tx.buf = NULL /\ ev["handler"].type = "TX_DONE"

\* tx() accepts nothing while the handler is about to report a transfer.
LEMMA NoTxWhileReporting ==
  ASSUME NoPreemptingTx, TypeOK, NEW c \in Ctx, MayCall(c, "tx"),
         pc["handler"] = "notify"
  PROVE  FALSE
<1>1. "handler" \in Running
  BY DEF Running, Ctx
<1>2. /\ Prio \in [Ctx -> Nat]
      /\ Prio["thread"] < Prio["handler"]
      /\ Prio["handler"] <= Prio["timer"]
  BY PrioAssumption
<1>3. c # "handler"
  BY DEF MayCall, At
<1>4. Prio["handler"] < Prio[c]
  BY <1>1, <1>3 DEF MayCall, At, MayStart, MayStep
<1>5. c = "timer"
  BY <1>2, <1>3, <1>4 DEF Ctx
<1> QED
  BY <1>2, <1>4, <1>5 DEF MayCall, NoPreemptingTx, Ctx

\* Every step keeps the handler the only one that takes transfers out.
LEMMA DoneStep ==
  ASSUME NoPreemptingTx, NeverAborts, TypeOK, DoneInv, [Next]_txVars
  PROVE  DoneInv'
<1>a. pc \in [Ctx -> Labels] /\ ret \in [Ctx -> {"idle", "callback"}]
  BY DEF TypeOK
<1>b. "handler" \in Ctx
  BY DEF Ctx
<1> USE DEF GoTo, DoneInv, AbortPlaces
<1>1. ASSUME NEW c \in Ctx, NEW b \in Buf, NEW len \in 0 .. MaxLen,
             NEW t \in Timeouts, Tx(c, b, len, t)
      PROVE  DoneInv'
  <2>1. pc["handler"] # "notify"
    BY <1>1, NoTxWhileReporting DEF Tx
  <2>2. t = "forever"
    BY TxAssumption DEF NeverAborts
  <2>3. /\ pc'[c] = "tx_irq_enable" /\ \A d \in Ctx \ {c} : pc'[d] = pc[d]
        /\ \A d \in Ctx : tmo'[d] = "forever"
        /\ UNCHANGED <<armed, ev>>
    BY <1>1, <1>a, <2>2 DEF Tx, TypeOK
  <2> QED
    BY <1>b, <2>1, <2>3
<1>2. ASSUME NEW c \in Ctx, TxAbort(c)
      PROVE  FALSE
  BY <1>2 DEF TxAbort, MayCall, NeverAborts
<1>3. CASE TxTimeout
  BY <1>3 DEF TxTimeout
<1>4. ASSUME NEW c \in Ctx,
             TxTimerStart(c) \/ AbortTimerStop(c) \/ AbortIrqDisable(c)
               \/ AbortLock(c)
      PROVE  FALSE
  BY <1>4 DEF TxTimerStart, AbortTimerStop, AbortIrqDisable, AbortLock, At
<1>5. ASSUME NEW c \in Ctx, TxIrqEnable(c) \/ CallbackReturn(c) \/ Notify(c)
      PROVE  DoneInv'
  <2>1. /\ pc'[c] \in {"idle", "callback"} /\ \A d \in Ctx \ {c} : pc'[d] = pc[d]
        /\ UNCHANGED <<armed, tmo, tx>>
        /\ \A d \in Ctx \ {c} : ev'[d] = ev[d]
    BY <1>5, <1>a DEF TxIrqEnable, CallbackReturn, Notify, TypeOK
  <2> QED
    BY <1>b, <2>1
<1>6. ASSUME NEW n \in 0 .. FifoSize, OnTxReady(n)
      PROVE  DoneInv'
  <2>1. /\ pc'["handler"] = "check_complete"
        /\ \A d \in Ctx \ {"handler"} : pc'[d] = pc[d]
        /\ UNCHANGED <<armed, tmo, ev>>
    BY <1>6, <1>a, <1>b DEF OnTxReady
  <2> QED
    BY <1>b, <2>1
<1>7. CASE IrqHandler \/ CheckComplete \/ CompleteLeft \/ CompleteEnabled
             \/ CompleteIrqDisable
  <2>1. /\ pc'["handler"] \in {"idle", "fill", "complete_left",
                               "complete_enabled", "complete_irq_disable",
                               "complete_lock"}
        /\ \A d \in Ctx \ {"handler"} : pc'[d] = pc[d]
        /\ UNCHANGED <<armed, tmo, ev>>
    BY <1>7, <1>a, <1>b DEF IrqHandler, CheckComplete, CompleteLeft,
       CompleteEnabled, CompleteIrqDisable, AfterReady
  <2> QED
    BY <1>b, <2>1
<1>8. CASE CompleteLock
  <2>1. CASE tx.buf = NULL
    <3>1. /\ pc'["handler"] = "idle"
          /\ \A d \in Ctx \ {"handler"} : pc'[d] = pc[d]
          /\ UNCHANGED <<armed, tmo, ev>>
      BY <1>8, <1>a, <1>b, <2>1 DEF CompleteLock
    <3> QED
      BY <1>b, <3>1
  <2>2. CASE tx.buf # NULL
    <3>1. /\ pc'["handler"] = "notify" /\ tx'.buf = NULL
          /\ ev'["handler"].type = "TX_DONE"
          /\ \A d \in Ctx \ {"handler"} : pc'[d] = pc[d]
          /\ UNCHANGED <<armed, tmo>>
      BY <1>8, <1>a, <1>b, <2>2 DEF CompleteLock, TakeTransfer, TypeOK
    <3> QED
      BY <1>b, <3>1
  <2> QED
    BY <2>1, <2>2
<1>9. CASE Drain \/ UNCHANGED txVars
  BY <1>9 DEF Drain, txVars
<1> QED
  BY <1>1, <1>2, <1>3, <1>4, <1>5, <1>6, <1>7, <1>8, <1>9
     DEF Next, ClientCall, ApiStep, HandlerStep

\* The transfer that the promise is about.
Nothing == [buf |-> NULL, len |-> 0, sent |-> 0]

\* Where the promise finds its transfer: in the adapter, or in the event that
\* the handler is about to report.
LEMMA CurrentIs ==
  (\A c \in Ctx : pc[c] = "notify" => c = "handler") =>
    /\ tx.buf # NULL =>
         Current = [buf |-> tx.buf, len |-> lent[tx.buf], sent |-> tx.curr]
    /\ tx.buf = NULL /\ pc["handler"] = "notify" =>
         Current = [buf |-> ev["handler"].buf, len |-> lent[ev["handler"].buf],
                    sent |-> ev["handler"].len]
    /\ tx.buf = NULL /\ pc["handler"] # "notify" => Current = Nothing
<1> SUFFICES ASSUME \A c \in Ctx : pc[c] = "notify" => c = "handler"
             PROVE  /\ tx.buf # NULL =>
                         Current = [buf |-> tx.buf, len |-> lent[tx.buf],
                                    sent |-> tx.curr]
                    /\ tx.buf = NULL /\ pc["handler"] = "notify" =>
                         Current = [buf |-> ev["handler"].buf,
                                    len |-> lent[ev["handler"].buf],
                                    sent |-> ev["handler"].len]
                    /\ tx.buf = NULL /\ pc["handler"] # "notify" =>
                         Current = Nothing
  OBVIOUS
<1>1. pc["handler"] # "notify" => pendingIn = {}
  BY DEF pendingIn
<1>2. pc["handler"] = "notify" => pendingIn = {"handler"}
  BY DEF pendingIn, Ctx
<1>3. (CHOOSE d \in {"handler"} : TRUE) = "handler"
  OBVIOUS
<1>4. pc["handler"] = "notify" => (CHOOSE d \in pendingIn : TRUE) = "handler"
  BY <1>2, <1>3
<1> QED
  BY <1>1, <1>2, <1>4 DEF Current, Nothing

\* The same of the next state.
LEMMA CurrentIsNext ==
  ((\A c \in Ctx : pc[c] = "notify" => c = "handler") =>
    /\ tx.buf # NULL =>
         Current = [buf |-> tx.buf, len |-> lent[tx.buf], sent |-> tx.curr]
    /\ tx.buf = NULL /\ pc["handler"] = "notify" =>
         Current = [buf |-> ev["handler"].buf, len |-> lent[ev["handler"].buf],
                    sent |-> ev["handler"].len]
    /\ tx.buf = NULL /\ pc["handler"] # "notify" => Current = Nothing)'
BY CurrentIs, PTL

\* A step that leaves the transfer and the event about it alone.
LEMMA SameCurrent ==
  ASSUME DoneInv, DoneInv', tx'.buf = tx.buf, tx'.curr = tx.curr,
         UNCHANGED <<ev, lent>>, pc'["handler"] = "notify" <=> pc["handler"] = "notify"
  PROVE  Current' = Current
<1>1. \A c \in Ctx : pc[c] = "notify" => c = "handler"
  BY DEF DoneInv
<1>2. \A c \in Ctx : pc'[c] = "notify" => c = "handler"
  BY DEF DoneInv
<1>3. PICK o : o = Nothing
  OBVIOUS
<1>4. Nothing' = o
  BY <1>3 DEF Nothing
<1> QED
  BY <1>1, <1>2, <1>3, <1>4, CurrentIs, CurrentIsNext

\* Tx submits, a filling of the target's queue that takes bytes sends, the
\* report reports, and no other step touches what the promise is about.
LEMMA PromiseStep ==
  ASSUME NoPreemptingTx, NeverAborts, TypeOK, CursorInv, OwnInv, SentInv, DoneInv,
         TypeOK', CursorInv', OwnInv', DoneInv', [Next]_txVars
  PROVE  Promise!Next \/ Current' = Current
<1>a. pc \in [Ctx -> Labels] /\ ret \in [Ctx -> {"idle", "callback"}]
  BY DEF TypeOK
<1>b. "handler" \in Ctx
  BY DEF Ctx
<1>c. /\ \A c \in Ctx : pc[c] = "notify" => c = "handler"
      /\ \A c \in Ctx : pc'[c] = "notify" => c = "handler"
  BY DEF DoneInv
<1> USE DEF GoTo
<1>1. ASSUME NEW c \in Ctx, NEW b \in Buf, NEW len \in 0 .. MaxLen,
             NEW t \in Timeouts, Tx(c, b, len, t)
      PROVE  Promise!Next
  <2>1. pc["handler"] # "notify" /\ tx.buf = NULL
    BY <1>1, NoTxWhileReporting DEF Tx
  <2>2. Current = Nothing
    BY <1>c, <2>1, CurrentIs
  <2>3. len \in 1 .. MaxLen
    BY <1>1, TxAssumption DEF Tx
  <2>4. tx'.buf = b /\ tx'.curr = 0 /\ lent'[b] = len /\ b # NULL
    BY <1>1, TxAssumption DEF Tx, TypeOK
  <2>5. Current' = [buf |-> b, len |-> len, sent |-> 0]
    BY <1>c, <2>4, CurrentIsNext
  <2>6. Promise!Submit(b, len)
    BY <2>2, <2>5 DEF Promise!Submit, Promise!Idle, Nothing
  <2> QED
    BY <2>3, <2>6 DEF Promise!Next
<1>2. ASSUME NEW n \in 0 .. FifoSize, OnTxReady(n)
      PROVE  Promise!Next \/ Current' = Current
  <2>1. /\ tx'.buf = tx.buf /\ UNCHANGED <<ev, lent>>
        /\ pc["handler"] = "fill" /\ pc'["handler"] = "check_complete"
    BY <1>2, <1>a, <1>b DEF OnTxReady, At, TypeOK
  <2>2. CASE n = 0
    BY <1>2, <2>1, <2>2, SameCurrent DEF OnTxReady
  <2>3. CASE n # 0
    <3>0. /\ tx' = [tx EXCEPT !.curr = @ + n, !.left = @ - n]
          /\ n <= tx.left
      BY <1>2, <2>3 DEF OnTxReady
    <3>a. n \in Nat /\ n > 0
      BY <2>3, TxAssumption
    <3>b. tx'.curr = tx.curr + n
      BY <3>0 DEF TypeOK
    <3>1. tx'.curr = tx.curr + n /\ n <= tx.left /\ n \in Nat /\ n > 0
      BY <3>0, <3>a, <3>b
    <3>2. tx.buf \in Buf /\ tx.buf # NULL /\ tx.curr \in Nat /\ tx.left \in Nat
      BY <3>1 DEF TypeOK, CursorInv
    <3>3. tx.curr + tx.left = lent[tx.buf] /\ lent[tx.buf] \in 0 .. MaxLen
      BY <3>2 DEF SentInv, TypeOK
    <3>4. /\ n \in 1 .. MaxLen /\ tx.curr + n <= lent[tx.buf]
      BY <3>1, <3>2, <3>3, TxAssumption
    <3>5. PICK b, l, s : b = tx.buf /\ l = lent[tx.buf] /\ s = tx.curr
      OBVIOUS
    <3>6. Current = [buf |-> b, len |-> l, sent |-> s]
      BY <1>c, <3>2, <3>5, CurrentIs
    <3>7. Current' = [buf |-> b, len |-> l, sent |-> s + n]
      BY <1>c, <2>1, <3>1, <3>2, <3>5, CurrentIsNext
    <3>8. Current' = [Current EXCEPT !.sent = @ + n]
      BY <3>6, <3>7
    <3>9. Current # Nothing /\ Current.sent + n <= Current.len
      BY <3>2, <3>4, <3>5, <3>6 DEF Nothing
    <3>10. Promise!Send(n)
      BY <3>1, <3>8, <3>9 DEF Promise!Send, Promise!Idle, Nothing
    <3> QED
      BY <3>4, <3>10 DEF Promise!Next
  <2> QED
    BY <2>2, <2>3
<1>3. CASE CompleteLock
  <2>1. pc["handler"] = "complete_lock" /\ UNCHANGED lent
    BY <1>3 DEF CompleteLock, At
  <2>2. CASE tx.buf = NULL
    BY <1>3, <1>a, <1>b, <2>1, <2>2, SameCurrent DEF CompleteLock
  <2>3. CASE tx.buf # NULL
    <3>1. /\ tx'.buf = NULL /\ pc'["handler"] = "notify"
          /\ ev'["handler"].buf = tx.buf /\ ev'["handler"].len = tx.curr
      BY <1>3, <1>a, <1>b, <2>3 DEF CompleteLock, TakeTransfer, TypeOK
    <3>2. PICK b, l, s : b = tx.buf /\ l = lent[tx.buf] /\ s = tx.curr
      OBVIOUS
    <3>3. Current = [buf |-> b, len |-> l, sent |-> s]
      BY <1>c, <2>3, <3>2, CurrentIs
    <3>4. Current' = [buf |-> b, len |-> l, sent |-> s]
      BY <1>c, <2>1, <3>1, <3>2, CurrentIsNext
    <3> QED
      BY <3>3, <3>4
  <2> QED
    BY <2>2, <2>3
<1>4. ASSUME NEW c \in Ctx, Notify(c)
      PROVE  Promise!Next
  <2>1. c = "handler" /\ pc["handler"] = "notify" /\ tx.buf = NULL
        /\ ev["handler"].type = "TX_DONE"
    BY <1>4, <1>c DEF Notify, At, DoneInv
  <2>2. /\ ev["handler"].len = lent[ev["handler"].buf]
        /\ ev["handler"].buf \in Buf
    BY <1>b, <2>1 DEF SentInv, OwnInv
  <2>3. tx'.buf = NULL /\ pc'["handler"] = "callback"
    BY <1>4, <1>a, <2>1 DEF Notify
  <2>4. Current = [buf |-> ev["handler"].buf, len |-> lent[ev["handler"].buf],
                   sent |-> ev["handler"].len]
    BY <1>c, <2>1, CurrentIs
  <2>5. Current' = Nothing
    <3>1. PICK o : o = Nothing
      OBVIOUS
    <3>2. Nothing' = o
      BY <3>1 DEF Nothing
    <3> QED
      BY <1>c, <2>3, <3>1, <3>2, CurrentIsNext
  <2>6. Current.sent = Current.len /\ Current.buf # NULL
    BY <2>2, <2>4, TxAssumption
  <2>7. Promise!Report
    BY <2>5, <2>6 DEF Promise!Report, Promise!Idle, Nothing
  <2> QED
    BY <2>7 DEF Promise!Next
<1>5. ASSUME NEW c \in Ctx, TxIrqEnable(c) \/ CallbackReturn(c)
      PROVE  Current' = Current
  <2>1. pc[c] \in {"tx_irq_enable", "callback"} /\ pc'[c] \in {"idle", "callback"}
    BY <1>5, <1>a, <1>c DEF TxIrqEnable, CallbackReturn, At, DoneInv
  <2>2. \A d \in Ctx \ {c} : pc'[d] = pc[d]
    BY <1>5, <1>a DEF TxIrqEnable, CallbackReturn
  <2> QED
    BY <1>5, <1>b, <2>1, <2>2, SameCurrent DEF TxIrqEnable, CallbackReturn
<1>6. CASE IrqHandler \/ CheckComplete \/ CompleteLeft \/ CompleteEnabled
             \/ CompleteIrqDisable
  <2>1. /\ pc["handler"] # "notify" /\ pc'["handler"] # "notify"
        /\ tx'.buf = tx.buf /\ tx'.curr = tx.curr /\ UNCHANGED <<ev, lent>>
    BY <1>6, <1>a, <1>b DEF IrqHandler, CheckComplete, CompleteLeft,
       CompleteEnabled, CompleteIrqDisable, AfterReady, At, TypeOK
  <2> QED
    BY <2>1, SameCurrent
<1>7. ASSUME NEW c \in Ctx,
             TxAbort(c) \/ TxTimerStart(c) \/ AbortTimerStop(c)
               \/ AbortIrqDisable(c) \/ AbortLock(c) \/ TxTimeout
      PROVE  FALSE
  BY <1>7 DEF TxAbort, MayCall, NeverAborts, TxTimerStart, AbortTimerStop,
     AbortIrqDisable, AbortLock, TxTimeout, At, DoneInv, AbortPlaces
<1>8. CASE Drain \/ UNCHANGED txVars
  BY <1>8, SameCurrent DEF Drain, txVars
<1> QED
  BY <1>b, <1>1, <1>2, <1>3, <1>4, <1>5, <1>6, <1>7, <1>8
     DEF Next, ClientCall, ApiStep, HandlerStep

\* What NusBridge assumes of its transmitter the adapter does, for a client
\* that never aborts and keeps tx() out of the reach of a preempting timer: one
\* transfer at a time, its bytes in order, reported when all are out.  It is
\* the safety part of ImplementsPromise.
THEOREM KeepsPromise ==
  ASSUME NoPreemptingTx, NeverAborts
  PROVE  Spec => Promise!Init /\ [][Promise!Next]_Current
<1>1. Init => OwnInv /\ SentInv /\ DoneInv
  BY DEF Init, OwnInv, SentInv, DoneInv, Completing, AbortPlaces, Ctx
<1>2. TypeOK /\ CursorInv /\ OwnInv /\ SentInv /\ DoneInv /\ [Next]_txVars
        => OwnInv' /\ SentInv' /\ DoneInv'
  BY OwnStep, SentStep, DoneStep
<1>3. Spec => [](TypeOK /\ CursorInv /\ OwnInv /\ SentInv /\ DoneInv)
  BY <1>1, <1>2, TypeCorrect, PTL DEF Spec
<1>4. Init => Promise!Init
  <2> SUFFICES ASSUME Init PROVE Promise!Init
    OBVIOUS
  <2>1. tx.buf = NULL /\ \A c \in Ctx : pc[c] = "idle"
    BY DEF Init
  <2>2. Current = Nothing
    BY <2>1, CurrentIs DEF Ctx
  <2> QED
    BY <2>2 DEF Promise!Init, Promise!Idle, Nothing
<1>5. TypeOK /\ CursorInv /\ OwnInv /\ SentInv /\ DoneInv
        /\ (TypeOK /\ CursorInv /\ OwnInv /\ SentInv /\ DoneInv)' /\ [Next]_txVars
        => [Promise!Next]_Current
  BY PromiseStep
<1> QED
  BY <1>3, <1>4, <1>5, PTL DEF Spec
=============================================================================
