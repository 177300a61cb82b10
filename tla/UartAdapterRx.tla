--------------------------- MODULE UartAdapterRx ---------------------------
(***************************************************************************)
(* Receive half of the UART asynchronous API adapter                       *)
(* (peripheral_uart_beacon/src/uart_async_adapter.c): rx_enable(),         *)
(* rx_buf_rsp(), rx_disable(), the receive part of uart_irq_handler() and  *)
(* rx_timeout().  A region under data->lock, and each access outside it,   *)
(* is one step; callbacks are made outside the lock and may call the API.  *)
(*                                                                         *)
(* Every context has a stack of frames, the innermost first: what it still *)
(* has to do.  A function that calls others is its frames in order.        *)
(*                                                                         *)
(* The client is the discipline of uart_cb() in main.c: it disables        *)
(* reception only in the callback of UART_RX_RDY and not again until       *)
(* UART_RX_DISABLED, enables it only while it is disabled (in that         *)
(* callback, or later from a thread when no buffer was at hand), and       *)
(* provides a buffer only when asked for one, if it has any.               *)
(***************************************************************************)
EXTENDS Preemption, Sequences

CONSTANTS
  Buf,        \* receive buffers of the client
  BufLen,     \* size of each
  FifoSize,   \* bytes the target UART holds
  Timeouts,   \* subset of {"forever", "zero", "finite"} given to rx_enable()
  NULL        \* the null pointer

ASSUME RxAssumption ==
  /\ BufLen \in Nat \ {0}
  /\ FifoSize \in Nat \ {0}
  /\ Timeouts \subseteq {"forever", "zero", "finite"}
  /\ NULL \notin Buf
  /\ NULL \notin Nat

VARIABLES
  rx,       \* data->rx; curr and last are offsets in buf
  irq,      \* the target's RX interrupt is enabled
  armed,    \* data->rx.timeout_timer is running
  fifo,     \* bytes in the target's receive queue
  stack,    \* the frames of each context
  active,   \* client: it has enabled reception and was not told it ended
  asked,    \* client: disable_req, it has asked for the end of reception
  lent,     \* client: the buffers it has given to the adapter
  got,      \* client: bytes reported to it in each of them
  prompt    \* timing: the timer never expires within the handler run that
            \* armed it (chosen once: a run of the system has it or not)

clientVars == <<active, asked, lent, got, prompt>>
rxVars == <<rx, irq, armed, fifo, stack, clientVars>>

\* The calls of the user callback: UART_RX_RDY with the offset and length of
\* the new data, UART_RX_BUF_RELEASED (len bytes were stored in the buffer),
\* UART_RX_BUF_REQUEST and UART_RX_DISABLED.
Events == {"RX_RDY", "RX_BUF_RELEASED", "RX_BUF_REQUEST", "RX_DISABLED"}

Points == {"enable_irq", "disable_irq", "disable_loop", "notify", "switch",
           "rdy_timer", "rdy_loop", "rdy_read"} \cup Events

\* flag is notify_now in on_rx_ready() and request_new in
\* switch_rx_buffer(); type names the event a callback is in.
Frame == [at : Points \cup {"callback"}, type : Events \cup {"none"},
          buf : Buf \cup {NULL}, off : Nat, len : Nat, flag : BOOLEAN]

Do(point) == [at |-> point, type |-> "none", buf |-> NULL, off |-> 0,
              len |-> 0, flag |-> FALSE]
DoIf(point, flag) == [Do(point) EXCEPT !.flag = flag]
Event(type, buf, off, len) ==
  [at |-> type, type |-> type, buf |-> buf, off |-> off, len |-> len,
   flag |-> FALSE]

TypeOK ==
  /\ rx \in [buf : Buf \cup {NULL}, curr : Nat \cup {NULL},
             last : Nat \cup {NULL}, left : Nat,
             next : Buf \cup {NULL}, nextLen : Nat,
             timeout : {"forever", "zero", "finite"}, enabled : BOOLEAN]
  /\ irq \in BOOLEAN
  /\ armed \in BOOLEAN
  /\ fifo \in 0 .. FifoSize
  /\ stack \in [Ctx -> Seq(Frame)]
  /\ active \in BOOLEAN
  /\ asked \in BOOLEAN
  /\ lent \subseteq Buf
  /\ got \in [Buf -> Nat]
  /\ prompt \in BOOLEAN

Init ==
  /\ rx = [buf |-> NULL, curr |-> NULL, last |-> NULL, left |-> 0,
           next |-> NULL, nextLen |-> 0, timeout |-> "zero",
           enabled |-> FALSE]
  /\ irq = FALSE
  /\ armed = FALSE
  /\ fifo = 0
  /\ stack = [c \in Ctx |-> <<>>]
  /\ active = FALSE
  /\ asked = FALSE
  /\ lent = {}
  /\ got = [b \in Buf |-> 0]
  /\ prompt \in BOOLEAN

Running == {c \in Ctx : stack[c] # <<>>}

\* Context c is about to do what its innermost frame says.
At(c, point) ==
  /\ stack[c] # <<>>
  /\ Head(stack[c]).at = point
  /\ MayStep(c, Running)

Top(c) == Head(stack[c])

\* The innermost frame of c is done, and the frames of seq come in its place.
Continue(c, seq) == stack' = [stack EXCEPT ![c] = seq \o Tail(@)]

\* c calls a function whose remaining work is seq.
Call(c, seq) == stack' = [stack EXCEPT ![c] = seq \o @]

InCallback(c, type) == At(c, "callback") /\ Top(c).type = type
---------------------------------------------------------------------------
(* rx_enable(), rx_buf_rsp(), rx_disable() *)

\* The locked region of rx_enable().  It answers -EBUSY when the adapter has
\* a buffer already, and takes the new one all the same.
RxEnable(c, b, t) ==
  /\ ~active
  /\ \/ InCallback(c, "RX_DISABLED")
     \/ c = "thread" /\ stack[c] = <<>> /\ MayStart(c, Running)
  /\ b \notin lent
  /\ rx' = [rx EXCEPT !.buf = NULL, !.curr = NULL, !.left = 0,
                      !.next = b, !.nextLen = BufLen,
                      !.timeout = t, !.enabled = TRUE]
  /\ active' = TRUE
  /\ lent' = lent \cup {b}
  /\ got' = [got EXCEPT ![b] = 0]
  /\ Call(c, <<Do("enable_irq")>>)
  /\ UNCHANGED <<irq, armed, fifo, asked, prompt>>

RxEnableIrq(c) ==
  /\ At(c, "enable_irq")
  /\ irq' = TRUE
  /\ Continue(c, <<>>)
  /\ UNCHANGED <<rx, armed, fifo, clientVars>>

\* The client answers a request for a buffer, if it has one, once: the answer
\* ends its callback.  A request that comes when reception has ended (it did
\* in a callback of the interrupted handler run) finds it without: the heap
\* that had no block for UART_RX_DISABLED has none yet, as no thread runs
\* before the handler is done.
RxBufRsp(c, b) ==
  /\ InCallback(c, "RX_BUF_REQUEST")
  /\ active
  /\ b \notin lent
  /\ rx' = IF rx.next # NULL
             THEN rx                                          \* -EBUSY
             ELSE [rx EXCEPT !.next = b, !.nextLen = BufLen]
  /\ lent' = lent \cup {b}
  /\ got' = [got EXCEPT ![b] = 0]
  /\ Continue(c, <<>>)
  /\ UNCHANGED <<irq, armed, fifo, active, asked, prompt>>

RxDisableIrqLast(c) ==                             \* a mutant of RxDisable
  /\ InCallback(c, "RX_RDY")
  /\ ~asked
  /\ asked' = TRUE
  /\ rx' = [rx EXCEPT !.enabled = FALSE]
  /\ Continue(c, <<Do("disable_loop"), Do("disable_irq")>>)
  /\ UNCHANGED <<irq, armed, fifo, active, lent, got, prompt>>

\* Here too the call is the last thing the client's callback does.
RxDisable(c) ==
  /\ InCallback(c, "RX_RDY")
  /\ ~asked
  /\ asked' = TRUE
  /\ rx' = [rx EXCEPT !.enabled = FALSE]
  /\ Continue(c, <<Do("disable_irq"), Do("disable_loop")>>)
  /\ UNCHANGED <<irq, armed, fifo, active, lent, got, prompt>>

RxDisableIrq(c) ==
  /\ At(c, "disable_irq")
  /\ irq' = FALSE
  /\ Continue(c, <<>>)
  /\ UNCHANGED <<rx, armed, fifo, clientVars>>

RxDisableOnce(c) ==                            \* a mutant of RxDisableLoop
  /\ At(c, "disable_loop")
  /\ Continue(c, (IF rx.buf # NULL THEN <<DoIf("switch", FALSE)>> ELSE <<>>)
                   \o <<Event("RX_DISABLED", NULL, 0, 0)>>)
  /\ UNCHANGED <<rx, irq, armed, fifo, clientVars>>

\* while (data->rx.buf) switch_rx_buffer(dev, false); then the last event.
RxDisableLoop(c) ==
  /\ At(c, "disable_loop")
  /\ Continue(c, IF rx.buf # NULL
                   THEN <<DoIf("switch", FALSE), Do("disable_loop")>>
                   ELSE <<Event("RX_DISABLED", NULL, 0, 0)>>)
  /\ UNCHANGED <<rx, irq, armed, fifo, clientVars>>
---------------------------------------------------------------------------
(* notify_rx_buffer() and switch_rx_buffer() *)

NotNoted == rx                                                \* a mutant

Notified == [rx EXCEPT !.last = rx.curr]

NotifyRxBuffer(c) ==
  /\ At(c, "notify")
  /\ IF rx.buf # NULL /\ rx.curr > rx.last
       THEN /\ rx' = Notified
            /\ Continue(c, <<Event("RX_RDY", rx.buf, rx.last,
                                   rx.curr - rx.last)>>)
       ELSE Continue(c, <<>>) /\ UNCHANGED rx
  /\ UNCHANGED <<irq, armed, fifo, clientVars>>

\* Two mutants of Switched: they forget to reset a field.
SwitchedKeepingLen(start) ==
  [rx EXCEPT !.buf = rx.next, !.curr = start, !.last = start,
             !.left = rx.nextLen, !.next = NULL]

SwitchedKeepingNext(start) ==
  [rx EXCEPT !.buf = rx.next, !.curr = start, !.last = start,
             !.left = rx.nextLen, !.nextLen = 0]

Switched(start) ==
  [rx EXCEPT !.buf = rx.next, !.curr = start, !.last = start,
             !.left = rx.nextLen, !.next = NULL, !.nextLen = 0]

SwitchRxBuffer(c) ==
  /\ At(c, "switch")
  /\ LET start == IF rx.next = NULL THEN NULL ELSE 0
         release == IF rx.buf = NULL THEN <<>>
                      ELSE <<Event("RX_BUF_RELEASED", rx.buf, 0, rx.curr)>>
         request == IF Top(c).flag
                      THEN <<Event("RX_BUF_REQUEST", NULL, 0, 0)>>
                      ELSE <<>>
     IN  /\ rx' = Switched(start)
         /\ Continue(c, release \o request)
  /\ UNCHANGED <<irq, armed, fifo, clientVars>>
---------------------------------------------------------------------------
(* uart_irq_handler(), receive part, and rx_timeout() *)

IrqHandler ==
  /\ stack["handler"] = <<>>
  /\ MayStart("handler", Running)
  /\ rx.enabled
  /\ irq /\ fifo > 0                                   \* uart_irq_rx_ready()
  /\ Call("handler", <<Do("rdy_timer"), Do("rdy_loop")>>)
  /\ UNCHANGED <<rx, irq, armed, fifo, clientVars>>

TimerNotRestarted ==                            \* a mutant of RxReadyTimer
  /\ At("handler", "rdy_timer")
  /\ Continue("handler", <<>>)
  /\ UNCHANGED <<rx, irq, armed, fifo, clientVars>>

RxReadyTimer ==
  /\ At("handler", "rdy_timer")
  /\ armed' = (armed \/ rx.timeout # "forever")
  /\ Continue("handler", <<>>)
  /\ UNCHANGED <<rx, irq, fifo, clientVars>>

\* What uart_fifo_read() returns when there is room for rx.left bytes.
ReadLen == IF fifo < rx.left THEN fifo ELSE rx.left

\* The second half of the loop's body, under the lock: without a buffer all
\* that the target holds is dropped and the loop ends, otherwise what fits
\* is read, and the loop goes on until nothing was.
ReadOrDrop(notifyNow) ==
  IF rx.left = 0
    THEN /\ fifo' = 0
         /\ Continue("handler", IF notifyNow THEN <<Do("notify")>> ELSE <<>>)
         /\ UNCHANGED rx
    ELSE LET n == ReadLen
             now == notifyNow \/ rx.timeout = "zero"
         IN  /\ rx' = [rx EXCEPT !.curr = @ + n, !.left = @ - n]
             /\ fifo' = fifo - n
             /\ Continue("handler",
                         IF n > 0 THEN <<DoIf("rdy_loop", now)>>
                         ELSE IF now THEN <<Do("notify")>>
                         ELSE <<>>)

RxReadyLoop ==
  /\ At("handler", "rdy_loop")
  /\ IF rx.left = 0
       THEN /\ Continue("handler", <<Do("notify"), DoIf("switch", TRUE),
                                     DoIf("rdy_read", FALSE)>>)
            /\ UNCHANGED <<rx, fifo>>
       ELSE ReadOrDrop(Top("handler").flag)
  /\ UNCHANGED <<irq, armed, clientVars>>

RxReadyRead ==
  /\ At("handler", "rdy_read")
  /\ ReadOrDrop(Top("handler").flag)
  /\ UNCHANGED <<irq, armed, clientVars>>

RxTimeout ==
  /\ armed
  /\ stack["timer"] = <<>>
  /\ MayStart("timer", Running)
  /\ prompt => stack["handler"] = <<>>
  /\ armed' = FALSE
  /\ Call("timer", <<Do("notify")>>)
  /\ UNCHANGED <<rx, irq, fifo, clientVars>>
---------------------------------------------------------------------------
(* user_callback(): what the client notes of each event *)

Deliver(c) ==
  /\ \E type \in Events : At(c, type)
  /\ LET e == Top(c) IN
     /\ CASE e.type = "RX_RDY" ->
               /\ got' = [got EXCEPT ![e.buf] = @ + e.len]
               /\ UNCHANGED <<active, asked, lent, prompt>>
          [] e.type = "RX_BUF_RELEASED" ->
               /\ lent' = lent \ {e.buf}
               /\ UNCHANGED <<active, asked, got, prompt>>
          [] e.type = "RX_DISABLED" ->
               /\ active' = FALSE
               /\ asked' = FALSE
               /\ UNCHANGED <<lent, got, prompt>>
          [] e.type = "RX_BUF_REQUEST" -> UNCHANGED clientVars
     /\ Continue(c, <<[Do("callback") EXCEPT !.type = e.type]>>)
  /\ UNCHANGED <<rx, irq, armed, fifo>>

CallbackReturn(c) ==
  /\ At(c, "callback")
  /\ Continue(c, <<>>)
  /\ UNCHANGED <<rx, irq, armed, fifo, clientVars>>

\* A byte comes in from the line.
Receive ==
  /\ fifo < FifoSize
  /\ fifo' = fifo + 1
  /\ UNCHANGED <<rx, irq, armed, stack, clientVars>>
---------------------------------------------------------------------------
ClientCall(c) ==
  \/ \E b \in Buf, t \in Timeouts : RxEnable(c, b, t)
  \/ \E b \in Buf : RxBufRsp(c, b)
  \/ RxDisable(c)

ApiStep(c) ==
  \/ RxEnableIrq(c)
  \/ RxDisableIrq(c)
  \/ RxDisableLoop(c)
  \/ NotifyRxBuffer(c)
  \/ SwitchRxBuffer(c)
  \/ Deliver(c)
  \/ CallbackReturn(c)

HandlerStep == RxReadyTimer \/ RxReadyLoop \/ RxReadyRead

Next ==
  \/ \E c \in Ctx : ClientCall(c) \/ ApiStep(c)
  \/ HandlerStep
  \/ IrqHandler
  \/ RxTimeout
  \/ Receive

Spec == Init /\ [][Next]_rxVars

\* All the adapter's steps are taken, the interrupt is served and the timer
\* expires; nothing makes bytes come in.
Fairness ==
  /\ \A c \in Ctx : SF_rxVars(ApiStep(c))
  /\ WF_rxVars(HandlerStep)
  /\ WF_rxVars(IrqHandler)
  /\ SF_rxVars(RxTimeout)

FairSpec == Spec /\ Fairness
---------------------------------------------------------------------------
(* Properties *)

\* The __ASSERT_NO_MSGs of notify_rx_buffer() (lines 77 and 78), of
\* rx_buf_rsp() (line 245) and of on_rx_ready() (line 483) never fire.
AssertionsHold ==
  /\ rx.buf # NULL =>
       rx.curr # NULL /\ rx.last # NULL /\ rx.curr >= rx.last
  /\ rx.next = NULL => rx.nextLen = 0
  /\ rx.left > 0 => rx.buf # NULL /\ rx.curr + rx.left = BufLen

FramesOf(c) == {stack[c][i] : i \in DOMAIN stack[c]}
Pending(type) == {e \in UNION {FramesOf(c) : c \in Ctx} : e.at = type}

\* Every UART_RX_RDY, also one overtaken by a preempting context after the
\* lock was released, is about a buffer the client has not got back, starts
\* where the last report of that buffer ended, and stays inside it.
ReportsContiguous ==
  \A e \in Pending("RX_RDY") :
    e.buf \in lent /\ e.off = got[e.buf] /\ e.off + e.len <= BufLen

\* Where the adapter keeps buffer b.
Holds(b) ==
  (IF rx.buf = b THEN {"buf"} ELSE {})
    \cup (IF rx.next = b THEN {"next"} ELSE {})
    \cup {c \in Ctx : \E e \in FramesOf(c) :
                         e.at = "RX_BUF_RELEASED" /\ e.buf = b}

\* The client's receive buffers are neither lost nor given back twice: one
\* that it has lent is in exactly one place until its release, which comes
\* only when all that was stored in it was reported, so that neither a full
\* buffer nor the end of reception loses received bytes.  Once the
\* client was told that reception ended the adapter has none of them, so that
\* the next rx_enable() cannot be refused.
GivenBackOnce ==
  /\ \A e \in Pending("RX_BUF_RELEASED") : e.len = got[e.buf]
  /\ \A b \in Buf :
       /\ b \notin lent => Holds(b) = {}
       /\ b \in lent => \E h \in {"buf", "next"} \cup Ctx : Holds(b) = {h}
  /\ ~active => rx.buf = NULL /\ rx.next = NULL

\* When no context is inside the adapter, the receiver and its interrupt are
\* on exactly while the client believes reception to be enabled, whatever
\* the order in which nested calls switched them.
ReceiverFollowsClient == Running = {} => (active <=> rx.enabled /\ irq)

\* With a timeout every byte stored is reported or its buffer given back,
\* unless the handler is held up for as long as the timeout is.
BytesReported ==
  prompt /\ rx.buf # NULL /\ rx.curr > rx.last /\ rx.timeout # "forever"
    ~> rx.buf = NULL \/ rx.curr = rx.last
---------------------------------------------------------------------------
(* Refinement                                                              *)

\* What the client has lent, in the order in which it will get it back: a
\* buffer whose release is under way comes before those in data->rx.
Released ==
  IF Pending("RX_BUF_RELEASED") = {}
    THEN NULL
    ELSE (CHOOSE e \in Pending("RX_BUF_RELEASED") : TRUE).buf
Or(b, c) == IF b # NULL THEN b ELSE c

Current == Or(Released, Or(rx.buf, rx.next))

Following ==
  IF Released # NULL THEN Or(rx.buf, rx.next)
  ELSE IF rx.buf # NULL THEN rx.next
  ELSE NULL

\* The receiver as the client knows it from the events it was told.
Promised ==
  [state |-> IF ~active THEN "off" ELSE IF asked THEN "stopping" ELSE "on",
   cur   |-> Current,
   next  |-> Following,
   count |-> IF Current = NULL THEN 0 ELSE got[Current]]

Promise == INSTANCE AsyncRx WITH rx <- Promised

\* For a client like uart_cb() the adapter implements the promise that the
\* NUS bridge relies on, however handler, timer and callbacks are nested: the
\* buffers are filled one after the other and given back in the order they
\* were lent, a full one or all of them at the end; nothing is reported of a
\* buffer whose turn it is not; and the end of reception comes when it was
\* asked for, after the last buffer.
ImplementsPromise == Promise!Spec
=============================================================================
