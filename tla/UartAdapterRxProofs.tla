------------------------ MODULE UartAdapterRxProofs ------------------------
(***************************************************************************)
(* What holds of the receive half of the adapter for every set of buffers, *)
(* buffer size, queue size and preemption.                                 *)
(*                                                                         *)
(* The invariant Inv has five parts.  TypeOK; RxInv, how the fields of     *)
(* data->rx belong together; StackInv, which frame may lie on which, in    *)
(* every context; DataInv, what ties the client's view to data->rx; and    *)
(* WorkInv: at most one context is anywhere but at the start of a          *)
(* notification or between two runs of the handler's loop, and what that   *)
(* one is about to do says how far reception has been switched (Settled    *)
(* or Ending) and where each buffer is.  From it follow the properties of  *)
(* UartAdapterRx, and that every step is one of AsyncRx or unseen by the   *)
(* client.                                                                 *)
(***************************************************************************)
EXTENDS UartAdapterRx, SequenceTheorems, TLAPS

\* The pointers, counts and buffers of data->rx belong together.
CursorInv ==
  /\ rx.buf = NULL => rx.left = 0
  /\ rx.buf # NULL =>
       /\ rx.curr \in Nat /\ rx.last \in Nat /\ rx.left \in Nat
       /\ rx.last <= rx.curr
       /\ rx.curr + rx.left = BufLen
  /\ rx.next = NULL => rx.nextLen = 0
  /\ rx.next # NULL => rx.nextLen = BufLen

\* rx is a record with these fields.
RxRecord == rx = [buf |-> rx.buf, curr |-> rx.curr, last |-> rx.last,
                  left |-> rx.left, next |-> rx.next, nextLen |-> rx.nextLen,
                  timeout |-> rx.timeout, enabled |-> rx.enabled]

RxInv == RxRecord /\ CursorInv /\ fifo \in Nat

\* Every step keeps them.
LEMMA CursorStep == RxInv /\ [Next]_rxVars => RxInv'
<1> SUFFICES ASSUME RxInv, [Next]_rxVars
             PROVE  RxInv'
  OBVIOUS
<1> USE RxAssumption DEF RxInv, CursorInv, RxRecord
<1>1. ASSUME NEW c \in Ctx, NEW b \in Buf, NEW t \in Timeouts, RxEnable(c, b, t)
      PROVE  RxInv'
  BY <1>1 DEF RxEnable
<1>2. ASSUME NEW c \in Ctx, NEW b \in Buf, RxBufRsp(c, b)
      PROVE  RxInv'
  BY <1>2 DEF RxBufRsp
<1>3. ASSUME NEW c \in Ctx, RxDisable(c)
      PROVE  RxInv'
  BY <1>3 DEF RxDisable
<1>4. ASSUME NEW c \in Ctx,
             RxEnableIrq(c) \/ RxDisableIrq(c) \/ RxDisableLoop(c)
               \/ Deliver(c) \/ CallbackReturn(c)
      PROVE  RxInv'
  BY <1>4 DEF RxEnableIrq, RxDisableIrq, RxDisableLoop, Deliver, CallbackReturn
<1>5. ASSUME NEW c \in Ctx, NotifyRxBuffer(c)
      PROVE  RxInv'
  <2>1. CASE rx.buf # NULL /\ rx.curr > rx.last
    <3>1. rx' = [buf |-> rx.buf, curr |-> rx.curr, last |-> rx.curr,
                 left |-> rx.left, next |-> rx.next,
                 nextLen |-> rx.nextLen, timeout |-> rx.timeout,
                 enabled |-> rx.enabled] /\ fifo' = fifo
      BY <1>5, <2>1 DEF NotifyRxBuffer, Notified
    <3> QED
      BY <2>1, <3>1
  <2>2. CASE ~(rx.buf # NULL /\ rx.curr > rx.last)
    BY <1>5, <2>2 DEF NotifyRxBuffer
  <2> QED
    BY <2>1, <2>2
<1>6. ASSUME NEW c \in Ctx, SwitchRxBuffer(c)
      PROVE  RxInv'
  <2> DEFINE start == IF rx.next = NULL THEN NULL ELSE 0
  <2>1. rx' = [buf |-> rx.next, curr |-> start, last |-> start,
               left |-> rx.nextLen, next |-> NULL, nextLen |-> 0,
               timeout |-> rx.timeout, enabled |-> rx.enabled]
        /\ fifo' = fifo
    BY <1>6 DEF SwitchRxBuffer, Switched
  <2>2. CASE rx.next = NULL
    BY <2>1, <2>2
  <2>3. CASE rx.next # NULL
    BY <2>1, <2>3
  <2> QED
    BY <2>2, <2>3
<1>7. ASSUME NEW now, ReadOrDrop(now)
      PROVE  RxInv'
  <2>1. CASE rx.left = 0
    BY <1>7, <2>1 DEF ReadOrDrop
  <2>2. CASE rx.left # 0
    <3> DEFINE n == IF fifo < rx.left THEN fifo ELSE rx.left
    <3>1. rx.buf # NULL /\ rx.left \in Nat /\ rx.curr \in Nat
      BY <2>2
    <3>2. n \in Nat /\ n <= rx.left /\ n <= fifo
      BY <3>1
    <3>3. /\ rx' = [rx EXCEPT !.curr = @ + n, !.left = @ - n]
          /\ fifo' = fifo - n
      BY <1>7, <2>2 DEF ReadOrDrop, ReadLen
    <3> HIDE DEF n
    <3>4. rx' = [buf |-> rx.buf, curr |-> rx.curr + n, last |-> rx.last,
                 left |-> rx.left - n, next |-> rx.next,
                 nextLen |-> rx.nextLen, timeout |-> rx.timeout,
                 enabled |-> rx.enabled]
      BY <3>3
    <3>5. /\ rx.curr + n \in Nat /\ rx.left - n \in Nat /\ fifo' \in Nat
          /\ (rx.curr + n) + (rx.left - n) = BufLen
          /\ rx.last <= rx.curr + n
      BY <3>1, <3>2, <3>3
    <3> QED
      BY <3>1, <3>4, <3>5
  <2> QED
    BY <2>1, <2>2
<1>8. CASE RxReadyLoop
  BY <1>8, <1>7 DEF RxReadyLoop
<1>9. CASE RxReadyRead
  BY <1>9, <1>7 DEF RxReadyRead
<1>10. CASE RxReadyTimer \/ IrqHandler \/ RxTimeout \/ UNCHANGED rxVars
  BY <1>10 DEF RxReadyTimer, IrqHandler, RxTimeout, rxVars
<1>11. CASE Receive
  BY <1>11 DEF Receive
<1> QED
  BY <1>1, <1>2, <1>3, <1>4, <1>5, <1>6, <1>8, <1>9, <1>10, <1>11
     DEF Next, ClientCall, ApiStep, HandlerStep

\* The assertions of the receive functions never fire, for every preemption,
\* buffer size and timeout.
THEOREM AssertionsNeverFire == Spec => []AssertionsHold
<1>1. Init => RxInv
  BY RxAssumption DEF Init, RxInv, CursorInv, RxRecord
<1>2. RxInv => AssertionsHold
  BY RxAssumption DEF RxInv, CursorInv, AssertionsHold
<1> QED
  BY <1>1, <1>2, CursorStep, PTL DEF Spec
---------------------------------------------------------------------------
(* Stacks of frames *)

\* The frames of a stack: what a context does now (the innermost frame, or
\* Bottom) and after it.
Bottom == [at |-> "bottom"]

First(s) == IF s = <<>> THEN Bottom ELSE Head(s)
Second(s) == IF s = <<>> THEN Bottom ELSE First(Tail(s))
Frames(s) == {s[i] : i \in DOMAIN s}

\* The switch of on_rx_ready().
SwitchesFull(f) == f.at = "switch" /\ f.flag

\* f is the callback of this event.
InEvent(f, type) == f.at = "callback" /\ f.type = type

\* What may lie below a frame: each function of the adapter is called where the
\* source calls it, and returns there.
Fits(f, g) ==
  LET atEnd == g.at = "bottom" \/ SwitchesFull(g)
  IN  /\ f.at = "rdy_timer" => g.at = "rdy_loop"
      /\ f.at \in {"rdy_loop", "rdy_read"} => g.at = "bottom"
      /\ f.at \in {"notify", "RX_RDY", "disable_loop", "RX_DISABLED"} => atEnd
      /\ f.at = "disable_irq" => g.at = "disable_loop"
      /\ f.at = "switch" =>
           g.at = IF f.flag THEN "rdy_read" ELSE "disable_loop"
      /\ f.at = "RX_BUF_RELEASED" \/ InEvent(f, "RX_BUF_RELEASED") =>
           g.at \in {"disable_loop", "RX_BUF_REQUEST"}
      /\ f.at = "RX_BUF_REQUEST" \/ InEvent(f, "RX_BUF_REQUEST") =>
           g.at = "rdy_read"
      /\ InEvent(f, "RX_RDY") \/ InEvent(f, "RX_DISABLED") => atEnd
      /\ f.at = "enable_irq" => g.at = "bottom" \/ InEvent(g, "RX_DISABLED")
      /\ f.at = "callback" => f.type \in Events
      /\ f.at \in Events => f.type = f.at

\* Every frame of a stack fits the one below it.
Chained(s) ==
  \A i \in DOMAIN s : Fits(s[i], IF i = Len(s) THEN Bottom ELSE s[i + 1])

\* A frame put on a stack, and its effect on what is first, second, in it.
LEMMA Cons ==
  ASSUME NEW f \in Frame, NEW s \in Seq(Frame)
  PROVE  /\ <<f>> \o s \in Seq(Frame) /\ <<f>> \o s # <<>>
         /\ First(<<f>> \o s) = f
         /\ Second(<<f>> \o s) = First(s)
         /\ Tail(<<f>> \o s) = s
         /\ Frames(<<f>> \o s) = {f} \cup Frames(s)
         /\ Chained(s) /\ Fits(f, First(s)) => Chained(<<f>> \o s)
<1> DEFINE r == <<f>> \o s
<1>1. /\ r \in Seq(Frame) /\ Len(r) = Len(s) + 1 /\ Len(s) \in Nat
      /\ r[1] = f /\ \A i \in 1 .. Len(s) : r[i + 1] = s[i]
  OBVIOUS
<1>2. r # <<>> /\ Head(r) = f
  BY <1>1
<1>3. Tail(r) = s
  BY <1>1, <1>2
<1>4. Frames(r) = {f} \cup Frames(s)
  <2>1. \A i \in DOMAIN r : r[i] \in {f} \cup Frames(s)
    <3> SUFFICES ASSUME NEW i \in 1 .. Len(r)
                 PROVE  r[i] \in {f} \cup Frames(s)
      BY <1>1
    <3>1. CASE i = 1
      BY <1>1, <3>1
    <3>2. CASE i # 1
      <4>1. i - 1 \in 1 .. Len(s) /\ r[(i - 1) + 1] = s[i - 1] /\ (i - 1) + 1 = i
        BY <1>1, <3>2
      <4> QED
        BY <4>1 DEF Frames
    <3> QED
      BY <3>1, <3>2
  <2>2. f \in Frames(r)
    BY <1>1 DEF Frames
  <2>3. ASSUME NEW i \in DOMAIN s
        PROVE  s[i] \in Frames(r)
    <3>1. i \in 1 .. Len(s) /\ i + 1 \in DOMAIN r /\ r[i + 1] = s[i]
      BY <1>1
    <3> QED
      BY <3>1 DEF Frames
  <2> QED
    BY <2>1, <2>2, <2>3 DEF Frames
<1>5. ASSUME Chained(s), Fits(f, First(s))
      PROVE  Chained(r)
  <2> SUFFICES ASSUME NEW i \in 1 .. Len(r)
               PROVE  Fits(r[i], IF i = Len(r) THEN Bottom ELSE r[i + 1])
    BY <1>1 DEF Chained
  <2>1. CASE i = 1
    <3>1. CASE s = <<>>
      BY <1>1, <1>5, <2>1, <3>1 DEF First
    <3>2. CASE s # <<>>
      <4>1. Len(s) > 0 /\ 1 \in 1 .. Len(s) /\ r[1 + 1] = s[1] /\ First(s) = s[1]
        BY <1>1, <3>2 DEF First
      <4>2. i # Len(r)
        BY <1>1, <2>1, <4>1
      <4> QED
        BY <1>1, <1>5, <2>1, <4>1, <4>2
    <3> QED
      BY <3>1, <3>2
  <2>2. CASE i # 1
    <3>1. i - 1 \in 1 .. Len(s) /\ r[i] = s[i - 1]
      <4>1. i - 1 \in 1 .. Len(s) /\ (i - 1) + 1 = i /\ r[(i - 1) + 1] = s[i - 1]
        BY <1>1, <2>2
      <4> QED
        BY <4>1
    <3>2. Fits(s[i - 1], IF i - 1 = Len(s) THEN Bottom ELSE s[(i - 1) + 1])
      BY <1>5, <3>1 DEF Chained
    <3>3. i = Len(r) <=> i - 1 = Len(s)
      BY <1>1
    <3>4. CASE i = Len(r)
      BY <3>1, <3>2, <3>3, <3>4
    <3>5. CASE i # Len(r)
      <4>1. i \in 1 .. Len(s) /\ r[i + 1] = s[i] /\ (i - 1) + 1 = i
        BY <1>1, <3>1, <3>5
      <4> QED
        BY <3>1, <3>2, <3>3, <3>5, <4>1
    <3> QED
      BY <3>4, <3>5
  <2> QED
    BY <2>1, <2>2
<1> QED
  BY <1>1, <1>2, <1>3, <1>4, <1>5 DEF First, Second

\* A stack without its innermost frame.
LEMMA Uncons ==
  ASSUME NEW s \in Seq(Frame), s # <<>>
  PROVE  /\ Tail(s) \in Seq(Frame) /\ First(s) = Head(s) /\ Head(s) \in Frame
         /\ First(Tail(s)) = Second(s)
         /\ Frames(s) = {First(s)} \cup Frames(Tail(s))
         /\ Chained(s) => Chained(Tail(s)) /\ Fits(First(s), Second(s))
<1> DEFINE t == Tail(s)
<1>1. t \in Seq(Frame) /\ Len(s) \in Nat \ {0} /\ Len(t) = Len(s) - 1
      /\ Head(s) = s[1] /\ Head(s) \in Frame
      /\ \A i \in 1 .. Len(t) : t[i] = s[i + 1]
      /\ DOMAIN t = 1 .. Len(t) /\ DOMAIN s = 1 .. Len(s)
  OBVIOUS
<1> HIDE DEF t
<1>2. First(t) = IF Len(s) = 1 THEN Bottom ELSE s[2]
  <2>1. CASE t = <<>>
    BY <1>1, <2>1 DEF First
  <2>2. CASE t # <<>>
    <3>1. Len(t) > 0 /\ 1 \in 1 .. Len(t) /\ t[1] = s[1 + 1] /\ Len(s) # 1
      BY <1>1, <2>2
    <3> QED
      BY <1>1, <2>2, <3>1 DEF First
  <2> QED
    BY <2>1, <2>2
<1>3. ASSUME Chained(s)
      PROVE  Chained(t) /\ Fits(Head(s), First(t))
  <2>1. 1 \in DOMAIN s
    BY <1>1
  <2>2. Fits(s[1], IF 1 = Len(s) THEN Bottom ELSE s[1 + 1])
    BY <1>3, <2>1 DEF Chained
  <2>3. ASSUME NEW i \in 1 .. Len(t)
        PROVE  Fits(t[i], IF i = Len(t) THEN Bottom ELSE t[i + 1])
    <3>1. i + 1 \in DOMAIN s /\ t[i] = s[i + 1] /\ i \in Nat
      BY <1>1
    <3>2. Fits(s[i + 1], IF i + 1 = Len(s) THEN Bottom ELSE s[(i + 1) + 1])
      BY <1>3, <3>1 DEF Chained
    <3>3. i = Len(t) <=> i + 1 = Len(s)
      BY <1>1
    <3>4. i # Len(t) => t[i + 1] = s[(i + 1) + 1]
      <4>1. i # Len(t) => i + 1 \in 1 .. Len(t)
        BY <1>1
      <4> QED
        BY <1>1, <4>1
    <3>5. CASE i = Len(t)
      BY <3>1, <3>2, <3>3, <3>5
    <3>6. CASE i # Len(t)
      BY <3>1, <3>2, <3>3, <3>4, <3>6
    <3> QED
      BY <3>5, <3>6
  <2>4. Chained(t)
    <3>1. DOMAIN t = 1 .. Len(t)
      BY <1>1
    <3> QED
      BY <2>3, <3>1 DEF Chained
  <2> QED
    BY <1>1, <1>2, <2>2, <2>4
<1>4. Frames(s) = {Head(s)} \cup Frames(t)
  <2>1. ASSUME NEW i \in 1 .. Len(s)
        PROVE  s[i] \in {Head(s)} \cup Frames(t)
    <3>1. CASE i = 1
      BY <1>1, <3>1
    <3>2. CASE i # 1
      <4>1. i - 1 \in 1 .. Len(t) /\ t[i - 1] = s[(i - 1) + 1] /\ (i - 1) + 1 = i
        BY <1>1, <3>2
      <4>2. DOMAIN t = 1 .. Len(t)
        BY <1>1
      <4> QED
        BY <4>1, <4>2 DEF Frames
    <3> QED
      BY <3>1, <3>2
  <2>2. ASSUME NEW i \in 1 .. Len(t)
        PROVE  t[i] \in Frames(s)
    <3>1. i + 1 \in DOMAIN s /\ t[i] = s[i + 1]
      BY <1>1
    <3> QED
      BY <3>1 DEF Frames
  <2>3. Head(s) \in Frames(s)
    BY <1>1 DEF Frames
  <2>4. DOMAIN t = 1 .. Len(t) /\ DOMAIN s = 1 .. Len(s)
    BY <1>1
  <2> QED
    BY <2>1, <2>2, <2>3, <2>4 DEF Frames
<1> QED
  BY <1>1, <1>3, <1>4 DEF First, Second, t

---------------------------------------------------------------------------
(* The invariant, and the types *)

\* What context c is about to do, and what after it.
Now(c) == First(stack[c])
Below(c) == Second(stack[c])

\* A context that is idle has yet to enter the region under the lock that its
\* frame stands for; one that is busy has left something half done.
Idle == {"bottom", "rdy_timer", "rdy_loop", "notify"}
Busy(c) == Now(c).at \notin Idle
Working(c) == \A d \in Ctx \ {c} : ~Busy(d)

\* Reception is on with its interrupt, or off with no buffer.
Settled ==
  /\ ~asked /\ (irq <=> active)
  /\ ~active => rx.buf = NULL /\ rx.next = NULL

\* Reception is to end, and the buffers are given back one by one.
Ending == asked /\ active /\ (rx.buf = NULL => rx.next = NULL)

\* All bytes of the current buffer were reported.
Reported == rx.buf = NULL \/ rx.curr = rx.last

\* What a frame is about.
Releases(f) == f.at = "RX_BUF_RELEASED" \/ InEvent(f, "RX_BUF_RELEASED")
Requests(f) == f.at = "RX_BUF_REQUEST" \/ InEvent(f, "RX_BUF_REQUEST")
Reports(f) == f.at = "RX_RDY" \/ InEvent(f, "RX_RDY")
SwitchesLast(f) == f.at = "switch" /\ ~f.flag

\* The frames at which reception is settled, and at which it ends.
SettledAt(f, g) ==
  \/ f.at \in Idle \cup {"rdy_read"}
  \/ Reports(f) \/ Requests(f) \/ SwitchesFull(f)
  \/ InEvent(f, "RX_DISABLED")
  \/ Releases(f) /\ g.at = "RX_BUF_REQUEST"

EndingAt(f, g) ==
  \/ f.at \in {"disable_loop", "RX_DISABLED"}
  \/ SwitchesLast(f)
  \/ Releases(f) /\ g.at = "disable_loop"

\* What the frame f of the working context, above g, says of the switches.
ControlAt(f, g) ==
  /\ SettledAt(f, g) => Settled
  /\ EndingAt(f, g) => Ending /\ ~irq
  /\ f.at = "disable_irq" => Ending /\ irq
  /\ f.at = "enable_irq" =>
       active /\ ~asked /\ ~irq /\ rx.buf = NULL /\ rx.next # NULL
  /\ f.at \notin Idle => Reported
  /\ Reports(f) \/ SwitchesLast(f) => rx.buf # NULL
  /\ f.at = "RX_DISABLED" => rx.buf = NULL
  /\ Releases(f) \/ Requests(f) => rx.next = NULL

\* What it says of the buffers: where each is that the client has lent.
BuffersAt(f) ==
  /\ \A b \in Buf : b \in lent <=> \/ b = rx.buf \/ b = rx.next
                                   \/ f.at = "RX_BUF_RELEASED" /\ b = f.buf
  /\ rx.buf # NULL /\ f.at # "RX_RDY" => got[rx.buf] = rx.last
  /\ f.at = "RX_RDY" =>
       /\ f.type = "RX_RDY" /\ f.buf = rx.buf
       /\ f.off = got[rx.buf] /\ f.len > 0 /\ f.off + f.len = rx.last
  /\ f.at = "RX_BUF_RELEASED" =>
       /\ f.type = "RX_BUF_RELEASED" /\ f.buf \in Buf \ {rx.buf, rx.next}
       /\ f.len = got[f.buf]
       /\ asked \/ f.len = BufLen
       /\ rx.buf # NULL => rx.last = 0

\* One context at most is busy; what it does gives the phase.
WorkInv == \E c \in Ctx : /\ Working(c)
                          /\ ControlAt(Now(c), Below(c))
                          /\ BuffersAt(Now(c))

\* A thread only enables reception; only the handler fills buffers.
StackInv ==
  /\ \A c \in Ctx : Chained(stack[c])
  /\ \A e \in Frames(stack["thread"]) : e.at = "enable_irq"
  /\ \A e \in Frames(stack["timer"]) : ~SwitchesFull(e)
  /\ stack["thread"] # <<>> => stack["handler"] = <<>>

\* The client's view and data->rx.
DataInv ==
  /\ rx.enabled <=> active /\ ~asked
  /\ rx.buf # NULL => rx.buf # rx.next
  /\ rx.next # NULL => got[rx.next] = 0
  /\ \A e \in Frames(stack["handler"]) :
       SwitchesFull(e) => rx.left = 0 \/ asked

\* The invariant.
Inv == TypeOK /\ RxInv /\ StackInv /\ DataInv /\ WorkInv

\* The frames that the actions make, and their fields.
LEMMA FrameTypes ==
  /\ \A p \in Points, g \in BOOLEAN :
       /\ Do(p) \in Frame /\ Do(p).at = p
       /\ DoIf(p, g) \in Frame /\ DoIf(p, g).at = p /\ DoIf(p, g).flag = g
  /\ \A e \in Events, b \in Buf \cup {NULL}, n \in Nat, m \in Nat :
       /\ Event(e, b, n, m) \in Frame /\ Event(e, b, n, m).at = e
       /\ Event(e, b, n, m).type = e /\ Event(e, b, n, m).buf = b
       /\ Event(e, b, n, m).off = n /\ Event(e, b, n, m).len = m
  /\ \A e \in Events :
       /\ [Do("callback") EXCEPT !.type = e] \in Frame
       /\ [Do("callback") EXCEPT !.type = e].at = "callback"
       /\ [Do("callback") EXCEPT !.type = e].type = e
  /\ "callback" \notin Points /\ Events \subseteq Points
<1>1. \A p \in Points, g \in BOOLEAN :
       /\ Do(p) \in Frame /\ Do(p).at = p
       /\ DoIf(p, g) \in Frame /\ DoIf(p, g).at = p /\ DoIf(p, g).flag = g
  BY DEF Do, DoIf, Frame
<1>2. \A e \in Events, b \in Buf \cup {NULL}, n \in Nat, m \in Nat :
       /\ Event(e, b, n, m) \in Frame /\ Event(e, b, n, m).at = e
       /\ Event(e, b, n, m).type = e /\ Event(e, b, n, m).buf = b
       /\ Event(e, b, n, m).off = n /\ Event(e, b, n, m).len = m
  BY DEF Event, Frame, Points
<1>3. \A e \in Events :
       /\ [Do("callback") EXCEPT !.type = e] \in Frame
       /\ [Do("callback") EXCEPT !.type = e].at = "callback"
       /\ [Do("callback") EXCEPT !.type = e].type = e
  BY DEF Do, Frame
<1>4. "callback" \notin Points /\ Events \subseteq Points
  BY DEF Points, Events
<1> QED
  BY <1>1, <1>2, <1>3, <1>4

\* A step that replaces or adds frames leaves stacks of frames.
LEMMA StackTypes ==
  ASSUME stack \in [Ctx -> Seq(Frame)], NEW c \in Ctx, NEW s \in Seq(Frame),
         \/ stack[c] # <<>> /\ Continue(c, s)
         \/ Call(c, s)
  PROVE  stack' \in [Ctx -> Seq(Frame)]
<1>1. stack[c] \in Seq(Frame)
  OBVIOUS
<1>2. CASE stack[c] # <<>> /\ Continue(c, s)
  <2>1. s \o Tail(stack[c]) \in Seq(Frame)
    BY <1>1, <1>2
  <2> QED
    BY <1>2, <2>1 DEF Continue
<1>3. CASE Call(c, s)
  <2>1. s \o stack[c] \in Seq(Frame)
    BY <1>1
  <2> QED
    BY <1>3, <2>1 DEF Call
<1> QED
  BY <1>2, <1>3

\* What the client notes, one event at a time.
LEMMA Delivered ==
  ASSUME NEW c \in Ctx, Deliver(c)
  PROVE  LET e == Top(c)
         IN /\ e.type = "RX_RDY" =>
                 /\ got' = [got EXCEPT ![e.buf] = @ + e.len]
                 /\ UNCHANGED <<active, asked, lent, prompt>>
            /\ e.type = "RX_BUF_RELEASED" =>
                 /\ lent' = lent \ {e.buf}
                 /\ UNCHANGED <<active, asked, got, prompt>>
            /\ e.type = "RX_DISABLED" =>
                 /\ active' = FALSE /\ asked' = FALSE
                 /\ UNCHANGED <<lent, got, prompt>>
            /\ e.type = "RX_BUF_REQUEST" => UNCHANGED clientVars
<1> DEFINE e == Top(c)
<1>1. CASE e.type = "RX_RDY"
  BY <1>1 DEF Deliver
<1>2. CASE e.type = "RX_BUF_RELEASED"
  BY <1>2 DEF Deliver
<1>3. CASE e.type = "RX_DISABLED"
  BY <1>3 DEF Deliver
<1>4. CASE e.type = "RX_BUF_REQUEST"
  BY <1>4 DEF Deliver
<1> QED
  BY <1>1, <1>2, <1>3, <1>4

\* Every step keeps the types.
LEMMA TypeStep == TypeOK /\ RxInv /\ StackInv /\ [Next]_rxVars => TypeOK'
<1> SUFFICES ASSUME TypeOK, RxInv, StackInv, [Next]_rxVars
             PROVE  TypeOK'
  OBVIOUS
<1> USE RxAssumption
<1>1. /\ stack \in [Ctx -> Seq(Frame)] /\ fifo \in Nat /\ FifoSize \in Nat
      /\ <<>> \in Seq(Frame)
      /\ \A f \in Frame, g \in Frame :
           <<f>> \in Seq(Frame) /\ <<f, g>> \in Seq(Frame)
      /\ \A f \in Frame, g \in Frame, h \in Frame : <<f, g, h>> \in Seq(Frame)
  BY DEF TypeOK
<1>2. ASSUME NEW c \in Ctx, stack[c] # <<>>
      PROVE  Top(c) \in Frame
  BY <1>1, <1>2 DEF Top
<1>3. "handler" \in Ctx /\ "timer" \in Ctx
  BY DEF Ctx
<1>4. \A p \in {"enable_irq", "disable_irq", "disable_loop", "notify", "switch",
           "rdy_timer", "rdy_loop", "rdy_read"} : p \in Points
  BY DEF Points
<1>5. ASSUME NEW c \in Ctx, NEW b \in Buf, NEW t \in Timeouts, RxEnable(c, b, t)
      PROVE  TypeOK'
  <2>1. stack' \in [Ctx -> Seq(Frame)]
    <3>1. <<Do("enable_irq")>> \in Seq(Frame)
      BY <1>1, <1>4, FrameTypes
    <3>2. Call(c, <<Do("enable_irq")>>)
      BY <1>5 DEF RxEnable
    <3> QED
      BY <1>1, <3>1, <3>2, StackTypes
  <2> QED
    BY <1>5, <2>1 DEF RxEnable, TypeOK
<1>6. ASSUME NEW c \in Ctx, NEW b \in Buf, RxBufRsp(c, b)
      PROVE  TypeOK'
  <2>1. stack' \in [Ctx -> Seq(Frame)]
    BY <1>1, <1>6, StackTypes DEF RxBufRsp, InCallback, At
  <2> QED
    BY <1>6, <2>1 DEF RxBufRsp, TypeOK
<1>7. ASSUME NEW c \in Ctx, RxDisable(c)
      PROVE  TypeOK'
  <2>1. stack' \in [Ctx -> Seq(Frame)]
    <3>1. <<Do("disable_irq"), Do("disable_loop")>> \in Seq(Frame)
      BY <1>1, <1>4, FrameTypes
    <3>2. /\ Continue(c, <<Do("disable_irq"), Do("disable_loop")>>)
          /\ stack[c] # <<>>
      BY <1>7 DEF RxDisable, InCallback, At
    <3> QED
      BY <1>1, <3>1, <3>2, StackTypes
  <2> QED
    BY <1>7, <2>1 DEF RxDisable, TypeOK
<1>8. ASSUME NEW c \in Ctx, RxEnableIrq(c) \/ RxDisableIrq(c) \/ CallbackReturn(c)
      PROVE  TypeOK'
  <2>1. stack' \in [Ctx -> Seq(Frame)]
    BY <1>1, <1>8, StackTypes DEF RxEnableIrq, RxDisableIrq, CallbackReturn, At
  <2> QED
    BY <1>8, <2>1 DEF RxEnableIrq, RxDisableIrq, CallbackReturn, clientVars, TypeOK
<1>9. ASSUME NEW c \in Ctx, RxDisableLoop(c)
      PROVE  TypeOK'
  <2>1. PICK s \in Seq(Frame) : stack[c] # <<>> /\ Continue(c, s)
    <3>1. <<DoIf("switch", FALSE), Do("disable_loop")>> \in Seq(Frame)
      BY <1>1, <1>4, FrameTypes
    <3>2. <<Event("RX_DISABLED", NULL, 0, 0)>> \in Seq(Frame)
      BY <1>1, FrameTypes DEF Events
    <3> QED
      BY <1>9, <3>1, <3>2 DEF RxDisableLoop, At
  <2>2. stack' \in [Ctx -> Seq(Frame)]
    BY <1>1, <2>1, StackTypes
  <2> QED
    BY <1>9, <2>2 DEF RxDisableLoop, clientVars, TypeOK
<1>10. ASSUME NEW c \in Ctx, NotifyRxBuffer(c)
       PROVE  TypeOK'
  <2>1. CASE rx.buf # NULL /\ rx.curr > rx.last
    <3>1. /\ rx.curr \in Nat /\ rx.last \in Nat /\ rx.curr - rx.last \in Nat
          /\ rx.buf \in Buf
      BY <2>1 DEF RxInv, CursorInv, TypeOK
    <3>2. <<Event("RX_RDY", rx.buf, rx.last, rx.curr - rx.last)>> \in Seq(Frame)
      BY <1>1, <3>1, FrameTypes DEF Events
    <3>3. stack' \in [Ctx -> Seq(Frame)]
      BY <1>1, <1>10, <2>1, <3>2, StackTypes DEF NotifyRxBuffer, At
    <3> QED
      BY <1>10, <2>1, <3>1, <3>3 DEF NotifyRxBuffer, Notified, clientVars, TypeOK
  <2>2. CASE ~(rx.buf # NULL /\ rx.curr > rx.last)
    <3>1. stack' \in [Ctx -> Seq(Frame)]
      BY <1>1, <1>10, <2>2, StackTypes DEF NotifyRxBuffer, At
    <3> QED
      BY <1>10, <2>2, <3>1 DEF NotifyRxBuffer, clientVars, TypeOK
  <2> QED
    BY <2>1, <2>2
<1>11. ASSUME NEW c \in Ctx, SwitchRxBuffer(c)
       PROVE  TypeOK'
  <2> DEFINE start == IF rx.next = NULL THEN NULL ELSE 0
             release == IF rx.buf = NULL THEN <<>>
                          ELSE <<Event("RX_BUF_RELEASED", rx.buf, 0, rx.curr)>>
             request == IF Top(c).flag
                          THEN <<Event("RX_BUF_REQUEST", NULL, 0, 0)>>
                          ELSE <<>>
  <2>1. /\ stack[c] # <<>> /\ rx' = Switched(start) /\ Continue(c, release \o request)
        /\ UNCHANGED <<irq, armed, fifo, clientVars>>
    BY <1>11 DEF SwitchRxBuffer, At
  <2>2. release \in Seq(Frame)
    <3>1. rx.buf # NULL => rx.buf \in Buf /\ rx.curr \in Nat
      BY DEF RxInv, CursorInv, TypeOK
    <3> QED
      BY <1>1, <3>1, FrameTypes DEF Events
  <2>3. request \in Seq(Frame)
    BY <1>1, FrameTypes DEF Events
  <2> HIDE DEF release, request
  <2>4. stack' \in [Ctx -> Seq(Frame)]
    <3>1. release \o request \in Seq(Frame)
      BY <2>2, <2>3
    <3> QED
      BY <1>1, <2>1, <3>1, StackTypes
  <2>5. start \in Nat \cup {NULL}
    OBVIOUS
  <2> HIDE DEF start
  <2>6. UNCHANGED <<irq, armed, fifo, active, asked, lent, got, prompt>>
    BY <2>1 DEF clientVars
  <2> QED
    BY <2>1, <2>4, <2>5, <2>6 DEF Switched, TypeOK
<1>12. CASE IrqHandler
  <2>1. stack' \in [Ctx -> Seq(Frame)]
    BY <1>1, <1>3, <1>4, <1>12, FrameTypes, StackTypes DEF IrqHandler
  <2> QED
    BY <1>12, <2>1 DEF IrqHandler, clientVars, TypeOK
<1>13. CASE RxReadyTimer
  <2>1. stack' \in [Ctx -> Seq(Frame)]
    BY <1>1, <1>3, <1>13, StackTypes DEF RxReadyTimer, At
  <2> QED
    BY <1>13, <2>1 DEF RxReadyTimer, clientVars, TypeOK
<1>14. ASSUME NEW now \in BOOLEAN, stack["handler"] # <<>>, ReadOrDrop(now),
              UNCHANGED <<irq, armed, clientVars>>
       PROVE  TypeOK'
  <2>1. /\ <<Do("notify")>> \in Seq(Frame)
        /\ \A g \in BOOLEAN : <<DoIf("rdy_loop", g)>> \in Seq(Frame)
    BY <1>1, <1>4, FrameTypes
  <2>2. CASE rx.left = 0
    <3>1. stack' \in [Ctx -> Seq(Frame)]
      <4>1. PICK s \in Seq(Frame) : Continue("handler", s)
        BY <1>1, <1>14, <2>1, <2>2 DEF ReadOrDrop
      <4> QED
        BY <1>1, <1>3, <1>14, <4>1, StackTypes
    <3> QED
      BY <1>14, <2>2, <3>1 DEF ReadOrDrop, clientVars, TypeOK
  <2>3. CASE rx.left # 0
    <3>1. stack' \in [Ctx -> Seq(Frame)]
      <4>1. (now \/ rx.timeout = "zero") \in BOOLEAN
        BY <1>14
      <4>2. PICK s \in Seq(Frame) : Continue("handler", s)
        BY <1>1, <1>14, <2>1, <2>3, <4>1 DEF ReadOrDrop
      <4> QED
        BY <1>1, <1>3, <1>14, <4>2, StackTypes
    <3>2. /\ rx.left \in Nat /\ rx.curr \in Nat /\ fifo \in 0 .. FifoSize
      BY <2>3 DEF RxInv, CursorInv, TypeOK
    <3>3. PICK n \in 0 .. fifo : /\ n <= rx.left /\ fifo' = fifo - n
                       /\ rx' = [rx EXCEPT !.curr = @ + n, !.left = @ - n]
      <4>1. ReadLen \in 0 .. fifo /\ ReadLen <= rx.left
        BY <1>1, <3>2 DEF ReadLen
      <4>2. /\ rx' = [rx EXCEPT !.curr = @ + ReadLen, !.left = @ - ReadLen]
            /\ fifo' = fifo - ReadLen
        BY <1>14, <2>3 DEF ReadOrDrop
      <4> QED
        BY <4>1, <4>2
    <3>4. rx.curr + n \in Nat /\ rx.left - n \in Nat /\ fifo' \in 0 .. FifoSize
      BY <3>2, <3>3
    <3> QED
      BY <1>14, <3>1, <3>3, <3>4 DEF clientVars, TypeOK
  <2> QED
    BY <2>2, <2>3
<1>15. CASE RxReadyLoop
  <2>1. CASE rx.left = 0
    <3>1. <<Do("notify"), DoIf("switch", TRUE), DoIf("rdy_read", FALSE)>> \in Seq(Frame)
      BY <1>1, <1>4, FrameTypes
    <3>2. stack' \in [Ctx -> Seq(Frame)]
      BY <1>1, <1>3, <1>15, <2>1, <3>1, StackTypes DEF RxReadyLoop, At
    <3> QED
      BY <1>15, <2>1, <3>2 DEF RxReadyLoop, clientVars, TypeOK
  <2>2. CASE rx.left # 0
    <3>1. Top("handler").flag \in BOOLEAN
      BY <1>2, <1>3, <1>15 DEF RxReadyLoop, At, Frame
    <3> QED
      BY <1>14, <1>15, <2>2, <3>1 DEF RxReadyLoop, At
  <2> QED
    BY <2>1, <2>2
<1>16. CASE RxReadyRead
  <2>1. Top("handler").flag \in BOOLEAN
    BY <1>2, <1>3, <1>16 DEF RxReadyRead, At, Frame
  <2> QED
    BY <1>14, <1>16, <2>1 DEF RxReadyRead, At
<1>17. CASE RxTimeout
  <2>1. stack' \in [Ctx -> Seq(Frame)]
    <3>1. <<Do("notify")>> \in Seq(Frame)
      BY <1>1, <1>4, FrameTypes
    <3>2. Call("timer", <<Do("notify")>>)
      BY <1>17 DEF RxTimeout
    <3> QED
      BY <1>1, <1>3, <3>1, <3>2, StackTypes
  <2> QED
    BY <1>17, <2>1 DEF RxTimeout, clientVars, TypeOK
<1>18. ASSUME NEW c \in Ctx, Deliver(c)
       PROVE  TypeOK'
  <2> DEFINE e == Top(c)
  <2>1. /\ stack[c] # <<>> /\ e.at \in Events
        /\ Continue(c, <<[Do("callback") EXCEPT !.type = e.type]>>)
        /\ UNCHANGED <<rx, irq, armed, fifo>>
    <3>1. e.at \in Events /\ stack[c] # <<>>
      <4>1. PICK type \in Events : At(c, type)
        BY <1>18, Zenon DEF Deliver
      <4> QED
        BY <4>1 DEF At, Top
    <3>2. /\ Continue(c, <<[Do("callback") EXCEPT !.type = e.type]>>)
          /\ UNCHANGED <<rx, irq, armed, fifo>>
      BY <1>18, Zenon DEF Deliver
    <3> QED
      BY <3>1, <3>2
  <2>2. e \in Frame /\ e.type \in Events \cup {"none"} /\ e.len \in Nat
    BY <1>2, <2>1 DEF Frame
  <2>3. [Do("callback") EXCEPT !.type = e.type] \in Frame
    BY <2>2 DEF Frame, Do, Points, Events
  <2>4. stack' \in [Ctx -> Seq(Frame)]
    BY <1>1, <2>1, <2>3, StackTypes
  <2>6. e.type \in Events
    <3>1. stack[c] \in Seq(Frame) /\ Chained(stack[c])
      BY <1>1 DEF StackInv
    <3> QED
      BY <2>1, <3>1, Uncons DEF Fits, Top
  <2>5. active' \in BOOLEAN /\ asked' \in BOOLEAN /\ lent' \subseteq Buf
        /\ got' \in [Buf -> Nat] /\ prompt' \in BOOLEAN
    <3> USE DEF TypeOK
    <3>1. CASE e.type = "RX_RDY"
      <4>1. /\ got' = [got EXCEPT ![e.buf] = @ + e.len]
            /\ UNCHANGED <<active, asked, lent, prompt>>
        BY <1>18, <3>1, Delivered
      <4> HIDE DEF e
      <4>2. got \in [Buf -> Nat] /\ \A b \in Buf : got[b] + e.len \in Nat
        BY <2>2
      <4>3. got' \in [Buf -> Nat]
        BY <4>1, <4>2
      <4> QED
        BY <4>1, <4>3
    <3>2. CASE e.type = "RX_BUF_RELEASED"
      BY <1>18, <2>2, <3>2, Delivered
    <3>3. CASE e.type = "RX_DISABLED"
      BY <1>18, <2>2, <3>3, Delivered
    <3>4. CASE e.type = "RX_BUF_REQUEST"
      BY <1>18, <2>2, <3>4, Delivered DEF clientVars
    <3> QED
      BY <2>6, <3>1, <3>2, <3>3, <3>4 DEF Events
  <2> QED
    BY <2>1, <2>4, <2>5 DEF TypeOK
<1>19. CASE Receive
  BY <1>1, <1>19 DEF Receive, clientVars, TypeOK
<1>20. CASE UNCHANGED rxVars
  BY <1>20 DEF rxVars, clientVars, TypeOK
<1> QED
  BY <1>5, <1>6, <1>7, <1>8, <1>9, <1>10, <1>11, <1>12, <1>13, <1>15, <1>16,
     <1>17, <1>18, <1>19, <1>20
     DEF Next, ClientCall, ApiStep, HandlerStep

---------------------------------------------------------------------------
(* How a step changes the stacks *)

\* Context c alone moves: it is about to do f now, and g after it.
Moves(c, f, g) ==
  /\ \A d \in Ctx \ {c} : stack'[d] = stack[d]
  /\ First(stack'[c]) = f /\ Second(stack'[c]) = g
  /\ Chained(stack'[c])
  /\ \A e \in Frames(stack'[c]) :
       SwitchesFull(e) => \/ e \in Frames(stack[c])
                          \/ c = "handler" /\ rx'.left = 0

\* The innermost frame is done and the one below it is next.
LEMMA Popped ==
  ASSUME TypeOK, StackInv, NEW c \in Ctx, stack[c] # <<>>, Continue(c, <<>>)
  PROVE  /\ Moves(c, Below(c), Second(Tail(stack[c])))
         /\ Fits(Now(c), Below(c))
         /\ Tail(stack[c]) # <<>> => Fits(Below(c), Second(Tail(stack[c])))
         /\ Tail(stack[c]) = <<>> => Below(c) = Bottom
         /\ Frames(stack'[c]) \subseteq Frames(stack[c])
         /\ Frames(stack'[c]) = Frames(Tail(stack[c]))
<1>1. /\ stack[c] \in Seq(Frame) /\ Chained(stack[c])
      /\ stack \in [Ctx -> Seq(Frame)]
  BY DEF TypeOK, StackInv
<1>2. Tail(stack[c]) \in Seq(Frame)
  BY <1>1, Uncons
<1>3. stack' = [stack EXCEPT ![c] = Tail(stack[c])]
  <2>1. <<>> \o Tail(stack[c]) = Tail(stack[c])
    BY <1>2
  <2> QED
    BY <2>1 DEF Continue
<1>4. stack'[c] = Tail(stack[c]) /\ \A d \in Ctx \ {c} : stack'[d] = stack[d]
  BY <1>1, <1>3
<1>5. Chained(Tail(stack[c])) /\ First(Tail(stack[c])) = Second(stack[c])
      /\ Frames(stack[c]) = {First(stack[c])} \cup Frames(Tail(stack[c]))
      /\ Fits(First(stack[c]), Second(stack[c]))
  BY <1>1, Uncons
<1>6. ASSUME Tail(stack[c]) # <<>>
      PROVE  Fits(First(Tail(stack[c])), Second(Tail(stack[c])))
  BY <1>2, <1>5, <1>6, Uncons
<1>7. Tail(stack[c]) = <<>> => First(Tail(stack[c])) = Bottom
  BY DEF First
<1> QED
  BY <1>4, <1>5, <1>6, <1>7 DEF Moves, Now, Below

\* One frame comes in place of the innermost one.
LEMMA Put ==
  ASSUME TypeOK, StackInv, NEW c \in Ctx, stack[c] # <<>>, NEW f \in Frame,
         Continue(c, <<f>>), Fits(f, Below(c)), ~SwitchesFull(f)
  PROVE  /\ Moves(c, f, Below(c))
         /\ Frames(stack'[c]) = {f} \cup Frames(Tail(stack[c]))
<1>1. /\ stack[c] \in Seq(Frame) /\ Chained(stack[c])
      /\ stack \in [Ctx -> Seq(Frame)]
  BY DEF TypeOK, StackInv
<1> DEFINE t == Tail(stack[c])
<1>2. /\ t \in Seq(Frame) /\ Chained(t) /\ First(t) = Below(c)
      /\ Frames(stack[c]) = {First(stack[c])} \cup Frames(t)
  BY <1>1, Uncons DEF Below
<1> HIDE DEF t
<1>3. stack'[c] = <<f>> \o t /\ \A d \in Ctx \ {c} : stack'[d] = stack[d]
  BY <1>1 DEF Continue, t
<1>4. /\ First(<<f>> \o t) = f /\ Second(<<f>> \o t) = Below(c)
      /\ Frames(<<f>> \o t) = {f} \cup Frames(t) /\ Chained(<<f>> \o t)
  BY <1>2, Cons
<1> QED
  BY <1>2, <1>3, <1>4 DEF Moves, t

\* Two frames come in place of the innermost one.
LEMMA PutTwo ==
  ASSUME TypeOK, StackInv, NEW c \in Ctx, stack[c] # <<>>,
         NEW f \in Frame, NEW g \in Frame, Continue(c, <<f, g>>),
         Fits(g, Below(c)), Fits(f, g), ~SwitchesFull(f), ~SwitchesFull(g)
  PROVE  /\ Moves(c, f, g)
         /\ Frames(stack'[c]) = {f, g} \cup Frames(Tail(stack[c]))
<1>1. /\ stack[c] \in Seq(Frame) /\ Chained(stack[c])
      /\ stack \in [Ctx -> Seq(Frame)]
  BY DEF TypeOK, StackInv
<1> DEFINE t == Tail(stack[c])
<1>2. /\ t \in Seq(Frame) /\ Chained(t) /\ First(t) = Below(c)
      /\ Frames(stack[c]) = {First(stack[c])} \cup Frames(t)
  BY <1>1, Uncons DEF Below
<1> HIDE DEF t
<1>3. <<f, g>> \o t = <<f>> \o (<<g>> \o t)
  <2>1. /\ <<f>> \in Seq(Frame) /\ <<g>> \in Seq(Frame)
        /\ <<f, g>> \in Seq(Frame) /\ <<f>> \o <<g>> \in Seq(Frame)
    OBVIOUS
  <2>2. /\ Len(<<f, g>>) = 2 /\ Len(<<f>> \o <<g>>) = 2
        /\ \A i \in 1 .. 2 : <<f, g>>[i] = (<<f>> \o <<g>>)[i]
    OBVIOUS
  <2>3. <<f, g>> = <<f>> \o <<g>>
    BY <2>1, <2>2, SeqEqual
  <2> QED
    BY <1>2, <2>1, <2>3, ConcatAssociative
<1>4. /\ stack'[c] = <<f>> \o (<<g>> \o t)
      /\ \A d \in Ctx \ {c} : stack'[d] = stack[d]
  BY <1>1, <1>3 DEF Continue, t
<1>5. /\ <<g>> \o t \in Seq(Frame) /\ First(<<g>> \o t) = g
      /\ Frames(<<g>> \o t) = {g} \cup Frames(t) /\ Chained(<<g>> \o t)
  BY <1>2, Cons
<1> DEFINE r == <<g>> \o t
<1> HIDE DEF r
<1>6. /\ First(<<f>> \o r) = f /\ Second(<<f>> \o r) = g
      /\ Frames(<<f>> \o r) = {f} \cup Frames(r) /\ Chained(<<f>> \o r)
  BY <1>5, Cons DEF r
<1>7. stack'[c] = <<f>> \o r /\ Frames(r) = {g} \cup Frames(t)
  BY <1>4, <1>5, Zenon DEF r
<1> QED
  <2>1. \A e \in Frames(stack'[c]) : SwitchesFull(e) => e \in Frames(stack[c])
    BY <1>2, <1>6, <1>7
  <2>2. Frames(stack'[c]) = {f, g} \cup Frames(Tail(stack[c]))
    BY <1>6, <1>7 DEF t
  <2> QED
    BY <1>4, <1>6, <1>7, <2>1, <2>2 DEF Moves

\* The frames of on_rx_ready() itself are the outermost ones.
LEMMA Outermost ==
  ASSUME NEW s \in Seq(Frame), Chained(s), s # <<>>,
         First(s).at \in {"rdy_loop", "rdy_read"}
  PROVE  Tail(s) = <<>> /\ Frames(s) = {First(s)} /\ Second(s) = Bottom
<1>1. /\ Tail(s) \in Seq(Frame) /\ Second(s).at = "bottom"
      /\ First(Tail(s)) = Second(s)
      /\ Frames(s) = {First(s)} \cup Frames(Tail(s))
  BY Uncons DEF Fits
<1>2. Tail(s) = <<>>
  <2> SUFFICES ASSUME Tail(s) # <<>>
               PROVE  FALSE
    OBVIOUS
  <2>1. Second(s) \in Frame
    BY <1>1, Uncons
  <2> QED
    BY <1>1, <2>1 DEF Frame, Points, Events
<1>3. Frames(<<>>) = {} /\ First(<<>>) = Bottom
  BY DEF Frames, First
<1> QED
  BY <1>1, <1>2, <1>3

\* A frame comes on top of the stack.
LEMMA Called ==
  ASSUME TypeOK, StackInv, NEW c \in Ctx, NEW f \in Frame,
         Call(c, <<f>>), Fits(f, Now(c)), ~SwitchesFull(f)
  PROVE  /\ Moves(c, f, Now(c))
         /\ Frames(stack'[c]) = {f} \cup Frames(stack[c])
<1>1. /\ stack[c] \in Seq(Frame) /\ Chained(stack[c])
      /\ stack \in [Ctx -> Seq(Frame)]
  BY DEF TypeOK, StackInv
<1>2. stack'[c] = <<f>> \o stack[c] /\ \A d \in Ctx \ {c} : stack'[d] = stack[d]
  BY <1>1 DEF Call
<1> DEFINE t == stack[c]
<1> HIDE DEF t
<1>3. /\ First(<<f>> \o t) = f /\ Second(<<f>> \o t) = First(t)
      /\ Frames(<<f>> \o t) = {f} \cup Frames(t) /\ Chained(<<f>> \o t)
  BY <1>1, Cons DEF Now, t
<1> QED
  BY <1>2, <1>3 DEF Moves, Now, t

\* A context that is busy is the one that works; so is the handler, when it
\* takes a step.
LEMMA BusyWorks ==
  ASSUME WorkInv, NEW c \in Ctx, Busy(c)
  PROVE  Working(c)
BY DEF WorkInv, Working

\* The handler takes steps only when the timer does not run, and the thread never
\* is in the adapter at the same time: then the handler is the one that works.
LEMMA HandlerWorks ==
  ASSUME StackInv, stack["handler"] # <<>>, MayStep("handler", Running)
  PROVE  Working("handler") /\ stack["timer"] = <<>>
<1>1. stack["timer"] = <<>>
  <2>1. "timer" \in Ctx /\ "handler" \in Ctx
    BY DEF Ctx
  <2>2. ~(Prio["timer"] < Prio["handler"])
    BY <2>1, PrioAssumption
  <2> QED
    BY <2>1, <2>2 DEF MayStep, Running
<1>2. stack["thread"] = <<>>
  BY DEF StackInv
<1> QED
  BY <1>1, <1>2 DEF Working, Ctx, Busy, Now, First, Bottom, Idle

\* What holds in a phase depends on what is done, not on who does nothing.
LEMMA IdlePhase ==
  ASSUME NEW f, NEW g, NEW h, NEW k, f.at \in Idle, h.at \in Idle
  PROVE  /\ ControlAt(f, g) => ControlAt(h, k)
         /\ BuffersAt(f) => BuffersAt(h)
<1>1. \A e \in {f, h} : /\ ~Reports(e) /\ ~Requests(e) /\ ~Releases(e)
                        /\ ~SwitchesFull(e) /\ ~SwitchesLast(e)
                        /\ e.at \notin {"RX_DISABLED", "disable_irq",
                                        "enable_irq", "disable_loop", "RX_RDY",
                                        "RX_BUF_RELEASED"}
                        /\ ~InEvent(e, "RX_DISABLED")
  BY DEF Reports, Requests, Releases, SwitchesFull, SwitchesLast, InEvent, Idle
<1> QED
  BY <1>1 DEF ControlAt, BuffersAt, SettledAt, EndingAt

\* What holds of the context that works holds of each that may be it.
LEMMA PhaseOf ==
  ASSUME WorkInv, NEW c \in Ctx, Working(c)
  PROVE  ControlAt(Now(c), Below(c)) /\ BuffersAt(Now(c))
<1>1. PICK d \in Ctx : /\ Working(d)
                       /\ ControlAt(Now(d), Below(d)) /\ BuffersAt(Now(d))
  BY DEF WorkInv
<1>2. CASE d = c
  BY <1>1, <1>2
<1>3. CASE d # c
  <2>1. Now(c).at \in Idle /\ Now(d).at \in Idle
    BY <1>1, <1>3 DEF Working, Busy
  <2> QED
    BY <1>1, <2>1, IdlePhase
<1> QED
  BY <1>2, <1>3

\* The steps of a context that works, of the UART handler or a callback.
LEMMA Advance ==
  ASSUME Inv, NEW c \in Ctx, Working(c), stack[c] # <<>>,
         NEW f, NEW g, Moves(c, f, g),
         \/ Now(c).at # "enable_irq"
         \/ Frames(stack'[c]) \subseteq Frames(stack[c]),
         ControlAt(f, g)', BuffersAt(f)'
  PROVE  /\ StackInv' /\ WorkInv'
         /\ \A e \in Frames(stack'["handler"]) :
              SwitchesFull(e) => e \in Frames(stack["handler"]) \/ rx'.left = 0
<1>1. stack[c] \in Seq(Frame) /\ Now(c) \in Frames(stack[c])
  <2>1. stack[c] \in Seq(Frame)
    BY DEF Inv, TypeOK
  <2> QED
    BY <2>1, Uncons DEF Now
<1>2. c = "thread" => Frames(stack'[c]) \subseteq Frames(stack[c])
  BY <1>1 DEF Inv, StackInv
<1>3. /\ \A d \in Ctx : Chained(stack'[d])
      /\ \A e \in Frames(stack'["thread"]) : e.at = "enable_irq"
      /\ \A e \in Frames(stack'["timer"]) : ~SwitchesFull(e)
      /\ \A e \in Frames(stack'["handler"]) :
              SwitchesFull(e) => e \in Frames(stack["handler"]) \/ rx'.left = 0
  <2>1. "thread" \in Ctx /\ "timer" \in Ctx /\ "handler" \in Ctx
    BY DEF Ctx
  <2> QED
    BY <1>2, <2>1 DEF Moves, Inv, StackInv
<1>4. stack'["thread"] # <<>> => stack'["handler"] = <<>>
  <2>1. stack["thread"] # <<>> => c # "handler" /\ stack["handler"] = <<>>
    BY DEF Inv, StackInv
  <2>2. /\ c # "handler" => stack'["handler"] = stack["handler"]
        /\ c # "thread" => stack'["thread"] = stack["thread"]
    BY DEF Moves, Ctx
  <2> QED
    BY <2>1, <2>2
<1>5. StackInv'
  BY <1>3, <1>4 DEF StackInv
<1>6. Now(c)' = f /\ Below(c)' = g /\ \A d \in Ctx \ {c} : Now(d)' = Now(d)
  BY DEF Moves, Now, Below
<1>7. Working(c)'
  BY <1>6 DEF Working, Busy
<1>8. WorkInv'
  BY <1>6, <1>7 DEF WorkInv
<1> QED
  BY <1>3, <1>5, <1>8

---------------------------------------------------------------------------
(* The calls of the client *)

\* What the innermost frame of a context is when a step is possible.
LEMMA AtTop ==
  ASSUME TypeOK, StackInv, NEW c \in Ctx
  PROVE  /\ stack[c] # <<>> =>
              /\ Now(c) = Top(c) /\ Now(c) \in Frame
              /\ Now(c) \in Frames(stack[c])
              /\ Fits(Now(c), Below(c))
         /\ \A p : At(c, p) => stack[c] # <<>> /\ Now(c).at = p
         /\ \A e \in Events :
              InCallback(c, e) => stack[c] # <<>> /\ InEvent(Now(c), e)
<1>1. stack[c] \in Seq(Frame) /\ Chained(stack[c])
  BY DEF TypeOK, StackInv
<1>2. stack[c] # <<>> => /\ Now(c) = Head(stack[c]) /\ Now(c) \in Frame
                         /\ Now(c) \in Frames(stack[c])
                         /\ Fits(Now(c), Below(c))
  BY <1>1, Uncons DEF Now, Below
<1> QED
  BY <1>2 DEF Top, At, InCallback, InEvent

\* rx_enable() finds no buffer in the adapter and begins the phase in which the
\* interrupt is still to be enabled.
LEMMA EnableStep ==
  ASSUME Inv, NEW c \in Ctx, NEW b \in Buf, NEW t \in Timeouts, RxEnable(c, b, t)
  PROVE  StackInv' /\ DataInv' /\ WorkInv'
<1> DEFINE f == Do("enable_irq")
<1>1. f \in Frame /\ f.at = "enable_irq" /\ ~SwitchesFull(f)
  <2>1. "enable_irq" \in Points
    BY DEF Points
  <2> QED
    BY <2>1, FrameTypes DEF SwitchesFull
<1>2. /\ ~active /\ b \notin lent /\ active' /\ asked' = asked /\ irq' = irq
      /\ lent' = lent \cup {b} /\ got' = [got EXCEPT ![b] = 0]
      /\ Call(c, <<f>>)
      /\ rx' = [rx EXCEPT !.buf = NULL, !.curr = NULL, !.left = 0,
                      !.next = b, !.nextLen = BufLen,
                      !.timeout = t, !.enabled = TRUE]
  BY DEF RxEnable
<1>3. TypeOK /\ StackInv /\ WorkInv /\ DataInv
  BY DEF Inv
<1>4. /\ rx'.buf = NULL /\ rx'.next = b /\ rx'.left = 0 /\ rx'.enabled = TRUE
      /\ got'[b] = 0 /\ b # NULL
  BY <1>2, <1>3, RxAssumption DEF TypeOK
<1> HIDE DEF f
<1>5. ASSUME Working(c), SettledAt(Now(c), Below(c)), Now(c).at # "RX_BUF_RELEASED",
             NEW g
      PROVE  ~asked /\ ControlAt(f, g)' /\ BuffersAt(f)'
  <2>1. Settled /\ BuffersAt(Now(c))
    BY <1>3, <1>5, PhaseOf DEF ControlAt
  <2>2. rx.buf = NULL /\ rx.next = NULL /\ ~irq /\ ~asked
    BY <1>2, <2>1 DEF Settled
  <2>3. \A x \in Buf : x \notin lent
    BY <1>5, <2>1, <2>2, RxAssumption DEF BuffersAt
  <2>4. ControlAt(f, g)'
    BY <1>1, <1>2, <1>4, <2>2
       DEF ControlAt, SettledAt, EndingAt, Idle, Reports, Requests, Releases,
           SwitchesFull, SwitchesLast, InEvent, Reported
  <2>5. BuffersAt(f)'
    BY <1>1, <1>2, <1>4, <2>3, RxAssumption DEF BuffersAt
  <2> QED
    BY <2>2, <2>4, <2>5
<1>6. CASE InCallback(c, "RX_DISABLED")
  <2>1. /\ stack[c] # <<>> /\ Now(c).at = "callback"
        /\ Now(c).type = "RX_DISABLED"
    BY <1>3, <1>6, AtTop DEF InEvent, Events
  <2>2. SettledAt(Now(c), Below(c)) /\ Busy(c)
    BY <2>1 DEF SettledAt, InEvent, Busy, Idle
  <2>3. Working(c)
    BY <1>3, <2>2, BusyWorks
  <2>4. /\ ~asked /\ \A g : ControlAt(f, g)' /\ BuffersAt(f)'
    BY <1>5, <2>1, <2>2, <2>3
  <2>5. Moves(c, f, Now(c))
    <3>1. Fits(f, Now(c))
      BY <1>1, <2>1 DEF Fits, InEvent, Events
    <3> QED
      BY <1>1, <1>2, <1>3, <3>1, Called
  <2>6. StackInv' /\ WorkInv'
    BY <2>1, <2>3, <2>4, <2>5, Advance
  <2>7. DataInv'
    BY <1>2, <1>4, <2>4 DEF DataInv
  <2> QED
    BY <2>6, <2>7
<1>7. CASE c = "thread" /\ stack[c] = <<>> /\ MayStart(c, Running)
  <2>1. stack["handler"] = <<>> /\ stack["timer"] = <<>>
    <3>1. "handler" \in Ctx /\ "timer" \in Ctx /\ "thread" \in Ctx
      BY DEF Ctx
    <3>2. ~(Prio["handler"] < Prio["thread"]) /\ ~(Prio["timer"] < Prio["thread"])
      BY <3>1, PrioAssumption
    <3> QED
      BY <1>7, <3>1, <3>2 DEF MayStart, Running
  <2>2. Now(c) = Bottom /\ Working(c)
    BY <1>7, <2>1 DEF Working, Busy, Now, First, Bottom, Idle, Ctx
  <2>3. SettledAt(Now(c), Below(c)) /\ Now(c).at # "RX_BUF_RELEASED"
    BY <2>2 DEF SettledAt, Bottom, Idle
  <2>4. /\ ~asked /\ \A g : ControlAt(f, g)' /\ BuffersAt(f)'
    BY <1>5, <2>2, <2>3
  <2>5. Fits(f, Now(c))
    BY <1>1, <2>2 DEF Fits, InEvent, Bottom, Events
  <2>6. Moves(c, f, Now(c)) /\ Frames(stack'[c]) = {f} \cup Frames(stack[c])
    BY <1>1, <1>2, <1>3, <2>5, Called
  <2>7. Frames(stack[c]) = {}
    BY <1>7 DEF Frames
  <2>8. StackInv'
    BY <1>1, <1>3, <1>7, <2>1, <2>6, <2>7 DEF StackInv, Moves, Ctx
  <2>9. Now(c)' = f /\ Working(c)'
    BY <2>2, <2>6 DEF Moves, Working, Busy, Now
  <2>10. WorkInv'
    BY <2>4, <2>9 DEF WorkInv
  <2>11. DataInv'
    BY <1>2, <1>4, <2>4 DEF DataInv
  <2> QED
    BY <2>8, <2>10, <2>11
<1> QED
  BY <1>6, <1>7 DEF RxEnable

\* With its interrupt the receiver is on.
LEMMA EnableIrqStep ==
  ASSUME Inv, NEW c \in Ctx, RxEnableIrq(c)
  PROVE  StackInv' /\ DataInv' /\ WorkInv'
<1>1. TypeOK /\ StackInv /\ WorkInv /\ DataInv
  BY DEF Inv
<1>2. /\ stack[c] # <<>> /\ Now(c).at = "enable_irq" /\ Continue(c, <<>>)
      /\ irq' = TRUE /\ UNCHANGED <<rx, active, asked, lent, got>>
  BY <1>1, AtTop DEF RxEnableIrq, clientVars
<1>0. PICK f, g : f = Below(c) /\ g = Second(Tail(stack[c]))
  OBVIOUS
<1>3. /\ Moves(c, f, g) /\ Frames(stack'[c]) \subseteq Frames(stack[c])
      /\ f.at = "bottom" \/ InEvent(f, "RX_DISABLED")
  BY <1>0, <1>1, <1>2, Popped DEF Fits
<1>4. Working(c)
  BY <1>1, <1>2, BusyWorks DEF Busy, Idle
<1>5. ControlAt(Now(c), Below(c)) /\ BuffersAt(Now(c))
  BY <1>1, <1>4, PhaseOf
<1>6. active /\ ~asked /\ ~irq /\ rx.buf = NULL /\ rx.next # NULL
  BY <1>2, <1>5 DEF ControlAt
<1>7. ControlAt(f, g)'
  BY <1>2, <1>3, <1>6
     DEF ControlAt, Settled, EndingAt, Idle, Reports, Requests, Releases,
         SwitchesLast, InEvent, Reported
<1>8. BuffersAt(f)'
  BY <1>2, <1>3, <1>5 DEF BuffersAt, InEvent
<1>9. StackInv' /\ WorkInv'
  BY <1>2, <1>3, <1>4, <1>7, <1>8, Advance
<1>10. DataInv'
  <2>1. rx'.left = 0
    BY <1>2, <1>6 DEF Inv, RxInv, CursorInv
  <2> QED
    BY <1>1, <1>2, <2>1 DEF DataInv
<1> QED
  BY <1>9, <1>10

\* rx_buf_rsp() finds the place of the next buffer empty.
LEMMA ResponseStep ==
  ASSUME Inv, NEW c \in Ctx, NEW b \in Buf, RxBufRsp(c, b)
  PROVE  StackInv' /\ DataInv' /\ WorkInv'
<1>1. TypeOK /\ StackInv /\ WorkInv /\ DataInv
  BY DEF Inv
<1>2. /\ stack[c] # <<>> /\ InEvent(Now(c), "RX_BUF_REQUEST")
      /\ Continue(c, <<>>) /\ active /\ b \notin lent
      /\ lent' = lent \cup {b} /\ got' = [got EXCEPT ![b] = 0]
      /\ UNCHANGED <<irq, active, asked>>
  BY <1>1, AtTop DEF RxBufRsp, Events
<1>0. PICK f, g : f = Below(c) /\ g = Second(Tail(stack[c]))
  OBVIOUS
<1>3. Moves(c, f, g) /\ f.at = "rdy_read"
  BY <1>0, <1>1, <1>2, Popped DEF Fits
<1>4. Working(c)
  BY <1>1, <1>2, BusyWorks DEF Busy, Idle, InEvent
<1>5. ControlAt(Now(c), Below(c)) /\ BuffersAt(Now(c))
  BY <1>1, <1>4, PhaseOf
<1>6. Settled /\ Reported /\ rx.next = NULL
  BY <1>2, <1>5 DEF ControlAt, SettledAt, Requests, InEvent, Idle
<1>7. /\ rx'.buf = rx.buf /\ rx'.curr = rx.curr /\ rx'.last = rx.last
      /\ rx'.left = rx.left /\ rx'.enabled = rx.enabled /\ rx'.next = b
  BY <1>1, <1>6 DEF RxBufRsp, TypeOK
<1>8. /\ b # NULL /\ b # rx.buf /\ got'[b] = 0
      /\ \A x \in Buf \ {b} : got'[x] = got[x]
      /\ \A x \in Buf : x \in lent <=> x = rx.buf
      /\ rx.buf # NULL => rx.buf \in Buf /\ got[rx.buf] = rx.last
  BY <1>1, <1>2, <1>5, <1>6, RxAssumption DEF BuffersAt, TypeOK, InEvent
<1>9. ControlAt(f, g)'
  BY <1>2, <1>3, <1>6, <1>7
     DEF ControlAt, Settled, EndingAt, Idle, Reports, Requests, Releases,
         SwitchesLast, InEvent, Reported
<1>10. BuffersAt(f)'
  BY <1>2, <1>3, <1>7, <1>8 DEF BuffersAt
<1>11. /\ StackInv' /\ WorkInv'
       /\ \A e \in Frames(stack'["handler"]) :
            SwitchesFull(e) => e \in Frames(stack["handler"]) \/ rx'.left = 0
  BY <1>2, <1>3, <1>4, <1>9, <1>10, Advance DEF InEvent
<1>12. DataInv'
  BY <1>1, <1>2, <1>7, <1>8, <1>11 DEF DataInv
<1> QED
  BY <1>11, <1>12

\* rx_disable() begins the end of reception.
LEMMA DisableStep ==
  ASSUME Inv, NEW c \in Ctx, RxDisable(c)
  PROVE  StackInv' /\ DataInv' /\ WorkInv'
<1> DEFINE f == Do("disable_irq")
           g == Do("disable_loop")
<1>1. TypeOK /\ StackInv /\ WorkInv /\ DataInv
  BY DEF Inv
<1>2. /\ stack[c] # <<>> /\ InEvent(Now(c), "RX_RDY")
      /\ Continue(c, <<f, g>>) /\ asked' = TRUE
      /\ rx' = [rx EXCEPT !.enabled = FALSE]
      /\ UNCHANGED <<irq, active, lent, got>>
  BY <1>1, AtTop DEF RxDisable, Events
<1>3. /\ f \in Frame /\ f.at = "disable_irq"
      /\ g \in Frame /\ g.at = "disable_loop"
  <2>1. "disable_irq" \in Points /\ "disable_loop" \in Points
    BY DEF Points
  <2> QED
    BY <2>1, FrameTypes
<1> HIDE DEF f, g
<1>4. Moves(c, f, g)
  <2>1. Fits(Now(c), Below(c))
    BY <1>1, <1>2, AtTop
  <2>2. Fits(g, Below(c)) /\ Fits(f, g)
    BY <1>2, <1>3, <2>1 DEF Fits, InEvent, Events
  <2> QED
    BY <1>1, <1>2, <1>3, <2>2, PutTwo DEF SwitchesFull
<1>5. Working(c)
  BY <1>1, <1>2, BusyWorks DEF Busy, Idle, InEvent
<1>6. ControlAt(Now(c), Below(c)) /\ BuffersAt(Now(c))
  BY <1>1, <1>5, PhaseOf
<1>7. Settled /\ Reported /\ rx.buf # NULL
  BY <1>2, <1>6 DEF ControlAt, SettledAt, Reports, InEvent, Idle
<1>8. /\ rx'.buf = rx.buf /\ rx'.curr = rx.curr /\ rx'.last = rx.last
      /\ rx'.next = rx.next /\ rx'.enabled = FALSE
  BY <1>1, <1>2 DEF TypeOK
<1>9. ControlAt(f, g)'
  BY <1>2, <1>3, <1>7, <1>8
     DEF ControlAt, SettledAt, Settled, EndingAt, Idle, Reports, Requests,
         Releases, SwitchesFull, SwitchesLast, InEvent, Reported, Ending
<1>10. BuffersAt(f)'
  BY <1>2, <1>3, <1>6, <1>8 DEF BuffersAt, InEvent
<1>11. StackInv' /\ WorkInv'
  BY <1>2, <1>4, <1>5, <1>9, <1>10, Advance DEF InEvent
<1>12. DataInv'
  BY <1>1, <1>2, <1>8 DEF DataInv
<1> QED
  BY <1>11, <1>12

\* The interrupt is off before the buffers are given back.
LEMMA DisableIrqStep ==
  ASSUME Inv, NEW c \in Ctx, RxDisableIrq(c)
  PROVE  StackInv' /\ DataInv' /\ WorkInv'
<1>1. TypeOK /\ StackInv /\ WorkInv /\ DataInv
  BY DEF Inv
<1>2. /\ stack[c] # <<>> /\ Now(c).at = "disable_irq" /\ Continue(c, <<>>)
      /\ irq' = FALSE /\ UNCHANGED <<rx, active, asked, lent, got>>
  BY <1>1, AtTop DEF RxDisableIrq, clientVars
<1>0. PICK f, g : f = Below(c) /\ g = Second(Tail(stack[c]))
  OBVIOUS
<1>3. Moves(c, f, g) /\ f.at = "disable_loop"
  BY <1>0, <1>1, <1>2, Popped DEF Fits
<1>4. Working(c)
  BY <1>1, <1>2, BusyWorks DEF Busy, Idle
<1>5. ControlAt(Now(c), Below(c)) /\ BuffersAt(Now(c))
  BY <1>1, <1>4, PhaseOf
<1>6. Ending /\ Reported
  BY <1>2, <1>5 DEF ControlAt, Idle
<1>7. ControlAt(f, g)'
  BY <1>2, <1>3, <1>6
     DEF ControlAt, SettledAt, Ending, Idle, Reports, Requests, Releases,
         SwitchesFull, SwitchesLast, InEvent, Reported
<1>8. BuffersAt(f)'
  BY <1>2, <1>3, <1>5 DEF BuffersAt
<1>9. StackInv' /\ WorkInv'
  BY <1>2, <1>3, <1>4, <1>7, <1>8, Advance
<1>10. DataInv'
  BY <1>1, <1>2, <1>6 DEF DataInv, Ending
<1> QED
  BY <1>9, <1>10

\* One more buffer is to be given back, or the end is to be reported.
LEMMA DisableLoopStep ==
  ASSUME Inv, NEW c \in Ctx, RxDisableLoop(c)
  PROVE  StackInv' /\ DataInv' /\ WorkInv'
<1>1. TypeOK /\ StackInv /\ WorkInv /\ DataInv
  BY DEF Inv
<1>2. /\ stack[c] # <<>> /\ Now(c).at = "disable_loop"
      /\ UNCHANGED <<rx, irq, active, asked, lent, got>>
  BY <1>1, AtTop DEF RxDisableLoop, clientVars
<1>3. Working(c)
  BY <1>1, <1>2, BusyWorks DEF Busy, Idle
<1>4. ControlAt(Now(c), Below(c)) /\ BuffersAt(Now(c))
  BY <1>1, <1>3, PhaseOf
<1>5. Ending /\ Reported /\ ~irq
  BY <1>2, <1>4 DEF ControlAt, EndingAt, Idle
<1>6. Fits(Now(c), Below(c))
  BY <1>1, <1>2, AtTop
<1>7. CASE rx.buf # NULL
  <2> DEFINE f == DoIf("switch", FALSE)
             g == Do("disable_loop")
  <2>1. /\ f \in Frame /\ f.at = "switch" /\ f.flag = FALSE
        /\ g \in Frame /\ g.at = "disable_loop"
    <3>1. "switch" \in Points /\ "disable_loop" \in Points
      BY DEF Points
    <3> QED
      BY <3>1, FrameTypes
  <2>2. Continue(c, <<f, g>>)
    BY <1>7 DEF RxDisableLoop
  <2> HIDE DEF f, g
  <2>3. Moves(c, f, g)
    <3>1. Fits(g, Below(c)) /\ Fits(f, g)
      BY <1>2, <1>6, <2>1 DEF Fits, InEvent, Events
    <3> QED
      BY <1>1, <1>2, <2>1, <2>2, <3>1, PutTwo DEF SwitchesFull
  <2>4. ControlAt(f, g)'
    BY <1>2, <1>5, <1>7, <2>1
       DEF ControlAt, SettledAt, Ending, Idle, Reports, Requests, Releases,
           SwitchesFull, SwitchesLast, InEvent, Reported
  <2>5. BuffersAt(f)'
    BY <1>2, <1>4, <2>1 DEF BuffersAt
  <2> QED
    BY <1>1, <1>2, <1>3, <1>5, <2>3, <2>4, <2>5, Advance DEF DataInv, Ending
<1>8. CASE rx.buf = NULL
  <2> DEFINE f == Event("RX_DISABLED", NULL, 0, 0)
  <2>1. f \in Frame /\ f.at = "RX_DISABLED" /\ f.type = "RX_DISABLED"
    <3>1. "RX_DISABLED" \in Events
      BY DEF Events
    <3> QED
      BY <3>1, FrameTypes
  <2>2. Continue(c, <<f>>)
    BY <1>8 DEF RxDisableLoop
  <2> HIDE DEF f
  <2>3. Moves(c, f, Below(c))
    <3>1. Fits(f, Below(c))
      BY <1>2, <1>6, <2>1 DEF Fits, InEvent, Events
    <3> QED
      BY <1>1, <1>2, <2>1, <2>2, <3>1, Put DEF SwitchesFull
  <2>4. \A g : ControlAt(f, g)'
    BY <1>2, <1>5, <1>8, <2>1
       DEF ControlAt, SettledAt, Ending, Idle, Reports, Requests, Releases,
           SwitchesFull, SwitchesLast, InEvent, Reported
  <2>5. BuffersAt(f)'
    BY <1>2, <1>4, <2>1 DEF BuffersAt
  <2> QED
    BY <1>1, <1>2, <1>3, <1>5, <2>3, <2>4, <2>5, Advance DEF DataInv, Ending
<1> QED
  BY <1>7, <1>8

---------------------------------------------------------------------------
(* Reports *)

\* The steps that let nobody begin or end to work.
LEMMA IdleStep ==
  ASSUME WorkInv, NEW c \in Ctx, \A d \in Ctx \ {c} : stack'[d] = stack[d],
         Now(c).at \in Idle, First(stack'[c]).at \in Idle,
         UNCHANGED <<rx, irq, active, asked, lent, got>>
  PROVE  WorkInv'
<1>1. PICK d \in Ctx : /\ Working(d)
                       /\ ControlAt(Now(d), Below(d)) /\ BuffersAt(Now(d))
  BY DEF WorkInv
<1>2. \A e \in Ctx \ {c} : Now(e)' = Now(e) /\ Below(e)' = Below(e)
  BY DEF Now, Below
<1>3. Working(d)'
  BY <1>1, <1>2 DEF Working, Busy, Now
<1>4. PICK f, g, h, k : /\ f = Now(d) /\ g = Below(d)
                        /\ h = First(stack'[d]) /\ k = Second(stack'[d])
  OBVIOUS
<1>5. ControlAt(f, g) /\ BuffersAt(f)
  BY <1>1, <1>4
<1>6. ControlAt(h, k) /\ BuffersAt(h)
  <2>1. CASE d = c
    BY <1>4, <1>5, <2>1, IdlePhase
  <2>2. CASE d # c
    BY <1>2, <1>4, <1>5, <2>2 DEF Now, Below
  <2> QED
    BY <2>1, <2>2
<1>7. ControlAt(h, k)' /\ BuffersAt(h)'
  BY <1>6 DEF ControlAt, BuffersAt, Settled, Ending, Reported
<1>8. h = Now(d)' /\ k = Below(d)'
  BY <1>4 DEF Now, Below
<1> QED
  BY <1>3, <1>7, <1>8 DEF WorkInv

\* notify_rx_buffer(): when there is something to report no context is busy, so
\* that the reporting one becomes the one that works.
LEMMA NotifyStep ==
  ASSUME Inv, NEW c \in Ctx, NotifyRxBuffer(c)
  PROVE  StackInv' /\ DataInv' /\ WorkInv'
<1>1. TypeOK /\ StackInv /\ WorkInv /\ DataInv /\ RxInv
  BY DEF Inv
<1>2. /\ stack[c] # <<>> /\ Now(c).at = "notify" /\ Now(c).at \in Idle
      /\ UNCHANGED <<irq, active, asked, lent, got>>
  BY <1>1, AtTop DEF NotifyRxBuffer, clientVars, Idle
<1>3. Fits(Now(c), Below(c)) /\ Now(c) \in Frames(stack[c])
  BY <1>1, <1>2, AtTop
<1>4. CASE rx.buf # NULL /\ rx.curr > rx.last
  <2>1. rx.curr \in Nat /\ rx.last \in Nat /\ rx.buf \in Buf
    BY <1>1, <1>4 DEF RxInv, CursorInv, TypeOK
  <2>2. Working(c)
    <3>1. ASSUME NEW d \in Ctx, Busy(d)
          PROVE  FALSE
      <4>1. Working(d)
        BY <1>1, <3>1, BusyWorks
      <4>2. Reported
        BY <1>1, <3>1, <4>1, PhaseOf DEF ControlAt, Busy
      <4> QED
        BY <1>4, <2>1, <4>2 DEF Reported
    <3> QED
      BY <3>1 DEF Working
  <2>3. ControlAt(Now(c), Below(c)) /\ BuffersAt(Now(c))
    BY <1>1, <2>2, PhaseOf
  <2>4. Settled /\ got[rx.buf] = rx.last
    BY <1>2, <1>4, <2>3 DEF ControlAt, SettledAt, BuffersAt
  <2>5. PICK f : f = Event("RX_RDY", rx.buf, rx.last, rx.curr - rx.last)
    OBVIOUS
  <2>6. /\ f \in Frame /\ f.at = "RX_RDY" /\ f.type = "RX_RDY"
        /\ f.buf = rx.buf /\ f.off = rx.last /\ f.len = rx.curr - rx.last
    <3>1. "RX_RDY" \in Events /\ rx.curr - rx.last \in Nat
      BY <1>4, <2>1 DEF Events
    <3> QED
      BY <2>1, <2>5, <3>1, FrameTypes
  <2>7. Continue(c, <<f>>) /\ rx' = [rx EXCEPT !.last = rx.curr]
    BY <1>4, <2>5 DEF NotifyRxBuffer, Notified
  <2>8. /\ rx'.buf = rx.buf /\ rx'.next = rx.next /\ rx'.curr = rx.curr
        /\ rx'.last = rx.curr /\ rx'.left = rx.left /\ rx'.enabled = rx.enabled
    BY <1>1, <2>7 DEF TypeOK
  <2>9. Moves(c, f, Below(c))
    <3>1. Fits(f, Below(c))
      BY <1>2, <1>3, <2>6 DEF Fits, InEvent
    <3> QED
      BY <1>1, <1>2, <2>6, <2>7, <3>1, Put DEF SwitchesFull
  <2>10. \A g : ControlAt(f, g)'
    BY <1>2, <1>4, <2>4, <2>6, <2>8
       DEF ControlAt, EndingAt, Settled, Idle, Reports, Requests, Releases,
           SwitchesFull, SwitchesLast, InEvent, Reported
  <2>11. BuffersAt(f)'
    <3>1. \A b \in Buf : b \in lent <=> b = rx.buf \/ b = rx.next
      BY <1>2, <2>3 DEF BuffersAt
    <3>2. f.len > 0 /\ f.off + f.len = rx.curr
      BY <1>4, <2>1, <2>6
    <3> QED
      BY <1>2, <2>4, <2>6, <2>8, <3>1, <3>2 DEF BuffersAt
  <2> QED
    BY <1>1, <1>2, <2>2, <2>8, <2>9, <2>10, <2>11, Advance DEF DataInv
<1>5. CASE ~(rx.buf # NULL /\ rx.curr > rx.last)
  <2>1. Continue(c, <<>>) /\ UNCHANGED rx
    BY <1>5 DEF NotifyRxBuffer
  <2>2. Reported
    BY <1>1, <1>5 DEF Reported, RxInv, CursorInv
  <2>3. PICK f, g : f = Below(c) /\ g = Second(Tail(stack[c]))
    OBVIOUS
  <2>4. /\ Moves(c, f, g) /\ Frames(stack'[c]) \subseteq Frames(stack[c])
        /\ f.at = "bottom" \/ SwitchesFull(f)
    BY <1>1, <1>2, <2>1, <2>3, Popped DEF Fits
  <2>5. CASE Working(c)
    <3>1. ControlAt(Now(c), Below(c)) /\ BuffersAt(Now(c))
      BY <1>1, <2>5, PhaseOf
    <3>2. ControlAt(f, g)'
      BY <1>2, <2>1, <2>2, <2>4, <3>1
         DEF ControlAt, SettledAt, EndingAt, Settled, Idle, Reports, Requests,
             Releases, SwitchesFull, SwitchesLast, InEvent, Reported
    <3>3. BuffersAt(f)'
      BY <1>2, <2>1, <2>4, <3>1 DEF BuffersAt, SwitchesFull
    <3> QED
      BY <1>1, <1>2, <2>1, <2>4, <2>5, <3>2, <3>3, Advance DEF DataInv, Moves
  <2>6. CASE ~Working(c)
    <3>1. c = "timer"
      <4>1. c # "handler"
        BY <1>1, <1>2, <2>6, HandlerWorks DEF NotifyRxBuffer, At
      <4>2. c # "thread"
        BY <1>1, <1>2, <1>3 DEF StackInv
      <4> QED
        BY <4>1, <4>2 DEF Ctx
    <3>2. f.at \in Idle
      <4>1. CASE SwitchesFull(f)
        <5>1. stack[c] \in Seq(Frame)
          BY <1>1 DEF TypeOK
        <5>2. Tail(stack[c]) # <<>> /\ Tail(stack[c]) \in Seq(Frame)
          BY <1>1, <1>2, <2>1, <2>3, <4>1, <5>1, Popped, Uncons
             DEF SwitchesFull, Bottom
        <5>3. f \in Frames(stack[c])
          <6>1. /\ Frames(stack[c]) = {Now(c)} \cup Frames(Tail(stack[c]))
                /\ f = First(Tail(stack[c]))
            BY <1>2, <2>3, <5>1, Uncons DEF Now, Below
          <6>2. First(Tail(stack[c])) \in Frames(Tail(stack[c]))
            BY <5>2, Uncons
          <6> QED
            BY <6>1, <6>2
        <5> QED
          BY <1>1, <3>1, <4>1, <5>3 DEF StackInv
      <4>2. CASE f.at = "bottom"
        BY <4>2 DEF Idle
      <4> QED
        BY <2>4, <4>1, <4>2
    <3>3. WorkInv'
      BY <1>1, <1>2, <2>1, <2>4, <3>2, IdleStep DEF Moves
    <3>4. StackInv' /\ stack'["handler"] = stack["handler"]
      <4>1. stack'["thread"] = stack["thread"] /\ stack'["handler"] = stack["handler"]
        BY <2>4, <3>1 DEF Moves, Ctx
      <4>2. \A d \in Ctx : Chained(stack'[d])
        BY <1>1, <2>4 DEF Moves, StackInv
      <4>3. \A e \in Frames(stack'["timer"]) : ~SwitchesFull(e)
        BY <1>1, <2>4, <3>1 DEF StackInv
      <4> QED
        BY <1>1, <4>1, <4>2, <4>3 DEF StackInv
    <3> QED
      BY <1>1, <1>2, <2>1, <3>3, <3>4 DEF DataInv
  <2> QED
    BY <2>5, <2>6
<1> QED
  BY <1>4, <1>5

---------------------------------------------------------------------------
(* Buffers are switched *)

\* switch_rx_buffer(): the next buffer, empty, becomes the current one, and
\* the current one, all of which was reported, is on its way to the client.
LEMMA SwitchStep ==
  ASSUME Inv, NEW c \in Ctx, SwitchRxBuffer(c)
  PROVE  StackInv' /\ DataInv' /\ WorkInv'
<1>1. TypeOK /\ StackInv /\ WorkInv /\ DataInv /\ RxInv
  BY DEF Inv
<1>2. /\ stack[c] # <<>> /\ Now(c).at = "switch" /\ Now(c) = Top(c)
      /\ Now(c) \in Frames(stack[c]) /\ Fits(Now(c), Below(c))
      /\ UNCHANGED <<irq, active, asked, lent, got>>
  BY <1>1, AtTop DEF SwitchRxBuffer, clientVars
<1>3. Working(c)
  BY <1>1, <1>2, BusyWorks DEF Busy, Idle
<1>4. ControlAt(Now(c), Below(c)) /\ BuffersAt(Now(c))
  BY <1>1, <1>3, PhaseOf
<1>5. PICK start : /\ start = IF rx.next = NULL THEN NULL ELSE 0
                   /\ rx' = Switched(start)
  BY DEF SwitchRxBuffer
<1>6. /\ rx'.buf = rx.next /\ rx'.next = NULL /\ rx'.enabled = rx.enabled
      /\ rx'.curr = start /\ rx'.last = start /\ rx'.left = rx.nextLen
  BY <1>1, <1>5 DEF Switched, TypeOK
<1>7. /\ Reported /\ Reported'
      /\ rx.buf # NULL => /\ rx.buf \in Buf \ {rx.next} /\ rx.curr \in Nat
                          /\ rx.curr = got[rx.buf]
                          /\ rx.curr + rx.left = BufLen
      /\ rx'.buf # NULL => got[rx'.buf] = 0 /\ rx'.last = 0
      /\ \A b \in Buf : b \in lent <=> b = rx.buf \/ b = rx.next
  BY <1>1, <1>2, <1>4, <1>5, <1>6
     DEF ControlAt, BuffersAt, Reported, Idle, DataInv, RxInv, CursorInv, TypeOK
<1>8. DataInv' <=> \A e \in Frames(stack'["handler"]) :
                     SwitchesFull(e) => rx'.left = 0 \/ asked'
  BY <1>1, <1>2, <1>6 DEF DataInv
<1>9. CASE Now(c).flag = FALSE
  <2>1. Ending /\ ~irq /\ rx.buf # NULL /\ Below(c).at = "disable_loop"
    BY <1>2, <1>4, <1>9 DEF ControlAt, EndingAt, SwitchesLast, Fits
  <2>2. PICK f : f = Event("RX_BUF_RELEASED", rx.buf, 0, rx.curr)
    OBVIOUS
  <2>3. /\ f \in Frame /\ f.at = "RX_BUF_RELEASED"
        /\ f.type = "RX_BUF_RELEASED" /\ f.buf = rx.buf /\ f.len = rx.curr
    <3>1. "RX_BUF_RELEASED" \in Events /\ 0 \in Nat
      BY DEF Events
    <3> QED
      BY <1>7, <2>1, <2>2, <3>1, FrameTypes
  <2>4. Continue(c, <<f>>)
    <3>1. Continue(c, <<f>> \o <<>>)
      BY <1>2, <1>9, <2>1, <2>2 DEF SwitchRxBuffer
    <3>2. <<f>> \o <<>> = <<f>>
      BY <2>3
    <3> QED
      BY <3>1, <3>2
  <2>5. Moves(c, f, Below(c))
    <3>1. Fits(f, Below(c))
      BY <2>1, <2>3 DEF Fits, InEvent
    <3> QED
      BY <1>1, <1>2, <2>3, <2>4, <3>1, Put DEF SwitchesFull
  <2>6. PICK g : g = Below(c)
    OBVIOUS
  <2>7. ControlAt(f, g)'
    BY <1>2, <1>6, <1>7, <2>1, <2>3, <2>6
       DEF ControlAt, SettledAt, Ending, Idle, Reports, Requests, Releases,
           SwitchesFull, SwitchesLast, InEvent
  <2>8. BuffersAt(f)'
    BY <1>2, <1>6, <1>7, <2>1, <2>3, RxAssumption DEF BuffersAt, Ending
  <2>9. StackInv' /\ WorkInv'
    BY <1>2, <1>3, <2>5, <2>6, <2>7, <2>8, Advance
  <2>10. DataInv'
    BY <1>2, <1>8, <2>1 DEF Ending
  <2> QED
    BY <2>9, <2>10
<1>10. CASE Now(c).flag = TRUE
  <2>1. Settled /\ Below(c).at = "rdy_read"
    BY <1>2, <1>4, <1>10 DEF ControlAt, SettledAt, SwitchesFull, Fits
  <2>2. rx.left = 0 /\ rx.buf # NULL => rx.curr = BufLen
    BY <1>7, RxAssumption
  <2>0. c = "handler"
    <3>1. c # "timer"
      BY <1>1, <1>2, <1>10 DEF StackInv, SwitchesFull
    <3>2. c # "thread"
      BY <1>1, <1>2 DEF StackInv
    <3> QED
      BY <3>1, <3>2 DEF Ctx
  <2>3. rx.left = 0
    BY <1>1, <1>2, <1>10, <2>1, <2>0 DEF DataInv, SwitchesFull, Settled
  <2>4. PICK f, g : /\ f = Event("RX_BUF_RELEASED", rx.buf, 0, rx.curr)
                    /\ g = Event("RX_BUF_REQUEST", NULL, 0, 0)
    OBVIOUS
  <2>5. g \in Frame /\ g.at = "RX_BUF_REQUEST" /\ g.type = "RX_BUF_REQUEST"
    <3>1. "RX_BUF_REQUEST" \in Events /\ 0 \in Nat
      BY DEF Events
    <3> QED
      BY <2>4, <3>1, FrameTypes
  <2>6. Fits(g, Below(c))
    BY <2>1, <2>5 DEF Fits, InEvent, Events
  <2>7. Settled'
    BY <1>2, <1>6, <2>1 DEF Settled
  <2>8. \A e \in Frames(Tail(stack[c])) : ~SwitchesFull(e)
    <3>1. /\ stack[c] \in Seq(Frame) /\ Chained(stack[c])
      BY <1>1 DEF TypeOK, StackInv
    <3>2. /\ Tail(stack[c]) \in Seq(Frame) /\ Chained(Tail(stack[c]))
          /\ First(Tail(stack[c])) = Below(c)
      BY <1>2, <3>1, Uncons DEF Below
    <3>3. Tail(stack[c]) # <<>>
      BY <2>1, <3>2 DEF First, Bottom
    <3> QED
      BY <2>1, <3>2, <3>3, Outermost DEF SwitchesFull
  <2>10. CASE rx.buf # NULL
    <3>1. /\ f \in Frame /\ f.at = "RX_BUF_RELEASED"
          /\ f.type = "RX_BUF_RELEASED" /\ f.buf = rx.buf /\ f.len = rx.curr
      <4>1. "RX_BUF_RELEASED" \in Events /\ 0 \in Nat
        BY DEF Events
      <4>2. rx.buf \in Buf /\ rx.curr \in Nat
        BY <1>7, <2>10
      <4> QED
        BY <2>4, <4>1, <4>2 DEF Event, Frame, Points
    <3>2. Continue(c, <<f, g>>)
      <4>1. Continue(c, <<f>> \o <<g>>)
        BY <1>2, <1>10, <2>4, <2>10 DEF SwitchRxBuffer
      <4>2. <<f>> \o <<g>> = <<f, g>>
        <5>1. /\ <<f>> \o <<g>> \in Seq(Frame) /\ <<f, g>> \in Seq(Frame)
          BY <2>5, <3>1
        <5>2. /\ Len(<<f, g>>) = 2 /\ Len(<<f>> \o <<g>>) = 2
              /\ \A i \in 1 .. 2 : <<f, g>>[i] = (<<f>> \o <<g>>)[i]
          OBVIOUS
        <5> QED
          BY <5>1, <5>2, SeqEqual
      <4> QED
        BY <4>1, <4>2
    <3>3. /\ Moves(c, f, g)
          /\ Frames(stack'[c]) = {f, g} \cup Frames(Tail(stack[c]))
      <4>1. Fits(f, g)
        BY <2>5, <3>1 DEF Fits, InEvent
      <4> QED
        BY <1>1, <1>2, <2>5, <2>6, <3>1, <3>2, <4>1, PutTwo DEF SwitchesFull
    <3>4. ControlAt(f, g)'
      BY <1>6, <1>7, <2>5, <2>7, <3>1
         DEF ControlAt, EndingAt, Idle, Reports, Requests, Releases,
             SwitchesFull, SwitchesLast, InEvent
    <3>5. BuffersAt(f)'
      BY <1>2, <1>6, <1>7, <2>2, <2>3, <2>10, <3>1, RxAssumption DEF BuffersAt
    <3>6. StackInv' /\ WorkInv'
      BY <1>2, <1>3, <3>3, <3>4, <3>5, Advance
    <3>7. \A e \in Frames(stack'["handler"]) : ~SwitchesFull(e)
      BY <2>0, <2>5, <2>8, <3>1, <3>3 DEF SwitchesFull
    <3> QED
      BY <1>8, <3>6, <3>7
  <2>11. CASE rx.buf = NULL
    <3>1. Continue(c, <<g>>)
      <4>1. Continue(c, <<>> \o <<g>>)
        BY <1>2, <1>10, <2>4, <2>11 DEF SwitchRxBuffer
      <4>2. <<>> \o <<g>> = <<g>>
        BY <2>5
      <4> QED
        BY <4>1, <4>2
    <3>2. /\ Moves(c, g, Below(c))
          /\ Frames(stack'[c]) = {g} \cup Frames(Tail(stack[c]))
      BY <1>1, <1>2, <2>5, <2>6, <3>1, Put DEF SwitchesFull
    <3>3. PICK h : h = Below(c)
      OBVIOUS
    <3>4. ControlAt(g, h)'
      BY <1>6, <1>7, <2>5, <2>7
         DEF ControlAt, EndingAt, Idle, Reports, Requests, Releases,
             SwitchesFull, SwitchesLast, InEvent
    <3>5. BuffersAt(g)'
      BY <1>2, <1>6, <1>7, <2>5, <2>11, RxAssumption DEF BuffersAt
    <3>6. StackInv' /\ WorkInv'
      BY <1>2, <1>3, <3>2, <3>3, <3>4, <3>5, Advance
    <3>7. \A e \in Frames(stack'["handler"]) : ~SwitchesFull(e)
      BY <2>0, <2>5, <2>8, <3>2 DEF SwitchesFull
    <3> QED
      BY <1>8, <3>6, <3>7
  <2> QED
    BY <2>10, <2>11
<1>11. Now(c).flag \in BOOLEAN
  BY <1>1, <1>2, AtTop DEF Frame
<1> QED
  BY <1>9, <1>10, <1>11

---------------------------------------------------------------------------
(* The handler *)

\* The start of the timer concerns no buffer.
LEMMA TimerStartStep ==
  ASSUME Inv, RxReadyTimer
  PROVE  StackInv' /\ DataInv' /\ WorkInv'
<1> DEFINE c == "handler"
<1>1. TypeOK /\ StackInv /\ WorkInv /\ DataInv /\ c \in Ctx
  BY DEF Inv, Ctx
<1>2. /\ stack[c] # <<>> /\ Now(c).at = "rdy_timer" /\ Continue(c, <<>>)
      /\ UNCHANGED <<rx, irq, active, asked, lent, got>>
      /\ MayStep(c, Running)
  BY <1>1, AtTop DEF RxReadyTimer, At, clientVars
<1>3. Working(c)
  BY <1>1, <1>2, HandlerWorks
<1>4. PICK f, g, h, k : /\ f = Below(c) /\ g = Second(Tail(stack[c]))
                        /\ h = Now(c) /\ k = Below(c)
  OBVIOUS
<1>5. Moves(c, f, g) /\ f.at = "rdy_loop"
  BY <1>1, <1>2, <1>4, Popped DEF Fits
<1>6. ControlAt(f, g) /\ BuffersAt(f)
  <2>1. ControlAt(h, k) /\ BuffersAt(h)
    BY <1>1, <1>3, <1>4, PhaseOf
  <2> QED
    BY <1>2, <1>4, <1>5, <2>1, IdlePhase DEF Idle
<1>7. ControlAt(f, g)' /\ BuffersAt(f)'
  BY <1>2, <1>6 DEF ControlAt, BuffersAt, Settled, Ending, Reported
<1> HIDE DEF c
<1>8. /\ StackInv' /\ WorkInv'
      /\ \A e \in Frames(stack'["handler"]) :
           SwitchesFull(e) => e \in Frames(stack["handler"]) \/ rx'.left = 0
  BY <1>1, <1>2, <1>3, <1>5, <1>7, Advance
<1> QED
  BY <1>1, <1>2, <1>8 DEF DataInv

\* What on_rx_ready() does with what the target holds.
LEMMA ReadStep ==
  ASSUME Inv, stack["handler"] # <<>>, MayStep("handler", Running),
         Now("handler").at \in {"rdy_loop", "rdy_read"},
         NEW now \in BOOLEAN, ReadOrDrop(now), UNCHANGED <<irq, clientVars>>
  PROVE  StackInv' /\ DataInv' /\ WorkInv'
<1>0. PICK c \in Ctx : c = "handler"
  BY DEF Ctx
<1>1. TypeOK /\ StackInv /\ WorkInv /\ DataInv
  BY DEF Inv
<1>2. Working(c)
  BY <1>0, <1>1, HandlerWorks
<1>3. ControlAt(Now(c), Below(c)) /\ BuffersAt(Now(c))
  BY <1>1, <1>2, PhaseOf
<1>4. Settled
  BY <1>0, <1>3 DEF ControlAt, SettledAt, Idle
<1>5. /\ rx'.buf = rx.buf /\ rx'.next = rx.next /\ rx'.last = rx.last
      /\ rx'.enabled = rx.enabled
  BY <1>1 DEF ReadOrDrop, TypeOK
<1>6. /\ UNCHANGED <<irq, active, asked, lent, got>>
  BY DEF clientVars
<1>7. /\ Tail(stack[c]) = <<>> /\ Frames(Tail(stack[c])) = {}
      /\ Below(c) = Bottom
  <2>1. stack[c] \in Seq(Frame) /\ Chained(stack[c])
    BY <1>1 DEF TypeOK, StackInv
  <2>2. Tail(stack[c]) = <<>> /\ Below(c) = Bottom
    BY <1>0, <2>1, Outermost DEF Now, Below
  <2> QED
    BY <2>2 DEF Frames
<1>8. \A f, g : f.at \in Idle => ControlAt(f, g)' /\ BuffersAt(f)'
  <2> SUFFICES ASSUME NEW f, NEW g, f.at \in Idle
               PROVE  ControlAt(f, g)' /\ BuffersAt(f)'
    OBVIOUS
  <2>1. ControlAt(f, g)'
    BY <1>4, <1>5, <1>6
       DEF ControlAt, EndingAt, Settled, Idle, Reports, Requests, Releases,
           SwitchesFull, SwitchesLast, InEvent
  <2>2. BuffersAt(f)'
    BY <1>0, <1>3, <1>5, <1>6 DEF BuffersAt, Idle
  <2> QED
    BY <2>1, <2>2
<1>9. ASSUME NEW f, NEW g, f.at \in Idle, Moves(c, f, g),
             \A e \in Frames(stack'[c]) : ~SwitchesFull(e)
      PROVE  StackInv' /\ DataInv' /\ WorkInv'
  <2>1. StackInv' /\ WorkInv'
    BY <1>0, <1>2, <1>8, <1>9, Advance
  <2>2. DataInv'
    BY <1>0, <1>1, <1>5, <1>6, <1>9 DEF DataInv
  <2> QED
    BY <2>1, <2>2
<1>10. ASSUME Continue(c, <<>>)
       PROVE  StackInv' /\ DataInv' /\ WorkInv'
  <2>1. PICK f, g : f = Below(c) /\ g = Second(Tail(stack[c]))
    OBVIOUS
  <2>2. Moves(c, f, g) /\ Frames(stack'[c]) = {}
    BY <1>0, <1>1, <1>7, <1>10, <2>1, Popped
  <2>3. f.at \in Idle
    BY <1>7, <2>1 DEF Bottom, Idle
  <2> QED
    BY <1>9, <2>2, <2>3
<1>11. ASSUME NEW f \in Frame, f.at = "notify" \/ f.at = "rdy_loop",
              Continue(c, <<f>>)
       PROVE  StackInv' /\ DataInv' /\ WorkInv'
  <2>1. Fits(f, Below(c)) /\ ~SwitchesFull(f)
    BY <1>7, <1>11 DEF Fits, Bottom, InEvent, Events, SwitchesFull
  <2>2. /\ Moves(c, f, Below(c))
        /\ Frames(stack'[c]) = {f} \cup Frames(Tail(stack[c]))
    BY <1>0, <1>1, <1>11, <2>1, Put
  <2>3. PICK g : g = Below(c)
    OBVIOUS
  <2> QED
    BY <1>7, <1>9, <1>11, <2>1, <2>2, <2>3 DEF Idle
<1>12. \/ Continue(c, <<>>)
       \/ Continue(c, <<Do("notify")>>)
       \/ \E g \in BOOLEAN : Continue(c, <<DoIf("rdy_loop", g)>>)
  <2>1. CASE rx.left = 0
    BY <1>0, <2>1 DEF ReadOrDrop
  <2>2. CASE rx.left # 0
    <3>1. (now \/ rx.timeout = "zero") \in BOOLEAN
      OBVIOUS
    <3> QED
      BY <1>0, <2>2, <3>1 DEF ReadOrDrop
  <2> QED
    BY <2>1, <2>2
<1>13. /\ Do("notify") \in Frame /\ Do("notify").at = "notify"
       /\ \A g \in BOOLEAN : /\ DoIf("rdy_loop", g) \in Frame
                             /\ DoIf("rdy_loop", g).at = "rdy_loop"
  <2>1. "notify" \in Points /\ "rdy_loop" \in Points
    BY DEF Points
  <2> QED
    BY <2>1, FrameTypes
<1> QED
  BY <1>10, <1>11, <1>12, <1>13

\* The bytes left over when a buffer was switched are read into the next one, or
\* dropped.
LEMMA ReadyReadStep ==
  ASSUME Inv, RxReadyRead
  PROVE  StackInv' /\ DataInv' /\ WorkInv'
<1>1. TypeOK /\ StackInv /\ "handler" \in Ctx
  BY DEF Inv, Ctx
<1>2. /\ stack["handler"] # <<>> /\ MayStep("handler", Running)
      /\ Now("handler").at = "rdy_read"
  BY <1>1, AtTop DEF RxReadyRead, At
<1>3. Top("handler").flag \in BOOLEAN
  BY <1>1, <1>2, AtTop DEF Frame
<1> QED
  BY <1>2, <1>3, ReadStep DEF RxReadyRead

\* A buffer that is full is reported and another one asked for before the
\* rest of what the target holds is read.
LEMMA ReadyLoopStep ==
  ASSUME Inv, RxReadyLoop
  PROVE  StackInv' /\ DataInv' /\ WorkInv'
<1>0. PICK c \in Ctx : c = "handler"
  BY DEF Ctx
<1>1. TypeOK /\ StackInv /\ WorkInv /\ DataInv /\ stack[c] \in Seq(Frame)
      /\ Chained(stack[c])
  BY DEF Inv, TypeOK, StackInv
<1>2. /\ stack[c] # <<>> /\ MayStep(c, Running)
      /\ Now(c).at = "rdy_loop" /\ Now(c) = Top(c) /\ Now(c) \in Frame
  BY <1>0, <1>1, AtTop DEF RxReadyLoop, At
<1>3. CASE rx.left # 0
  <2>1. Top(c).flag \in BOOLEAN
    BY <1>2 DEF Frame
  <2> QED
    BY <1>0, <1>2, <1>3, <2>1, ReadStep DEF RxReadyLoop
<1>4. CASE rx.left = 0
  <2>1. Working(c)
    BY <1>0, <1>1, <1>2, HandlerWorks
  <2>2. PICK f, g, h : f = Do("notify") /\ g = DoIf("switch", TRUE)
                         /\ h = DoIf("rdy_read", FALSE)
    OBVIOUS
  <2>3. /\ Continue(c, <<f, g, h>>)
        /\ UNCHANGED <<rx, irq, active, asked, lent, got>>
    BY <1>0, <1>4, <2>2 DEF RxReadyLoop, clientVars
  <2>4. /\ f \in Frame /\ g \in Frame /\ h \in Frame
        /\ f.at = "notify" /\ g.at = "switch" /\ g.flag = TRUE
        /\ h.at = "rdy_read"
    <3>1. "notify" \in Points /\ "switch" \in Points /\ "rdy_read" \in Points
      BY DEF Points
    <3> QED
      BY <2>2, <3>1, FrameTypes
  <2>5. Tail(stack[c]) = <<>>
    BY <1>1, <1>2, Outermost DEF Now
  <2>6. stack'[c] = <<f>> \o (<<g>> \o (<<h>> \o <<>>))
        /\ \A d \in Ctx \ {c} : stack'[d] = stack[d]
    <3>1. stack' = [stack EXCEPT ![c] = <<f, g, h>> \o <<>>]
      BY <2>3, <2>5 DEF Continue
    <3>2. <<f, g, h>> \o <<>> = <<f>> \o (<<g>> \o (<<h>> \o <<>>))
      <4>1. /\ <<f, g, h>> \o <<>> \in Seq(Frame)
            /\ <<f>> \o (<<g>> \o (<<h>> \o <<>>)) \in Seq(Frame)
        BY <2>4
      <4>2. /\ Len(<<f, g, h>> \o <<>>) = 3
            /\ Len(<<f>> \o (<<g>> \o (<<h>> \o <<>>))) = 3
            /\ \A i \in 1 .. 3 : (<<f, g, h>> \o <<>>)[i]
                                   = (<<f>> \o (<<g>> \o (<<h>> \o <<>>)))[i]
        OBVIOUS
      <4> QED
        BY <4>1, <4>2, SeqEqual
    <3> QED
      BY <1>1, <3>1, <3>2 DEF TypeOK
  <2>7. PICK r : r = <<h>> \o <<>>
    OBVIOUS
  <2>8. /\ r \in Seq(Frame) /\ First(r) = h /\ Chained(r)
        /\ Frames(r) = {h}
    <3>1. <<>> \in Seq(Frame) /\ Chained(<<>>) /\ Frames(<<>>) = {}
          /\ First(<<>>) = Bottom
      BY DEF Chained, Frames, First
    <3>2. Fits(h, Bottom)
      BY <2>4 DEF Fits, Bottom, InEvent, Events
    <3> QED
      BY <2>4, <2>7, <3>1, <3>2, Cons
  <2>9. PICK q : q = <<g>> \o r
    OBVIOUS
  <2>10. /\ q \in Seq(Frame) /\ First(q) = g /\ Chained(q)
         /\ Frames(q) = {g, h}
    <3>1. Fits(g, h)
      BY <2>4 DEF Fits, InEvent, Events
    <3> QED
      BY <2>4, <2>8, <2>9, <3>1, Cons
  <2>11. /\ First(<<f>> \o q) = f /\ Second(<<f>> \o q) = g
         /\ Chained(<<f>> \o q) /\ Frames(<<f>> \o q) = {f, g, h}
    <3>1. Fits(f, g)
      BY <2>4 DEF Fits, InEvent, Events, SwitchesFull
    <3> QED
      BY <2>4, <2>10, <3>1, Cons
  <2>12. stack'[c] = <<f>> \o q
    BY <2>6, <2>7, <2>9
  <2>13. Moves(c, f, g)
    BY <1>0, <1>4, <2>3, <2>6, <2>11, <2>12 DEF Moves
  <2>14. ControlAt(f, g) /\ BuffersAt(f)
    <3>1. PICK i, k : i = Now(c) /\ k = Below(c)
      OBVIOUS
    <3>2. ControlAt(i, k) /\ BuffersAt(i)
      BY <1>1, <2>1, <3>1, PhaseOf
    <3> QED
      BY <1>2, <2>4, <3>1, <3>2, IdlePhase DEF Idle
  <2>15. ControlAt(f, g)' /\ BuffersAt(f)'
    BY <2>3, <2>14 DEF ControlAt, BuffersAt, Settled, Ending, Reported
  <2>16. StackInv' /\ WorkInv'
    BY <1>2, <2>1, <2>13, <2>15, Advance
  <2>17. DataInv'
    BY <1>1, <1>4, <2>3 DEF DataInv
  <2> QED
    BY <2>16, <2>17
<1> QED
  BY <1>3, <1>4

---------------------------------------------------------------------------
(* Callbacks, interrupts and the timer *)

\* The client is told of what its context had under way.
LEMMA DeliverStep ==
  ASSUME Inv, NEW c \in Ctx, Deliver(c)
  PROVE  StackInv' /\ DataInv' /\ WorkInv'
<1>1. TypeOK /\ StackInv /\ WorkInv /\ DataInv /\ RxInv
  BY DEF Inv
<1>2. /\ stack[c] # <<>> /\ Now(c) = Top(c) /\ Now(c).at \in Events
      /\ Fits(Now(c), Below(c)) /\ Now(c) \in Frame
  <2>1. PICK e \in Events : At(c, e)
    BY Zenon DEF Deliver
  <2> QED
    BY <1>1, <2>1, AtTop
<1>3. PICK e : e = Now(c)
  OBVIOUS
<1>4. /\ e \in Frame /\ e.at \in Events /\ e.type = e.at /\ Fits(e, Below(c))
  BY <1>2, <1>3 DEF Fits
<1>5. PICK f : f = [Do("callback") EXCEPT !.type = e.type]
  OBVIOUS
<1>6. /\ f \in Frame /\ f.at = "callback" /\ f.type = e.at
  BY <1>4, <1>5, FrameTypes
<1>7. Continue(c, <<f>>) /\ UNCHANGED <<rx, irq>>
  <2>1. /\ Continue(c, <<[Do("callback") EXCEPT !.type = Top(c).type]>>)
        /\ UNCHANGED <<rx, irq>>
    BY Zenon DEF Deliver
  <2> QED
    BY <1>2, <1>3, <1>5, <2>1
<1>8. Moves(c, f, Below(c))
  <2>1. Fits(f, Below(c)) /\ ~SwitchesFull(f)
    BY <1>4, <1>6 DEF Fits, InEvent, Events, SwitchesFull
  <2> QED
    BY <1>1, <1>2, <1>6, <1>7, <2>1, Put
<1>9. Working(c)
  BY <1>1, <1>2, BusyWorks DEF Busy, Idle, Events
<1>10. PICK g : g = Below(c)
  OBVIOUS
<1>11. ControlAt(e, g) /\ BuffersAt(e)
  BY <1>1, <1>3, <1>9, <1>10, PhaseOf
<1>12. Reported
  BY <1>4, <1>11 DEF ControlAt, Idle, Events
<1>13. ASSUME ControlAt(f, g)', BuffersAt(f)'
       PROVE  /\ StackInv' /\ WorkInv'
              /\ \A x \in Frames(stack'["handler"]) : SwitchesFull(x) =>
                   x \in Frames(stack["handler"]) \/ rx'.left = 0
  BY <1>2, <1>8, <1>9, <1>10, <1>13, Advance DEF Events
<1>14. CASE e.at = "RX_RDY"
  <2>1. /\ got' = [got EXCEPT ![e.buf] = @ + e.len]
        /\ UNCHANGED <<active, asked, lent>>
    BY <1>2, <1>3, <1>4, <1>14, Delivered
  <2>2. Settled /\ rx.buf # NULL
    BY <1>11, <1>14 DEF ControlAt, SettledAt, Reports
  <2>3. /\ got'[rx.buf] = rx.last
        /\ \A b \in Buf \ {rx.buf} : got'[b] = got[b]
    BY <1>1, <1>11, <1>14, <2>1, <2>2 DEF BuffersAt, TypeOK
  <2>4. ControlAt(f, g)'
    BY <1>6, <1>7, <1>12, <1>14, <2>1, <2>2
       DEF ControlAt, EndingAt, Settled, Idle, Reports, Requests, Releases,
           SwitchesFull, SwitchesLast, InEvent, Reported
  <2>5. BuffersAt(f)'
    BY <1>6, <1>7, <1>11, <1>14, <2>1, <2>3 DEF BuffersAt
  <2>6. DataInv'
    <3>1. rx.next # NULL => rx.next \in Buf \ {rx.buf}
      BY <1>1, <2>2 DEF DataInv, TypeOK
    <3> QED
      BY <1>1, <1>7, <1>13, <2>1, <2>3, <2>4, <2>5, <3>1 DEF DataInv
  <2> QED
    BY <1>13, <2>4, <2>5, <2>6
<1>15. CASE e.at = "RX_BUF_RELEASED"
  <2>1. lent' = lent \ {e.buf} /\ UNCHANGED <<active, asked, got>>
    BY <1>2, <1>3, <1>4, <1>15, Delivered
  <2>2. ControlAt(f, g)'
    BY <1>6, <1>7, <1>11, <1>12, <1>15, <2>1
       DEF ControlAt, SettledAt, EndingAt, Settled, Ending, Idle, Reports,
           Requests, Releases, SwitchesFull, SwitchesLast, InEvent, Reported
  <2>3. BuffersAt(f)'
    BY <1>6, <1>7, <1>11, <1>15, <2>1 DEF BuffersAt
  <2>4. DataInv'
    BY <1>1, <1>7, <1>13, <2>1, <2>2, <2>3 DEF DataInv
  <2> QED
    BY <1>13, <2>2, <2>3, <2>4
<1>16. CASE e.at = "RX_DISABLED"
  <2>1. active' = FALSE /\ asked' = FALSE /\ UNCHANGED <<lent, got>>
    BY <1>2, <1>3, <1>4, <1>16, Delivered
  <2>2. Ending /\ ~irq /\ rx.buf = NULL
    BY <1>11, <1>16 DEF ControlAt, EndingAt
  <2>3. ControlAt(f, g)'
    BY <1>6, <1>7, <1>12, <1>16, <2>1, <2>2
       DEF ControlAt, EndingAt, Settled, Ending, Idle, Reports, Requests,
           Releases, SwitchesFull, SwitchesLast, InEvent, Reported
  <2>4. BuffersAt(f)'
    BY <1>6, <1>7, <1>11, <1>16, <2>1, <2>2 DEF BuffersAt
  <2>5. DataInv'
    BY <1>1, <1>7, <2>1, <2>2 DEF DataInv, Ending, RxInv, CursorInv
  <2> QED
    BY <1>13, <2>3, <2>4, <2>5
<1>17. CASE e.at = "RX_BUF_REQUEST"
  <2>1. UNCHANGED <<active, asked, lent, got>>
    BY <1>2, <1>3, <1>4, <1>17, Delivered DEF clientVars
  <2>2. ControlAt(f, g)'
    BY <1>6, <1>7, <1>11, <1>12, <1>17, <2>1
       DEF ControlAt, SettledAt, EndingAt, Settled, Idle, Reports, Requests,
           Releases, SwitchesFull, SwitchesLast, InEvent, Reported
  <2>3. BuffersAt(f)'
    BY <1>6, <1>7, <1>11, <1>17, <2>1 DEF BuffersAt
  <2>4. DataInv'
    BY <1>1, <1>7, <1>13, <2>1, <2>2, <2>3 DEF DataInv
  <2> QED
    BY <1>13, <2>2, <2>3, <2>4
<1> QED
  BY <1>4, <1>14, <1>15, <1>16, <1>17 DEF Events

\* A callback returns to what called it.
LEMMA ReturnStep ==
  ASSUME Inv, NEW c \in Ctx, CallbackReturn(c)
  PROVE  StackInv' /\ DataInv' /\ WorkInv'
<1>1. TypeOK /\ StackInv /\ WorkInv /\ DataInv
  BY DEF Inv
<1>2. /\ stack[c] # <<>> /\ Now(c).at = "callback" /\ Continue(c, <<>>)
      /\ Fits(Now(c), Below(c))
      /\ UNCHANGED <<rx, irq, active, asked, lent, got>>
  BY <1>1, AtTop DEF CallbackReturn, clientVars
<1>3. Working(c)
  BY <1>1, <1>2, BusyWorks DEF Busy, Idle
<1>4. PICK e, f, g : /\ e = Now(c) /\ f = Below(c) /\ g = Second(Tail(stack[c]))
  OBVIOUS
<1>5. /\ Moves(c, f, g) /\ Fits(e, f) /\ e.at = "callback"
      /\ ControlAt(e, f) /\ BuffersAt(e)
      /\ f.at = "bottom" \/ Fits(f, g)
  <2>1. Tail(stack[c]) = <<>> => f = Bottom
    BY <1>1, <1>2, <1>4, Popped
  <2>2. Tail(stack[c]) # <<>> => Fits(f, g)
    BY <1>1, <1>2, <1>4, Popped
  <2> QED
    BY <1>1, <1>2, <1>3, <1>4, <2>1, <2>2, Popped, PhaseOf DEF Bottom
<1>6. Reported
  BY <1>5 DEF ControlAt, Idle
<1>7. ControlAt(f, g)'
  <2>1. CASE e.type \in {"RX_RDY", "RX_DISABLED"}
    BY <1>2, <1>5, <1>6, <2>1
       DEF ControlAt, SettledAt, EndingAt, Settled, Idle, Reports, Requests,
           Releases, SwitchesFull, SwitchesLast, InEvent, Reported, Fits
  <2>2. CASE e.type = "RX_BUF_RELEASED"
    BY <1>2, <1>5, <1>6, <2>2
       DEF ControlAt, SettledAt, EndingAt, Settled, Ending, Idle, Reports,
           Requests, Releases, SwitchesFull, SwitchesLast, InEvent, Reported,
           Fits
  <2>3. CASE e.type = "RX_BUF_REQUEST"
    BY <1>2, <1>5, <1>6, <2>3
       DEF ControlAt, SettledAt, EndingAt, Settled, Idle, Reports, Requests,
           Releases, SwitchesFull, SwitchesLast, InEvent, Reported, Fits
  <2> QED
    BY <1>5, <2>1, <2>2, <2>3 DEF Fits, Events
<1>8. BuffersAt(f)'
  <2>1. f.at \notin {"RX_RDY", "RX_BUF_RELEASED"}
    BY <1>5 DEF Fits, InEvent, Events, SwitchesFull
  <2> QED
    BY <1>2, <1>5, <2>1 DEF BuffersAt
<1>9. /\ StackInv' /\ WorkInv'
      /\ \A x \in Frames(stack'["handler"]) :
           SwitchesFull(x) => x \in Frames(stack["handler"]) \/ rx'.left = 0
  BY <1>2, <1>3, <1>5, <1>7, <1>8, Advance
<1> QED
  BY <1>1, <1>2, <1>9 DEF DataInv

\* The interrupt is off while a thread is about to switch it on: the handler
\* does not come in between.
LEMMA InterruptStep ==
  ASSUME Inv, IrqHandler
  PROVE  StackInv' /\ DataInv' /\ WorkInv'
<1>0. PICK c \in Ctx : c = "handler"
  BY DEF Ctx
<1>1. TypeOK /\ StackInv /\ WorkInv /\ DataInv
      /\ stack[c] = <<>> /\ irq /\ UNCHANGED <<rx, irq, active, asked, lent, got>>
  BY <1>0 DEF Inv, IrqHandler, clientVars
<1>2. stack["thread"] = <<>>
  <2> SUFFICES ASSUME stack["thread"] # <<>>
               PROVE  FALSE
    OBVIOUS
  <2>0. "thread" \in Ctx
    BY DEF Ctx
  <2>1. Now("thread").at = "enable_irq"
    BY <1>1, <2>0, AtTop DEF StackInv
  <2>2. Working("thread")
    BY <1>1, <2>0, <2>1, BusyWorks DEF Busy, Idle
  <2> QED
    BY <1>1, <2>0, <2>1, <2>2, PhaseOf DEF ControlAt
<1>3. PICK f, g : f = Do("rdy_timer") /\ g = Do("rdy_loop")
  OBVIOUS
<1>4. /\ f \in Frame /\ g \in Frame
      /\ f.at = "rdy_timer" /\ g.at = "rdy_loop"
  <2>1. "rdy_timer" \in Points /\ "rdy_loop" \in Points
    BY DEF Points
  <2> QED
    BY <1>3, <2>1, FrameTypes
<1>5. /\ stack'[c] = <<f>> \o (<<g>> \o <<>>)
      /\ \A d \in Ctx \ {c} : stack'[d] = stack[d]
  <2>1. <<f, g>> \o <<>> = <<f>> \o (<<g>> \o <<>>)
    <3>1. /\ <<f, g>> \o <<>> \in Seq(Frame)
          /\ <<f>> \o (<<g>> \o <<>>) \in Seq(Frame)
      BY <1>4
    <3>2. /\ Len(<<f, g>> \o <<>>) = 2 /\ Len(<<f>> \o (<<g>> \o <<>>)) = 2
          /\ \A i \in 1 .. 2 :
               (<<f, g>> \o <<>>)[i] = (<<f>> \o (<<g>> \o <<>>))[i]
      OBVIOUS
    <3> QED
      BY <3>1, <3>2, SeqEqual
  <2>2. stack' = [stack EXCEPT ![c] = <<f, g>> \o <<>>]
    <3>1. Call(c, <<f, g>>)
      BY <1>0, <1>3 DEF IrqHandler
    <3> QED
      BY <1>1, <3>1 DEF Call
  <2> QED
    BY <1>1, <2>1, <2>2 DEF TypeOK
<1>6. PICK r : r = <<g>> \o <<>>
  OBVIOUS
<1>7. r \in Seq(Frame) /\ First(r) = g /\ Chained(r) /\ Frames(r) = {g}
  <2>1. <<>> \in Seq(Frame) /\ Chained(<<>>) /\ Frames(<<>>) = {}
        /\ First(<<>>) = Bottom
    BY DEF Chained, Frames, First
  <2>2. Fits(g, Bottom)
    BY <1>4 DEF Fits, Bottom, InEvent, Events
  <2>3. PICK n \in Seq(Frame) : n = <<>>
    BY <2>1
  <2>4. /\ <<g>> \o n \in Seq(Frame) /\ First(<<g>> \o n) = g
        /\ Frames(<<g>> \o n) = {g} \cup Frames(n) /\ Chained(<<g>> \o n)
    BY <1>4, <2>1, <2>2, <2>3, Cons
  <2> QED
    BY <1>6, <2>1, <2>3, <2>4
<1>8. /\ First(stack'[c]) = f /\ Chained(stack'[c])
      /\ Frames(stack'[c]) = {f, g}
  <2>1. Fits(f, g)
    BY <1>4 DEF Fits, InEvent, Events
  <2>2. stack'[c] = <<f>> \o r
    BY <1>5, <1>6
  <2> QED
    BY <1>4, <1>7, <2>1, <2>2, Cons
<1>9. StackInv'
  BY <1>0, <1>1, <1>2, <1>5, <1>8 DEF StackInv, Ctx
<1>10. WorkInv'
  <2>1. Now(c).at \in Idle /\ f.at \in Idle
    BY <1>1, <1>4 DEF Now, First, Bottom, Idle
  <2> QED
    BY <1>1, <1>5, <1>8, <2>1, IdleStep
<1>11. DataInv'
  BY <1>0, <1>1, <1>4, <1>8 DEF DataInv, SwitchesFull
<1> QED
  BY <1>9, <1>10, <1>11

\* The timer preempts the handler, which may be anywhere.
LEMMA TimeoutStep ==
  ASSUME Inv, RxTimeout
  PROVE  StackInv' /\ DataInv' /\ WorkInv'
<1>0. PICK c \in Ctx : c = "timer"
  BY DEF Ctx
<1>1. TypeOK /\ StackInv /\ WorkInv /\ DataInv
      /\ stack[c] = <<>> /\ UNCHANGED <<rx, irq, active, asked, lent, got>>
  BY <1>0 DEF Inv, RxTimeout, clientVars
<1>2. PICK f : f = Do("notify")
  OBVIOUS
<1>3. f \in Frame /\ f.at = "notify" /\ Call(c, <<f>>)
  <2>1. "notify" \in Points
    BY DEF Points
  <2>2. f \in Frame /\ f.at = "notify"
    BY <1>2, <2>1, FrameTypes
  <2> QED
    BY <1>0, <1>2, <2>2 DEF RxTimeout
<1>4. Now(c) = Bottom /\ Frames(stack[c]) = {}
  BY <1>1 DEF Now, First, Frames
<1>5. Moves(c, f, Now(c)) /\ Frames(stack'[c]) = {f}
  <2>1. Fits(f, Now(c)) /\ ~SwitchesFull(f)
    BY <1>3, <1>4 DEF Fits, Bottom, InEvent, Events, SwitchesFull
  <2> QED
    BY <1>1, <1>3, <1>4, <2>1, Called
<1>6. StackInv'
  BY <1>0, <1>1, <1>3, <1>5 DEF StackInv, Moves, Ctx, SwitchesFull
<1>7. WorkInv'
  BY <1>1, <1>3, <1>4, <1>5, IdleStep DEF Moves, Bottom, Idle
<1>8. DataInv'
  BY <1>0, <1>1, <1>5 DEF DataInv, Moves, Ctx
<1> QED
  BY <1>6, <1>7, <1>8

\* The invariant of the receive half.
LEMMA Invariant == Spec => []Inv
<1>1. Init => Inv
  <2> SUFFICES ASSUME Init
               PROVE  Inv
    OBVIOUS
  <2>1. RxInv
    BY RxAssumption DEF Init, RxInv, CursorInv, RxRecord
  <2>2. TypeOK
    <3>1. stack \in [Ctx -> Seq(Frame)] /\ 0 \in 0 .. FifoSize
      BY RxAssumption DEF Init
    <3> QED
      BY <3>1, RxAssumption DEF Init, TypeOK
  <2>3. \A c \in Ctx : /\ stack[c] = <<>> /\ Frames(stack[c]) = {}
                       /\ Now(c) = Bottom /\ Chained(stack[c])
    BY DEF Init, Frames, Now, First, Chained
  <2>4. StackInv
    BY <2>3 DEF StackInv, Ctx
  <2>5. DataInv
    BY <2>3, RxAssumption DEF DataInv, Init, Ctx
  <2>6. PICK c \in Ctx : TRUE
    BY DEF Ctx
  <2>7. Working(c)
    BY <2>3 DEF Working, Busy, Bottom, Idle
  <2>8. ControlAt(Now(c), Below(c)) /\ BuffersAt(Now(c))
    BY <2>3, RxAssumption
       DEF ControlAt, BuffersAt, EndingAt, Settled, Idle, Reports, Requests,
           Releases, SwitchesFull, SwitchesLast, InEvent, Init, Bottom
  <2> QED
    BY <2>1, <2>2, <2>4, <2>5, <2>6, <2>7, <2>8 DEF Inv, WorkInv
<1>2. Inv /\ [Next]_rxVars => Inv'
  <2> SUFFICES ASSUME Inv, [Next]_rxVars
               PROVE  Inv'
    OBVIOUS
  <2>1. TypeOK' /\ RxInv'
    BY TypeStep, CursorStep DEF Inv
  <2>2. StackInv' /\ DataInv' /\ WorkInv'
    <3>1. CASE Receive \/ UNCHANGED rxVars
      <4>1. UNCHANGED <<rx, irq, stack, active, asked, lent, got>>
        BY <3>1 DEF Receive, rxVars, clientVars
      <4> QED
        BY <4>1 DEF Inv, StackInv, DataInv, WorkInv, ControlAt, BuffersAt,
                    Settled, Ending, Reported, Working, Busy, Now, Below
    <3>2. ASSUME NEW c \in Ctx, ClientCall(c)
          PROVE  StackInv' /\ DataInv' /\ WorkInv'
      BY <3>2, EnableStep, ResponseStep, DisableStep DEF ClientCall
    <3>3. ASSUME NEW c \in Ctx, ApiStep(c)
          PROVE  StackInv' /\ DataInv' /\ WorkInv'
      BY <3>3, EnableIrqStep, DisableIrqStep, DisableLoopStep, NotifyStep,
         SwitchStep, DeliverStep, ReturnStep DEF ApiStep
    <3>4. CASE HandlerStep
      BY <3>4, TimerStartStep, ReadyLoopStep, ReadyReadStep DEF HandlerStep
    <3>5. CASE IrqHandler \/ RxTimeout
      BY <3>5, InterruptStep, TimeoutStep
    <3> QED
      BY <3>1, <3>2, <3>3, <3>4, <3>5 DEF Next
  <2> QED
    BY <2>1, <2>2 DEF Inv
<1> QED
  BY <1>1, <1>2, PTL DEF Spec

---------------------------------------------------------------------------
(* What follows from the invariant *)

\* A report or a release that is under way is what its context does now.
LEMMA EventOnTop ==
  ASSUME NEW s \in Seq(Frame), Chained(s), NEW e \in Frames(s),
         e.at \in {"RX_RDY", "RX_BUF_RELEASED"}
  PROVE  s # <<>> /\ e = First(s) /\ e \notin Frames(Tail(s))
<1>1. \A i \in 1 .. Len(s) : s[i].at = e.at => i = 1
  <2> SUFFICES ASSUME NEW i \in 1 .. Len(s), s[i].at = e.at, i # 1
               PROVE  FALSE
    OBVIOUS
  <2>1. /\ i - 1 \in DOMAIN s /\ i - 1 # Len(s) /\ (i - 1) + 1 = i
        /\ s[i - 1] \in Frame
    OBVIOUS
  <2>2. PICK f, g : f = s[i - 1] /\ g = s[i]
    OBVIOUS
  <2>3. Fits(f, g) /\ f \in Frame /\ g.at \in {"RX_RDY", "RX_BUF_RELEASED"}
    BY <2>1, <2>2 DEF Chained
  <2> QED
    BY <2>3 DEF Fits, Frame, Points, Events, InEvent, SwitchesFull
<1>2. PICK i \in 1 .. Len(s) : e = s[i]
  BY DEF Frames
<1>3. i = 1 /\ s # <<>> /\ Head(s) = s[1]
  BY <1>1, <1>2
<1>4. e \notin Frames(Tail(s))
  <2> SUFFICES ASSUME NEW j \in DOMAIN Tail(s), Tail(s)[j] = e
               PROVE  FALSE
    BY DEF Frames
  <2>1. j + 1 \in 1 .. Len(s) /\ s[j + 1] = e /\ j + 1 # 1
    BY <1>3
  <2> QED
    BY <1>1, <2>1
<1> QED
  BY <1>2, <1>3, <1>4 DEF First

\* What it does, and the phase that goes with it.
LEMMA OnTop ==
  ASSUME Inv, NEW type \in {"RX_RDY", "RX_BUF_RELEASED"},
         NEW c \in Ctx, NEW e \in FramesOf(c), e.at = type
  PROVE  /\ e = Now(c) /\ stack[c] # <<>> /\ Working(c)
         /\ ControlAt(e, Below(c)) /\ BuffersAt(e)
<1>1. stack[c] \in Seq(Frame) /\ Chained(stack[c]) /\ FramesOf(c) = Frames(stack[c])
      /\ WorkInv
  BY DEF Inv, TypeOK, StackInv, FramesOf, Frames
<1>2. e = Now(c) /\ stack[c] # <<>>
  BY <1>1, EventOnTop DEF Now
<1>3. Working(c)
  BY <1>1, <1>2, BusyWorks DEF Busy, Idle
<1> QED
  BY <1>1, <1>2, <1>3, PhaseOf

\* While no interrupt is being switched, reception is settled or ends.
LEMMA Phases ==
  ASSUME Inv, NEW c \in Ctx, Working(c)
  PROVE  Settled \/ (active /\ (rx.buf = NULL \/ ~asked \/ Ending))
<1>1. PICK f, g : f = Now(c) /\ g = Below(c)
  OBVIOUS
<1>2. ControlAt(f, g)
  BY <1>1, PhaseOf DEF Inv
<1>3. CASE stack[c] = <<>>
  <2>1. f.at \in Idle
    BY <1>1, <1>3 DEF Now, First, Bottom, Idle
  <2> QED
    BY <1>2, <2>1 DEF ControlAt, SettledAt
<1>4. CASE stack[c] # <<>>
  <2>1. f \in Frame /\ Fits(f, g)
    BY <1>1, <1>4, AtTop DEF Inv
  <2>2. f.at \in Points \cup {"callback"} /\ f.flag \in BOOLEAN
    BY <2>1 DEF Frame
  <2>3. SettledAt(f, g) \/ EndingAt(f, g) \/ f.at \in {"disable_irq", "enable_irq"}
    BY <2>1, <2>2
       DEF Fits, Points, Events, SettledAt, EndingAt, Idle, Reports, Requests,
           Releases, SwitchesFull, SwitchesLast, InEvent
  <2> QED
    BY <1>2, <2>3 DEF ControlAt, Ending
<1> QED
  BY <1>3, <1>4

\* An adapter that is off has no buffer.
LEMMA OffIsEmpty == Inv => (~active => rx.buf = NULL /\ rx.next = NULL)
<1> SUFFICES ASSUME Inv, ~active
             PROVE  rx.buf = NULL /\ rx.next = NULL
  OBVIOUS
<1>1. PICK c \in Ctx : Working(c)
  BY DEF Inv, WorkInv
<1> QED
  BY <1>1, Phases DEF Settled

\* The types of all variables, and the stacks of the three contexts.
THEOREM TypeCorrect == Spec => []TypeOK
<1>1. Inv => TypeOK
  BY DEF Inv
<1> QED
  BY <1>1, Invariant, PTL

\* Every UART_RX_RDY continues the last report of its buffer, for every preemption
\* of handler, timer and thread.
THEOREM ReportsAreContiguous == Spec => []ReportsContiguous
<1>1. Inv => ReportsContiguous
  <2> SUFFICES ASSUME Inv, NEW e \in Pending("RX_RDY")
               PROVE  /\ e.buf \in lent /\ e.off = got[e.buf]
                      /\ e.off + e.len <= BufLen
    BY DEF ReportsContiguous
  <2>1. PICK c \in Ctx : e \in FramesOf(c) /\ e.at = "RX_RDY"
    BY DEF Pending
  <2>2. ControlAt(e, Below(c)) /\ BuffersAt(e) /\ TypeOK /\ RxInv
    BY <2>1, OnTop DEF Inv
  <2>3. rx.buf \in Buf /\ rx.last <= BufLen
    BY <2>1, <2>2, RxAssumption
       DEF ControlAt, Reports, TypeOK, RxInv, CursorInv
  <2> QED
    BY <2>1, <2>2, <2>3 DEF BuffersAt
<1> QED
  BY <1>1, Invariant, PTL

\* Every buffer lent is in one place until it is given back, once and not before
\* all that was stored in it was reported; and all of them are at the end.
THEOREM BuffersGivenBack == Spec => []GivenBackOnce
<1>1. Inv => GivenBackOnce
  <2> SUFFICES ASSUME Inv
               PROVE  GivenBackOnce
    OBVIOUS
  <2>1. ASSUME NEW e \in Pending("RX_BUF_RELEASED")
        PROVE  e.len = got[e.buf]
    <3>1. PICK c \in Ctx : e \in FramesOf(c) /\ e.at = "RX_BUF_RELEASED"
      BY <2>1 DEF Pending
    <3> QED
      BY <3>1, OnTop DEF BuffersAt
  <2>2. ASSUME NEW b \in Buf
        PROVE  /\ b \notin lent => Holds(b) = {}
               /\ b \in lent => \E h \in {"buf", "next"} \cup Ctx : Holds(b) = {h}
    <3>0. b # NULL /\ (rx.buf # NULL => rx.buf # rx.next)
      BY RxAssumption DEF Inv, DataInv
    <3>1. CASE \E c \in Ctx : \E e \in FramesOf(c) : e.at = "RX_BUF_RELEASED"
      <4>0. PICK c \in Ctx : \E e \in FramesOf(c) : e.at = "RX_BUF_RELEASED"
        BY <3>1
      <4>1. PICK e \in FramesOf(c) : e.at = "RX_BUF_RELEASED"
        BY <4>0
      <4>2. e = Now(c) /\ Working(c) /\ BuffersAt(e)
        BY <4>1, OnTop
      <4>3. \A d \in Ctx : \A x \in FramesOf(d) :
              x.at = "RX_BUF_RELEASED" => d = c /\ x = e
        <5> SUFFICES ASSUME NEW d \in Ctx, NEW x \in FramesOf(d),
                            x.at = "RX_BUF_RELEASED"
                     PROVE  d = c /\ x = e
          OBVIOUS
        <5>1. x = Now(d)
          BY OnTop
        <5>2. Busy(d)
          BY <5>1 DEF Busy, Idle
        <5> QED
          BY <4>2, <5>1, <5>2 DEF Working
      <4>4. {d \in Ctx : \E x \in FramesOf(d) :
                           x.at = "RX_BUF_RELEASED" /\ x.buf = b}
              = IF e.buf = b THEN {c} ELSE {}
        BY <4>1, <4>3
      <4>5. /\ b \in lent <=> b = rx.buf \/ b = rx.next \/ b = e.buf
            /\ e.buf # rx.buf /\ e.buf # rx.next
        BY <4>1, <4>2 DEF BuffersAt
      <4>6. Holds(b) = (IF rx.buf = b THEN {"buf"} ELSE {})
                         \cup (IF rx.next = b THEN {"next"} ELSE {})
                         \cup (IF e.buf = b THEN {c} ELSE {})
        BY <4>4 DEF Holds
      <4> QED
        BY <3>0, <4>5, <4>6
    <3>2. CASE ~ \E c \in Ctx : \E e \in FramesOf(c) : e.at = "RX_BUF_RELEASED"
      <4>1. {d \in Ctx : \E x \in FramesOf(d) :
                           x.at = "RX_BUF_RELEASED" /\ x.buf = b} = {}
        BY <3>2
      <4>2. PICK c \in Ctx : Working(c) /\ BuffersAt(Now(c))
        BY DEF Inv, WorkInv
      <4>3. Now(c).at # "RX_BUF_RELEASED"
        <5>1. CASE stack[c] = <<>>
          BY <5>1 DEF Now, First, Bottom
        <5>2. CASE stack[c] # <<>>
          <6>1. Now(c) \in FramesOf(c)
            BY <5>2, AtTop DEF Inv, FramesOf, Frames
          <6> QED
            BY <3>2, <6>1
        <5> QED
          BY <5>1, <5>2
      <4>4. b \in lent <=> b = rx.buf \/ b = rx.next
        BY <4>2, <4>3 DEF BuffersAt
      <4>5. Holds(b) = (IF rx.buf = b THEN {"buf"} ELSE {})
                         \cup (IF rx.next = b THEN {"next"} ELSE {})
        BY <4>1 DEF Holds
      <4> QED
        BY <3>0, <4>4, <4>5
    <3> QED
      BY <3>1, <3>2
  <2>3. ~active => rx.buf = NULL /\ rx.next = NULL
    BY OffIsEmpty
  <2> QED
    BY <2>1, <2>2, <2>3 DEF GivenBackOnce
<1> QED
  BY <1>1, Invariant, PTL

\* At rest the receiver and its interrupt are on when the client believes so.
THEOREM ReceiverFollows == Spec => []ReceiverFollowsClient
<1>1. Inv => ReceiverFollowsClient
  <2> SUFFICES ASSUME Inv, Running = {}
               PROVE  active <=> rx.enabled /\ irq
    BY DEF ReceiverFollowsClient
  <2>1. PICK c \in Ctx : ControlAt(Now(c), Below(c))
    BY DEF Inv, WorkInv
  <2>2. Now(c).at \in Idle
    BY <2>1 DEF Running, Now, First, Bottom, Idle
  <2>3. Settled
    BY <2>1, <2>2 DEF ControlAt, SettledAt
  <2> QED
    BY <2>3 DEF Settled, Inv, DataInv
<1> QED
  BY <1>1, Invariant, PTL

---------------------------------------------------------------------------
(* The refinement: what is on its way to the client *)

\* The frames of a stack are those of its two parts.
LEMMA JoinedFrames ==
  ASSUME NEW s \in Seq(Frame), NEW t \in Seq(Frame)
  PROVE  Frames(s \o t) = Frames(s) \cup Frames(t)
<1>1. /\ s \o t \in Seq(Frame) /\ Len(s \o t) = Len(s) + Len(t)
      /\ Len(s) \in Nat /\ Len(t) \in Nat
      /\ \A i \in 1 .. Len(s) + Len(t) :
           (s \o t)[i] = IF i <= Len(s) THEN s[i] ELSE t[i - Len(s)]
      /\ DOMAIN s = 1 .. Len(s) /\ DOMAIN t = 1 .. Len(t)
      /\ DOMAIN (s \o t) = 1 .. Len(s) + Len(t)
  OBVIOUS
<1>2. ASSUME NEW i \in 1 .. Len(s) + Len(t)
      PROVE  (s \o t)[i] \in Frames(s) \cup Frames(t)
  <2>1. CASE i <= Len(s)
    <3>1. i \in 1 .. Len(s)
      BY <1>1, <2>1
    <3> QED
      BY <1>1, <2>1, <3>1 DEF Frames
  <2>2. CASE ~(i <= Len(s))
    <3>1. i - Len(s) \in 1 .. Len(t)
      BY <1>1, <2>2
    <3> QED
      BY <1>1, <2>2, <3>1 DEF Frames
  <2> QED
    BY <2>1, <2>2
<1>3. ASSUME NEW i \in 1 .. Len(s)
      PROVE  s[i] \in Frames(s \o t)
  <2>1. i \in 1 .. Len(s) + Len(t) /\ i <= Len(s)
    BY <1>1
  <2> QED
    BY <1>1, <2>1 DEF Frames
<1>4. ASSUME NEW i \in 1 .. Len(t)
      PROVE  t[i] \in Frames(s \o t)
  <2>1. /\ i + Len(s) \in 1 .. Len(s) + Len(t) /\ ~(i + Len(s) <= Len(s))
        /\ (i + Len(s)) - Len(s) = i
    BY <1>1
  <2> QED
    BY <1>1, <2>1 DEF Frames
<1> QED
  BY <1>1, <1>2, <1>3, <1>4 DEF Frames

\* There is one release under way at most.
LEMMA OneRelease ==
  ASSUME Inv, NEW e \in Pending("RX_BUF_RELEASED"),
         NEW x \in Pending("RX_BUF_RELEASED")
  PROVE  x = e
<1>1. PICK c \in Ctx : e \in FramesOf(c) /\ e.at = "RX_BUF_RELEASED"
  BY DEF Pending
<1>2. PICK d \in Ctx : x \in FramesOf(d) /\ x.at = "RX_BUF_RELEASED"
  BY DEF Pending
<1>3. e = Now(c) /\ Working(c) /\ x = Now(d)
  BY <1>1, <1>2, OnTop
<1>4. Busy(d)
  BY <1>2, <1>3 DEF Busy, Idle
<1> QED
  BY <1>3, <1>4 DEF Working

\* A step between two frames that are no release has none to begin or to end.
LEMMA NoRelease ==
  ASSUME Inv, NEW c \in Ctx, NEW s \in Seq(Frame),
         \A e \in Frames(s) : e.at # "RX_BUF_RELEASED",
         \/ Call(c, s)
         \/ /\ Continue(c, s) /\ stack[c] # <<>>
            /\ Now(c).at # "RX_BUF_RELEASED"
  PROVE  Released' = Released
<1>1. stack[c] \in Seq(Frame) /\ stack \in [Ctx -> Seq(Frame)]
  BY DEF Inv, TypeOK
<1>0. FramesOf(c)' = Frames(stack'[c]) /\ FramesOf(c) = Frames(stack[c])
  BY DEF FramesOf, Frames
<1>2. \A d \in Ctx \ {c} : FramesOf(d)' = FramesOf(d)
  BY <1>1 DEF Call, Continue, FramesOf
<1>3. \A e : e.at = "RX_BUF_RELEASED" =>
               (e \in FramesOf(c)' <=> e \in FramesOf(c))
  <2>1. CASE Call(c, s)
    <3>1. stack'[c] = s \o stack[c]
      BY <1>1, <2>1 DEF Call
    <3>2. FramesOf(c)' = Frames(s) \cup FramesOf(c)
      BY <1>0, <1>1, <3>1, JoinedFrames
    <3> QED
      BY <3>2
  <2>2. CASE /\ Continue(c, s) /\ stack[c] # <<>>
             /\ Now(c).at # "RX_BUF_RELEASED"
    <3>1. stack'[c] = s \o Tail(stack[c]) /\ Tail(stack[c]) \in Seq(Frame)
      BY <1>1, <2>2 DEF Continue
    <3>2. FramesOf(c)' = Frames(s) \cup Frames(Tail(stack[c]))
      BY <1>0, <3>1, JoinedFrames
    <3>3. FramesOf(c) = {Now(c)} \cup Frames(Tail(stack[c]))
      BY <1>0, <1>1, <2>2, Uncons DEF Now
    <3> QED
      BY <2>2, <3>2, <3>3
  <2> QED
    BY <2>1, <2>2
<1>4. Pending("RX_BUF_RELEASED")' = Pending("RX_BUF_RELEASED")
  BY <1>2, <1>3 DEF Pending
<1>5. CASE Pending("RX_BUF_RELEASED") = {}
  BY <1>4, <1>5 DEF Released
<1>6. CASE Pending("RX_BUF_RELEASED") # {}
  <2>1. PICK e \in Pending("RX_BUF_RELEASED") :
          \A x \in Pending("RX_BUF_RELEASED") : x = e
    BY <1>6, OneRelease
  <2>2. (CHOOSE x \in Pending("RX_BUF_RELEASED") : TRUE) = e
    BY <2>1
  <2>3. (CHOOSE x \in Pending("RX_BUF_RELEASED")' : TRUE) = e
    BY <1>4, <2>1
  <2> QED
    BY <1>4, <1>6, <2>2, <2>3 DEF Released
<1> QED
  BY <1>5, <1>6

\* While c works, a release that is under way is what it does.
LEMMA ReleasedIs ==
  Inv => \A c \in Ctx : Working(c) =>
           Released = IF Now(c).at = "RX_BUF_RELEASED" THEN Now(c).buf ELSE NULL
<1> SUFFICES ASSUME Inv, NEW c \in Ctx, Working(c)
             PROVE  Released = IF Now(c).at = "RX_BUF_RELEASED"
                                 THEN Now(c).buf ELSE NULL
  OBVIOUS
<1>1. ASSUME NEW e \in Pending("RX_BUF_RELEASED")
      PROVE  e = Now(c) /\ e.at = "RX_BUF_RELEASED"
  <2>1. PICK d \in Ctx : e \in FramesOf(d) /\ e.at = "RX_BUF_RELEASED"
    BY DEF Pending
  <2>2. e = Now(d)
    BY <2>1, OnTop
  <2>3. Busy(d)
    BY <2>1, <2>2 DEF Busy, Idle
  <2> QED
    BY <2>1, <2>2, <2>3 DEF Working
<1>2. CASE Now(c).at = "RX_BUF_RELEASED"
  <2>1. stack[c] # <<>>
    BY <1>2 DEF Now, First, Bottom
  <2>2. Now(c) \in FramesOf(c)
    BY <2>1, AtTop DEF Inv, FramesOf, Frames
  <2>3. Now(c) \in Pending("RX_BUF_RELEASED")
    BY <1>2, <2>2 DEF Pending
  <2>4. (CHOOSE e \in Pending("RX_BUF_RELEASED") : TRUE) = Now(c)
    BY <1>1, <2>3
  <2> QED
    BY <1>2, <2>3, <2>4 DEF Released
<1>3. CASE Now(c).at # "RX_BUF_RELEASED"
  <2>1. Pending("RX_BUF_RELEASED") = {}
    BY <1>1, <1>3
  <2> QED
    BY <1>3, <2>1 DEF Released
<1> QED
  BY <1>2, <1>3

\* The same after a step.
LEMMA ReleasedNext ==
  (Inv => \A c \in Ctx : Working(c) =>
           Released = IF Now(c).at = "RX_BUF_RELEASED" THEN Now(c).buf ELSE NULL)'
BY ReleasedIs, PTL

\* A context that works goes on to do so.
LEMMA Successor ==
  ASSUME TypeOK, NEW c \in Ctx, Working(c), stack[c] # <<>>,
         NEW s \in Seq(Frame), s # <<>>, Continue(c, s)
  PROVE  Working(c)' /\ Now(c)' = Head(s)
<1> DEFINE t == Tail(stack[c])
<1>1. /\ stack \in [Ctx -> Seq(Frame)] /\ t \in Seq(Frame)
      /\ stack' = [stack EXCEPT ![c] = s \o t]
  BY DEF TypeOK, Continue
<1> HIDE DEF t
<1>2. /\ stack'[c] = s \o t
      /\ \A d \in Ctx \ {c} : stack'[d] = stack[d]
  BY <1>1
<1>3. s \o t # <<>> /\ Head(s \o t) = Head(s)
  <2>1. /\ s \o t \in Seq(Frame) /\ Len(s) \in Nat \ {0} /\ Len(t) \in Nat
        /\ Len(s \o t) = Len(s) + Len(t) /\ (s \o t)[1] = s[1]
    BY <1>1
  <2> QED
    BY <2>1
<1> QED
  BY <1>2, <1>3 DEF Working, Busy, Now, First

\* The client notices none of the steps that change neither what it knows nor
\* the buffers of the adapter.
LEMMA Unnoticed ==
  ASSUME Released' = Released, rx'.buf = rx.buf, rx'.next = rx.next,
         UNCHANGED <<active, asked, got>>
  PROVE  UNCHANGED Promised
BY DEF Promised, Current, Following, Or

\* A stack of one frame.
LEMMA OneFrame ==
  ASSUME NEW f \in Frame
  PROVE  <<f>> \in Seq(Frame) /\ Frames(<<f>>) = {f} /\ <<f>> # <<>>
         /\ Head(<<f>>) = f
<1>1. <<f>> \in Seq(Frame) /\ DOMAIN <<f>> = {1} /\ <<f>>[1] = f
  OBVIOUS
<1> QED
  BY <1>1 DEF Frames

\* No frame.
LEMMA NoFrame == <<>> \in Seq(Frame) /\ Frames(<<>>) = {}
BY DEF Frames

---------------------------------------------------------------------------
(* The refinement: the steps of the client and of the buffers *)

\* A step whose new frames are no release, of a context that does none.
LEMMA QuietStep ==
  ASSUME Inv, NEW c \in Ctx, NEW s \in Seq(Frame),
         \A e \in Frames(s) : e.at # "RX_BUF_RELEASED",
         \/ Call(c, s)
         \/ /\ Continue(c, s) /\ stack[c] # <<>>
            /\ Now(c).at # "RX_BUF_RELEASED",
         rx'.buf = rx.buf, rx'.next = rx.next,
         UNCHANGED <<active, asked, got>>
  PROVE  UNCHANGED Promised
BY NoRelease, Unnoticed

\* The same when a frame is done, replaced or added.
LEMMA PoppedQuietly ==
  ASSUME Inv, NEW c \in Ctx, Continue(c, <<>>), stack[c] # <<>>,
         Now(c).at # "RX_BUF_RELEASED",
         rx'.buf = rx.buf, rx'.next = rx.next,
         UNCHANGED <<active, asked, got>>
  PROVE  UNCHANGED Promised
BY NoFrame, QuietStep

\* One frame comes in place of another.
LEMMA PutQuietly ==
  ASSUME Inv, NEW c \in Ctx, NEW f \in Frame, Continue(c, <<f>>), stack[c] # <<>>,
         Now(c).at # "RX_BUF_RELEASED", f.at # "RX_BUF_RELEASED",
         rx'.buf = rx.buf, rx'.next = rx.next,
         UNCHANGED <<active, asked, got>>
  PROVE  UNCHANGED Promised
<1>1. <<f>> \in Seq(Frame) /\ \A e \in Frames(<<f>>) : e.at # "RX_BUF_RELEASED"
  BY OneFrame
<1> QED
  BY <1>1, QuietStep

\* One frame is added.
LEMMA CalledQuietly ==
  ASSUME Inv, NEW c \in Ctx, NEW f \in Frame, Call(c, <<f>>),
         f.at # "RX_BUF_RELEASED",
         rx'.buf = rx.buf, rx'.next = rx.next,
         UNCHANGED <<active, asked, got>>
  PROVE  UNCHANGED Promised
<1>1. <<f>> \in Seq(Frame) /\ \A e \in Frames(<<f>>) : e.at # "RX_BUF_RELEASED"
  BY OneFrame
<1> QED
  BY <1>1, QuietStep

\* Two frames.
LEMMA TwoFrames ==
  ASSUME NEW f \in Frame, NEW g \in Frame
  PROVE  <<f, g>> \in Seq(Frame) /\ Frames(<<f, g>>) = {f, g}
<1>1. /\ <<f, g>> \in Seq(Frame) /\ DOMAIN <<f, g>> = {1, 2}
      /\ <<f, g>>[1] = f /\ <<f, g>>[2] = g
  OBVIOUS
<1> QED
  BY <1>1 DEF Frames

\* Three frames.
LEMMA ThreeFrames ==
  ASSUME NEW f \in Frame, NEW g \in Frame, NEW h \in Frame
  PROVE  <<f, g, h>> \in Seq(Frame) /\ Frames(<<f, g, h>>) = {f, g, h}
<1>1. /\ <<f, g, h>> \in Seq(Frame) /\ DOMAIN <<f, g, h>> = {1, 2, 3}
      /\ <<f, g, h>>[1] = f /\ <<f, g, h>>[2] = g /\ <<f, g, h>>[3] = h
  OBVIOUS
<1> QED
  BY <1>1 DEF Frames

\* rx_enable() is Enable: nothing was lent before, one buffer is after.
LEMMA EnableRefines ==
  ASSUME Inv, NEW c \in Ctx, NEW b \in Buf, NEW t \in Timeouts, RxEnable(c, b, t)
  PROVE  Promise!Enable(b)
<1>1. TypeOK /\ StackInv /\ WorkInv /\ DataInv /\ "enable_irq" \in Points
  BY DEF Inv, Points
<1>2. /\ ~active /\ active' /\ asked' = asked
      /\ got' = [got EXCEPT ![b] = 0] /\ Call(c, <<Do("enable_irq")>>)
      /\ rx'.buf = NULL /\ rx'.next = b
  BY <1>1 DEF RxEnable, TypeOK
<1>3. Working(c) /\ Now(c).at # "RX_BUF_RELEASED" /\ ~asked
  <2>1. CASE InCallback(c, "RX_DISABLED")
    <3>1. /\ Now(c).at = "callback" /\ InEvent(Now(c), "RX_DISABLED")
      BY <1>1, <2>1, AtTop DEF InEvent, Events
    <3>2. Working(c)
      BY <1>1, <3>1, BusyWorks DEF Busy, Idle
    <3>3. Settled
      BY <1>1, <3>1, <3>2, PhaseOf DEF ControlAt, SettledAt
    <3> QED
      BY <3>1, <3>2, <3>3 DEF Settled
  <2>2. CASE c = "thread" /\ stack[c] = <<>> /\ MayStart(c, Running)
    <3>1. stack["handler"] = <<>> /\ stack["timer"] = <<>>
      <4>1. "handler" \in Ctx /\ "timer" \in Ctx /\ "thread" \in Ctx
        BY DEF Ctx
      <4>2. ~(Prio["handler"] < Prio["thread"]) /\ ~(Prio["timer"] < Prio["thread"])
        BY <4>1, PrioAssumption
      <4> QED
        BY <2>2, <4>1, <4>2 DEF MayStart, Running
    <3>2. Now(c) = Bottom /\ Working(c)
      BY <2>2, <3>1 DEF Working, Busy, Now, First, Bottom, Idle, Ctx
    <3>3. Settled
      BY <1>1, <3>2, PhaseOf DEF ControlAt, SettledAt, Bottom, Idle
    <3> QED
      BY <3>2, <3>3 DEF Settled, Bottom
  <2> QED
    BY <2>1, <2>2 DEF RxEnable
<1>4. Released = NULL
  BY <1>3, ReleasedIs
<1>5. rx.buf = NULL /\ rx.next = NULL
  BY <1>2, OffIsEmpty
<1>6. Released' = NULL
  <2>1. PICK f : f = Do("enable_irq")
    OBVIOUS
  <2>2. f \in Frame /\ f.at # "RX_BUF_RELEASED"
    BY <1>1, <2>1, FrameTypes
  <2>3. /\ <<f>> \in Seq(Frame)
        /\ \A e \in Frames(<<f>>) : e.at # "RX_BUF_RELEASED"
    BY <2>2, OneFrame
  <2> QED
    BY <1>2, <1>4, <2>1, <2>3, NoRelease
<1>7. Current = NULL /\ Following = NULL
  BY <1>4, <1>5 DEF Current, Following, Or
<1>8. b # NULL /\ got'[b] = 0
  BY <1>1, <1>2, RxAssumption DEF TypeOK
<1>9. Current' = b /\ Following' = NULL
  BY <1>2, <1>6, <1>8 DEF Current, Following, Or
<1>10. Promised = Promise!Off
  BY <1>2, <1>7 DEF Promised, Promise!Off
<1>11. Promised' = [state |-> "on", cur |-> b, next |-> NULL, count |-> 0]
  BY <1>2, <1>3, <1>8, <1>9 DEF Promised
<1>12. PICK o, p : /\ o = Promise!Off
                   /\ p = [state |-> "on", cur |-> b, next |-> NULL, count |-> 0]
  OBVIOUS
<1>13. p = [o EXCEPT !.state = "on", !.cur = b]
  <2>1. o = [state |-> "off", cur |-> NULL, next |-> NULL, count |-> 0]
    BY <1>12 DEF Promise!Off
  <2>2. PICK q : q = [state |-> "on", cur |-> NULL, next |-> NULL, count |-> 0]
    OBVIOUS
  <2>3. q = [o EXCEPT !.state = "on"]
    BY <2>1, <2>2
  <2>4. p = [q EXCEPT !.cur = b]
    BY <1>12, <2>2
  <2> QED
    BY <2>3, <2>4
<1> QED
  BY <1>10, <1>11, <1>12, <1>13 DEF Promise!Enable

\* rx_buf_rsp() is Respond: with no buffer current the new one is current.
LEMMA ResponseRefines ==
  ASSUME Inv, NEW c \in Ctx, NEW b \in Buf, RxBufRsp(c, b)
  PROVE  Promise!Respond(b)
<1>1. TypeOK /\ StackInv /\ WorkInv /\ DataInv
  BY DEF Inv
<1>2. /\ active /\ b \notin lent /\ Continue(c, <<>>)
      /\ got' = [got EXCEPT ![b] = 0]
      /\ UNCHANGED <<active, asked>>
      /\ stack[c] # <<>> /\ Now(c).at = "callback"
      /\ InEvent(Now(c), "RX_BUF_REQUEST")
  BY <1>1, AtTop DEF RxBufRsp, InEvent, Events
<1>3. Working(c)
  BY <1>1, <1>2, BusyWorks DEF Busy, Idle
<1>4. /\ Settled /\ rx.next = NULL
      /\ \A x \in Buf : x \in lent <=> x = rx.buf \/ x = rx.next
  BY <1>1, <1>2, <1>3, PhaseOf DEF ControlAt, SettledAt, Requests, BuffersAt
<1>5. rx'.buf = rx.buf /\ rx'.next = b
  BY <1>1, <1>4 DEF RxBufRsp, TypeOK
<1>6. Released = NULL /\ Released' = NULL
  BY <1>2, <1>3, ReleasedIs, NoFrame, NoRelease
<1>7. /\ b # NULL /\ got'[b] = 0 /\ b # rx.buf /\ ~asked
      /\ rx.buf # NULL => got'[rx.buf] = got[rx.buf]
  BY <1>1, <1>2, <1>4, RxAssumption DEF TypeOK, Settled
<1>8. /\ Current = rx.buf /\ Following = NULL
      /\ rx.buf = NULL => Current' = b /\ Following' = NULL
      /\ rx.buf # NULL => Current' = rx.buf /\ Following' = b
  BY <1>4, <1>5, <1>6, <1>7 DEF Current, Following, Or
<1>9. CASE rx.buf = NULL
  BY <1>2, <1>7, <1>8, <1>9 DEF Promised, Promise!Respond
<1>10. CASE rx.buf # NULL
  BY <1>2, <1>7, <1>8, <1>10 DEF Promised, Promise!Respond
<1> QED
  BY <1>9, <1>10

\* rx_disable() is Disable.
LEMMA DisableRefines ==
  ASSUME Inv, NEW c \in Ctx, RxDisable(c)
  PROVE  Promise!Disable
<1>1. TypeOK /\ StackInv /\ WorkInv /\ DataInv
      /\ {"disable_irq", "disable_loop"} \subseteq Points
  BY DEF Inv, Points
<1>2. /\ ~asked /\ asked' /\ UNCHANGED <<active, got>>
      /\ Continue(c, <<Do("disable_irq"), Do("disable_loop")>>)
      /\ rx'.buf = rx.buf /\ rx'.next = rx.next
      /\ stack[c] # <<>> /\ Now(c).at = "callback"
      /\ InEvent(Now(c), "RX_RDY")
  BY <1>1, AtTop DEF RxDisable, InEvent, Events, TypeOK
<1>3. Working(c)
  BY <1>1, <1>2, BusyWorks DEF Busy, Idle
<1>4. active
  BY <1>1, <1>2, <1>3, PhaseOf DEF ControlAt, SettledAt, Settled, Reports
<1>5. Released' = Released
  <2>1. PICK f, g : f = Do("disable_irq") /\ g = Do("disable_loop")
    OBVIOUS
  <2>2. /\ f \in Frame /\ f.at # "RX_BUF_RELEASED"
        /\ g \in Frame /\ g.at # "RX_BUF_RELEASED"
    BY <1>1, <2>1, FrameTypes
  <2>3. /\ <<f, g>> \in Seq(Frame)
        /\ \A e \in Frames(<<f, g>>) : e.at # "RX_BUF_RELEASED"
    BY <2>2, TwoFrames
  <2> QED
    BY <1>2, <2>1, <2>3, NoRelease
<1>6. Current' = Current /\ Following' = Following
  BY <1>2, <1>5 DEF Current, Following, Or
<1> QED
  BY <1>2, <1>4, <1>6 DEF Promised, Promise!Disable

\* switch_rx_buffer() is not seen: the buffer on its way to the client is still
\* the one it is to get first.
LEMMA SwitchRefines ==
  ASSUME Inv, Inv', NEW c \in Ctx, SwitchRxBuffer(c)
  PROVE  UNCHANGED Promised
<1>1. TypeOK /\ StackInv /\ WorkInv /\ DataInv /\ RxInv
  BY DEF Inv
<1>2. /\ stack[c] # <<>> /\ Now(c).at = "switch"
      /\ UNCHANGED <<active, asked, got>>
  BY <1>1, AtTop DEF SwitchRxBuffer, clientVars
<1>3. Working(c)
  BY <1>1, <1>2, BusyWorks DEF Busy, Idle
<1>4. Released = NULL
  BY <1>2, <1>3, ReleasedIs
<1>5. rx'.buf = rx.next /\ rx'.next = NULL
  BY <1>1 DEF SwitchRxBuffer, Switched, TypeOK
<1>6. PICK request : /\ request = IF Top(c).flag
                                    THEN <<Event("RX_BUF_REQUEST", NULL, 0, 0)>>
                                    ELSE <<>>
  OBVIOUS
<1>7. /\ request \in Seq(Frame)
      /\ \A e \in Frames(request) : e.at # "RX_BUF_RELEASED"
  <2>1. PICK f : f = Event("RX_BUF_REQUEST", NULL, 0, 0)
    OBVIOUS
  <2>2. f \in Frame /\ f.at = "RX_BUF_REQUEST"
    BY <2>1, FrameTypes DEF Events
  <2> QED
    BY <1>6, <2>1, <2>2, OneFrame, NoFrame
<1>8. CASE rx.buf = NULL
  <2>1. Continue(c, request)
    <3>1. Continue(c, <<>> \o request)
      BY <1>6, <1>8 DEF SwitchRxBuffer
    <3>2. <<>> \o request = request
      BY <1>7
    <3> QED
      BY <3>1, <3>2
  <2>2. Released' = NULL
    BY <1>2, <1>4, <1>7, <2>1, NoRelease
  <2> QED
    BY <1>2, <1>4, <1>5, <1>8, <2>2 DEF Promised, Current, Following, Or
<1>9. CASE rx.buf # NULL
  <2>1. PICK f : f = Event("RX_BUF_RELEASED", rx.buf, 0, rx.curr)
    OBVIOUS
  <2>2. f \in Frame /\ f.at = "RX_BUF_RELEASED" /\ f.buf = rx.buf
    <3>1. "RX_BUF_RELEASED" \in Events /\ rx.buf \in Buf /\ rx.curr \in Nat
      BY <1>1, <1>9 DEF Events, RxInv, CursorInv, TypeOK
    <3> QED
      BY <2>1, <3>1 DEF Event, Frame, Points
  <2>3. Continue(c, <<f>> \o request)
    BY <1>6, <1>9, <2>1 DEF SwitchRxBuffer
  <2>4. /\ <<f>> \o request \in Seq(Frame) /\ <<f>> \o request # <<>>
        /\ Head(<<f>> \o request) = f
    BY <1>7, <2>2, Cons DEF First
  <2>5. Working(c)' /\ Now(c)' = f
    BY <1>1, <1>2, <1>3, <2>3, <2>4, Successor
  <2>6. Released' = rx.buf
    BY <2>2, <2>5, ReleasedNext
  <2> QED
    BY <1>2, <1>4, <1>5, <1>9, <2>6 DEF Promised, Current, Following, Or
<1> QED
  BY <1>8, <1>9

---------------------------------------------------------------------------
(* The refinement: callbacks and the whole *)

\* The callbacks are Ready, Release and Disabled; the request is not seen.
LEMMA DeliverRefines ==
  ASSUME Inv, Inv', NEW c \in Ctx, Deliver(c)
  PROVE  [Promise!Next]_Promised
<1>1. TypeOK /\ StackInv /\ WorkInv /\ DataInv /\ RxInv
  BY DEF Inv
<1>2. /\ stack[c] # <<>> /\ Now(c) = Top(c) /\ Now(c).at \in Events
      /\ Fits(Now(c), Below(c)) /\ Now(c) \in Frame
  <2>1. PICK e \in Events : At(c, e)
    BY Zenon DEF Deliver
  <2> QED
    BY <1>1, <2>1, AtTop
<1>3. PICK e, g : e = Now(c) /\ g = Below(c)
  OBVIOUS
<1>4. /\ e \in Frame /\ e.at \in Events /\ e.type = e.at /\ Fits(e, g)
  BY <1>2, <1>3 DEF Fits
<1>5. PICK f : f = [Do("callback") EXCEPT !.type = e.type]
  OBVIOUS
<1>6. f \in Frame /\ f.at = "callback"
  BY <1>4, <1>5, FrameTypes
<1>7. Continue(c, <<f>>) /\ UNCHANGED rx
  <2>1. /\ Continue(c, <<[Do("callback") EXCEPT !.type = Top(c).type]>>)
        /\ UNCHANGED rx
    BY Zenon DEF Deliver
  <2> QED
    BY <1>2, <1>3, <1>5, <2>1
<1>8. Working(c)
  BY <1>1, <1>2, BusyWorks DEF Busy, Idle, Events
<1>9. ControlAt(e, g) /\ BuffersAt(e)
  BY <1>1, <1>3, <1>8, PhaseOf
<1>10. /\ Released = IF e.at = "RX_BUF_RELEASED" THEN e.buf ELSE NULL
       /\ Released' = NULL
  <2>1. Working(c)' /\ Now(c)' = f
    <3>1. <<f>> \in Seq(Frame) /\ <<f>> # <<>> /\ Head(<<f>>) = f
      BY <1>6, OneFrame
    <3> QED
      BY <1>1, <1>2, <1>7, <1>8, <3>1, Successor
  <2>2. Released' = NULL
    BY <1>6, <2>1, ReleasedNext
  <2> QED
    BY <1>3, <1>8, <2>2, ReleasedIs
<1>11. CASE e.at = "RX_RDY"
  <2>1. /\ got' = [got EXCEPT ![e.buf] = @ + e.len]
        /\ UNCHANGED <<active, asked>>
    BY <1>2, <1>3, <1>4, <1>11, Delivered
  <2>2. /\ rx.buf # NULL /\ rx.buf \in Buf /\ e.buf = rx.buf /\ e.len > 0
        /\ e.len \in Nat /\ got[rx.buf] \in Nat /\ got[rx.buf] + e.len = rx.last
        /\ rx.last <= BufLen
    BY <1>1, <1>4, <1>9, <1>11
       DEF ControlAt, BuffersAt, Reports, TypeOK, RxInv, CursorInv, Frame
  <2>3. got'[rx.buf] = got[rx.buf] + e.len
    BY <1>1, <2>1, <2>2 DEF TypeOK
  <2>4. /\ Current = rx.buf /\ Current' = rx.buf
        /\ Following' = Following
    BY <1>7, <1>10, <1>11, <2>2 DEF Current, Following, Or
  <2>5. e.len \in 1 .. BufLen /\ got[rx.buf] + e.len <= BufLen
    BY <2>2, RxAssumption
  <2>6. Promise!Ready(e.len)
    BY <2>1, <2>2, <2>3, <2>4, <2>5 DEF Promised, Promise!Ready
  <2> QED
    BY <2>5, <2>6 DEF Promise!Next
<1>12. CASE e.at = "RX_BUF_RELEASED"
  <2>1. UNCHANGED <<active, asked, got>>
    BY <1>2, <1>3, <1>4, <1>12, Delivered
  <2>2. /\ e.buf \in Buf /\ e.buf # NULL /\ rx.next = NULL
        /\ got[e.buf] = BufLen \/ asked
        /\ asked => active
        /\ rx.buf # NULL => got[rx.buf] = 0
    BY <1>4, <1>9, <1>12, RxAssumption
       DEF ControlAt, BuffersAt, Releases, InEvent, Fits, SettledAt, EndingAt,
           Settled, Ending
  <2>3. /\ Current = e.buf /\ Following = rx.buf
        /\ Current' = rx.buf /\ Following' = NULL
    BY <1>7, <1>10, <1>12, <2>2 DEF Current, Following, Or
  <2>4. Promise!Release
    <3>1. PICK s : s = IF ~active THEN "off" ELSE IF asked THEN "stopping" ELSE "on"
      OBVIOUS
    <3>2. Promised = [state |-> s, cur |-> e.buf, next |-> rx.buf,
                      count |-> got[e.buf]]
      BY <2>2, <2>3, <3>1 DEF Promised
    <3>3. Promised' = [state |-> s, cur |-> rx.buf, next |-> NULL, count |-> 0]
      BY <2>1, <2>2, <2>3, <3>1 DEF Promised
    <3>4. /\ Promised.cur # NULL /\ Promised.state = s
          /\ Promised.next = rx.buf
          /\ Promised.count = BufLen \/ Promised.state = "stopping"
      BY <2>2, <3>1, <3>2
    <3>5. s \in IF Promised.next = NULL THEN {Promised.state, "stopping"}
                                        ELSE {Promised.state}
      BY <3>4
    <3>6. Promised' = [state |-> s, cur |-> Promised.next, next |-> NULL,
                       count |-> 0]
      BY <3>3, <3>4
    <3> QED
      BY <3>4, <3>5, <3>6 DEF Promise!Release
  <2> QED
    BY <2>4 DEF Promise!Next
<1>13. CASE e.at = "RX_DISABLED"
  <2>1. active' = FALSE /\ asked' = FALSE
    BY <1>2, <1>3, <1>4, <1>13, Delivered
  <2>2. active /\ asked /\ rx.buf = NULL /\ rx.next = NULL
    BY <1>9, <1>13 DEF ControlAt, EndingAt, Ending
  <2>3. Current = NULL /\ Current' = NULL /\ Following' = NULL
    BY <1>7, <1>10, <1>13, <2>2 DEF Current, Following, Or
  <2>4. Promised.state = "stopping" /\ Promised.cur = NULL
    BY <2>2, <2>3 DEF Promised
  <2>5. Promised' = [state |-> "off", cur |-> NULL, next |-> NULL, count |-> 0]
    BY <2>1, <2>3 DEF Promised
  <2>6. Promise!Disabled
    BY <2>4, <2>5 DEF Promise!Disabled, Promise!Off
  <2> QED
    BY <2>6 DEF Promise!Next
<1>14. CASE e.at = "RX_BUF_REQUEST"
  <2>1. UNCHANGED <<active, asked, got>>
    BY <1>2, <1>3, <1>4, <1>14, Delivered DEF clientVars
  <2>2. UNCHANGED Promised
    BY <1>2, <1>3, <1>6, <1>7, <1>14, <2>1, PutQuietly
  <2> QED
    BY <2>2
<1> QED
  BY <1>4, <1>11, <1>12, <1>13, <1>14 DEF Events

\* on_rx_ready(): the second half of the loop's body.
LEMMA ReadQuietly ==
  ASSUME Inv, NEW now \in BOOLEAN, stack["handler"] # <<>>,
         Now("handler").at \in {"rdy_loop", "rdy_read"}, ReadOrDrop(now),
         UNCHANGED clientVars
  PROVE  UNCHANGED Promised
<1>1. /\ rx'.buf = rx.buf /\ rx'.next = rx.next /\ "handler" \in Ctx
      /\ {"notify", "rdy_loop"} \subseteq Points
      /\ UNCHANGED <<active, asked, got>>
  BY DEF ReadOrDrop, Inv, TypeOK, Ctx, Points, clientVars
<1>2. \/ Continue("handler", <<>>)
      \/ \E f \in Frame : f.at # "RX_BUF_RELEASED" /\ Continue("handler", <<f>>)
  <2>1. PICK n, l : /\ n = Do("notify")
                    /\ l = DoIf("rdy_loop", now \/ rx.timeout = "zero")
    OBVIOUS
  <2>2. /\ n \in Frame /\ n.at # "RX_BUF_RELEASED"
        /\ l \in Frame /\ l.at # "RX_BUF_RELEASED"
    <3>1. PICK g \in BOOLEAN : g = (now \/ rx.timeout = "zero")
      OBVIOUS
    <3> QED
      BY <1>1, <2>1, <3>1, FrameTypes
  <2>3. \/ Continue("handler", <<>>) \/ Continue("handler", <<n>>)
        \/ Continue("handler", <<l>>)
    BY <2>1 DEF ReadOrDrop
  <2> QED
    BY <2>2, <2>3
<1> QED
  BY <1>1, <1>2, PoppedQuietly, PutQuietly

\* Every step of the adapter and of its client is one of the promise, or one
\* that the client does not see.
LEMMA StepRefines == Inv /\ Inv' /\ [Next]_rxVars => [Promise!Next]_Promised
<1> SUFFICES ASSUME Inv, Inv', [Next]_rxVars
             PROVE  [Promise!Next]_Promised
  OBVIOUS
<1>1. TypeOK /\ StackInv /\ RxInv
  BY DEF Inv
<1>2. \A p \in {"enable_irq", "disable_irq", "disable_loop", "notify", "switch",
           "rdy_timer", "rdy_loop", "rdy_read"} :
        p \in Points /\ p # "RX_BUF_RELEASED"
  BY DEF Points
<1>3. "handler" \in Ctx /\ "timer" \in Ctx
  BY DEF Ctx
<1>4. ASSUME NEW c \in Ctx, ClientCall(c)
      PROVE  [Promise!Next]_Promised
  BY <1>4, EnableRefines, ResponseRefines, DisableRefines
     DEF ClientCall, Promise!Next
<1>5. ASSUME NEW c \in Ctx,
             RxEnableIrq(c) \/ RxDisableIrq(c) \/ CallbackReturn(c)
      PROVE  UNCHANGED Promised
  <2>1. /\ stack[c] # <<>> /\ Now(c).at # "RX_BUF_RELEASED"
        /\ Continue(c, <<>>) /\ UNCHANGED <<rx, active, asked, got>>
    BY <1>1, <1>5, AtTop DEF RxEnableIrq, RxDisableIrq, CallbackReturn, clientVars
  <2> QED
    BY <2>1, PoppedQuietly
<1>6. ASSUME NEW c \in Ctx, RxDisableLoop(c)
      PROVE  UNCHANGED Promised
  <2>1. /\ stack[c] # <<>> /\ Now(c).at # "RX_BUF_RELEASED"
        /\ UNCHANGED <<rx, active, asked, got>>
    BY <1>1, <1>6, AtTop DEF RxDisableLoop, clientVars
  <2>2. PICK f, g, h : /\ f = DoIf("switch", FALSE) /\ g = Do("disable_loop")
                       /\ h = Event("RX_DISABLED", NULL, 0, 0)
    OBVIOUS
  <2>3. /\ f \in Frame /\ f.at # "RX_BUF_RELEASED"
        /\ g \in Frame /\ g.at # "RX_BUF_RELEASED"
        /\ h \in Frame /\ h.at # "RX_BUF_RELEASED"
    BY <1>2, <2>2, FrameTypes DEF Events
  <2>4. Continue(c, <<f, g>>) \/ Continue(c, <<h>>)
    BY <1>6, <2>2 DEF RxDisableLoop
  <2>5. CASE Continue(c, <<f, g>>)
    <3>1. /\ <<f, g>> \in Seq(Frame)
          /\ \A e \in Frames(<<f, g>>) : e.at # "RX_BUF_RELEASED"
      BY <2>3, TwoFrames
    <3> QED
      BY <2>1, <2>5, <3>1, QuietStep
  <2>6. CASE Continue(c, <<h>>)
    BY <2>1, <2>3, <2>6, PutQuietly
  <2> QED
    BY <2>4, <2>5, <2>6
<1>7. ASSUME NEW c \in Ctx, NotifyRxBuffer(c)
      PROVE  UNCHANGED Promised
  <2>1. /\ stack[c] # <<>> /\ Now(c).at # "RX_BUF_RELEASED"
        /\ rx'.buf = rx.buf /\ rx'.next = rx.next
        /\ UNCHANGED <<active, asked, got>>
    BY <1>1, <1>7, AtTop DEF NotifyRxBuffer, Notified, clientVars, TypeOK
  <2>2. CASE rx.buf # NULL /\ rx.curr > rx.last
    <3>1. PICK f : f = Event("RX_RDY", rx.buf, rx.last, rx.curr - rx.last)
      OBVIOUS
    <3>2. rx.curr \in Nat /\ rx.last \in Nat /\ rx.buf \in Buf
      BY <1>1, <2>2 DEF RxInv, CursorInv, TypeOK
    <3>3. f \in Frame /\ f.at # "RX_BUF_RELEASED"
      <4>1. rx.curr - rx.last \in Nat /\ "RX_RDY" \in Events
        BY <2>2, <3>2 DEF Events
      <4> QED
        BY <3>1, <3>2, <4>1 DEF Event, Frame, Points
    <3> QED
      BY <1>7, <2>1, <2>2, <3>1, <3>3, PutQuietly DEF NotifyRxBuffer
  <2>3. CASE ~(rx.buf # NULL /\ rx.curr > rx.last)
    BY <1>7, <2>1, <2>3, PoppedQuietly DEF NotifyRxBuffer
  <2> QED
    BY <2>2, <2>3
<1>8. CASE IrqHandler
  <2>1. PICK f, g : f = Do("rdy_timer") /\ g = Do("rdy_loop")
    OBVIOUS
  <2>2. /\ f \in Frame /\ f.at # "RX_BUF_RELEASED"
        /\ g \in Frame /\ g.at # "RX_BUF_RELEASED"
    BY <1>2, <2>1, FrameTypes
  <2>3. /\ <<f, g>> \in Seq(Frame)
        /\ \A e \in Frames(<<f, g>>) : e.at # "RX_BUF_RELEASED"
    BY <2>2, TwoFrames
  <2>4. Call("handler", <<f, g>>) /\ UNCHANGED <<rx, active, asked, got>>
    BY <1>8, <2>1 DEF IrqHandler, clientVars
  <2> QED
    BY <1>3, <2>3, <2>4, QuietStep
<1>9. CASE RxReadyTimer
  <2>1. /\ stack["handler"] # <<>> /\ Now("handler").at # "RX_BUF_RELEASED"
        /\ Continue("handler", <<>>) /\ UNCHANGED <<rx, active, asked, got>>
    BY <1>1, <1>3, <1>9, AtTop DEF RxReadyTimer, clientVars
  <2> QED
    BY <1>3, <2>1, PoppedQuietly
<1>10. CASE RxReadyLoop
  <2>1. /\ stack["handler"] # <<>> /\ Now("handler").at = "rdy_loop"
        /\ Top("handler").flag \in BOOLEAN
        /\ UNCHANGED <<active, asked, got, clientVars>>
    BY <1>1, <1>3, <1>10, AtTop DEF RxReadyLoop, clientVars, Frame
  <2>2. CASE rx.left = 0
    <3>1. PICK f, g, h : /\ f = Do("notify") /\ g = DoIf("switch", TRUE)
                         /\ h = DoIf("rdy_read", FALSE)
      OBVIOUS
    <3>2. /\ f \in Frame /\ f.at # "RX_BUF_RELEASED"
          /\ g \in Frame /\ g.at # "RX_BUF_RELEASED"
          /\ h \in Frame /\ h.at # "RX_BUF_RELEASED"
      BY <1>2, <3>1, FrameTypes
    <3>3. /\ <<f, g, h>> \in Seq(Frame)
          /\ \A e \in Frames(<<f, g, h>>) : e.at # "RX_BUF_RELEASED"
      BY <3>2, ThreeFrames
    <3>4. Continue("handler", <<f, g, h>>) /\ UNCHANGED rx
      BY <1>10, <2>2, <3>1 DEF RxReadyLoop
    <3> QED
      BY <1>3, <2>1, <3>3, <3>4, QuietStep
  <2>3. CASE rx.left # 0
    <3>1. ReadOrDrop(Top("handler").flag)
      BY <1>10, <2>3 DEF RxReadyLoop
    <3> QED
      BY <2>1, <3>1, ReadQuietly
  <2> QED
    BY <2>2, <2>3
<1>11. CASE RxReadyRead
  <2>1. /\ stack["handler"] # <<>> /\ Now("handler").at = "rdy_read"
        /\ Top("handler").flag \in BOOLEAN
        /\ UNCHANGED clientVars /\ ReadOrDrop(Top("handler").flag)
    BY <1>1, <1>3, <1>11, AtTop DEF RxReadyRead, Frame
  <2> QED
    BY <2>1, ReadQuietly
<1>12. CASE RxTimeout
  <2>1. PICK f : f = Do("notify")
    OBVIOUS
  <2>2. f \in Frame /\ f.at # "RX_BUF_RELEASED"
    BY <1>2, <2>1, FrameTypes
  <2>3. Call("timer", <<f>>) /\ UNCHANGED <<rx, active, asked, got>>
    BY <1>12, <2>1 DEF RxTimeout, clientVars
  <2> QED
    BY <1>3, <2>2, <2>3, CalledQuietly
<1>13. CASE Receive \/ UNCHANGED rxVars
  <2>1. UNCHANGED <<rx, stack, active, asked, got>>
    BY <1>13 DEF Receive, rxVars, clientVars
  <2>2. Call("handler", <<>>)
    <3>1. stack \in [Ctx -> Seq(Frame)] /\ <<>> \o stack["handler"] = stack["handler"]
      BY <1>1, <1>3 DEF TypeOK
    <3> QED
      BY <2>1, <3>1 DEF Call
  <2> QED
    BY <1>3, <2>1, <2>2, NoFrame, QuietStep
<1> QED
  BY <1>4, <1>5, <1>6, <1>7, <1>8, <1>9, <1>10, <1>11, <1>12, <1>13,
     DeliverRefines, SwitchRefines
     DEF Next, ApiStep, HandlerStep

\* The safety part of ImplementsPromise: what NusBridge assumes of a
\* receiver the adapter does, in every order of handler, timer and callbacks.
THEOREM KeepsPromise == Spec => Promise!Init /\ [][Promise!Next]_Promised
<1>1. Init => Promise!Init
  <2> SUFFICES ASSUME Init
               PROVE  Promise!Init
    OBVIOUS
  <2>1. \A c \in Ctx : FramesOf(c) = {}
    BY DEF Init, FramesOf
  <2>2. Released = NULL
    BY <2>1 DEF Released, Pending
  <2>3. Current = NULL /\ Following = NULL
    BY <2>2 DEF Init, Current, Following, Or
  <2> QED
    BY <2>3 DEF Init, Promised, Promise!Init, Promise!Off
<1> QED
  BY <1>1, Invariant, StepRefines, PTL DEF Spec
=============================================================================
