------------------------------ MODULE AsyncTx ------------------------------
(***************************************************************************)
(* What a transmitter with the asynchronous UART API promises its client:  *)
(* one transfer at a time, its bytes go out in order, and it is reported,  *)
(* as done only when all its bytes are out.  The adapter of                *)
(* uart_async_adapter.c implements it (UartAdapterTx), and uart_cb() and   *)
(* bt_receive_cb() of main.c rely on it (NusBridge).                       *)
(***************************************************************************)
EXTENDS Naturals

CONSTANTS
  Buf, MaxLen, NULL,
  aborts            \* a transfer may be reported before it is all sent

VARIABLE current    \* the transfer not reported yet: buf, len, sent

Idle == [buf |-> NULL, len |-> 0, sent |-> 0]

Init == current = Idle

Submit(b, len) ==
  /\ current = Idle
  /\ current' = [buf |-> b, len |-> len, sent |-> 0]

Send(n) ==
  /\ current # Idle
  /\ n > 0
  /\ current.sent + n <= current.len
  /\ current' = [current EXCEPT !.sent = @ + n]

Report ==
  /\ current # Idle
  /\ aborts \/ current.sent = current.len
  /\ current' = Idle

Next ==
  \/ \E b \in Buf, len \in 1 .. MaxLen : Submit(b, len)
  \/ \E n \in 1 .. MaxLen : Send(n)
  \/ Report

Progress == (\E n \in 1 .. MaxLen : Send(n)) \/ Report

Spec == Init /\ [][Next]_current /\ WF_current(Progress)
=============================================================================
