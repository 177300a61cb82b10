------------------------------ MODULE AsyncRx ------------------------------
(***************************************************************************)
(* What a receiver with the asynchronous UART API promises its client: it  *)
(* fills one buffer after the other, reports what it stored in order,      *)
(* gives every buffer back, and says when reception has ended, which may   *)
(* happen because no next buffer was at hand.  uart_cb() of main.c relies  *)
(* on it (NusBridge), and the adapter implements it for a client that      *)
(* follows uart_cb() (UartAdapterRx).                                      *)
(***************************************************************************)
EXTENDS Naturals

CONSTANTS Buf, BufLen, NULL

VARIABLE rx   \* state, current and next buffer, bytes reported of current

Off == [state |-> "off", cur |-> NULL, next |-> NULL, count |-> 0]

Init == rx = Off

Enable(b) ==
  /\ rx = Off
  /\ rx' = [Off EXCEPT !.state = "on", !.cur = b]

Disable ==
  /\ rx.state = "on"
  /\ rx' = [rx EXCEPT !.state = "stopping"]

\* A receiver that was out of buffers goes on with the one it is given.
Respond(b) ==
  /\ rx.state = "on"
  /\ rx.next = NULL
  /\ rx' = IF rx.cur = NULL THEN [rx EXCEPT !.cur = b]
                            ELSE [rx EXCEPT !.next = b]

Request ==
  /\ rx.state = "on"
  /\ rx.next = NULL
  /\ UNCHANGED rx

Ready(n) ==
  /\ rx.cur # NULL
  /\ n > 0
  /\ rx.count + n <= BufLen
  /\ rx' = [rx EXCEPT !.count = @ + n]

\* Out of buffers some receivers stop and some drop bytes until they have one.
Release ==
  /\ rx.cur # NULL
  /\ rx.count = BufLen \/ rx.state = "stopping"
  /\ \E s \in IF rx.next = NULL THEN {rx.state, "stopping"} ELSE {rx.state} :
       rx' = [state |-> s, cur |-> rx.next, next |-> NULL, count |-> 0]

Disabled ==
  /\ rx.state = "stopping"
  /\ rx.cur = NULL
  /\ rx' = Off

Next ==
  \/ \E b \in Buf : Enable(b) \/ Respond(b)
  \/ Disable
  \/ \E n \in 1 .. BufLen : Ready(n)
  \/ Release \/ Disabled

\* Reception that was to end does end, with every buffer given back.
Ending == rx.state = "stopping" /\ (Release \/ Disabled)

Spec == Init /\ [][Next]_rx /\ WF_rx(Ending)
=============================================================================
