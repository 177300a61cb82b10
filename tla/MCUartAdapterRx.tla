-------------------------- MODULE MCUartAdapterRx --------------------------
(***************************************************************************)
(* Instances of UartAdapterRx for TLC.                                     *)
(***************************************************************************)
EXTENDS UartAdapterRx

\* The CDC ACM target: its callback comes from the USB work queue.
PrioCdc == [c \in Ctx |-> CASE c = "thread" -> 1
                            [] c = "handler" -> 2
                            [] c = "timer" -> 3]

\* "finite" covers "forever": a timer that runs need not expire.
Finite == {"finite", "zero"}
=============================================================================
