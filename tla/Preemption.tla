----------------------------- MODULE Preemption -----------------------------
(***************************************************************************)
(* Execution contexts of a single-core Zephyr target and the rule by which *)
(* they preempt each other.  A context that has started runs, with         *)
(* everything it calls, until it returns; while it runs, only a context of *)
(* strictly higher priority can start, and a context takes a step only     *)
(* when no context of higher priority is running.                          *)
(*                                                                         *)
(*   thread   any of the application's threads (they do not preempt each   *)
(*            other inside a driver call: the callers are cooperative)     *)
(*   handler  the context that calls the UART interrupt handler: an ISR    *)
(*            for a hardware UART, the USB work queue for a CDC ACM UART   *)
(*   timer    the system clock ISR, which runs the k_timer expiry          *)
(*            functions                                                    *)
(*                                                                         *)
(* The kernel is not part of the repository; this is how its code relies   *)
(* on it.                                                                  *)
(***************************************************************************)
EXTENDS Naturals

CONSTANT Prio       \* [Ctx -> Nat], higher number preempts lower

Ctx == {"thread", "handler", "timer"}

\* Timers preempt at least what the UART handler preempts.
ASSUME PrioAssumption ==
  /\ Prio \in [Ctx -> Nat]
  /\ Prio["thread"] < Prio["handler"]
  /\ Prio["handler"] <= Prio["timer"]

\* An idle context c may start while the contexts in running are active.
MayStart(c, running) == \A d \in running : Prio[d] < Prio[c]

\* The running context c has the processor.
MayStep(c, running) == \A d \in running \ {c} : Prio[d] < Prio[c]
=============================================================================
