-------------------------- MODULE MCUartAdapterTx --------------------------
(***************************************************************************)
(* Instances of UartAdapterTx for TLC.                                     *)
(***************************************************************************)
EXTENDS UartAdapterTx, TLC

\* The CDC ACM target: its callback comes from the USB work queue.
PrioCdc == [c \in Ctx |-> CASE c = "thread" -> 1
                            [] c = "handler" -> 2
                            [] c = "timer" -> 3]

\* The NUS bridge: tx() from its threads and from its callback, which the
\* handler calls.  It gives no timeout and never aborts.
CallsNus == [c \in Ctx |-> IF c = "timer" THEN {} ELSE {"tx"}]

\* A client that also aborts, from its threads.  It submits from anywhere:
\* restarting an aborted transfer in the callback, as uart_cb() does, calls
\* tx() from the timer.
CallsAbort == [c \in Ctx |-> IF c = "thread" THEN {"tx", "tx_abort"} ELSE {"tx"}]

\* A client that gives timeouts and aborts nothing itself.  When the timer has
\* aborted a transfer, the callback starts the next one, as uart_cb() does.
CallsTimeout == [c \in Ctx |-> IF c = "handler" THEN {} ELSE {"tx"}]
TimerOnlyRestarts == pc["timer"] = "tx_irq_enable" => ret["timer"] = "callback"

\* The buffers are interchangeable in a run of safety properties.
Symmetry == Permutations(Buf)

Forever == {"forever"}
\* "finite" covers "forever": a timer that runs need not expire.
Finite == {"finite"}
=============================================================================
