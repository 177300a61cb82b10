----------------------------- MODULE UartWakeup -----------------------------
(***************************************************************************)
(* uart_wakeup_rx/src/main.c: a button suspends the console's UART and     *)
(* arms an interrupt on its receive pin, whose handler resumes it.  Both   *)
(* handlers and main() at its start run uart0_set_enable(), a step per     *)
(* device call.  The handlers share one interrupt: neither interrupts the  *)
(* other, and both may interrupt main().                                   *)
(***************************************************************************)

VARIABLES
  wakeMain,   \* where main() is
  isr,        \* where the running handler is in uart0_set_enable()
  enabling,   \* the handler's argument "enable"
  uartReady,  \* device_is_ready()
  armed,      \* the interrupt of the receive pin is enabled
  latched,    \* an edge was seen by it and its handler has not run
  uartOn,     \* the UART is not suspended
  wakeLed,    \* the LED
  nullDevice  \* a device call was made with gpio_dev still NULL

pinVars == <<armed, latched>>
wakeVars == <<wakeMain, isr, enabling, uartReady, pinVars, uartOn, wakeLed,
              nullDevice>>

Place == {"boot", "button", "device", "pin", "handler", "enableLed",
          "enableUart", "configureLed", "loop", "returned"}
IsrPlace == {"idle", "pin", "led", "uart"}

WakeTypeOK ==
  /\ wakeMain \in Place /\ isr \in IsrPlace
  /\ enabling \in BOOLEAN /\ uartReady \in BOOLEAN
  /\ armed \in BOOLEAN /\ latched \in BOOLEAN /\ uartOn \in BOOLEAN
  /\ wakeLed \in BOOLEAN /\ nullDevice \in BOOLEAN

WakeInit ==
  /\ wakeMain = "boot" /\ isr = "idle" /\ enabling = FALSE
  /\ uartReady \in BOOLEAN
  /\ armed = FALSE /\ latched = FALSE
  /\ uartOn = TRUE /\ wakeLed = FALSE
  /\ nullDevice = FALSE

HasDevice == wakeMain \notin {"boot", "button"}    \* gpio_dev was set

-----------------------------------------------------------------------------
(* uart0_set_enable()                                                      *)

ConfigurePin(enable) ==
  /\ armed' = ~enable
  /\ latched' = (latched /\ ~enable)
  /\ UNCHANGED <<uartOn, wakeLed>>

SetLed(on) == wakeLed' = on /\ UNCHANGED <<pinVars, uartOn>>
RunAction(resume) == uartOn' = resume /\ UNCHANGED <<pinVars, wakeLed>>

-----------------------------------------------------------------------------
(* main(), when no handler runs.                                           *)

Goes(from, to) ==
  /\ isr = "idle"
  /\ wakeMain = from /\ wakeMain' = to
  /\ UNCHANGED <<isr, enabling, uartReady, nullDevice>>

AddButton == Goes("boot", "button") /\ UNCHANGED <<pinVars, uartOn, wakeLed>>
SetDevice == Goes("button", "device") /\ UNCHANGED <<pinVars, uartOn, wakeLed>>
ArmPin == Goes("device", "pin") /\ ConfigurePin(FALSE)
AddHandler == Goes("pin", "handler") /\ UNCHANGED <<pinVars, uartOn, wakeLed>>

EnableFirst ==
  \/ uartReady /\ Goes("handler", "enableLed") /\ ConfigurePin(TRUE)
  \/ /\ ~uartReady /\ Goes("handler", "configureLed")
     /\ UNCHANGED <<pinVars, uartOn, wakeLed>>
  \/ Goes("enableLed", "enableUart") /\ SetLed(TRUE)
  \/ Goes("enableUart", "configureLed") /\ RunAction(TRUE)

ConfigureLed ==
  \/ Goes("configureLed", "loop") /\ SetLed(TRUE)
  \/ Goes("configureLed", "returned") /\ UNCHANGED <<pinVars, uartOn, wakeLed>>

-----------------------------------------------------------------------------
(* Handlers.                                                               *)

Button1 ==
  /\ isr = "idle" /\ wakeMain # "boot" /\ uartReady
  /\ isr' = "pin" /\ enabling' = FALSE
  /\ UNCHANGED <<wakeMain, uartReady, pinVars, uartOn, wakeLed, nullDevice>>

\* rx_handler(), for an edge that the interrupt saw.  Without a handler yet,
\* or without the UART, the edge is forgotten.
RxHandler ==
  /\ isr = "idle" /\ latched /\ latched' = FALSE
  /\ IF uartReady /\ wakeMain \notin {"device", "pin"}
       THEN isr' = "pin" /\ enabling' = TRUE
       ELSE UNCHANGED <<isr, enabling>>
  /\ UNCHANGED <<wakeMain, uartReady, armed, uartOn, wakeLed, nullDevice>>

Passes(from, to) ==
  /\ isr = from /\ isr' = to
  /\ UNCHANGED <<wakeMain, enabling, uartReady, nullDevice>>

NullPin ==
  /\ isr = "pin" /\ ~HasDevice /\ nullDevice' = TRUE
  /\ UNCHANGED <<wakeMain, isr, enabling, uartReady, pinVars, uartOn, wakeLed>>

\* A mutant of SetEnable: the UART is suspended before the pin is armed.
PinLast ==
  \/ HasDevice /\ Passes("pin", "led") /\ RunAction(enabling)
  \/ Passes("led", "uart") /\ SetLed(enabling)
  \/ Passes("uart", "idle") /\ ConfigurePin(enabling)

SetEnable ==
  \/ HasDevice /\ Passes("pin", "led") /\ ConfigurePin(enabling)
  \/ Passes("led", "uart") /\ SetLed(enabling)
  \/ Passes("uart", "idle") /\ RunAction(enabling)

\* The start of a byte, seen by the interrupt of the receive pin.
Edge ==
  /\ armed /\ latched' = TRUE
  /\ UNCHANGED <<wakeMain, isr, enabling, uartReady, armed, uartOn, wakeLed, nullDevice>>

WakeNext ==
  /\ ~nullDevice
  /\ \/ AddButton \/ SetDevice \/ ArmPin \/ AddHandler \/ EnableFirst \/ ConfigureLed
     \/ Button1 \/ RxHandler \/ NullPin \/ SetEnable \/ Edge

WakeSpec == WakeInit /\ [][WakeNext]_wakeVars

-----------------------------------------------------------------------------
(* Properties.                                                             *)

\* Whoever turns it on or off at the same time, the UART never sleeps so deeply
\* that a byte does not wake it: while it is suspended the interrupt of the pin
\* is enabled, or a call that resumes the UART is under way.
Waking == (isr # "idle" /\ enabling) \/ wakeMain \in {"enableLed", "enableUart"}

ByteWakes == uartOn \/ armed \/ Waking
=============================================================================
