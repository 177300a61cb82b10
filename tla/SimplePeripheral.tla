-------------------------- MODULE SimplePeripheral --------------------------
(***************************************************************************)
(* The peripheral of simple_service, peripheral_simple_service/src/main.c: *)
(* one operator per handler.  SimpleService says when the Bluetooth stack  *)
(* or a button runs it.  There is one connection object                    *)
(* (CONFIG_BT_MAX_CONN is 1): current_conn and auth_conn are NULL or it.   *)
(***************************************************************************)
EXTENDS Naturals

CONSTANT Value

VARIABLES
  currentConn,    \* current_conn is not NULL
  authConn,       \* auth_conn is not NULL
  pRefs,          \* references main.c holds on the connection
  notifyEnabled,  \* notify_enabled
  buttonValue,    \* button_value
  led             \* DK_LED1 of the peripheral

refVars == <<currentConn, authConn, pRefs>>
peripheralVars == <<refVars, notifyEnabled, buttonValue, led>>

PeripheralTypeOK ==
  /\ currentConn \in BOOLEAN
  /\ authConn \in BOOLEAN
  /\ pRefs \in 0 .. 2
  /\ notifyEnabled \in BOOLEAN
  /\ buttonValue \in Value
  /\ led \in {0, 1}

Init ==
  /\ currentConn = FALSE /\ authConn = FALSE /\ pRefs = 0
  /\ notifyEnabled = FALSE
  /\ buttonValue = 0
  /\ led = 0

Connected ==
  /\ currentConn' = TRUE
  /\ pRefs' = pRefs + 1
  /\ UNCHANGED <<authConn, notifyEnabled, buttonValue, led>>

AuthPasskeyEntry ==
  /\ authConn' = TRUE
  /\ pRefs' = pRefs + 1
  /\ UNCHANGED <<currentConn, notifyEnabled, buttonValue, led>>

\* BT_GATT_PERM_WRITE_AUTHEN on the CCC descriptor and on the LED.
Permitted(secured) == secured

ComparedToIndicate(notify) == notifyEnabled' = FALSE                 \* a mutant
CfgChanged(notify) == notifyEnabled' = notify

OnWrite(value) ==
  /\ led' = IF value \in {0, 1} THEN value ELSE led
  /\ UNCHANGED <<refVars, notifyEnabled, buttonValue>>

\* Whether send_button_notification() gets as far as the stack.
Notifies == notifyEnabled

ButtonHandler(value) ==
  /\ buttonValue' = value
  /\ UNCHANGED <<refVars, notifyEnabled, led>>

\* pairing_failed() gives the link up.
AliveAfterPairingFailed == FALSE

\* Two mutants of Disconnected: auth_conn is forgotten, or not checked.
AuthConnForgotten ==
  /\ CfgChanged(FALSE)
  /\ authConn' = FALSE
  /\ currentConn' = FALSE
  /\ pRefs' = pRefs - (IF currentConn THEN 1 ELSE 0)
  /\ UNCHANGED <<buttonValue, led>>

\* The stack clears the CCC of the link before it calls disconnected().
Disconnected ==
  /\ CfgChanged(FALSE)
  /\ authConn' = FALSE
  /\ currentConn' = FALSE
  /\ pRefs' = pRefs - (IF authConn THEN 1 ELSE 0)
                    - (IF currentConn THEN 1 ELSE 0)
  /\ UNCHANGED <<buttonValue, led>>
=============================================================================
