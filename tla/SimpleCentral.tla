--------------------------- MODULE SimpleCentral ---------------------------
(***************************************************************************)
(* The central of simple_service: the handlers of                          *)
(* central_simple_service/src/main.c and the client of the service,        *)
(* simple_service_client.c.  Each operator is what one handler does; the   *)
(* module SimpleService says when the Bluetooth stack or a button runs it. *)
(*                                                                         *)
(* CONN is the only connection object (CONFIG_BT_MAX_CONN is 1).  The      *)
(* handlers run in cooperative threads and none of them waits, so each is  *)
(* one step.  "alive" is what the stack knows of the link when the handler *)
(* asks it for something: requests on a dead link are refused.             *)
(***************************************************************************)
EXTENDS Naturals

CONSTANTS
  CONN,   \* the connection object
  NULL,
  Value   \* bytes that the buttons and the requests carry

ASSUME CentralAssumption ==
  /\ CONN # NULL
  /\ {0, 1} \subseteq Value

VARIABLES
  defaultConn,  \* default_conn
  cRefs,        \* references main.c holds on CONN
  scanning,     \* the scanner is on
  dm,           \* the discovery manager: its attributes are held until released
  conn,         \* simple_service.conn (and, with it, the handles)
  notif,        \* flag SIMPLE_SERVICE_C_BUTTOM_NOTIF_ENABLED
  sub,          \* what the stack does with button_notif_params
  pending,      \* flag SIMPLE_SERVICE_C_RX_WRITE_PENDING
  write,        \* what the stack does with write_params
  data,         \* the byte that its request carries
  cLed          \* DK_LED1 of the central

linkVars == <<defaultConn, cRefs, scanning>>
subVars == <<notif, sub>>
writeVars == <<pending, write, data>>
centralVars == <<linkVars, dm, conn, subVars, writeVars, cLed>>

\* An ATT request is in flight, was refused for lack of authentication, or
\* waits for the link to be secured and is then sent again.
Waiting == {"writing", "rejected", "retry"}

CentralTypeOK ==
  /\ defaultConn \in {CONN, NULL}
  /\ cRefs \in 0 .. 1
  /\ scanning \in BOOLEAN
  /\ dm \in {"free", "running", "held"}
  /\ conn \in {CONN, NULL}
  /\ notif \in BOOLEAN
  /\ sub \in {"none", "on"} \cup Waiting
  /\ pending \in BOOLEAN
  /\ write \in {"none"} \cup Waiting
  /\ data \in Value
  /\ cLed \in {0, 1}

Init ==
  /\ defaultConn = NULL /\ cRefs = 0
  /\ scanning = TRUE
  /\ dm = "free"
  /\ conn = NULL
  /\ notif = FALSE /\ sub = "none"
  /\ pending = FALSE /\ write = "none" /\ data = 0
  /\ cLed = 0

-----------------------------------------------------------------------------
(* Connections.  The scanning module stops the scanner before it connects. *)

ScanConnecting ==
  /\ scanning' = FALSE
  /\ defaultConn' = CONN
  /\ cRefs' = cRefs + 1
  /\ UNCHANGED <<dm, conn, subVars, writeVars, cLed>>

\* No connection was created; nothing starts the scanner again.
ScanConnectingError ==
  /\ scanning' = FALSE
  /\ UNCHANGED <<defaultConn, cRefs, dm, conn, subVars, writeVars, cLed>>

\* The common end of connected(err) and disconnected().
ReleaseAndScan ==
  IF defaultConn = CONN
    THEN /\ cRefs' = cRefs - 1
         /\ defaultConn' = NULL
         /\ scanning' = TRUE
    ELSE UNCHANGED linkVars

ConnectedError ==
  /\ ReleaseAndScan
  /\ UNCHANGED <<dm, conn, subVars, writeVars, cLed>>

\* bt_gatt_dm_start() is refused until the data of the last one is released.
GattDiscover(alive) == dm' = IF dm = "free" /\ alive THEN "running" ELSE dm

Connected(secErr, alive) ==
  /\ scanning' = FALSE
  /\ IF secErr THEN GattDiscover(alive) ELSE UNCHANGED dm
  /\ UNCHANGED <<defaultConn, cRefs, conn, subVars, writeVars, cLed>>

-----------------------------------------------------------------------------
(* The client.                                                             *)

\* The peripheral has every attribute the client looks for.
HandlesAssign == conn' = CONN

Subscribe(alive) ==
  IF notif
    THEN UNCHANGED subVars
    ELSE /\ notif' = alive
         /\ sub' = IF alive THEN "writing" ELSE "none"

NotReleased(alive) ==                       \* a mutant of DiscoveryCompleted
  /\ HandlesAssign
  /\ Subscribe(alive)
  /\ dm' = "held"
  /\ UNCHANGED <<linkVars, writeVars, cLed>>

DiscoveryCompleted(alive) ==
  /\ HandlesAssign
  /\ Subscribe(alive)
  /\ dm' = "free"
  /\ UNCHANGED <<linkVars, writeVars, cLed>>

\* on_received() without data: the stack dropped the subscription.
Unsubscribed ==
  /\ notif' = FALSE
  /\ sub' = "none"

OnReceived(value) ==
  /\ cLed' = IF value \in {0, 1} THEN value ELSE cLed
  /\ UNCHANGED <<linkVars, dm, conn, subVars, writeVars>>

\* on_sent(): the stack is done with write_params.
OnSent ==
  /\ pending' = FALSE
  /\ write' = "none"
  /\ data' = 0

FlagKept(value, alive) ==                               \* a mutant of SetLed
  /\ conn # NULL
  /\ ~pending
  /\ pending' = TRUE
  /\ write' = IF alive THEN "writing" ELSE write
  /\ data' = IF alive THEN value ELSE data
  /\ UNCHANGED <<linkVars, dm, conn, subVars, cLed>>

SetLed(value, alive) ==
  /\ conn # NULL
  /\ ~pending
  /\ pending' = alive
  /\ write' = IF alive THEN "writing" ELSE write
  /\ data' = IF alive THEN value ELSE data
  /\ UNCHANGED <<linkVars, dm, conn, subVars, cLed>>

\* write_params.data points into the frame of bt_simple_service_set_led(),
\* which is gone: a request sent again carries whatever is there by then.
Resend ==
  /\ write' = "writing"
  /\ data' \in Value
  /\ UNCHANGED pending

-----------------------------------------------------------------------------
(* Events of a link.                                                       *)

\* The stack first goes on with (or gives up) what waited for security.
SecurityChanged(err, alive) ==
  /\ CASE write = "retry" /\ ~err -> Resend
       [] write = "retry" /\ err -> OnSent
       [] OTHER -> UNCHANGED writeVars
  /\ CASE sub = "retry" /\ ~err -> sub' = "writing" /\ UNCHANGED notif
       [] sub = "retry" /\ err -> Unsubscribed
       [] OTHER -> UNCHANGED subVars
  /\ IF err THEN UNCHANGED dm ELSE GattDiscover(alive)
  /\ UNCHANGED <<linkVars, conn, cLed>>

\* The stack ends the requests, the (volatile) subscription and the
\* discovery of the link before it calls disconnected().
Disconnected ==
  /\ IF write # "none" THEN OnSent ELSE UNCHANGED writeVars
  /\ IF sub # "none" THEN Unsubscribed ELSE UNCHANGED subVars
  /\ dm' = IF dm = "running" THEN "free" ELSE dm
  /\ ReleaseAndScan
  /\ UNCHANGED <<conn, cLed>>
=============================================================================
