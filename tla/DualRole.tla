------------------------------ MODULE DualRole ------------------------------
(***************************************************************************)
(* dual_role_authen/peripheral_and_central: what a phone writes to the LED *)
(* service of this device is written on to the same service of a sensor.   *)
(* periph_role.c advertises for the phone, central_role.c scans for the    *)
(* sensor and finds the handle of its characteristic.  The handlers of     *)
(* both roles are called for both links; those of periph_role.c only log.  *)
(*                                                                         *)
(* CONFIG_BT_MAX_CONN is not set, so the number of connection objects is   *)
(* left open: each link takes one, and so does connectable advertising.    *)
(***************************************************************************)
EXTENDS Naturals

CONSTANT MaxObjects   \* bound: the connection objects of any build

ASSUME DualAssumption == MaxObjects \in Nat \ {0}

VARIABLES
  dualMain,     \* where main() is
  objects,      \* the connection objects there are
  phoneAdv,     \* advertising is on; the stack resumes it after a link
  advBegun,     \* it was started
  scanOn,       \* the scanner is on
  phone,        \* the phone's link: "none" or "up"
  sensor,       \* the sensor's link: "none", "connecting" or "up"
  defaultConn,  \* default_conn refers to the sensor's link
  dm,           \* the link that the discovery manager works on
  remoteHandle, \* remote_led_char_handle: where it was found
  relayed,      \* the handle in the write request on its way to the sensor
  noHandle,     \* history: the discovery of this sensor's link failed
  phoneLater,   \* history: a phone's handle was found after this sensor's
  scanEnded     \* history: the last start of a scan or a connection failed

dualAdvVars == <<dualMain, objects, phoneAdv, advBegun>>
dualScanVars == <<scanOn, defaultConn, scanEnded>>
dualFindVars == <<dm, remoteHandle, noHandle, phoneLater>>
dualVars == <<dualAdvVars, dualScanVars, dualFindVars, phone, sensor, relayed>>

\* "old" is a sensor whose link has ended.
Finder == {"none", "phone", "sensor", "old"}

DualTypeOK ==
  /\ dualMain \in {"init", "advertised", "running"}
  /\ objects \in 1 .. MaxObjects
  /\ phoneAdv \in BOOLEAN /\ advBegun \in BOOLEAN
  /\ scanOn \in BOOLEAN /\ defaultConn \in BOOLEAN /\ scanEnded \in BOOLEAN
  /\ phone \in {"none", "up"} /\ sensor \in {"none", "connecting", "up"}
  /\ dm \in {"none", "phone", "sensor"}
  /\ remoteHandle \in Finder /\ relayed \in Finder
  /\ noHandle \in BOOLEAN /\ phoneLater \in BOOLEAN

DualInit ==
  /\ dualMain = "init" /\ objects \in 1 .. MaxObjects
  /\ phoneAdv = FALSE /\ advBegun = FALSE
  /\ scanOn = FALSE /\ defaultConn = FALSE /\ scanEnded = FALSE
  /\ phone = "none" /\ sensor = "none"
  /\ dm = "none" /\ remoteHandle = "none" /\ relayed = "none"
  /\ noHandle = FALSE /\ phoneLater = FALSE

Uses(taken) == IF taken THEN 1 ELSE 0
ObjectsLeft ==
  Uses(phoneAdv) + Uses(phone = "up") + Uses(sensor # "none") < objects

-----------------------------------------------------------------------------
(* main().                                                                 *)

\* bt_enable() and periph_bt_ready(): whatever fails, main() goes on.
PeriphBtReady(started) ==
  /\ dualMain = "init" /\ dualMain' = "advertised"
  /\ phoneAdv' = started /\ advBegun' = started
  /\ UNCHANGED <<objects, dualScanVars, dualFindVars, phone, sensor, relayed>>

ScanStart(ok) == scanOn' = ok /\ scanEnded' = ~ok

\* central_role_init()
CentralRoleInit(ok) ==
  /\ dualMain = "advertised" /\ dualMain' = "running"
  /\ ScanStart(ok)
  /\ UNCHANGED <<objects, phoneAdv, advBegun, defaultConn, dualFindVars, phone,
                 sensor, relayed>>

-----------------------------------------------------------------------------
(* The link to the sensor.  The library stops the scanner for the attempt. *)

ScanConnecting ==
  /\ scanOn /\ scanOn' = FALSE
  /\ ObjectsLeft
  /\ sensor' = "connecting" /\ defaultConn' = TRUE
  /\ UNCHANGED <<dualAdvVars, dualFindVars, phone, relayed, scanEnded>>

\* scan_connecting_error() only logs.
ScanConnectingError ==
  /\ scanOn /\ scanOn' = FALSE /\ scanEnded' = TRUE
  /\ UNCHANGED <<dualAdvVars, defaultConn, dualFindVars, phone, sensor, relayed>>

\* gatt_discover(): the manager works on one link at a time.
GattDiscover(link, ok) == dm' = IF dm = "none" /\ ok THEN link ELSE dm

\* The request for security L2 changes nothing here, refused or not.
SensorConnected(ok) ==
  /\ sensor = "connecting" /\ sensor' = "up"
  /\ GattDiscover("sensor", ok)
  /\ noHandle' = (dm' # "sensor") /\ phoneLater' = FALSE
  /\ UNCHANGED <<dualAdvVars, dualScanVars, remoteHandle, phone, relayed>>

NoRescan(ok) ==                                       \* a mutant of DropSensor
  /\ defaultConn' = FALSE
  /\ UNCHANGED <<scanOn, scanEnded>>

\* The end of connected(conn_err) and of disconnected(), for the sensor.
DropSensor(ok) == defaultConn' = FALSE /\ ScanStart(ok)

SensorFailed(ok) ==
  /\ sensor = "connecting" /\ sensor' = "none"
  /\ DropSensor(ok)
  /\ UNCHANGED <<dualAdvVars, dualFindVars, phone, relayed>>

\* The stack ends the discovery and the request of the link.
SensorDisconnected(ok) ==
  /\ sensor = "up" /\ sensor' = "none"
  /\ DropSensor(ok)
  /\ dm' = IF dm = "sensor" THEN "none" ELSE dm
  /\ remoteHandle' = IF remoteHandle = "sensor" THEN "old" ELSE remoteHandle
  /\ relayed' = "none"
  /\ UNCHANGED <<dualAdvVars, noHandle, phoneLater, phone>>

-----------------------------------------------------------------------------
(* The link to the phone.                                                  *)

PhoneConnected(ok) ==
  /\ phoneAdv /\ phoneAdv' = FALSE
  /\ phone' = "up"
  /\ GattDiscover("phone", ok)
  /\ UNCHANGED <<dualMain, objects, advBegun, dualScanVars, remoteHandle,
                 noHandle, phoneLater, sensor, relayed>>

PhoneDisconnected ==
  /\ phone = "up" /\ phone' = "none"
  /\ phoneAdv' = advBegun
  /\ dm' = IF dm = "phone" THEN "none" ELSE dm
  /\ UNCHANGED <<dualMain, objects, advBegun, dualScanVars, remoteHandle,
                 noHandle, phoneLater, sensor, relayed>>

-----------------------------------------------------------------------------
(* Discovery, and the relay.                                               *)

\* A mutant of TakeHandle: a handle that was found once is kept.
TakeFirst ==
  remoteHandle' = IF remoteHandle = "none" THEN dm ELSE remoteHandle

TakeHandle == remoteHandle' = dm

\* discovery_completed_cb(), with the characteristic.
DiscoveryCompleted ==
  /\ dm # "none" /\ dm' = "none"
  /\ TakeHandle
  /\ phoneLater' = (dm = "phone")
  /\ UNCHANGED <<dualAdvVars, dualScanVars, noHandle, phone, sensor, relayed>>

\* It is not there, nor the service, or the procedure failed.
DiscoveryWithout ==
  /\ dm # "none" /\ dm' = "none"
  /\ noHandle' = (noHandle \/ dm = "sensor")
  /\ UNCHANGED <<dualAdvVars, dualScanVars, remoteHandle, phoneLater, phone,
                 sensor, relayed>>

\* central_role_write_led(), with one parameter block for all requests: a
\* later one takes the place of an earlier one.
CentralRoleWriteLed ==
  IF defaultConn /\ remoteHandle # "none" /\ sensor = "up"
    THEN relayed' = remoteHandle
    ELSE UNCHANGED relayed

OnLedStateWrite ==
  /\ phone = "up"
  /\ CentralRoleWriteLed
  /\ UNCHANGED <<dualAdvVars, dualScanVars, dualFindVars, phone, sensor>>

WriteLedStateCb ==
  /\ relayed # "none" /\ relayed' = "none"
  /\ UNCHANGED <<dualAdvVars, dualScanVars, dualFindVars, phone, sensor>>

DualNext ==
  \/ \E ok \in BOOLEAN :
       \/ PeriphBtReady(ok) \/ CentralRoleInit(ok)
       \/ SensorConnected(ok) \/ SensorFailed(ok) \/ SensorDisconnected(ok)
       \/ PhoneConnected(ok)
  \/ ScanConnecting \/ ScanConnectingError
  \/ PhoneDisconnected
  \/ DiscoveryCompleted \/ DiscoveryWithout
  \/ OnLedStateWrite \/ WriteLedStateCb

DualSpec == DualInit /\ [][DualNext]_dualVars

-----------------------------------------------------------------------------
(* Properties.                                                             *)

\* Once the discovery of the sensor's link has found the handle, writes are
\* sent to it, although the handles of earlier sensors and phones are kept;
\* from then on only a phone with the same service, discovered later, takes
\* its place.  Nothing is said of a sensor whose discovery failed, or was
\* refused for a phone's that was still running.
HandleOfSensor ==
  sensor = "up" /\ dm # "sensor" /\ ~noHandle
    => remoteHandle = IF phoneLater THEN "phone" ELSE "sensor"

\* Without a sensor the device scans, unless the last scan or connection
\* could not be started: scan_connecting_error() does not start another.
ScansWithoutSensor ==
  dualMain = "running" /\ ~defaultConn => scanOn \/ scanEnded
=============================================================================
