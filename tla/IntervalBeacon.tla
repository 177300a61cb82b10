--------------------------- MODULE IntervalBeacon ---------------------------
(***************************************************************************)
(* interval_beacon/src/main.c: one delayable work item starts advertising  *)
(* and schedules the other one, which stops it and schedules the first.    *)
(* A call of the Bluetooth stack that fails ends the cycle.                *)
(***************************************************************************)

VARIABLES
  beaconOn,   \* the stack advertises
  scheduled,  \* the work items that are scheduled: "start", "stop"
  enabled,    \* bt_enable() is done: "no", "yes" or "failed"
  ended       \* history: a start or a stop failed

beaconVars == <<beaconOn, scheduled, enabled, ended>>

BeaconTypeOK ==
  /\ beaconOn \in BOOLEAN /\ scheduled \subseteq {"start", "stop"}
  /\ enabled \in {"no", "yes", "failed"} /\ ended \in BOOLEAN

BeaconInit ==
  beaconOn = FALSE /\ scheduled = {} /\ enabled = "no" /\ ended = FALSE

\* bt_ready()
BtReady ==
  /\ enabled = "no"
  /\ \/ enabled' = "yes" /\ scheduled' = {"start"}
     \/ enabled' = "failed" /\ UNCHANGED scheduled
  /\ UNCHANGED <<beaconOn, ended>>

\* k_work_reschedule() of the other item, when the call of the stack was taken.
Reschedule(item, other, done) ==
  /\ scheduled' = (scheduled \ {item}) \cup (IF done THEN {other} ELSE {})
  /\ ended' = (ended \/ ~done)
  /\ UNCHANGED enabled

\* The stack refuses to start what is on already.
StartAdvHandler(ok) ==
  /\ "start" \in scheduled
  /\ LET done == ok /\ ~beaconOn IN
     beaconOn' = (beaconOn \/ done) /\ Reschedule("start", "stop", done)

StartsOnce(ok) ==                               \* a mutant of StopAdvHandler
  /\ "stop" \in scheduled
  /\ beaconOn' = (beaconOn /\ ~ok)
  /\ scheduled' = scheduled \ {"stop"} /\ ended' = (ended \/ ~ok)
  /\ UNCHANGED enabled

StopAdvHandler(ok) ==
  /\ "stop" \in scheduled
  /\ beaconOn' = (beaconOn /\ ~ok) /\ Reschedule("stop", "start", ok)

BeaconWork == \E ok \in BOOLEAN : StartAdvHandler(ok) \/ StopAdvHandler(ok)

BeaconNext == BtReady \/ BeaconWork

BeaconSpec == BeaconInit /\ [][BeaconNext]_beaconVars /\ WF_beaconVars(BeaconWork)

\* The beacon goes on and off for ever, unless a start or a stop fails: the
\* only place where an item is scheduled is the end of the other's handler.
BeaconGoesOn ==
  /\ enabled = "yes" ~> beaconOn \/ ended
  /\ beaconOn ~> ~beaconOn \/ ended
=============================================================================
