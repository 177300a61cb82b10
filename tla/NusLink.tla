------------------------------ MODULE NusLink ------------------------------
(***************************************************************************)
(* The Bluetooth side of the NUS bridge, peripheral_uart_beacon/src/main.c: *)
(* the link, the passkey of a pairing and the mode of advertising, with    *)
(* CONFIG_BT_NUS_SECURITY_ENABLED (its default).  There is one connection  *)
(* object (CONFIG_BT_MAX_CONN is 1): connectable advertising, a link and   *)
(* every reference held on a link occupy it.                               *)
(*                                                                         *)
(* button_changed() and disconnected() run on the system work queue, one   *)
(* after the other; connected() and auth_passkey_confirm() run on the      *)
(* receive thread of the stack, also while button_changed() waits in a     *)
(* call of the stack; main() is a thread of lower priority.                *)
(***************************************************************************)
EXTENDS Naturals

CONSTANT MaxRefs   \* bound: references held at the same time

ASSUME NusLinkAssumption == MaxRefs \in Nat /\ MaxRefs > 1

VARIABLES
  nusMain,   \* where main() is
  advMode,   \* what is advertised
  persist,   \* the stack goes on with connectable advertising after a link
  nusLink,   \* the link; "down" until disconnected() is called
  pairing,   \* the peer waits for the user's answer to a passkey
  currentConn, authConn,  \* current_conn, auth_conn: not NULL
  refs,      \* references the program holds on the connection object
  step,      \* where button_changed() is
  event,     \* the buttons of its event
  fault,     \* the stack was handed a NULL connection
  lost,      \* history: auth_conn was overwritten while it held a reference
  refused    \* history: the last start of advertising was refused

connVars == <<currentConn, authConn, refs, lost>>
advVars == <<advMode, persist, refused>>
nusLinkVars == <<nusMain, nusLink, pairing, step, event, fault, connVars, advVars>>

Button == {"nus", "beacon", "accept", "reject"}
Step == {"idle", "stopNus", "startNus", "stopBeacon", "startBeacon", "check",
         "accept", "accepted", "reject", "rejected"}

NusLinkTypeOK ==
  /\ nusMain \in {"boot", "enabled", "running", "returned"}
  /\ advMode \in {"off", "nus", "beacon"} /\ persist \in BOOLEAN
  /\ nusLink \in {"none", "up", "down"} /\ pairing \in BOOLEAN
  /\ currentConn \in BOOLEAN /\ authConn \in BOOLEAN /\ refs \in 0 .. MaxRefs
  /\ step \in Step /\ event \subseteq Button
  /\ fault \in BOOLEAN /\ lost \in BOOLEAN /\ refused \in BOOLEAN

NusLinkInit ==
  /\ nusMain = "boot"
  /\ advMode = "off" /\ persist = FALSE /\ refused = FALSE
  /\ nusLink = "none" /\ pairing = FALSE
  /\ currentConn = FALSE /\ authConn = FALSE /\ refs = 0 /\ lost = FALSE
  /\ step = "idle" /\ event = {} /\ fault = FALSE

-----------------------------------------------------------------------------
(* Advertising.                                                            *)

ObjectFree == nusLink = "none" /\ refs = 0

Starts(mode) ==
  /\ nusMain # "boot"
  /\ advMode = "off"
  /\ mode = "nus" => ObjectFree

AdvStart(mode) ==
  IF Starts(mode)
    THEN advMode' = mode /\ persist' = (mode = "nus") /\ refused' = FALSE
    ELSE refused' = TRUE /\ UNCHANGED <<advMode, persist>>

BtEnable ==
  /\ nusMain = "boot" /\ nusMain' = "enabled"
  /\ UNCHANGED <<advVars, nusLink, pairing, connVars, step, event, fault>>

\* main() returns when advertising does not start, also when it is on already.
MainAdvStart ==
  /\ nusMain = "enabled"
  /\ nusMain' = IF Starts("nus") THEN "running" ELSE "returned"
  /\ AdvStart("nus")
  /\ UNCHANGED <<nusLink, pairing, connVars, step, event, fault>>

-----------------------------------------------------------------------------
(* The link and its pairing.                                               *)

NusConnected ==
  /\ advMode = "nus" /\ advMode' = "off"
  /\ nusLink' = "up"
  /\ currentConn' = TRUE /\ refs' = refs + 1
  /\ UNCHANGED <<nusMain, persist, refused, pairing, authConn, lost, step,
                 event, fault>>

AuthPasskeyConfirm ==
  /\ nusLink = "up" /\ ~pairing
  /\ refs < MaxRefs
  /\ pairing' = TRUE
  /\ authConn' = TRUE /\ refs' = refs + 1
  /\ lost' = (lost \/ authConn)
  /\ UNCHANGED <<nusMain, advVars, nusLink, currentConn, step, event, fault>>

\* auth_cancel() and pairing_failed() only log.
PairingEnds ==
  /\ pairing /\ pairing' = FALSE
  /\ UNCHANGED <<nusMain, advVars, nusLink, connVars, step, event, fault>>

LinkLost ==
  /\ nusLink = "up" /\ nusLink' = "down"
  /\ pairing' = FALSE
  /\ UNCHANGED <<nusMain, advVars, connVars, step, event, fault>>

Held(pointer) == IF pointer THEN 1 ELSE 0

KeepAuth ==                                        \* a mutant of ReleaseBoth
  /\ refs' = refs - Held(currentConn)
  /\ currentConn' = FALSE
  /\ UNCHANGED authConn

ReleaseBoth ==
  /\ refs' = refs - Held(authConn) - Held(currentConn)
  /\ authConn' = FALSE /\ currentConn' = FALSE

\* Neither handler starts advertising: the stack does, once the object is free.
NusDisconnected ==
  /\ nusLink = "down" /\ nusLink' = "none"
  /\ step = "idle"
  /\ ReleaseBoth
  /\ advMode' = IF persist /\ refs' = 0 THEN "nus" ELSE advMode
  /\ UNCHANGED <<nusMain, persist, refused, pairing, step, event, fault, lost>>

-----------------------------------------------------------------------------
(* button_changed()                                                        *)

At(from, to) == step = from /\ step' = to

AfterNus == IF "beacon" \in event THEN "stopBeacon" ELSE "check"
AfterAccept == IF "reject" \in event THEN "reject" ELSE "idle"
AfterCheck == IF "accept" \in event THEN "accept" ELSE AfterAccept

ButtonChanged(buttons) ==
  /\ At("idle", IF "nus" \in buttons THEN "stopNus"
                ELSE IF "beacon" \in buttons THEN "stopBeacon" ELSE "check")
  /\ event' = buttons
  /\ UNCHANGED <<nusMain, advVars, nusLink, pairing, connVars, fault>>

AdvStop ==
  /\ \/ At("stopNus", "startNus")
     \/ At("stopBeacon", "startBeacon")
  /\ advMode' = "off" /\ persist' = FALSE
  /\ UNCHANGED <<nusMain, refused, nusLink, pairing, connVars, event, fault>>

\* The handler returns when advertising does not start.
SwitchMode ==
  /\ \/ /\ At("startNus", IF Starts("nus") THEN AfterNus ELSE "idle")
        /\ AdvStart("nus")
     \/ /\ At("startBeacon", IF Starts("beacon") THEN "check" ELSE "idle")
        /\ AdvStart("beacon")
  /\ UNCHANGED <<nusMain, nusLink, pairing, connVars, event, fault>>

Unchecked ==                                            \* a mutant of CheckAuth
  /\ At("check", AfterCheck)
  /\ UNCHANGED <<nusMain, advVars, nusLink, pairing, connVars, event, fault>>

CheckAuth ==
  /\ At("check", IF authConn THEN AfterCheck ELSE "idle")
  /\ UNCHANGED <<nusMain, advVars, nusLink, pairing, connVars, event, fault>>

\* num_comp_reply() hands auth_conn to the stack ...
NumCompReply ==
  /\ At("accept", "accepted") \/ At("reject", "rejected")
  /\ fault' = ~authConn
  /\ pairing' = FALSE
  /\ UNCHANGED <<nusMain, advVars, nusLink, connVars, event>>

\* ... and releases what auth_conn holds by then.
ReplyRelease ==
  /\ At("accepted", AfterAccept) \/ At("rejected", "idle")
  /\ authConn' = FALSE /\ refs' = refs - Held(authConn)
  /\ UNCHANGED <<nusMain, advVars, nusLink, pairing, currentConn, lost, event, fault>>

NusLinkNext ==
  /\ ~fault
  /\ \/ BtEnable \/ MainAdvStart
     \/ NusConnected \/ AuthPasskeyConfirm \/ PairingEnds
     \/ LinkLost \/ NusDisconnected
     \/ \E buttons \in SUBSET Button : ButtonChanged(buttons)
     \/ AdvStop \/ SwitchMode \/ CheckAuth \/ NumCompReply \/ ReplyRelease

NusLinkSpec == NusLinkInit /\ [][NusLinkNext]_nusLinkVars

-----------------------------------------------------------------------------
(* Properties.                                                             *)

\* A NULL connection is handed to the stack only in an event with both
\* passkey buttons (lines 591 to 598: one check for two replies).
NullOnlyOnBoth == fault => {"accept", "reject"} \subseteq event

\* Without a link the bridge advertises, as one mode or the other, although
\* no handler of a link starts advertising again.  The exceptions: a passkey
\* was requested while auth_conn still held a reference, so that the object
\* is never free again; or the last start was refused, as it is for a mode
\* button pressed during a link, after the stop has ended persistence.
OffOnlyAfterRefusal ==
  nusLink = "none" /\ nusMain \in {"running", "returned"} /\ step = "idle"
    => advMode # "off" \/ lost \/ refused
=============================================================================
