--------------------------- MODULE SimpleService ---------------------------
(***************************************************************************)
(* The two programs of simple_service/ on a Bluetooth link.  SimpleCentral *)
(* and SimplePeripheral hold their handlers; this module is what the two   *)
(* Bluetooth stacks, the radio and the buttons do, and which handler runs  *)
(* then.                                                                   *)
(*                                                                         *)
(* Each stack reports events to its program in the order in which it       *)
(* learns of them, but the two do not learn of them together: a link can   *)
(* be over for one side and not yet for the other.                         *)
(***************************************************************************)
EXTENDS SimpleCentral

VARIABLES
  currentConn, authConn, pRefs, notifyEnabled, buttonValue, led,
  cLink, pLink,    \* what each program was told of the link
  cAlive, pAlive,  \* what each stack knows of it
  enc,             \* the security procedure of the link
  asked,           \* the peripheral's user was asked for the passkey
  cNews, pNews,    \* outcome of the procedure that a stack has to report
  cBond, pBond,    \* the keys of the other side are stored
  cccStored,       \* the peripheral stored that the bonded central subscribed
  createFailed     \* history: the stack refused to create a connection once

Peripheral == INSTANCE SimplePeripheral

peripheralVars == <<currentConn, authConn, pRefs, notifyEnabled, buttonValue,
                    led>>
aliveVars == <<cLink, pLink, cAlive, pAlive>>
securityVars == <<enc, asked, cNews, pNews, cBond, pBond>>
storeVars == <<cccStored, createFailed>>
serviceVars == <<centralVars, peripheralVars, aliveVars, securityVars,
                 storeVars>>

LinkTypeOK ==
  /\ cLink \in {"idle", "creating", "new", "up"}
  /\ pLink \in {"idle", "new", "up"}
  /\ cAlive \in BOOLEAN /\ pAlive \in BOOLEAN
  /\ enc \in {"off", "starting", "on"}
  /\ asked \in BOOLEAN
  /\ cNews \in {"none", "ok", "failed"} /\ pNews \in {"none", "ok", "failed"}
  /\ cBond \in BOOLEAN /\ pBond \in BOOLEAN
  /\ cccStored \in BOOLEAN /\ createFailed \in BOOLEAN

TypeOK ==
  /\ CentralTypeOK
  /\ Peripheral!PeripheralTypeOK
  /\ LinkTypeOK

ServiceInit ==
  /\ Init
  /\ Peripheral!Init
  /\ cLink = "idle" /\ pLink = "idle"
  /\ cAlive = FALSE /\ pAlive = FALSE
  /\ enc = "off" /\ asked = FALSE
  /\ cNews = "none" /\ pNews = "none"
  /\ cBond = FALSE /\ pBond = FALSE
  /\ cccStored = FALSE /\ createFailed = FALSE

-----------------------------------------------------------------------------

\* The advertiser resumes by itself once the connection object is free.
Advertising == pLink = "idle" /\ pRefs = 0

Flowing == cAlive /\ pAlive
BothUp == Flowing /\ cLink = "up" /\ pLink = "up"

\* What each stack takes the security of the link for.
CSecured == enc = "on" /\ cNews = "none"
PSecured == enc = "on" /\ pNews = "none"

-----------------------------------------------------------------------------
(* The link.                                                               *)

Create ==
  /\ scanning /\ cLink = "idle" /\ Advertising
  /\ cRefs = 0
  /\ cLink' = "creating"
  /\ ScanConnecting
  /\ UNCHANGED <<peripheralVars, pLink, cAlive, pAlive, securityVars, storeVars>>

CreateFails ==
  /\ scanning /\ cLink = "idle" /\ Advertising
  /\ createFailed' = TRUE
  /\ ScanConnectingError
  /\ UNCHANGED <<peripheralVars, aliveVars, securityVars, cccStored>>

\* The connection attempt times out.
CreateExpires ==
  /\ cLink = "creating"
  /\ cLink' = "idle"
  /\ ConnectedError
  /\ UNCHANGED <<peripheralVars, pLink, cAlive, pAlive, securityVars, storeVars>>

Connect ==
  /\ cLink = "creating" /\ Advertising
  /\ cLink' = "new" /\ pLink' = "new"
  /\ cAlive' = TRUE /\ pAlive' = TRUE
  /\ enc' = "off" /\ asked' = FALSE
  /\ cNews' = "none" /\ pNews' = "none"
  /\ UNCHANGED <<centralVars, peripheralVars, cBond, pBond, storeVars>>

CConnected(secErr) ==
  /\ cLink = "new"
  /\ ~cAlive => secErr
  /\ cLink' = "up"
  /\ Connected(secErr, cAlive)
  /\ enc' = IF ~secErr /\ enc = "off" THEN "starting" ELSE enc
  /\ UNCHANGED <<peripheralVars, pLink, cAlive, pAlive, asked, cNews, pNews,
                 cBond, pBond, storeVars>>

PConnected ==
  /\ pLink = "new"
  /\ pLink' = "up"
  /\ Peripheral!Connected
  /\ UNCHANGED <<centralVars, cLink, cAlive, pAlive, securityVars, storeVars>>

\* A stack learns that the link is lost: it was, or the other side left.
CLost ==
  /\ cAlive
  /\ cAlive' = FALSE
  /\ UNCHANGED <<centralVars, peripheralVars, cLink, pLink, pAlive,
                 securityVars, storeVars>>

PLost ==
  /\ pAlive
  /\ pAlive' = FALSE
  /\ UNCHANGED <<centralVars, peripheralVars, cLink, pLink, cAlive,
                 securityVars, storeVars>>

CDisconnected ==
  /\ cLink = "up" /\ ~cAlive
  /\ cLink' = "idle"
  /\ cNews' = "none"
  /\ Disconnected
  /\ UNCHANGED <<peripheralVars, pLink, cAlive, pAlive, enc, asked, pNews,
                 cBond, pBond, storeVars>>

PDisconnected ==
  /\ pLink = "up" /\ ~pAlive
  /\ pLink' = "idle"
  /\ pNews' = "none"
  /\ Peripheral!Disconnected
  /\ UNCHANGED <<centralVars, cLink, cAlive, pAlive, enc, asked, cNews,
                 cBond, pBond, storeVars>>

-----------------------------------------------------------------------------
(* Security.  A central that has keys encrypts with them, else it pairs:   *)
(* both programs answer with the same fixed passkey.                       *)

PasskeyEntry ==
  /\ Flowing /\ pLink = "up" /\ pNews = "none"
  /\ enc = "starting" /\ ~cBond /\ ~asked
  /\ asked' = TRUE
  /\ Peripheral!AuthPasskeyEntry
  /\ UNCHANGED <<centralVars, aliveVars, enc, cNews, pNews, cBond, pBond,
                 storeVars>>

Encrypted ==
  /\ Flowing /\ pLink = "up"
  /\ enc = "starting"
  /\ IF cBond THEN pBond ELSE asked
  /\ enc' = "on"
  /\ cNews' = "ok" /\ pNews' = "ok"
  /\ UNCHANGED <<centralVars, peripheralVars, aliveVars, asked, cBond, pBond,
                 storeVars>>

\* A pairing that fails is reported to both sides, missing keys to the
\* central alone.
EncryptionFails ==
  /\ Flowing /\ pLink = "up"
  /\ enc = "starting"
  /\ cBond => ~pBond
  /\ enc' = "off"
  /\ asked' = FALSE
  /\ cNews' = "failed"
  /\ pNews' = IF cBond THEN pNews ELSE "failed"
  /\ UNCHANGED <<centralVars, peripheralVars, aliveVars, cBond, pBond,
                 storeVars>>

CSecurityChanged ==
  /\ cLink = "up" /\ cNews # "none"
  /\ cNews' = "none"
  /\ cBond' = (cBond \/ cNews = "ok")
  /\ SecurityChanged(cNews = "failed", cAlive)
  /\ UNCHANGED <<peripheralVars, aliveVars, enc, asked, pNews, pBond, storeVars>>

\* The stack of the peripheral restores the subscription of a bonded peer.
PSecurityChanged ==
  /\ pLink = "up" /\ pNews = "ok"
  /\ pNews' = "none"
  /\ pBond' = TRUE
  /\ IF pBond /\ cccStored THEN Peripheral!CfgChanged(TRUE)
                           ELSE UNCHANGED notifyEnabled
  /\ UNCHANGED <<centralVars, currentConn, authConn, pRefs, buttonValue, led,
                 aliveVars, enc, asked, cNews, cBond, storeVars>>

PPairingFailed ==
  /\ pLink = "up" /\ pNews = "failed"
  /\ pNews' = "none"
  /\ pAlive' = Peripheral!AliveAfterPairingFailed
  /\ UNCHANGED <<centralVars, peripheralVars, cLink, pLink, cAlive, enc, asked,
                 cNews, cBond, pBond, storeVars>>

-----------------------------------------------------------------------------
(* Requests of the central.  A request that comes before the link is       *)
(* secured is refused; the stack of the central then secures the link and  *)
(* sends it again, unless it took the link for secured already.            *)

Arrives == Flowing /\ pLink = "up"
Refused == ~Peripheral!Permitted(PSecured) /\ ~CSecured

\* Requests are answered in order: a discovery started while the CCC is
\* being written ends after that.
DiscoveryEnds ==
  /\ dm = "running" /\ cLink = "up"
  /\ sub \notin Waiting
  /\ DiscoveryCompleted(cAlive)
  /\ UNCHANGED <<peripheralVars, aliveVars, securityVars, storeVars>>

CccWritten ==
  /\ sub = "writing" /\ Arrives
  /\ Peripheral!Permitted(PSecured)
  /\ sub' = "on"
  /\ Peripheral!CfgChanged(TRUE)
  /\ cccStored' = TRUE
  /\ UNCHANGED <<linkVars, dm, conn, notif, writeVars, cLed, currentConn,
                 authConn, pRefs, buttonValue, led, aliveVars, securityVars,
                 createFailed>>

CccRefused ==
  /\ sub = "writing" /\ Arrives /\ Refused
  /\ sub' = "rejected"
  /\ UNCHANGED <<linkVars, dm, conn, notif, writeVars, cLed, peripheralVars,
                 aliveVars, securityVars, storeVars>>

LedWritten ==
  /\ write = "writing" /\ Arrives
  /\ Peripheral!Permitted(PSecured)
  /\ Peripheral!OnWrite(data)
  /\ OnSent
  /\ UNCHANGED <<linkVars, dm, conn, subVars, cLed, aliveVars, securityVars,
                 storeVars>>

LedRefused ==
  /\ write = "writing" /\ Arrives /\ Refused
  /\ write' = "rejected"
  /\ UNCHANGED <<linkVars, dm, conn, subVars, pending, data, cLed, peripheralVars,
                 aliveVars, securityVars, storeVars>>

Elevate ==
  enc' = IF enc = "off" /\ cNews = "none" THEN "starting" ELSE enc

\* The answer to a refused request reaches the central.
CccError ==
  /\ sub = "rejected" /\ cAlive /\ cLink = "up"
  /\ IF CSecured
       THEN Unsubscribed /\ UNCHANGED enc
       ELSE sub' = "retry" /\ UNCHANGED notif /\ Elevate
  /\ UNCHANGED <<linkVars, dm, conn, writeVars, cLed, peripheralVars, aliveVars,
                 asked, cNews, pNews, cBond, pBond, storeVars>>

LedError ==
  /\ write = "rejected" /\ cAlive
  /\ IF CSecured
       THEN OnSent /\ UNCHANGED enc
       ELSE /\ write' = "retry"
            /\ UNCHANGED <<pending, data>>
            /\ Elevate
  /\ UNCHANGED <<linkVars, dm, conn, subVars, cLed, peripheralVars, aliveVars,
                 asked, cNews, pNews, cBond, pBond, storeVars>>

-----------------------------------------------------------------------------
(* The buttons.                                                            *)

CButton(value) ==
  /\ SetLed(value, cAlive)
  /\ UNCHANGED <<peripheralVars, aliveVars, securityVars, storeVars>>

\* A notification reaches the handler of the subscription, if there is one.
PButton(value) ==
  /\ Peripheral!ButtonHandler(value)
  /\ IF Peripheral!Notifies /\ Flowing /\ sub # "none"
       THEN OnReceived(value)
       ELSE UNCHANGED centralVars
  /\ UNCHANGED <<aliveVars, securityVars, storeVars>>

-----------------------------------------------------------------------------

CNext ==
  \/ Create \/ CreateFails \/ CreateExpires
  \/ \E secErr \in BOOLEAN : CConnected(secErr)
  \/ CLost \/ CDisconnected
  \/ CSecurityChanged
  \/ DiscoveryEnds \/ CccError \/ LedError
  \/ \E value \in Value : CButton(value)

PNext ==
  \/ PConnected \/ PLost \/ PDisconnected
  \/ PasskeyEntry \/ PSecurityChanged \/ PPairingFailed
  \/ CccWritten \/ CccRefused \/ LedWritten \/ LedRefused
  \/ \E value \in Value : PButton(value)

Next ==
  \/ Connect \/ Encrypted \/ EncryptionFails
  \/ CNext
  \/ PNext

Spec == ServiceInit /\ [][Next]_serviceVars

(***************************************************************************)
(* Both stacks go on: they report what they know, answer requests, bring   *)
(* the security procedure to an end and notice that the other side left.   *)
(* Nothing is assumed of the buttons, nor that links are made or kept.     *)
(***************************************************************************)
Fairness ==
  /\ WF_serviceVars(\E secErr \in BOOLEAN : CConnected(secErr))
  /\ WF_serviceVars(PConnected)
  /\ WF_serviceVars(CLost /\ (~pAlive \/ pLink = "idle"))
  /\ WF_serviceVars(PLost /\ (~cAlive \/ cLink \in {"idle", "creating"}))
  /\ WF_serviceVars(CDisconnected) /\ WF_serviceVars(PDisconnected)
  /\ WF_serviceVars(PasskeyEntry)
  /\ WF_serviceVars(Encrypted \/ EncryptionFails)
  /\ WF_serviceVars(CSecurityChanged)
  /\ WF_serviceVars(PSecurityChanged) /\ WF_serviceVars(PPairingFailed)
  /\ WF_serviceVars(DiscoveryEnds)
  /\ WF_serviceVars(CccWritten \/ CccRefused) /\ WF_serviceVars(CccError)
  /\ WF_serviceVars(LedWritten \/ LedRefused) /\ WF_serviceVars(LedError)

FairSpec == Spec /\ Fairness

-----------------------------------------------------------------------------
(* Properties *)

\* The flags of the client say what the stack does with its parameters: it
\* never takes itself for subscribed, or busy writing, for ever, and never
\* hands parameters to the stack that the stack is still using.
FlagsMatchStack ==
  /\ notif <=> sub # "none"
  /\ pending <=> write # "none"

\* Each side counts its references right, and holds none once it was told
\* that its link is over: the only connection object is free again.
ReferencesReleased ==
  /\ cRefs = (IF defaultConn = CONN THEN 1 ELSE 0)
  /\ pRefs = (IF currentConn THEN 1 ELSE 0) + (IF authConn THEN 1 ELSE 0)
  /\ cLink = "idle" => cRefs = 0
  /\ pLink = "idle" => pRefs = 0

\* While the link is up on both sides, a central whose subscription was
\* accepted has a peripheral that sends notifications.
SubscriptionAgrees ==
  BothUp /\ sub = "on" => notif /\ notifyEnabled

\* A central without a link looks for one, unless creating a connection
\* was refused: scan_connecting_error() does not scan again.
StillLooking ==
  cLink = "idle" => scanning \/ createFailed

\* The LED is switched, and notifications are enabled, only when the
\* peripheral has the link secured.
OnlySecured ==
  [][led' # led \/ (notifyEnabled' /\ ~notifyEnabled) => PSecured']_serviceVars

\* A link that stays up ends in a subscription, in whatever order security,
\* discovery and refusals come, unless only the central has kept the keys.
EventuallySubscribed ==
  <>[]BothUp => <>[]( \/ sub = "on" /\ notif /\ notifyEnabled
                      \/ cBond /\ ~pBond )
=============================================================================
