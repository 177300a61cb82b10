------------------------ MODULE SimpleServiceProofs ------------------------
(***************************************************************************)
(* Theorems about SimpleService.  The safety properties follow from one    *)
(* inductive invariant, in parts:                                          *)
(*   - the central holds a reference exactly while it is not idle;         *)
(*   - the peripheral holds one from connected() on, and a second one only *)
(*     when this link has been through a passkey entry that cannot come    *)
(*     again: the pairing succeeded, runs, or failed and ends the link;    *)
(*   - good news of the security procedure is true;                        *)
(*   - a subscription belongs to a link, and lasts as long on both sides.  *)
(***************************************************************************)
EXTENDS SimpleService, TLAPS

CentralHolds ==
  /\ cRefs = (IF defaultConn = CONN THEN 1 ELSE 0)
  /\ cLink # "idle" <=> defaultConn = CONN

PeripheralHolds ==
  /\ pRefs = (IF currentConn THEN 1 ELSE 0) + (IF authConn THEN 1 ELSE 0)
  /\ pLink = "up" <=> currentConn
  /\ authConn => /\ pLink = "up"
                 /\ \/ enc = "on" \/ (asked /\ ~cBond)
                    \/ pNews = "failed" \/ ~pAlive

NewsIsTrue ==
  /\ cNews = "ok" => enc = "on"
  /\ pNews = "ok" => enc = "on"

SubscriptionOfLink ==
  /\ cLink # "up" => sub = "none"
  /\ sub = "on" /\ pAlive => notifyEnabled

Inv ==
  /\ TypeOK
  /\ CentralHolds /\ PeripheralHolds /\ NewsIsTrue
  /\ FlagsMatchStack /\ SubscriptionOfLink /\ StillLooking
-----------------------------------------------------------------------------
\* Every step keeps the types, and the counts within their bounds.
LEMMA TypeStep ==
  ASSUME TypeOK, CentralHolds, PeripheralHolds, [Next]_serviceVars
  PROVE  TypeOK'
<1> USE DEF TypeOK, centralVars, linkVars, subVars, writeVars, peripheralVars,
   aliveVars, securityVars, storeVars
<1>1. ASSUME Connect PROVE TypeOK'
  <2>1. CentralTypeOK'
    BY <1>1 DEF CentralTypeOK, Connect
  <2>2. Peripheral!PeripheralTypeOK'
    BY <1>1 DEF Peripheral!PeripheralTypeOK, Connect
  <2>3. LinkTypeOK'
    BY <1>1 DEF LinkTypeOK, Connect
  <2> QED
    BY <2>1, <2>2, <2>3
<1>2. ASSUME Encrypted PROVE TypeOK'
  <2>1. CentralTypeOK'
    BY <1>2 DEF CentralTypeOK, Encrypted
  <2>2. Peripheral!PeripheralTypeOK'
    BY <1>2 DEF Peripheral!PeripheralTypeOK, Encrypted
  <2>3. LinkTypeOK'
    BY <1>2 DEF LinkTypeOK, Encrypted
  <2> QED
    BY <2>1, <2>2, <2>3
<1>3. ASSUME EncryptionFails PROVE TypeOK'
  <2>1. CentralTypeOK'
    BY <1>3 DEF CentralTypeOK, EncryptionFails
  <2>2. Peripheral!PeripheralTypeOK'
    BY <1>3 DEF Peripheral!PeripheralTypeOK, EncryptionFails
  <2>3. LinkTypeOK'
    BY <1>3 DEF LinkTypeOK, EncryptionFails
  <2> QED
    BY <2>1, <2>2, <2>3
<1>4. ASSUME Create PROVE TypeOK'
  <2>1. CentralTypeOK'
    <3>1. cRefs' = 1 /\ defaultConn' = CONN /\ scanning' = FALSE
      BY <1>4 DEF Create, ScanConnecting
    <3>2. UNCHANGED <<dm, conn, subVars, writeVars, cLed>>
      BY <1>4 DEF Create, ScanConnecting
    <3>3. /\ cRefs' \in 0 .. 1 /\ defaultConn' \in {CONN, NULL}
          /\ scanning' \in BOOLEAN
      <4>1. cRefs' \in 0 .. 1
        BY <3>1
      <4>2. defaultConn' \in {CONN, NULL} /\ scanning' \in BOOLEAN
        BY Zenon, <3>1
      <4> QED
        BY <4>1, <4>2
    <3> QED
      BY <3>2, <3>3 DEF TypeOK, CentralTypeOK, subVars, writeVars
  <2>2. Peripheral!PeripheralTypeOK'
    BY <1>4 DEF Peripheral!PeripheralTypeOK, Create
  <2>3. LinkTypeOK'
    BY <1>4 DEF LinkTypeOK, Create
  <2> QED
    BY <2>1, <2>2, <2>3
<1>5. ASSUME CreateFails PROVE TypeOK'
  <2>1. CentralTypeOK'
    BY <1>5 DEF CentralTypeOK, Waiting, CreateFails, ScanConnectingError
  <2>2. Peripheral!PeripheralTypeOK'
    BY <1>5 DEF Peripheral!PeripheralTypeOK, CreateFails
  <2>3. LinkTypeOK'
    BY <1>5 DEF LinkTypeOK, CreateFails
  <2> QED
    BY <2>1, <2>2, <2>3
<1>6. ASSUME CreateExpires PROVE TypeOK'
  <2>1. CentralTypeOK'
    BY <1>6, CentralAssumption DEF CentralTypeOK, Waiting, CentralHolds,
       CreateExpires, ConnectedError, ReleaseAndScan
  <2>2. Peripheral!PeripheralTypeOK'
    BY <1>6 DEF Peripheral!PeripheralTypeOK, CreateExpires
  <2>3. LinkTypeOK'
    BY <1>6 DEF LinkTypeOK, CreateExpires
  <2> QED
    BY <2>1, <2>2, <2>3
<1>7. ASSUME NEW secErr \in BOOLEAN, CConnected(secErr) PROVE TypeOK'
  <2>1. CentralTypeOK'
    BY <1>7 DEF CentralTypeOK, Waiting, CConnected, Connected, GattDiscover
  <2>2. Peripheral!PeripheralTypeOK'
    BY <1>7 DEF Peripheral!PeripheralTypeOK, CConnected
  <2>3. LinkTypeOK'
    BY <1>7 DEF LinkTypeOK, CConnected
  <2> QED
    BY <2>1, <2>2, <2>3
<1>8. ASSUME CLost PROVE TypeOK'
  <2>1. CentralTypeOK'
    BY <1>8 DEF CentralTypeOK, CLost
  <2>2. Peripheral!PeripheralTypeOK'
    BY <1>8 DEF Peripheral!PeripheralTypeOK, CLost
  <2>3. LinkTypeOK'
    <3>1. cAlive' \in BOOLEAN
      BY <1>8 DEF CLost
    <3>2. UNCHANGED <<cLink, pLink, pAlive, enc, asked, cNews, pNews, cBond, pBond,
                      cccStored, createFailed>>
      BY <1>8 DEF CLost, securityVars, storeVars
    <3> QED
      BY <3>1, <3>2 DEF TypeOK, LinkTypeOK
  <2> QED
    BY <2>1, <2>2, <2>3
<1>9. ASSUME CDisconnected PROVE TypeOK'
  <2>1. CentralTypeOK'
    <3>1. UNCHANGED writeVars \/ OnSent
      BY <1>9 DEF CDisconnected, Disconnected
    <3>2. pending' \in BOOLEAN /\ write' \in {"none"} \cup Waiting /\ data' \in Value
      BY <3>1, CentralAssumption DEF TypeOK, CentralTypeOK, writeVars, OnSent
    <3>3. notif' \in BOOLEAN /\ sub' \in {"none", "on"} \cup Waiting
      BY <1>9 DEF TypeOK, CentralTypeOK, CDisconnected, Disconnected,
         Unsubscribed, subVars
    <3>4. /\ defaultConn' \in {CONN, NULL} /\ cRefs' \in 0 .. 1
          /\ scanning' \in BOOLEAN
      BY <1>9, CentralAssumption DEF TypeOK, CentralTypeOK, CentralHolds,
         CDisconnected, Disconnected, ReleaseAndScan, linkVars
    <3>5. dm' \in {"free", "running", "held"} /\ UNCHANGED <<conn, cLed>>
      BY <1>9 DEF TypeOK, CentralTypeOK, CDisconnected, Disconnected
    <3> QED
      BY <3>2, <3>3, <3>4, <3>5 DEF TypeOK, CentralTypeOK
  <2>2. Peripheral!PeripheralTypeOK'
    BY <1>9 DEF Peripheral!PeripheralTypeOK, CDisconnected
  <2>3. LinkTypeOK'
    BY <1>9 DEF LinkTypeOK, CDisconnected
  <2> QED
    BY <2>1, <2>2, <2>3
<1>10. ASSUME CSecurityChanged PROVE TypeOK'
  <2>1. CentralTypeOK'
    BY <1>10, CentralAssumption DEF CentralTypeOK, Waiting, CSecurityChanged,
       SecurityChanged, OnSent, Unsubscribed, Resend, GattDiscover
  <2>2. Peripheral!PeripheralTypeOK'
    BY <1>10 DEF Peripheral!PeripheralTypeOK, CSecurityChanged
  <2>3. LinkTypeOK'
    BY <1>10 DEF LinkTypeOK, CSecurityChanged
  <2> QED
    BY <2>1, <2>2, <2>3
<1>11. ASSUME DiscoveryEnds PROVE TypeOK'
  <2>1. CentralTypeOK'
    <3>1. conn' = CONN /\ dm' = "free" /\ UNCHANGED <<linkVars, writeVars, cLed>>
      BY <1>11 DEF DiscoveryEnds, DiscoveryCompleted, HandlesAssign
    <3>2. notif' \in BOOLEAN /\ sub' \in {"none", "on"} \cup Waiting
      BY <1>11 DEF TypeOK, CentralTypeOK, LinkTypeOK, DiscoveryEnds,
         DiscoveryCompleted, Subscribe, subVars, Waiting
    <3> QED
      BY <3>1, <3>2 DEF TypeOK, CentralTypeOK, linkVars, writeVars
  <2>2. Peripheral!PeripheralTypeOK'
    BY <1>11 DEF Peripheral!PeripheralTypeOK, DiscoveryEnds
  <2>3. LinkTypeOK'
    BY <1>11 DEF LinkTypeOK, DiscoveryEnds
  <2> QED
    BY <2>1, <2>2, <2>3
<1>12. ASSUME CccError PROVE TypeOK'
  <2>1. CentralTypeOK'
    BY <1>12 DEF CentralTypeOK, Waiting, CccError, Unsubscribed, Elevate
  <2>2. Peripheral!PeripheralTypeOK'
    BY <1>12 DEF Peripheral!PeripheralTypeOK, CccError
  <2>3. LinkTypeOK'
    BY <1>12 DEF LinkTypeOK, CccError, Elevate
  <2> QED
    BY <2>1, <2>2, <2>3
<1>13. ASSUME LedError PROVE TypeOK'
  <2>1. CentralTypeOK'
    BY <1>13, CentralAssumption DEF CentralTypeOK, Waiting, LedError, OnSent,
       Elevate
  <2>2. Peripheral!PeripheralTypeOK'
    BY <1>13 DEF Peripheral!PeripheralTypeOK, LedError
  <2>3. LinkTypeOK'
    BY <1>13 DEF LinkTypeOK, LedError, Elevate
  <2> QED
    BY <2>1, <2>2, <2>3
<1>14. ASSUME NEW value \in Value, CButton(value) PROVE TypeOK'
  <2>1. CentralTypeOK'
    <3>1. pending' \in BOOLEAN /\ write' \in {"none"} \cup Waiting /\ data' \in Value
      BY <1>14 DEF TypeOK, CentralTypeOK, LinkTypeOK, CButton, SetLed, Waiting
    <3>2. UNCHANGED <<linkVars, dm, conn, subVars, cLed>>
      BY <1>14 DEF CButton, SetLed
    <3> QED
      BY <3>1, <3>2 DEF TypeOK, CentralTypeOK, linkVars, subVars
  <2>2. Peripheral!PeripheralTypeOK'
    BY <1>14 DEF Peripheral!PeripheralTypeOK, CButton
  <2>3. LinkTypeOK'
    BY <1>14 DEF LinkTypeOK, CButton
  <2> QED
    BY <2>1, <2>2, <2>3
<1>15. ASSUME PConnected PROVE TypeOK'
  <2>1. CentralTypeOK'
    BY <1>15 DEF CentralTypeOK, PConnected
  <2>2. Peripheral!PeripheralTypeOK'
    BY <1>15 DEF Peripheral!PeripheralTypeOK, PeripheralHolds, PConnected,
       Peripheral!Connected
  <2>3. LinkTypeOK'
    BY <1>15 DEF LinkTypeOK, PConnected
  <2> QED
    BY <2>1, <2>2, <2>3
<1>16. ASSUME PLost PROVE TypeOK'
  <2>1. CentralTypeOK'
    BY <1>16 DEF CentralTypeOK, PLost
  <2>2. Peripheral!PeripheralTypeOK'
    BY <1>16 DEF Peripheral!PeripheralTypeOK, PLost
  <2>3. LinkTypeOK'
    <3>1. pAlive' \in BOOLEAN
      BY <1>16 DEF PLost
    <3>2. UNCHANGED <<cLink, pLink, cAlive, enc, asked, cNews, pNews, cBond, pBond,
                      cccStored, createFailed>>
      BY <1>16 DEF PLost, securityVars, storeVars
    <3> QED
      BY <3>1, <3>2 DEF TypeOK, LinkTypeOK
  <2> QED
    BY <2>1, <2>2, <2>3
<1>17. ASSUME PDisconnected PROVE TypeOK'
  <2>1. CentralTypeOK'
    BY <1>17 DEF CentralTypeOK, PDisconnected
  <2>2. Peripheral!PeripheralTypeOK'
    <3>1. pRefs' = 0 /\ authConn' = FALSE /\ currentConn' = FALSE
      BY <1>17 DEF TypeOK, Peripheral!PeripheralTypeOK, PeripheralHolds,
         PDisconnected, Peripheral!Disconnected
    <3>2. notifyEnabled' = FALSE /\ UNCHANGED <<buttonValue, led>>
      BY <1>17 DEF PDisconnected, Peripheral!Disconnected,
         Peripheral!CfgChanged
    <3>3. /\ pRefs' \in 0 .. 2 /\ authConn' \in BOOLEAN
          /\ currentConn' \in BOOLEAN /\ notifyEnabled' \in BOOLEAN
      <4>1. pRefs' \in 0 .. 2
        BY <3>1
      <4>2. /\ authConn' \in BOOLEAN /\ currentConn' \in BOOLEAN
            /\ notifyEnabled' \in BOOLEAN
        BY Zenon, <3>1, <3>2
      <4> QED
        BY <4>1, <4>2
    <3> QED
      BY <3>2, <3>3 DEF TypeOK, Peripheral!PeripheralTypeOK
  <2>3. LinkTypeOK'
    BY <1>17 DEF LinkTypeOK, PDisconnected
  <2> QED
    BY <2>1, <2>2, <2>3
<1>18. ASSUME PasskeyEntry PROVE TypeOK'
  <2>1. CentralTypeOK'
    BY <1>18 DEF CentralTypeOK, PasskeyEntry
  <2>2. Peripheral!PeripheralTypeOK'
    BY <1>18 DEF Peripheral!PeripheralTypeOK, PeripheralHolds, PasskeyEntry,
       Peripheral!AuthPasskeyEntry, Flowing
  <2>3. LinkTypeOK'
    BY <1>18 DEF LinkTypeOK, PasskeyEntry
  <2> QED
    BY <2>1, <2>2, <2>3
<1>19. ASSUME PSecurityChanged PROVE TypeOK'
  <2>1. CentralTypeOK'
    BY <1>19 DEF CentralTypeOK, PSecurityChanged
  <2>2. Peripheral!PeripheralTypeOK'
    BY <1>19 DEF Peripheral!PeripheralTypeOK, PSecurityChanged,
       Peripheral!CfgChanged
  <2>3. LinkTypeOK'
    BY <1>19 DEF LinkTypeOK, PSecurityChanged
  <2> QED
    BY <2>1, <2>2, <2>3
<1>20. ASSUME PPairingFailed PROVE TypeOK'
  <2>1. CentralTypeOK'
    BY <1>20 DEF CentralTypeOK, PPairingFailed
  <2>2. Peripheral!PeripheralTypeOK'
    BY <1>20 DEF Peripheral!PeripheralTypeOK, PPairingFailed,
       Peripheral!AliveAfterPairingFailed
  <2>3. LinkTypeOK'
    BY <1>20 DEF LinkTypeOK, PPairingFailed,
       Peripheral!AliveAfterPairingFailed
  <2> QED
    BY <2>1, <2>2, <2>3
<1>21. ASSUME CccWritten PROVE TypeOK'
  <2>1. CentralTypeOK'
    BY <1>21 DEF CentralTypeOK, Waiting, CccWritten
  <2>2. Peripheral!PeripheralTypeOK'
    BY <1>21 DEF Peripheral!PeripheralTypeOK, CccWritten,
       Peripheral!CfgChanged
  <2>3. LinkTypeOK'
    BY <1>21 DEF LinkTypeOK, CccWritten
  <2> QED
    BY <2>1, <2>2, <2>3
<1>22. ASSUME CccRefused PROVE TypeOK'
  <2>1. CentralTypeOK'
    BY <1>22 DEF CentralTypeOK, Waiting, CccRefused
  <2>2. Peripheral!PeripheralTypeOK'
    BY <1>22 DEF Peripheral!PeripheralTypeOK, CccRefused
  <2>3. LinkTypeOK'
    BY <1>22 DEF LinkTypeOK, CccRefused
  <2> QED
    BY <2>1, <2>2, <2>3
<1>23. ASSUME LedWritten PROVE TypeOK'
  <2>1. CentralTypeOK'
    BY <1>23, CentralAssumption DEF CentralTypeOK, Waiting, LedWritten, OnSent
  <2>2. Peripheral!PeripheralTypeOK'
    BY <1>23 DEF Peripheral!PeripheralTypeOK, LedWritten, Peripheral!OnWrite,
       Peripheral!refVars
  <2>3. LinkTypeOK'
    BY <1>23 DEF LinkTypeOK, LedWritten
  <2> QED
    BY <2>1, <2>2, <2>3
<1>24. ASSUME LedRefused PROVE TypeOK'
  <2>1. CentralTypeOK'
    BY <1>24 DEF CentralTypeOK, Waiting, LedRefused
  <2>2. Peripheral!PeripheralTypeOK'
    BY <1>24 DEF Peripheral!PeripheralTypeOK, LedRefused
  <2>3. LinkTypeOK'
    BY <1>24 DEF LinkTypeOK, LedRefused
  <2> QED
    BY <2>1, <2>2, <2>3
<1>25. ASSUME NEW value \in Value, PButton(value) PROVE TypeOK'
  <2>1. CentralTypeOK'
    BY <1>25 DEF CentralTypeOK, Waiting, PButton, OnReceived
  <2>2. Peripheral!PeripheralTypeOK'
    BY <1>25 DEF Peripheral!PeripheralTypeOK, PButton,
       Peripheral!ButtonHandler, Peripheral!refVars
  <2>3. LinkTypeOK'
    BY <1>25 DEF LinkTypeOK, PButton
  <2> QED
    BY <2>1, <2>2, <2>3
<1>26. ASSUME UNCHANGED serviceVars PROVE TypeOK'
  BY <1>26 DEF CentralTypeOK, Peripheral!PeripheralTypeOK, LinkTypeOK,
     Waiting, serviceVars
<1> QED
  BY <1>1, <1>2, <1>3, <1>4, <1>5, <1>6, <1>7, <1>8, <1>9, <1>10, <1>11,
     <1>12, <1>13, <1>14, <1>15, <1>16, <1>17, <1>18, <1>19, <1>20, <1>21,
     <1>22, <1>23, <1>24, <1>25, <1>26 DEF Next, CNext, PNext

\* Every step keeps the references counted.
LEMMA HoldsStep ==
  ASSUME Inv, [Next]_serviceVars
  PROVE  CentralHolds' /\ PeripheralHolds' /\ NewsIsTrue'
<1> USE CentralAssumption DEF Inv, CentralHolds, PeripheralHolds, NewsIsTrue,
   TypeOK, CentralTypeOK, Peripheral!PeripheralTypeOK, LinkTypeOK, Waiting,
   centralVars, linkVars, subVars, writeVars, peripheralVars, aliveVars,
   securityVars, storeVars
<1>1. ASSUME Connect PROVE CentralHolds' /\ PeripheralHolds' /\ NewsIsTrue'
  BY <1>1 DEF Connect, Advertising
<1>2. ASSUME Encrypted PROVE CentralHolds' /\ PeripheralHolds' /\ NewsIsTrue'
  BY <1>2 DEF Encrypted, Flowing
<1>3. ASSUME EncryptionFails PROVE CentralHolds' /\ PeripheralHolds' /\ NewsIsTrue'
  BY <1>3 DEF EncryptionFails, Flowing
<1>4. ASSUME Create PROVE CentralHolds' /\ PeripheralHolds' /\ NewsIsTrue'
  BY <1>4 DEF Create, ScanConnecting, Advertising
<1>5. ASSUME CreateFails PROVE CentralHolds' /\ PeripheralHolds' /\ NewsIsTrue'
  BY <1>5 DEF CreateFails, ScanConnectingError, Advertising
<1>6. ASSUME CreateExpires PROVE CentralHolds' /\ PeripheralHolds' /\ NewsIsTrue'
  BY <1>6 DEF CreateExpires, ConnectedError, ReleaseAndScan
<1>7. ASSUME NEW secErr \in BOOLEAN, CConnected(secErr) PROVE CentralHolds' /\ PeripheralHolds' /\ NewsIsTrue'
  BY <1>7 DEF CConnected, Connected, GattDiscover
<1>8. ASSUME CLost PROVE CentralHolds' /\ PeripheralHolds' /\ NewsIsTrue'
  BY <1>8 DEF CLost
<1>9. ASSUME CDisconnected PROVE CentralHolds' /\ PeripheralHolds' /\ NewsIsTrue'
  BY <1>9 DEF CDisconnected, Disconnected, ReleaseAndScan, OnSent,
     Unsubscribed
<1>10. ASSUME CSecurityChanged PROVE CentralHolds' /\ PeripheralHolds' /\ NewsIsTrue'
  BY <1>10 DEF CSecurityChanged, SecurityChanged, OnSent, Unsubscribed,
     Resend, GattDiscover
<1>11. ASSUME DiscoveryEnds PROVE CentralHolds' /\ PeripheralHolds' /\ NewsIsTrue'
  BY <1>11 DEF DiscoveryEnds, DiscoveryCompleted, HandlesAssign, Subscribe,
     Waiting
<1>12. ASSUME CccError PROVE CentralHolds' /\ PeripheralHolds' /\ NewsIsTrue'
  BY <1>12 DEF CccError, Unsubscribed, Elevate
<1>13. ASSUME LedError PROVE CentralHolds' /\ PeripheralHolds' /\ NewsIsTrue'
  BY <1>13 DEF LedError, OnSent, Elevate
<1>14. ASSUME NEW value \in Value, CButton(value) PROVE CentralHolds' /\ PeripheralHolds' /\ NewsIsTrue'
  BY <1>14 DEF CButton, SetLed
<1>15. ASSUME PConnected PROVE CentralHolds' /\ PeripheralHolds' /\ NewsIsTrue'
  BY <1>15 DEF PConnected, Peripheral!Connected
<1>16. ASSUME PLost PROVE CentralHolds' /\ PeripheralHolds' /\ NewsIsTrue'
  BY <1>16 DEF PLost
<1>17. ASSUME PDisconnected PROVE CentralHolds' /\ PeripheralHolds' /\ NewsIsTrue'
  BY <1>17 DEF PDisconnected, Peripheral!Disconnected, Peripheral!CfgChanged
<1>18. ASSUME PasskeyEntry PROVE CentralHolds' /\ PeripheralHolds' /\ NewsIsTrue'
  BY <1>18 DEF PasskeyEntry, Peripheral!AuthPasskeyEntry, Flowing
<1>19. ASSUME PSecurityChanged PROVE CentralHolds' /\ PeripheralHolds' /\ NewsIsTrue'
  BY <1>19 DEF PSecurityChanged, Peripheral!CfgChanged
<1>20. ASSUME PPairingFailed PROVE CentralHolds' /\ PeripheralHolds' /\ NewsIsTrue'
  BY <1>20 DEF PPairingFailed, Peripheral!AliveAfterPairingFailed
<1>21. ASSUME CccWritten PROVE CentralHolds' /\ PeripheralHolds' /\ NewsIsTrue'
  BY <1>21 DEF CccWritten, Peripheral!CfgChanged, Arrives, Flowing
<1>22. ASSUME CccRefused PROVE CentralHolds' /\ PeripheralHolds' /\ NewsIsTrue'
  BY <1>22 DEF CccRefused, Arrives, Flowing
<1>23. ASSUME LedWritten PROVE CentralHolds' /\ PeripheralHolds' /\ NewsIsTrue'
  BY <1>23 DEF LedWritten, Peripheral!OnWrite, Peripheral!refVars, OnSent,
     Arrives, Flowing
<1>24. ASSUME LedRefused PROVE CentralHolds' /\ PeripheralHolds' /\ NewsIsTrue'
  BY <1>24 DEF LedRefused, Arrives, Flowing
<1>25. ASSUME NEW value \in Value, PButton(value) PROVE CentralHolds' /\ PeripheralHolds' /\ NewsIsTrue'
  BY <1>25 DEF PButton, Peripheral!ButtonHandler, Peripheral!refVars,
     OnReceived, Flowing
<1>26. ASSUME UNCHANGED serviceVars PROVE CentralHolds' /\ PeripheralHolds' /\ NewsIsTrue'
  BY <1>26 DEF serviceVars
<1> QED
  BY <1>1, <1>2, <1>3, <1>4, <1>5, <1>6, <1>7, <1>8, <1>9, <1>10, <1>11,
     <1>12, <1>13, <1>14, <1>15, <1>16, <1>17, <1>18, <1>19, <1>20, <1>21,
     <1>22, <1>23, <1>24, <1>25, <1>26 DEF Next, CNext, PNext

\* Every step keeps the flags, the subscription and the scanner right.
LEMMA FlagsStep ==
  ASSUME Inv, [Next]_serviceVars
  PROVE  FlagsMatchStack' /\ SubscriptionOfLink' /\ StillLooking'
<1> USE CentralAssumption DEF Inv, CentralHolds, FlagsMatchStack,
   SubscriptionOfLink, StillLooking, TypeOK, CentralTypeOK,
   Peripheral!PeripheralTypeOK, LinkTypeOK, Waiting, centralVars, linkVars,
   subVars, writeVars, peripheralVars, aliveVars, securityVars, storeVars
<1>1. ASSUME Connect PROVE FlagsMatchStack' /\ SubscriptionOfLink' /\ StillLooking'
  BY <1>1 DEF Connect, Advertising
<1>2. ASSUME Encrypted PROVE FlagsMatchStack' /\ SubscriptionOfLink' /\ StillLooking'
  BY <1>2 DEF Encrypted, Flowing
<1>3. ASSUME EncryptionFails PROVE FlagsMatchStack' /\ SubscriptionOfLink' /\ StillLooking'
  BY <1>3 DEF EncryptionFails, Flowing
<1>4. ASSUME Create PROVE FlagsMatchStack' /\ SubscriptionOfLink' /\ StillLooking'
  BY <1>4 DEF Create, ScanConnecting, Advertising
<1>5. ASSUME CreateFails PROVE FlagsMatchStack' /\ SubscriptionOfLink' /\ StillLooking'
  BY <1>5 DEF CreateFails, ScanConnectingError, Advertising
<1>6. ASSUME CreateExpires PROVE FlagsMatchStack' /\ SubscriptionOfLink' /\ StillLooking'
  BY <1>6 DEF CreateExpires, ConnectedError, ReleaseAndScan
<1>7. ASSUME NEW secErr \in BOOLEAN, CConnected(secErr) PROVE FlagsMatchStack' /\ SubscriptionOfLink' /\ StillLooking'
  BY <1>7 DEF CConnected, Connected, GattDiscover
<1>8. ASSUME CLost PROVE FlagsMatchStack' /\ SubscriptionOfLink' /\ StillLooking'
  BY <1>8 DEF CLost
<1>9. ASSUME CDisconnected PROVE FlagsMatchStack' /\ SubscriptionOfLink' /\ StillLooking'
  BY <1>9 DEF CDisconnected, Disconnected, ReleaseAndScan, OnSent,
     Unsubscribed
<1>10. ASSUME CSecurityChanged PROVE FlagsMatchStack' /\ SubscriptionOfLink' /\ StillLooking'
  BY <1>10 DEF CSecurityChanged, SecurityChanged, OnSent, Unsubscribed,
     Resend, GattDiscover
<1>11. ASSUME DiscoveryEnds PROVE FlagsMatchStack' /\ SubscriptionOfLink' /\ StillLooking'
  BY <1>11 DEF DiscoveryEnds, DiscoveryCompleted, HandlesAssign, Subscribe,
     Waiting
<1>12. ASSUME CccError PROVE FlagsMatchStack' /\ SubscriptionOfLink' /\ StillLooking'
  BY <1>12 DEF CccError, Unsubscribed, Elevate
<1>13. ASSUME LedError PROVE FlagsMatchStack' /\ SubscriptionOfLink' /\ StillLooking'
  BY <1>13 DEF LedError, OnSent, Elevate
<1>14. ASSUME NEW value \in Value, CButton(value) PROVE FlagsMatchStack' /\ SubscriptionOfLink' /\ StillLooking'
  BY <1>14 DEF CButton, SetLed
<1>15. ASSUME PConnected PROVE FlagsMatchStack' /\ SubscriptionOfLink' /\ StillLooking'
  BY <1>15 DEF PConnected, Peripheral!Connected
<1>16. ASSUME PLost PROVE FlagsMatchStack' /\ SubscriptionOfLink' /\ StillLooking'
  BY <1>16 DEF PLost
<1>17. ASSUME PDisconnected PROVE FlagsMatchStack' /\ SubscriptionOfLink' /\ StillLooking'
  BY <1>17 DEF PDisconnected, Peripheral!Disconnected, Peripheral!CfgChanged
<1>18. ASSUME PasskeyEntry PROVE FlagsMatchStack' /\ SubscriptionOfLink' /\ StillLooking'
  BY <1>18 DEF PasskeyEntry, Peripheral!AuthPasskeyEntry, Flowing
<1>19. ASSUME PSecurityChanged PROVE FlagsMatchStack' /\ SubscriptionOfLink' /\ StillLooking'
  BY <1>19 DEF PSecurityChanged, Peripheral!CfgChanged
<1>20. ASSUME PPairingFailed PROVE FlagsMatchStack' /\ SubscriptionOfLink' /\ StillLooking'
  BY <1>20 DEF PPairingFailed, Peripheral!AliveAfterPairingFailed
<1>21. ASSUME CccWritten PROVE FlagsMatchStack' /\ SubscriptionOfLink' /\ StillLooking'
  BY <1>21 DEF CccWritten, Peripheral!CfgChanged, Arrives, Flowing
<1>22. ASSUME CccRefused PROVE FlagsMatchStack' /\ SubscriptionOfLink' /\ StillLooking'
  BY <1>22 DEF CccRefused, Arrives, Flowing
<1>23. ASSUME LedWritten PROVE FlagsMatchStack' /\ SubscriptionOfLink' /\ StillLooking'
  BY <1>23 DEF LedWritten, Peripheral!OnWrite, Peripheral!refVars, OnSent,
     Arrives, Flowing
<1>24. ASSUME LedRefused PROVE FlagsMatchStack' /\ SubscriptionOfLink' /\ StillLooking'
  BY <1>24 DEF LedRefused, Arrives, Flowing
<1>25. ASSUME NEW value \in Value, PButton(value) PROVE FlagsMatchStack' /\ SubscriptionOfLink' /\ StillLooking'
  BY <1>25 DEF PButton, Peripheral!ButtonHandler, Peripheral!refVars,
     OnReceived, Flowing
<1>26. ASSUME UNCHANGED serviceVars PROVE FlagsMatchStack' /\ SubscriptionOfLink' /\ StillLooking'
  BY <1>26 DEF serviceVars
<1> QED
  BY <1>1, <1>2, <1>3, <1>4, <1>5, <1>6, <1>7, <1>8, <1>9, <1>10, <1>11,
     <1>12, <1>13, <1>14, <1>15, <1>16, <1>17, <1>18, <1>19, <1>20, <1>21,
     <1>22, <1>23, <1>24, <1>25, <1>26 DEF Next, CNext, PNext

\* The initial state satisfies the invariant.
LEMMA InitInv == ServiceInit => Inv
<1> SUFFICES ASSUME ServiceInit PROVE Inv
  OBVIOUS
<1> USE DEF ServiceInit, Init, Peripheral!Init
<1>1. cRefs \in 0 .. 1 /\ pRefs \in 0 .. 2
  OBVIOUS
<1>2. data \in Value /\ buttonValue \in Value
  BY CentralAssumption
<1>3. CentralTypeOK
  BY Zenon, <1>1, <1>2 DEF CentralTypeOK
<1>4. Peripheral!PeripheralTypeOK
  BY Zenon, <1>1, <1>2 DEF Peripheral!PeripheralTypeOK
<1>5. LinkTypeOK
  BY Zenon DEF LinkTypeOK
<1>6. CentralHolds /\ NewsIsTrue
  BY CentralAssumption DEF CentralHolds, NewsIsTrue
<1>7. PeripheralHolds
  BY DEF PeripheralHolds
<1>8. FlagsMatchStack /\ SubscriptionOfLink /\ StillLooking
  BY DEF FlagsMatchStack, SubscriptionOfLink, StillLooking
<1> QED
  BY <1>3, <1>4, <1>5, <1>6, <1>7, <1>8 DEF Inv, TypeOK

\* The invariant holds for every set of bytes.
LEMMA Invariance == Spec => []Inv
<1>1. ServiceInit => Inv
  BY InitInv
<1>2. Inv /\ [Next]_serviceVars => Inv'
  <2> SUFFICES ASSUME Inv, [Next]_serviceVars PROVE Inv'
    OBVIOUS
  <2>1. TypeOK'
    BY TypeStep DEF Inv
  <2>2. CentralHolds' /\ PeripheralHolds' /\ NewsIsTrue'
    BY HoldsStep
  <2>3. FlagsMatchStack' /\ SubscriptionOfLink' /\ StillLooking'
    BY FlagsStep
  <2> QED
    BY <2>1, <2>2, <2>3 DEF Inv
<1> QED
  BY <1>1, <1>2, PTL DEF Spec

-----------------------------------------------------------------------------
\* The variables have their types; main.c of the central holds at most one
\* reference, that of the peripheral at most two.
THEOREM ServiceTypeCorrect == Spec => []TypeOK
  BY Invariance, PTL DEF Inv

\* The client's flags say what the stack does with its parameters
\* (simple_service_client.c).
THEOREM FlagsAreRight == Spec => []FlagsMatchStack
  BY Invariance, PTL DEF Inv

\* Both programs hold as many references as they have pointers, and none
\* once they were told that the link is over (both disconnected()).
THEOREM NoReferenceLeaks == Spec => []ReferencesReleased
<1>1. Inv => ReferencesReleased
  BY DEF Inv, TypeOK, LinkTypeOK, CentralHolds, PeripheralHolds,
         ReferencesReleased
<1> QED
  BY <1>1, Invariance, PTL

\* An accepted subscription has a peripheral that notifies.
THEOREM SubscriptionsAgree == Spec => []SubscriptionAgrees
<1>1. Inv => SubscriptionAgrees
  BY DEF Inv, FlagsMatchStack, SubscriptionOfLink, SubscriptionAgrees, BothUp,
         Flowing
<1> QED
  BY <1>1, Invariance, PTL

\* A central without a link scans, unless scan_connecting_error() ran.
THEOREM KeepsLooking == Spec => []StillLooking
  BY Invariance, PTL DEF Inv

\* The peripheral's LED and notifications need a secured link: the requests
\* are checked, and a stored subscription is restored only by the event that
\* reports the link secured.
THEOREM SecuredFirst == Spec => OnlySecured
<1> DEFINE Step == led' # led \/ (notifyEnabled' /\ ~notifyEnabled) => PSecured'
<1>1. Inv /\ [Next]_serviceVars => [Step]_serviceVars
  <2> SUFFICES ASSUME Inv, Next PROVE Step
    OBVIOUS
  <2>1. CASE CccWritten
    BY <2>1 DEF CccWritten, Peripheral!Permitted, PSecured, securityVars
  <2>2. CASE LedWritten
    BY <2>2 DEF LedWritten, Peripheral!Permitted, PSecured, securityVars
  <2>3. CASE PSecurityChanged
    BY <2>3 DEF Inv, NewsIsTrue, PSecurityChanged, PSecured
  <2>4. CASE PDisconnected
    BY <2>4 DEF PDisconnected, Peripheral!Disconnected, Peripheral!CfgChanged
  <2>5. CASE PConnected \/ PasskeyEntry
    BY <2>5 DEF PConnected, Peripheral!Connected, PasskeyEntry,
       Peripheral!AuthPasskeyEntry
  <2>6. ASSUME NEW value \in Value, PButton(value) PROVE Step
    BY <2>6 DEF PButton, Peripheral!ButtonHandler
  <2>7. CASE PLost \/ PPairingFailed \/ CccRefused \/ LedRefused
    BY <2>7 DEF PLost, PPairingFailed, CccRefused, LedRefused, peripheralVars
  <2>8. CASE Connect \/ Encrypted \/ EncryptionFails
    BY <2>8 DEF Connect, Encrypted, EncryptionFails, peripheralVars
  <2>9. CASE CNext
    <3>1. UNCHANGED peripheralVars
      BY <2>9 DEF CNext, Create, CreateFails, CreateExpires, CConnected, CLost,
         CDisconnected, CSecurityChanged, DiscoveryEnds, CccError, LedError,
         CButton
    <3> QED
      BY <3>1 DEF peripheralVars
  <2> QED
    BY <2>1, <2>2, <2>3, <2>4, <2>5, <2>6, <2>7, <2>8, <2>9 DEF Next, PNext
<1> QED
  BY <1>1, Invariance, PTL DEF Spec, OnlySecured
=============================================================================
