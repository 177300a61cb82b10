--------------------------- MODULE ProgramsProofs ---------------------------
(***************************************************************************)
(* What holds in every run of the programs that are one module each, for   *)
(* every number of links, references and connection objects; and that each *)
(* of them keeps the types of its variables while the others stand still.  *)
(***************************************************************************)
EXTENDS MCPrograms, DualUartProofs, LteTrackerProofs, FiniteSetTheorems

-----------------------------------------------------------------------------
(* UART wake-up.                                                           *)

\* A handler that suspends the UART has armed the pin before it does so.
WakeInv ==
  /\ ByteWakes
  /\ isr \in {"led", "uart"} /\ ~enabling => armed
  /\ enabling \in BOOLEAN /\ isr \in IsrPlace

\* main() keeps it, ...
LEMMA MainWakes ==
  ASSUME WakeInv,
         AddButton \/ SetDevice \/ ArmPin \/ AddHandler \/ EnableFirst \/ ConfigureLed
  PROVE  WakeInv'
BY DEF WakeInv, ByteWakes, Waking, IsrPlace, AddButton, SetDevice, ArmPin,
       AddHandler, EnableFirst, ConfigureLed, Goes, ConfigurePin, SetLed,
       RunAction, pinVars

\* ... and so do the handlers.
LEMMA HandlerWakes ==
  ASSUME WakeInv, Button1 \/ RxHandler \/ NullPin \/ SetEnable \/ Edge
  PROVE  WakeInv'
<1> USE DEF WakeInv, ByteWakes, Waking, IsrPlace, pinVars
<1>1. CASE Button1
  BY <1>1 DEF Button1
<1>2. CASE RxHandler
  BY <1>2 DEF RxHandler
<1>3. CASE NullPin \/ Edge
  BY <1>3 DEF NullPin, Edge
<1>4. CASE SetEnable
  BY <1>4 DEF SetEnable, Passes, ConfigurePin, SetLed, RunAction
<1> QED BY <1>1, <1>2, <1>3, <1>4

\* The UART never sleeps without being woken by the next byte, whichever of
\* main(), the button and the pin is in the middle of uart0_set_enable().
THEOREM ByteAlwaysWakes == WakeSpec => []ByteWakes
<1>1. WakeInit => WakeInv
  BY DEF WakeInit, WakeInv, ByteWakes, IsrPlace
<1>2. WakeInv /\ [WakeNext]_wakeVars => WakeInv'
  <2>1. WakeInv /\ UNCHANGED wakeVars => WakeInv'
    BY DEF WakeInv, ByteWakes, Waking, IsrPlace, wakeVars, pinVars
  <2> QED BY <2>1, MainWakes, HandlerWakes DEF WakeNext
<1>3. WakeInv => ByteWakes
  BY DEF WakeInv
<1> QED BY <1>1, <1>2, <1>3, PTL DEF WakeSpec

\* Every step keeps the types of the wake-up program.
LEMMA WakeTypeStep ==
  ASSUME WakeTypeOK, WakeNext
  PROVE  WakeTypeOK'
<1> USE DEF WakeTypeOK, Place, IsrPlace, pinVars
<1>1. CASE AddButton \/ SetDevice \/ ArmPin \/ AddHandler \/ ConfigureLed
  BY <1>1 DEF AddButton, SetDevice, ArmPin, AddHandler, ConfigureLed, Goes,
     ConfigurePin, SetLed
<1>2. CASE EnableFirst
  BY <1>2 DEF EnableFirst, Goes, ConfigurePin, SetLed, RunAction
<1>3. CASE Button1 \/ NullPin \/ Edge
  BY <1>3 DEF Button1, NullPin, Edge
<1>4. CASE RxHandler
  BY <1>4 DEF RxHandler
<1>5. CASE SetEnable
  BY <1>5 DEF SetEnable, Passes, ConfigurePin, SetLed, RunAction
<1> QED
  BY <1>1, <1>2, <1>3, <1>4, <1>5 DEF WakeNext
-----------------------------------------------------------------------------
(* Dual role.                                                              *)

\* A handle is remembered only of a link that was worked on.
HandleInv == HandleOfSensor /\ dm \in {"none", "phone", "sensor"}

\* The handle in use is the one that the discovery of the sensor's link has
\* found, or a phone's that was found later, never one of an earlier link, in
\* every order of links, discoveries and writes; it is said only of a sensor
\* whose discovery did find it.
THEOREM HandleIsOfSensor == DualSpec => []HandleOfSensor
<1>1. DualInit => HandleInv
  BY DEF DualInit, HandleInv, HandleOfSensor
<1>2. HandleInv /\ [DualNext]_dualVars => HandleInv'
  <2> USE DEF HandleInv, HandleOfSensor, dualVars, dualAdvVars, dualScanVars,
              dualFindVars
  <2>1. ASSUME HandleInv, NEW ok \in BOOLEAN,
               PeriphBtReady(ok) \/ CentralRoleInit(ok) \/ SensorFailed(ok)
                 \/ SensorDisconnected(ok)
        PROVE  HandleInv'
    BY <2>1 DEF PeriphBtReady, CentralRoleInit, SensorFailed, SensorDisconnected
  <2>2. ASSUME HandleInv, NEW ok \in BOOLEAN, SensorConnected(ok)
        PROVE  HandleInv'
    <3>1. CASE dm' = "sensor"
      BY <2>2, <3>1 DEF SensorConnected
    <3>2. CASE dm' # "sensor"
      <4>1. noHandle'
        BY <2>2, <3>2, Zenon DEF SensorConnected
      <4>2. dm' \in {"none", "phone", "sensor"}
        BY <2>2 DEF SensorConnected, GattDiscover
      <4> QED
        BY <4>1, <4>2
    <3> QED
      BY <3>1, <3>2
  <2>6. ASSUME HandleInv, NEW ok \in BOOLEAN, PhoneConnected(ok)
        PROVE  HandleInv'
    BY <2>6 DEF PhoneConnected, GattDiscover
  <2>3. ASSUME HandleInv,
               ScanConnecting \/ ScanConnectingError \/ PhoneDisconnected
        PROVE  HandleInv'
    BY <2>3 DEF ScanConnecting, ScanConnectingError, PhoneDisconnected
  <2>4. ASSUME HandleInv, DiscoveryCompleted
        PROVE  HandleInv'
    <3>1. remoteHandle' = dm /\ dm' = "none" /\ dm \in {"phone", "sensor"}
      BY <2>4 DEF DiscoveryCompleted, TakeHandle
    <3>2. CASE dm = "sensor"
      <4>1. ~phoneLater'
        BY <2>4, <3>2, Zenon DEF DiscoveryCompleted
      <4> QED
        BY <3>1, <3>2, <4>1
    <3>3. CASE dm = "phone"
      <4>1. phoneLater'
        BY <2>4, <3>3, Zenon DEF DiscoveryCompleted
      <4> QED
        BY <3>1, <3>3, <4>1
    <3> QED
      BY <3>1, <3>2, <3>3
  <2>7. ASSUME HandleInv, DiscoveryWithout
        PROVE  HandleInv'
    <3>1. /\ dm' = "none"
          /\ UNCHANGED <<sensor, remoteHandle, phoneLater>>
      BY <2>7 DEF DiscoveryWithout
    <3>2. CASE dm = "sensor"
      <4>1. noHandle'
        BY <2>7, <3>2, Zenon DEF DiscoveryWithout
      <4> QED
        BY <3>1, <4>1
    <3>3. CASE dm # "sensor"
      <4>1. noHandle => noHandle'
        BY <2>7, Zenon DEF DiscoveryWithout
      <4> QED
        BY <2>7, <3>1, <3>3, <4>1
    <3> QED
      BY <3>2, <3>3
  <2>5. ASSUME HandleInv,
               OnLedStateWrite \/ WriteLedStateCb \/ UNCHANGED dualVars
        PROVE  HandleInv'
    BY <2>5 DEF OnLedStateWrite, WriteLedStateCb
  <2> QED BY <2>1, <2>2, <2>3, <2>4, <2>5, <2>6, <2>7 DEF DualNext
<1>3. HandleInv => HandleOfSensor
  BY DEF HandleInv
<1> QED BY <1>1, <1>2, <1>3, PTL DEF DualSpec

\* The device looks for a sensor whenever it has none, unless the stack
\* refused the last scan or connection.
THEOREM ScansOn == DualSpec => []ScansWithoutSensor
<1>1. DualInit => ScansWithoutSensor
  BY DEF DualInit, ScansWithoutSensor
<1>2. ScansWithoutSensor /\ [DualNext]_dualVars => ScansWithoutSensor'
  <2> USE DEF ScansWithoutSensor, dualVars, dualAdvVars, dualScanVars, dualFindVars
  <2>1. ASSUME ScansWithoutSensor, NEW ok \in BOOLEAN,
               PeriphBtReady(ok) \/ CentralRoleInit(ok)
        PROVE  ScansWithoutSensor'
    <3>1. CASE ok = TRUE
      BY <2>1, <3>1 DEF PeriphBtReady, CentralRoleInit, ScanStart
    <3>2. CASE ok = FALSE
      BY <2>1, <3>2 DEF PeriphBtReady, CentralRoleInit, ScanStart
    <3> QED BY <3>1, <3>2
  <2>2. ASSUME ScansWithoutSensor, NEW ok \in BOOLEAN,
               SensorConnected(ok) \/ SensorFailed(ok) \/ SensorDisconnected(ok)
                 \/ PhoneConnected(ok)
        PROVE  ScansWithoutSensor'
    <3>1. CASE SensorConnected(ok) \/ PhoneConnected(ok)
      BY <3>1, <2>2 DEF SensorConnected, PhoneConnected
    <3>2. CASE (SensorFailed(ok) \/ SensorDisconnected(ok)) /\ ok = TRUE
      BY <3>2 DEF SensorFailed, SensorDisconnected, DropSensor, ScanStart
    <3>3. CASE (SensorFailed(ok) \/ SensorDisconnected(ok)) /\ ok = FALSE
      BY <3>3 DEF SensorFailed, SensorDisconnected, DropSensor, ScanStart
    <3> QED BY <2>2, <3>1, <3>2, <3>3
  <2>3. ASSUME ScansWithoutSensor,
               ScanConnecting \/ ScanConnectingError \/ PhoneDisconnected
        PROVE  ScansWithoutSensor'
    BY <2>3 DEF ScanConnecting, ScanConnectingError, PhoneDisconnected
  <2>4. ASSUME ScansWithoutSensor,
               DiscoveryCompleted \/ DiscoveryWithout \/ OnLedStateWrite
                 \/ WriteLedStateCb \/ UNCHANGED dualVars
        PROVE  ScansWithoutSensor'
    BY <2>4 DEF DiscoveryCompleted, DiscoveryWithout, OnLedStateWrite,
       WriteLedStateCb
  <2> QED BY <2>1, <2>2, <2>3, <2>4 DEF DualNext
<1> QED BY <1>1, <1>2, PTL DEF DualSpec

\* Every step keeps the types.
LEMMA DualTypeStep ==
  ASSUME DualTypeOK, DualNext
  PROVE  DualTypeOK'
<1> USE DEF DualTypeOK, Finder, dualAdvVars, dualScanVars, dualFindVars
<1>1. ASSUME NEW ok \in BOOLEAN, PeriphBtReady(ok)
      PROVE  DualTypeOK'
  <2>1. dualMain' = "advertised"
    BY <1>1 DEF PeriphBtReady
  <2>2. phoneAdv' \in BOOLEAN /\ advBegun' \in BOOLEAN
    BY <1>1, Zenon DEF PeriphBtReady
  <2> QED
    BY <1>1, <2>1, <2>2 DEF PeriphBtReady
<1>9. ASSUME NEW ok \in BOOLEAN, CentralRoleInit(ok)
      PROVE  DualTypeOK'
  <2>1. scanOn' \in BOOLEAN /\ scanEnded' \in BOOLEAN
    BY <1>9, Zenon DEF CentralRoleInit, ScanStart
  <2> QED
    BY <1>9, <2>1 DEF CentralRoleInit
<1>2. ASSUME NEW ok \in BOOLEAN, SensorConnected(ok) \/ PhoneConnected(ok)
      PROVE  DualTypeOK'
  BY <1>2 DEF SensorConnected, PhoneConnected, GattDiscover
<1>3. ASSUME NEW ok \in BOOLEAN, SensorFailed(ok) \/ SensorDisconnected(ok)
      PROVE  DualTypeOK'
  BY <1>3 DEF SensorFailed, SensorDisconnected, DropSensor, ScanStart
<1>4. CASE ScanConnecting \/ ScanConnectingError
  BY <1>4 DEF ScanConnecting, ScanConnectingError
<1>8. CASE PhoneDisconnected
  BY <1>8 DEF PhoneDisconnected
<1>5. CASE DiscoveryCompleted
  BY <1>5 DEF DiscoveryCompleted, TakeHandle
<1>7. CASE DiscoveryWithout
  <2>1. noHandle' \in BOOLEAN
    BY <1>7, Zenon DEF DiscoveryWithout
  <2>2. /\ dm' = "none"
        /\ UNCHANGED <<dualAdvVars, dualScanVars, remoteHandle, phoneLater, phone,
                       sensor, relayed>>
    BY <1>7 DEF DiscoveryWithout
  <2> QED
    BY <2>1, <2>2
<1>6. CASE OnLedStateWrite \/ WriteLedStateCb
  BY <1>6 DEF OnLedStateWrite, WriteLedStateCb, CentralRoleWriteLed
<1> QED
  BY <1>1, <1>2, <1>3, <1>4, <1>5, <1>6, <1>7, <1>8, <1>9 DEF DualNext
-----------------------------------------------------------------------------
(* CTS client.                                                             *)

\* What is known, subscribed, secured or in flight belongs to a link; there is
\* none while the device advertises.
LinkInv ==
  /\ ctsLink = "none" => ~subscribed /\ ~discovering /\ ~secured /\ read = 0
  /\ linkNo = 0 => ctsLink = "none"
  /\ ctsAdv => ctsLink = "none"
  /\ linkNo \in Nat

\* The named parts of HandlesOfLink.
KnownInv == ctsLink # "none" /\ hasCts => handles = linkNo
SubscribedInv == subscribed => hasCts /\ secured
ReadInv == read \notin {0, linkNo} => early

\* Every step keeps what belongs to the link, ...
LEMMA LinkStep ==
  ASSUME LinkInv, CtsNext
  PROVE  LinkInv'
<1> USE CtsAssumption DEF LinkInv, ctsSecVars, ctsReadVars
<1>1. CASE CtsAdvStart
  BY <1>1 DEF CtsAdvStart
<1>2. ASSUME NEW service \in BOOLEAN, NEW started \in BOOLEAN,
             CtsConnected(service, started)
      PROVE  LinkInv'
  BY <1>2 DEF CtsConnected
<1>3. ASSUME NEW assigned \in BOOLEAN, DiscoverCompleted(assigned)
      PROVE  LinkInv'
  <2>1. /\ ctsLink # "none" /\ UNCHANGED <<ctsLink, linkNo, ctsAdv>>
    BY <1>3 DEF DiscoverCompleted
  <2> QED BY <2>1
<1>4. CASE DiscoverFailed
  BY <1>4 DEF DiscoverFailed
<1>5. CASE PeerSecures \/ SecurityReported
  BY <1>5 DEF PeerSecures, SecurityReported, SecurityEnds
<1>6. CASE SecurityChanged
  <2>1. ctsLink # "none" /\ ctsLink' # "none" /\ UNCHANGED <<linkNo, ctsAdv>>
    BY <1>6 DEF SecurityChanged, PairingFailed
  <2> QED BY <2>1
<1>7. CASE CtsDisconnected
  BY <1>7 DEF CtsDisconnected
<1>8. CASE ReadTime \/ ReadCurrentTime
  BY <1>8 DEF ReadTime, ReadCurrentTime
<1> QED BY <1>1, <1>2, <1>3, <1>4, <1>5, <1>6, <1>7, <1>8
        DEF CtsNext, DiscoveryEnds

\* ... that known handles are its own, ...
LEMMA KnownStep ==
  ASSUME LinkInv, KnownInv, CtsNext
  PROVE  KnownInv'
<1> USE DEF KnownInv, ctsSecVars, ctsReadVars
<1>1. CASE CtsAdvStart
  BY <1>1 DEF CtsAdvStart
<1>2. ASSUME NEW service \in BOOLEAN, NEW started \in BOOLEAN,
             CtsConnected(service, started)
      PROVE  KnownInv'
  BY <1>2 DEF CtsConnected, ForgetCts
<1>3. ASSUME NEW assigned \in BOOLEAN, DiscoverCompleted(assigned)
      PROVE  KnownInv'
  BY <1>3 DEF DiscoverCompleted
<1>4. CASE DiscoverFailed
  BY <1>4 DEF DiscoverFailed
<1>5. CASE PeerSecures \/ SecurityReported
  BY <1>5 DEF PeerSecures, SecurityReported, SecurityEnds
<1>6. CASE SecurityChanged
  BY <1>6 DEF SecurityChanged, PairingFailed
<1>7. CASE CtsDisconnected \/ ReadTime \/ ReadCurrentTime
  BY <1>7 DEF CtsDisconnected, ReadTime, ReadCurrentTime
<1> QED BY <1>1, <1>2, <1>3, <1>4, <1>5, <1>6, <1>7 DEF CtsNext, DiscoveryEnds

\* ... that a subscription needs them and a secured link, ...
LEMMA SubscribedStep ==
  ASSUME LinkInv, SubscribedInv, CtsNext
  PROVE  SubscribedInv'
<1> USE DEF SubscribedInv, ctsSecVars, ctsReadVars
<1>1. CASE CtsAdvStart
  BY <1>1 DEF CtsAdvStart
<1>2. ASSUME NEW service \in BOOLEAN, NEW started \in BOOLEAN,
             CtsConnected(service, started)
      PROVE  SubscribedInv'
  BY <1>2 DEF CtsConnected, LinkInv
<1>3. ASSUME NEW assigned \in BOOLEAN, DiscoverCompleted(assigned)
      PROVE  SubscribedInv'
  BY <1>3 DEF DiscoverCompleted, EnableNotifications
<1>4. CASE DiscoverFailed
  BY <1>4 DEF DiscoverFailed
<1>5. CASE PeerSecures
  BY <1>5 DEF PeerSecures
<1>6. CASE SecurityReported
  <2>1. PICK ok \in BOOLEAN : SecurityEnds(ok)
    BY <1>6 DEF SecurityReported
  <2>2. secured => secured'
    BY <2>1, Zenon DEF SecurityEnds
  <2>3. UNCHANGED <<hasCts, subscribed>>
    BY <2>1 DEF SecurityEnds
  <2> QED BY <2>2, <2>3
<1>7. CASE SecurityChanged
  BY <1>7 DEF SecurityChanged, EnableNotifications
<1>8. CASE CtsDisconnected \/ ReadTime \/ ReadCurrentTime
  BY <1>8 DEF CtsDisconnected, ReadTime, ReadCurrentTime
<1> QED BY <1>1, <1>2, <1>3, <1>4, <1>5, <1>6, <1>7, <1>8
        DEF CtsNext, DiscoveryEnds

\* ... and that reads use them.
LEMMA ReadStep ==
  ASSUME LinkInv, KnownInv, ReadInv, CtsNext
  PROVE  ReadInv'
<1> USE DEF ReadInv, ctsSecVars, ctsReadVars
<1>1. CASE CtsAdvStart
  BY <1>1 DEF CtsAdvStart
<1>2. ASSUME NEW service \in BOOLEAN, NEW started \in BOOLEAN,
             CtsConnected(service, started)
      PROVE  ReadInv'
  BY <1>2 DEF CtsConnected, LinkInv
<1>3. ASSUME NEW assigned \in BOOLEAN, DiscoverCompleted(assigned)
      PROVE  ReadInv'
  BY <1>3 DEF DiscoverCompleted
<1>4. CASE DiscoverFailed \/ PeerSecures \/ SecurityReported \/ SecurityChanged
  BY <1>4 DEF DiscoverFailed, PeerSecures, SecurityReported, SecurityEnds,
     SecurityChanged
<1>5. CASE CtsDisconnected \/ ReadCurrentTime
  BY <1>5 DEF CtsDisconnected, ReadCurrentTime
<1>6. CASE ReadTime
  BY <1>6 DEF ReadTime, KnownInv
<1> QED BY <1>1, <1>2, <1>3, <1>4, <1>5, <1>6 DEF CtsNext, DiscoveryEnds

\* Subscriptions and reads go to the peer of the present link, but for a read
\* that was asked for before its discovery had ended; for every number of links.
THEOREM HandlesAreOfLink == CtsSpec => []HandlesOfLink
<1> DEFINE CtsInv == LinkInv /\ KnownInv /\ SubscribedInv /\ ReadInv
<1>1. CtsInit => CtsInv
  BY DEF CtsInit, LinkInv, KnownInv, SubscribedInv, ReadInv
<1>2. CtsInv /\ [CtsNext]_ctsVars => CtsInv'
  <2>1. CtsInv /\ UNCHANGED ctsVars => CtsInv'
    BY DEF LinkInv, KnownInv, SubscribedInv, ReadInv, ctsVars, ctsSecVars, ctsReadVars
  <2> QED BY <2>1, LinkStep, KnownStep, SubscribedStep, ReadStep
<1>3. CtsInv => HandlesOfLink
  BY DEF HandlesOfLink, KnownInv, SubscribedInv, ReadInv
<1> QED BY <1>1, <1>2, <1>3, PTL DEF CtsSpec

\* CtsTypeOK in two parts, one for each prover.
CtsFlags ==
  /\ ctsAdv \in BOOLEAN /\ serves \in BOOLEAN /\ discovering \in BOOLEAN
  /\ hasCts \in BOOLEAN /\ secured \in BOOLEAN /\ securing \in BOOLEAN
  /\ subscribed \in BOOLEAN /\ early \in BOOLEAN /\ ctsGivenUp \in BOOLEAN

CtsPlaces ==
  /\ linkNo \in Links /\ handles \in Links /\ read \in Links
  /\ ctsLink \in {"none", "up", "closing"}
  /\ secNews \in {"none", "ok", "failed"}

\* Every step keeps the types.
LEMMA CtsTypeStep ==
  ASSUME CtsTypeOK, CtsNext
  PROVE  CtsTypeOK'
<1>1. CtsFlags /\ CtsPlaces
  BY DEF CtsTypeOK, CtsFlags, CtsPlaces
<1>2. CtsFlags'
  <2> USE <1>1 DEF CtsFlags, ctsSecVars, ctsReadVars
  <2>1. CASE CtsAdvStart
    BY <2>1, Zenon DEF CtsAdvStart
  <2>2. ASSUME NEW service \in BOOLEAN, NEW started \in BOOLEAN,
               CtsConnected(service, started)
        PROVE  CtsFlags'
    BY <2>2, Zenon DEF CtsConnected, ForgetCts
  <2>3. ASSUME NEW assigned \in BOOLEAN, DiscoverCompleted(assigned)
        PROVE  CtsFlags'
    BY <2>3, Zenon DEF DiscoverCompleted, EnableNotifications, SetSecurity
  <2>4. CASE DiscoverFailed \/ PeerSecures
    BY <2>4, Zenon DEF DiscoverFailed, PeerSecures
  <2>5. CASE SecurityReported
    BY <2>5, Zenon DEF SecurityReported, SecurityEnds
  <2>6. CASE SecurityChanged
    BY <2>6, Zenon DEF SecurityChanged, EnableNotifications
  <2>7. CASE CtsDisconnected
    BY <2>7, Zenon DEF CtsDisconnected
  <2>8. CASE ReadTime \/ ReadCurrentTime
    BY <2>8, Zenon DEF ReadTime, ReadCurrentTime
  <2> QED
    BY <2>1, <2>2, <2>3, <2>4, <2>5, <2>6, <2>7, <2>8 DEF CtsNext, DiscoveryEnds
<1>3. CtsPlaces'
  <2> USE <1>1, CtsAssumption DEF CtsPlaces, Links, ctsSecVars, ctsReadVars
  <2>1. CASE CtsAdvStart
    BY <2>1 DEF CtsAdvStart
  <2>2. ASSUME NEW service \in BOOLEAN, NEW started \in BOOLEAN,
               CtsConnected(service, started)
        PROVE  CtsPlaces'
    BY <2>2 DEF CtsConnected
  <2>3. ASSUME NEW assigned \in BOOLEAN, DiscoverCompleted(assigned)
        PROVE  CtsPlaces'
    BY <2>3 DEF DiscoverCompleted
  <2>4. CASE DiscoverFailed \/ PeerSecures
    BY <2>4 DEF DiscoverFailed, PeerSecures
  <2>5. CASE SecurityReported
    BY <2>5 DEF SecurityReported, SecurityEnds
  <2>6. CASE SecurityChanged
    BY <2>6 DEF SecurityChanged, PairingFailed
  <2>7. CASE CtsDisconnected
    BY <2>7 DEF CtsDisconnected
  <2>8. CASE ReadTime \/ ReadCurrentTime
    BY <2>8 DEF ReadTime, ReadCurrentTime
  <2> QED
    BY <2>1, <2>2, <2>3, <2>4, <2>5, <2>6, <2>7, <2>8 DEF CtsNext, DiscoveryEnds
<1> QED
  BY <1>2, <1>3 DEF CtsTypeOK, CtsFlags, CtsPlaces
-----------------------------------------------------------------------------
(* NUS bridge, Bluetooth side.                                             *)

\* button_changed() replies only for a button of its event; when auth_conn is
\* NULL at the second reply, the first was given in the same event.
ReplyInv ==
  /\ fault => {"accept", "reject"} \subseteq event
  /\ step \in {"accept", "accepted"} => "accept" \in event
  /\ step \in {"reject", "rejected"} => "reject" \in event
  /\ step = "accept" => authConn
  /\ step = "reject" => authConn \/ "accept" \in event
  /\ authConn \in BOOLEAN

\* Every step keeps it.
LEMMA ReplyStep ==
  ASSUME ReplyInv, NusLinkNext
  PROVE  ReplyInv'
<1> USE DEF ReplyInv, connVars, advVars
<1>1. CASE BtEnable \/ MainAdvStart \/ NusConnected \/ PairingEnds \/ LinkLost
  BY <1>1 DEF BtEnable, MainAdvStart, NusConnected, PairingEnds, LinkLost
<1>2. CASE AuthPasskeyConfirm
  BY <1>2 DEF AuthPasskeyConfirm
<1>3. CASE NusDisconnected
  BY <1>3 DEF NusDisconnected, ReleaseBoth
<1>4. ASSUME ~fault, NEW buttons \in SUBSET Button, ButtonChanged(buttons)
      PROVE  ReplyInv'
  BY <1>4 DEF ButtonChanged, At
<1>5. CASE AdvStop
  BY <1>5 DEF AdvStop, At
<1>6. CASE SwitchMode
  BY <1>6 DEF SwitchMode, At, AfterNus
<1>7. CASE CheckAuth
  BY <1>7 DEF CheckAuth, At, AfterCheck, AfterAccept
<1>8. CASE NumCompReply
  <2>1. /\ UNCHANGED <<event, authConn>>
        /\ \/ step = "accept" /\ step' = "accepted"
           \/ step = "reject" /\ step' = "rejected"
    BY <1>8 DEF NumCompReply, At
  <2>2. fault' => ~authConn
    BY <1>8, Zenon DEF NumCompReply
  <2> QED BY <2>1, <2>2
<1>9. CASE ReplyRelease
  BY <1>9 DEF ReplyRelease, At, AfterAccept
<1> QED BY <1>1, <1>2, <1>3, <1>4, <1>5, <1>6, <1>7, <1>8, <1>9 DEF NusLinkNext

\* The stack gets a NULL connection only for both passkey buttons at once,
\* whatever connects, pairs or disconnects between the steps of the handler.
THEOREM NullOnBothOnly == NusLinkSpec => []NullOnlyOnBoth
<1>1. NusLinkInit => ReplyInv
  BY DEF NusLinkInit, ReplyInv
<1>2. ReplyInv /\ [NusLinkNext]_nusLinkVars => ReplyInv'
  <2>1. ReplyInv /\ UNCHANGED nusLinkVars => ReplyInv'
    BY DEF ReplyInv, nusLinkVars, connVars
  <2> QED BY <2>1, ReplyStep
<1>3. ReplyInv => NullOnlyOnBoth
  BY DEF ReplyInv, NullOnlyOnBoth
<1> QED BY <1>1, <1>2, <1>3, PTL DEF NusLinkSpec

\* The references held are those of the two pointers, unless one was lost, and
\* without a link there are none; the mode that is connectable is persistent.
RefInv ==
  /\ refs \in Int
  /\ ~lost => refs = Held(authConn) + Held(currentConn)
  /\ nusLink = "none" => ~authConn /\ ~currentConn
  /\ advMode = "nus" => persist /\ nusLink = "none"
  /\ authConn \in BOOLEAN /\ currentConn \in BOOLEAN /\ lost \in BOOLEAN
  /\ persist \in BOOLEAN

\* Nothing is held at first.
LEMMA RefInit == NusLinkInit => RefInv
<1> SUFFICES ASSUME NusLinkInit PROVE RefInv
  OBVIOUS
<1>1. Held(authConn) = 0 /\ Held(currentConn) = 0
  BY DEF NusLinkInit, Held
<1>2. refs = 0 /\ refs \in Int
  BY DEF NusLinkInit
<1>3. ~lost => refs = Held(authConn) + Held(currentConn)
  BY <1>1, <1>2
<1> QED BY <1>2, <1>3 DEF NusLinkInit, RefInv

\* A pointer holds one reference or none.
LEMMA HeldIsInt ==
  ASSUME NEW pointer
  PROVE  Held(pointer) \in Int
BY DEF Held

\* Every step keeps the references.
LEMMA RefStep ==
  ASSUME RefInv, NusLinkNext
  PROVE  RefInv'
<1> USE DEF RefInv, Held, connVars, advVars
<1>1. CASE BtEnable \/ PairingEnds \/ CheckAuth \/ NumCompReply
             \/ \E buttons \in SUBSET Button : ButtonChanged(buttons)
  BY <1>1 DEF BtEnable, PairingEnds, CheckAuth, NumCompReply, ButtonChanged
<1>2. CASE MainAdvStart
  BY <1>2 DEF MainAdvStart, AdvStart, Starts, ObjectFree
<1>3. CASE NusConnected
  BY <1>3 DEF NusConnected
<1>4. CASE AuthPasskeyConfirm
  <2>1. /\ nusLink = "up" /\ UNCHANGED <<nusLink, advMode, persist, currentConn>>
        /\ authConn' = TRUE /\ refs' = refs + 1
    BY <1>4 DEF AuthPasskeyConfirm
  <2>2. lost' \in BOOLEAN /\ (~lost' => ~lost /\ ~authConn)
    BY <1>4, Zenon DEF AuthPasskeyConfirm
  <2> QED BY <2>1, <2>2
<1>5. CASE LinkLost
  BY <1>5 DEF LinkLost
<1>6. CASE NusDisconnected
  <2> HIDE DEF Held
  <2>1. /\ authConn' = FALSE /\ currentConn' = FALSE /\ nusLink' = "none"
        /\ advMode' = "nus" => advMode = "nus" \/ persist
        /\ UNCHANGED <<lost, persist>>
    BY <1>6 DEF NusDisconnected, ReleaseBoth
  <2>2. Held(authConn') = 0 /\ Held(currentConn') = 0
    BY <2>1 DEF Held
  <2>3. refs' = refs - Held(authConn) - Held(currentConn)
    BY <1>6 DEF NusDisconnected, ReleaseBoth
  <2>4. refs' \in Int /\ (~lost => refs' = 0)
    BY <2>3, HeldIsInt
  <2>5. refs' \in Int /\ (~lost' => refs' = Held(authConn') + Held(currentConn'))
    BY <2>1, <2>2, <2>4
  <2>6. advMode' = "nus" => persist' /\ nusLink' = "none"
    BY <2>1
  <2> QED BY <2>1, <2>5, <2>6
<1>7. CASE AdvStop
  BY <1>7 DEF AdvStop
<1>8. CASE SwitchMode
  <2>1. UNCHANGED <<nusLink, connVars>>
    BY <1>8 DEF SwitchMode
  <2>2. AdvStart("nus") \/ AdvStart("beacon")
    BY <1>8 DEF SwitchMode
  <2>3. advMode' = "nus" => persist' /\ nusLink' = "none"
    BY <2>1, <2>2 DEF AdvStart, Starts, ObjectFree
  <2>4. persist' \in BOOLEAN
    BY <2>2, Zenon DEF AdvStart
  <2> QED BY <2>1, <2>3, <2>4
<1>9. CASE ReplyRelease
  <2> HIDE DEF Held
  <2>1. /\ authConn' = FALSE /\ refs' = refs - Held(authConn)
        /\ UNCHANGED <<nusLink, advMode, persist, currentConn, lost>>
    BY <1>9 DEF ReplyRelease
  <2>2. Held(authConn') = 0
    BY <2>1 DEF Held
  <2>3. refs' \in Int /\ (~lost => refs' = Held(currentConn))
    BY <2>1, HeldIsInt
  <2>4. Held(currentConn') = Held(currentConn)
    BY <2>1
  <2>5. ~lost' => refs' = Held(authConn') + Held(currentConn')
    BY <2>1, <2>2, <2>3, <2>4, HeldIsInt
  <2> QED BY <2>1, <2>3, <2>5
<1> QED BY <1>1, <1>2, <1>3, <1>4, <1>5, <1>6, <1>7, <1>8, <1>9 DEF NusLinkNext

\* Outside a switch of the mode the bridge advertises, or there is a link
\* after which the stack will, but for the named exceptions.
Excused == lost \/ refused
GoesOn == advMode # "off" \/ Excused
OffInv ==
  step \notin {"startNus", "startBeacon"} =>
    IF nusLink = "none" THEN nusMain \in {"running", "returned"} => GoesOn
                        ELSE persist \/ GoesOn

\* Every step keeps it.
LEMMA OffStep ==
  ASSUME RefInv, OffInv, NusLinkNext
  PROVE  OffInv'
<1> USE DEF OffInv, GoesOn, Excused, connVars, advVars
<1>1. CASE BtEnable
  BY <1>1 DEF BtEnable
<1>2. CASE MainAdvStart
  BY <1>2 DEF MainAdvStart, AdvStart
<1>3. CASE NusConnected
  BY <1>3 DEF NusConnected, RefInv
<1>4. CASE AuthPasskeyConfirm
  <2>1. lost => lost'
    BY <1>4, Zenon DEF AuthPasskeyConfirm
  <2>2. UNCHANGED <<nusLink, nusMain, advMode, persist, refused, step>>
    BY <1>4 DEF AuthPasskeyConfirm
  <2> QED BY <2>1, <2>2
<1>5. CASE PairingEnds \/ LinkLost
  BY <1>5 DEF PairingEnds, LinkLost
<1>6. CASE NusDisconnected
  <2>1. lost \/ refs' = 0
    BY <1>6, HeldIsInt DEF NusDisconnected, ReleaseBoth, RefInv
  <2> QED BY <1>6, <2>1 DEF NusDisconnected
<1>7. ASSUME NEW buttons \in SUBSET Button, ButtonChanged(buttons)
      PROVE  OffInv'
  BY <1>7 DEF ButtonChanged, At
<1>8. CASE AdvStop
  BY <1>8 DEF AdvStop, At
<1>9. CASE SwitchMode
  <2>1. AdvStart("nus") \/ AdvStart("beacon")
    BY <1>9 DEF SwitchMode
  <2>2. advMode' # "off" \/ refused'
    BY <2>1 DEF AdvStart
  <2> QED BY <2>2
<1>10. CASE CheckAuth
  BY <1>10 DEF CheckAuth, At
<1>11. CASE NumCompReply
  BY <1>11 DEF NumCompReply, At
<1>12. CASE ReplyRelease
  BY <1>12 DEF ReplyRelease, At
<1> QED BY <1>1, <1>2, <1>3, <1>4, <1>5, <1>6, <1>7, <1>8, <1>9, <1>10, <1>11,
           <1>12 DEF NusLinkNext

\* Without a link the bridge advertises, unless a reference was lost or the
\* last start of advertising was refused.
THEOREM OffForAReason == NusLinkSpec => []OffOnlyAfterRefusal
<1> DEFINE NusLinkInv == RefInv /\ OffInv
<1>1. NusLinkInit => NusLinkInv
  <2>1. NusLinkInit => OffInv
    BY DEF NusLinkInit, OffInv
  <2> QED BY <2>1, RefInit
<1>2. NusLinkInv /\ [NusLinkNext]_nusLinkVars => NusLinkInv'
  <2>1. NusLinkInv /\ UNCHANGED nusLinkVars => NusLinkInv'
    BY DEF RefInv, OffInv, GoesOn, Excused, Held, nusLinkVars, connVars, advVars
  <2> QED BY <2>1, RefStep, OffStep
<1>3. NusLinkInv => OffOnlyAfterRefusal
  BY DEF OffInv, GoesOn, Excused, OffOnlyAfterRefusal
<1> QED BY <1>1, <1>2, <1>3, PTL DEF NusLinkSpec

\* References are never dropped that are not held, and one is free whenever
\* the bridge is connectable: then the program holds none.
CountInv ==
  /\ refs \in 0 .. MaxRefs
  /\ refs >= Held(authConn) + Held(currentConn)
  /\ advMode = "nus" => refs = 0

\* Every step keeps the count.
LEMMA CountStep ==
  ASSUME RefInv, CountInv, NusLinkNext
  PROVE  CountInv'
<1> USE NusLinkAssumption DEF CountInv, connVars, advVars, Held
<1>1. CASE BtEnable \/ PairingEnds \/ CheckAuth \/ NumCompReply \/ LinkLost
             \/ \E buttons \in SUBSET Button : ButtonChanged(buttons)
  BY <1>1 DEF BtEnable, PairingEnds, CheckAuth, NumCompReply, LinkLost,
     ButtonChanged
<1>2. CASE MainAdvStart
  BY <1>2 DEF MainAdvStart, AdvStart, Starts, ObjectFree
<1>3. CASE NusConnected
  BY <1>3 DEF NusConnected, RefInv
<1>4. CASE AuthPasskeyConfirm
  BY <1>4 DEF AuthPasskeyConfirm, RefInv
<1>5. CASE NusDisconnected
  BY <1>5 DEF NusDisconnected, ReleaseBoth
<1>6. CASE AdvStop
  BY <1>6 DEF AdvStop
<1>7. CASE SwitchMode
  BY <1>7 DEF SwitchMode, AdvStart, Starts, ObjectFree
<1>8. CASE ReplyRelease
  BY <1>8 DEF ReplyRelease
<1> QED
  BY <1>1, <1>2, <1>3, <1>4, <1>5, <1>6, <1>7, <1>8 DEF NusLinkNext

\* The rest of NusLinkTypeOK, in two parts.
NusLinkPlaces ==
  /\ nusMain \in {"boot", "enabled", "running", "returned"}
  /\ advMode \in {"off", "nus", "beacon"}
  /\ nusLink \in {"none", "up", "down"}
  /\ step \in Step /\ event \subseteq Button

NusLinkFlags == pairing \in BOOLEAN /\ fault \in BOOLEAN /\ refused \in BOOLEAN

\* Every step keeps the types, the number of references among them.
LEMMA NusLinkTypeStep ==
  ASSUME NusLinkTypeOK, RefInv, CountInv, NusLinkNext
  PROVE  NusLinkTypeOK'
<1>1. NusLinkPlaces'
  <2> USE DEF NusLinkTypeOK, NusLinkPlaces, Step, Button, advVars, At
  <2>1. CASE BtEnable \/ NusConnected \/ AuthPasskeyConfirm \/ PairingEnds
               \/ LinkLost \/ NumCompReply
    BY <2>1 DEF BtEnable, NusConnected, AuthPasskeyConfirm, PairingEnds,
       LinkLost, NumCompReply
  <2>2. CASE MainAdvStart
    BY <2>2 DEF MainAdvStart, AdvStart
  <2>3. CASE NusDisconnected \/ AdvStop
    BY <2>3 DEF NusDisconnected, AdvStop
  <2>4. ASSUME NEW buttons \in SUBSET Button, ButtonChanged(buttons)
        PROVE  NusLinkPlaces'
    BY <2>4 DEF ButtonChanged
  <2>5. CASE SwitchMode
    BY <2>5 DEF SwitchMode, AdvStart, AfterNus
  <2>6. CASE CheckAuth \/ ReplyRelease
    BY <2>6 DEF CheckAuth, ReplyRelease, AfterCheck, AfterAccept
  <2> QED
    BY <2>1, <2>2, <2>3, <2>4, <2>5, <2>6 DEF NusLinkNext
<1>2. NusLinkFlags'
  <2> USE DEF NusLinkTypeOK, NusLinkFlags, advVars
  <2>1. CASE BtEnable \/ NusConnected \/ AuthPasskeyConfirm \/ PairingEnds
               \/ LinkLost \/ NusDisconnected \/ AdvStop \/ CheckAuth
               \/ ReplyRelease
    BY <2>1 DEF BtEnable, NusConnected, AuthPasskeyConfirm, PairingEnds,
       LinkLost, NusDisconnected, AdvStop, CheckAuth, ReplyRelease
  <2>2. CASE MainAdvStart \/ SwitchMode
    BY <2>2 DEF MainAdvStart, SwitchMode, AdvStart
  <2>3. ASSUME NEW buttons \in SUBSET Button, ButtonChanged(buttons)
        PROVE  NusLinkFlags'
    BY <2>3 DEF ButtonChanged
  <2>4. CASE NumCompReply
    BY <2>4, Zenon DEF NumCompReply
  <2> QED
    BY <2>1, <2>2, <2>3, <2>4 DEF NusLinkNext
<1>3. RefInv' /\ CountInv'
  BY RefStep, CountStep
<1> QED
  BY <1>1, <1>2, <1>3 DEF NusLinkTypeOK, NusLinkPlaces, NusLinkFlags, RefInv,
     CountInv
-----------------------------------------------------------------------------
(* Heart rate over two PHYs.                                               *)

\* Both sets are started once.  From then on a set that advertises, a start
\* that is queued and a link only become one another or are lost: there are
\* never more of them than sets.
Turns == Cardinality(Linked) + Cardinality(hrAdv) + Cardinality(hrWork)

\* SetsServed, and what keeps an object free for a set whose start is queued:
\* there are no more of those three than sets, and none before bt_ready().
HrInv ==
  /\ HrTypeOK
  /\ Turns <= 2
  /\ hrMain = "boot" => Linked = {} /\ hrAdv = {} /\ hrWork = {}
  /\ SetsServed

\* The three kinds of them are finite sets, and there are two sets in all.
LEMMA Counted ==
  HrTypeOK =>
         /\ IsFiniteSet(Linked) /\ IsFiniteSet(hrAdv) /\ IsFiniteSet(hrWork)
         /\ Cardinality(Linked) \in Nat /\ Cardinality(hrAdv) \in Nat
         /\ Cardinality(hrWork) \in Nat
         /\ IsFiniteSet(AdvSet) /\ Cardinality(AdvSet) = 2
<1> SUFFICES ASSUME HrTypeOK
             PROVE  /\ IsFiniteSet(Linked) /\ IsFiniteSet(hrAdv)
                    /\ IsFiniteSet(hrWork)
                    /\ Cardinality(Linked) \in Nat
                    /\ Cardinality(hrAdv) \in Nat
                    /\ Cardinality(hrWork) \in Nat
                    /\ IsFiniteSet(AdvSet) /\ Cardinality(AdvSet) = 2
  OBVIOUS
<1>1. IsFiniteSet(Obj)
  BY FS_Interval, HrAssumption DEF Obj
<1>2. IsFiniteSet(AdvSet) /\ Cardinality(AdvSet) = 2
  <2>1. IsFiniteSet({"coded"}) /\ Cardinality({"coded"}) = 1
    BY FS_Singleton
  <2>2. AdvSet = {"coded"} \cup {"regular"} /\ "regular" \notin {"coded"}
    BY DEF AdvSet
  <2> QED
    BY <2>1, <2>2, FS_AddElement
<1>3. IsFiniteSet(Linked) /\ IsFiniteSet(hrAdv) /\ IsFiniteSet(hrWork)
  BY <1>1, <1>2, FS_Subset DEF Linked, HrTypeOK
<1> QED
  BY <1>2, <1>3, FS_CardinalityType

\* The same after a step.
LEMMA CountedNext ==
  (HrTypeOK => /\ Cardinality(Linked) \in Nat /\ Cardinality(hrAdv) \in Nat
               /\ Cardinality(hrWork) \in Nat)'
<1>1. HrTypeOK => /\ Cardinality(Linked) \in Nat /\ Cardinality(hrAdv) \in Nat
                  /\ Cardinality(hrWork) \in Nat
  BY Counted
<1> QED
  BY <1>1, PTL

\* A set to which one element is added, or nothing, grows by one at most.
LEMMA OneMore ==
  ASSUME NEW S, IsFiniteSet(S), NEW x, NEW T, T = S \/ T = S \cup {x}
  PROVE  Cardinality(T) <= Cardinality(S) + 1
<1>1. Cardinality(S) \in Nat
  BY FS_CardinalityType
<1>2. CASE T = S
  BY <1>1, <1>2
<1>3. CASE T = S \cup {x}
  <2>1. Cardinality(T) = IF x \in S THEN Cardinality(S) ELSE Cardinality(S) + 1
    BY <1>3, FS_AddElement
  <2> QED
    BY <1>1, <2>1
<1> QED
  BY <1>2, <1>3

\* An object without a link is told from any that has one.
LEMMA NoLinkIsNone == NoLink \notin Link
BY DEF NoLink, Link

\* Every handler keeps the types.
LEMMA HrTypeStep ==
  ASSUME HrTypeOK, HrNext
  PROVE  HrTypeOK'
<1> USE DEF HrTypeOK, AdvSet
<1>1. ASSUME NEW ok \in BOOLEAN, HrReady(ok)
      PROVE  HrTypeOK'
  BY <1>1 DEF HrReady
<1>2. CASE HrRegister
  BY <1>2 DEF HrRegister
<1>3. ASSUME NEW s \in AdvSet, NEW ok \in BOOLEAN, StartAdvertising(s, ok)
      PROVE  HrTypeOK'
  BY <1>3 DEF StartAdvertising
<1>4. ASSUME NEW s \in AdvSet, NEW o \in Obj, HrConnected(s, o)
      PROVE  HrTypeOK'
  BY <1>4 DEF HrConnected, Link
<1>5. ASSUME NEW o \in Obj, NEW phy \in AdvSet, PhyUpdate(o, phy)
      PROVE  HrTypeOK'
  <2>1. Via(o) \in AdvSet
    BY <1>5 DEF PhyUpdate, Linked, Via, Link
  <2> QED
    BY <1>5, <2>1 DEF PhyUpdate, Link
<1>6. ASSUME NEW o \in Obj, NEW ok \in BOOLEAN, HrDisconnected(o, ok)
      PROVE  HrTypeOK'
  <2>1. Via(o) \in AdvSet /\ Phy(o) \in AdvSet
    BY <1>6 DEF HrDisconnected, Linked, Via, Phy, Link
  <2> QED
    BY <1>6, <2>1 DEF HrDisconnected, SetToRestart
<1> QED
  BY <1>1, <1>2, <1>3, <1>4, <1>5, <1>6 DEF HrNext

\* Every step but the first start moves what is counted, or loses it.
LEMMA TurnsStep ==
  ASSUME HrInv, HrNext
  PROVE  /\ Turns' <= 2
         /\ (hrMain = "boot" => Linked = {} /\ hrAdv = {} /\ hrWork = {})'
<1> USE DEF Turns
<1>0. /\ IsFiniteSet(Linked) /\ IsFiniteSet(hrAdv) /\ IsFiniteSet(hrWork)
      /\ Cardinality(Linked) \in Nat /\ Cardinality(hrAdv) \in Nat
      /\ Cardinality(hrWork) \in Nat /\ Cardinality(AdvSet) = 2
  BY Counted DEF HrInv
<1>7. /\ Cardinality(Linked') \in Nat /\ Cardinality(hrAdv') \in Nat
      /\ Cardinality(hrWork') \in Nat
  <2>1. HrTypeOK'
    BY HrTypeStep DEF HrInv
  <2> QED
    BY <2>1, CountedNext
<1>1. ASSUME NEW ok \in BOOLEAN, HrReady(ok)
      PROVE  Turns' <= 2 /\ hrMain' # "boot"
  <2>1. Linked' = {} /\ hrAdv' = {} /\ hrWork' \in {AdvSet, {}}
    BY <1>1 DEF HrReady, HrInv, Linked
  <2> QED
    BY <1>0, <1>1, <2>1, FS_EmptySet DEF HrReady
<1>2. CASE HrRegister
  BY <1>0, <1>2 DEF HrRegister, HrInv, Linked
<1>3. ASSUME NEW s \in AdvSet, NEW ok \in BOOLEAN, StartAdvertising(s, ok)
      PROVE  Turns' <= 2 /\ hrMain' # "boot"
  <2>1. /\ s \in hrWork /\ hrWork' = hrWork \ {s} /\ Linked' = Linked
        /\ hrAdv' \in {hrAdv, hrAdv \cup {s}}
        /\ hrMain' # "boot"
    BY <1>3 DEF StartAdvertising, Linked, HrInv
  <2>2. Cardinality(hrWork') = Cardinality(hrWork) - 1
    BY <1>0, <2>1, FS_RemoveElement
  <2>3. Cardinality(hrAdv') <= Cardinality(hrAdv) + 1
    BY <1>0, <2>1, OneMore
  <2> QED
    BY <1>0, <1>7, <2>1, <2>2, <2>3 DEF HrInv
<1>4. ASSUME NEW s \in AdvSet, NEW o \in Obj, HrConnected(s, o)
      PROVE  Turns' <= 2 /\ hrMain' # "boot"
  <2>1. /\ s \in hrAdv /\ hrAdv' = hrAdv \ {s} /\ hrWork' = hrWork
        /\ Linked' = Linked \cup {o} /\ hrMain' # "boot"
    BY <1>4, NoLinkIsNone DEF HrConnected, Linked, HrInv, HrTypeOK, Link
  <2>2. Cardinality(hrAdv') = Cardinality(hrAdv) - 1
    BY <1>0, <2>1, FS_RemoveElement
  <2>3. Cardinality(Linked') <= Cardinality(Linked) + 1
    BY <1>0, <2>1, OneMore
  <2> QED
    BY <1>0, <1>7, <2>1, <2>2, <2>3 DEF HrInv
<1>5. ASSUME NEW o \in Obj, NEW phy \in AdvSet, PhyUpdate(o, phy)
      PROVE  Turns' <= 2 /\ hrMain' # "boot"
  <2>1. /\ Linked' = Linked /\ hrAdv' = hrAdv /\ hrWork' = hrWork
        /\ hrMain' # "boot"
    <3>1. <<Via(o), phy>> # NoLink
      BY DEF NoLink
    <3> QED
      BY <1>5, <3>1 DEF PhyUpdate, Linked, HrInv, HrTypeOK
  <2> QED
    BY <2>1 DEF HrInv
<1>6. ASSUME NEW o \in Obj, NEW ok \in BOOLEAN, HrDisconnected(o, ok)
      PROVE  Turns' <= 2 /\ hrMain' # "boot"
  <2>1. /\ o \in Linked /\ Linked' = Linked \ {o} /\ hrAdv' = hrAdv
        /\ hrWork' \in {hrWork, hrWork \cup {Phy(o)}}
        /\ hrMain' # "boot"
    BY <1>6 DEF HrDisconnected, Linked, HrInv, HrTypeOK, SetToRestart
  <2>2. Cardinality(Linked') = Cardinality(Linked) - 1
    BY <1>0, <2>1, FS_RemoveElement
  <2>3. Cardinality(hrWork') <= Cardinality(hrWork) + 1
    BY <1>0, <2>1, OneMore
  <2> QED
    BY <1>0, <1>7, <2>1, <2>2, <2>3 DEF HrInv
<1> QED
  BY <1>1, <1>2, <1>3, <1>4, <1>5, <1>6 DEF HrNext

\* A link that is left alone stays one, by the same set.
LEMMA LinkKept ==
  ASSUME NEW x \in Linked, hrLink'[x] = hrLink[x]
  PROVE  x \in Linked' /\ Via(x)' = Via(x)
BY DEF Linked, Via

\* With an object for each set, a set whose start is queued finds one.
LEMMA ServedStep ==
  ASSUME MaxConn > 1, HrInv, HrNext
  PROVE  SetsServed'
<1> USE DEF HrInv, HrTypeOK, SetsServed
<1>1. ASSUME NEW ok \in BOOLEAN, HrReady(ok)
      PROVE  SetsServed'
  BY <1>1 DEF HrReady
<1>2. CASE HrRegister
  BY <1>2 DEF HrRegister, Linked, Via
<1>3. ASSUME NEW s \in AdvSet, NEW ok \in BOOLEAN, StartAdvertising(s, ok)
      PROVE  SetsServed'
  <2>1. s \in hrAdv \/ ObjectLeft
    <3>1. Cardinality(hrWork) # 0
      BY <1>3, Counted, FS_EmptySet DEF StartAdvertising
    <3> QED
      BY <3>1, Counted, HrAssumption DEF Turns, ObjectLeft
  <2>2. hrMain # "boot" /\ hrLink' = hrLink
    BY <1>3 DEF StartAdvertising
  <2>3. /\ s \in hrAdv' \cup unserved'
        /\ \A x \in AdvSet \ {s} : x \in hrAdv \cup hrWork \cup unserved
                                     => x \in hrAdv' \cup hrWork' \cup unserved'
    BY <1>3, <2>1 DEF StartAdvertising
  <2> QED
    BY <2>2, <2>3 DEF Linked, Via
<1>4. ASSUME NEW s \in AdvSet, NEW o \in Obj, HrConnected(s, o)
      PROVE  SetsServed'
  <2>1. /\ hrLink[o] = NoLink /\ hrLink'[o] = <<s, s>> /\ <<s, s>> # NoLink
        /\ \A x \in Obj \ {o} : hrLink'[x] = hrLink[x]
        /\ hrMain # "boot"
    BY <1>4, NoLinkIsNone DEF HrConnected, Link
  <2>2. s = Via(o)' /\ o \in Linked'
    <3>1. <<s, s>>[1] = s
      OBVIOUS
    <3>2. Via(o)' = s
      BY <2>1, <3>1, Zenon DEF Via
    <3>3. o \in Linked'
      BY <2>1 DEF Linked
    <3> QED
      BY <3>2, <3>3
  <2>3. \A x \in Linked : x \in Linked' /\ Via(x)' = Via(x)
    <3>1. \A x \in Linked : x \in Obj \ {o}
      BY <2>1 DEF Linked
    <3> QED
      BY <2>1, <3>1, LinkKept
  <2> QED
    BY <1>4, <2>1, <2>2, <2>3 DEF HrConnected
<1>5. ASSUME NEW o \in Obj, NEW phy \in AdvSet, PhyUpdate(o, phy)
      PROVE  SetsServed'
  <2>1. /\ hrLink'[o] = <<Via(o), phy>> /\ <<Via(o), phy>> # NoLink
        /\ \A x \in Obj \ {o} : hrLink'[x] = hrLink[x]
        /\ hrMain # "boot"
    BY <1>5 DEF PhyUpdate, NoLink, Linked
  <2>2. /\ o \in Linked' /\ Via(o)' = Via(o)
        /\ \A x \in Linked \ {o} : x \in Linked' /\ Via(x)' = Via(x)
    <3>1. o \in Linked'
      BY <2>1 DEF Linked
    <3>2. PICK v : v = Via(o)
      OBVIOUS
    <3>3. hrLink'[o] = <<v, phy>> /\ <<v, phy>>[1] = v
      BY <2>1, <3>2
    <3>4. Via(o)' = Via(o)
      BY <3>2, <3>3, Zenon DEF Via
    <3>5. Linked \ {o} \subseteq Obj \ {o}
      BY DEF Linked
    <3> QED
      BY <2>1, <3>1, <3>4, <3>5, LinkKept
  <2> QED
    BY <1>5, <2>1, <2>2 DEF PhyUpdate
<1>6. ASSUME NEW o \in Obj, NEW ok \in BOOLEAN, HrDisconnected(o, ok)
      PROVE  SetsServed'
  <2>1. \A x \in Linked \ {o} : x \in Linked' /\ Via(x)' = Via(x)
    BY <1>6 DEF HrDisconnected, Via, Linked
  <2>2. Via(o) \in hrWork' \cup unserved'
    BY <1>6 DEF HrDisconnected, SetToRestart
  <2>3. hrMain # "boot" /\ hrAdv' = hrAdv
        /\ hrWork \subseteq hrWork' /\ unserved \subseteq unserved'
    BY <1>6 DEF HrDisconnected, Linked
  <2> QED
    BY <2>1, <2>2, <2>3
<1> QED
  BY <1>1, <1>2, <1>3, <1>4, <1>5, <1>6 DEF HrNext

\* No start is lost for want of a connection object, with at least one for
\* each set as in prj.conf, whatever the peers do with the PHYs.
THEOREM SetsAreServed ==
  ASSUME MaxConn > 1
  PROVE  HrSpec => []SetsServed
<1>1. HrInit => HrInv
  <2> SUFFICES ASSUME HrInit PROVE HrInv
    OBVIOUS
  <2>1. Linked = {} /\ hrAdv = {} /\ hrWork = {}
    BY DEF HrInit, Linked
  <2> QED
    BY <2>1, FS_EmptySet DEF HrInit, HrInv, HrTypeOK, Turns, SetsServed
<1>2. HrInv /\ [HrNext]_hrVars => HrInv'
  <2>1. HrInv /\ HrNext => HrInv'
    BY HrTypeStep, TurnsStep, ServedStep DEF HrInv
  <2>2. HrInv /\ UNCHANGED hrVars => HrInv'
    BY DEF HrInv, HrTypeOK, Turns, Linked, SetsServed, Via, hrVars
  <2> QED
    BY <2>1, <2>2
<1>3. HrInv => SetsServed
  BY DEF HrInv
<1> QED
  BY <1>1, <1>2, <1>3, PTL DEF HrSpec
-----------------------------------------------------------------------------
(* Interval beacon.                                                        *)

\* Every step keeps the types.
LEMMA BeaconTypeStep ==
  ASSUME BeaconTypeOK, BeaconNext
  PROVE  BeaconTypeOK'
<1> USE DEF BeaconTypeOK
<1>1. CASE BtReady
  BY <1>1 DEF BtReady
<1>2. ASSUME NEW ok \in BOOLEAN, StartAdvHandler(ok) \/ StopAdvHandler(ok)
      PROVE  BeaconTypeOK'
  <2>1. beaconOn' \in BOOLEAN
    BY <1>2, Zenon DEF StartAdvHandler, StopAdvHandler
  <2>2. ended' \in BOOLEAN
    BY <1>2, Zenon DEF StartAdvHandler, StopAdvHandler, Reschedule
  <2>3. scheduled' \subseteq {"start", "stop"} /\ enabled' = enabled
    BY <1>2 DEF StartAdvHandler, StopAdvHandler, Reschedule
  <2> QED
    BY <2>1, <2>2, <2>3
<1> QED
  BY <1>1, <1>2 DEF BeaconNext, BeaconWork
-----------------------------------------------------------------------------
(* All of them, as they are checked together.                              *)

\* The printer's types, of which ClosedInv has all but one.
LEMMA PrinterTypeStep ==
  ASSUME ClosedInv, TypeOK, [Next]_vars
  PROVE  TypeOK'
<1>1. ClosedInv'
  BY ClosedStep
<1>2. printing' \in [Uart -> BOOLEAN]
  <2> USE DEF TypeOK
  <2>1. ASSUME NEW u \in Uart, Receive(u)
        PROVE  printing' = printing
    BY <2>1 DEF Receive, LineEnd, Store
  <2>2. ASSUME NEW u \in Uart, Get(u) \/ Printed(u)
        PROVE  printing' \in [Uart -> BOOLEAN]
    BY <2>2 DEF Get, Printed
  <2>3. CASE UNCHANGED vars
    BY <2>3 DEF vars
  <2> QED
    BY <2>1, <2>2, <2>3, DualUartAssumption DEF Next
<1> QED
  BY <1>1, <1>2 DEF ClosedInv, TypeOK

\* A step of the whole is a step of each program, or leaves it alone.
LEMMA EachAlone ==
  ASSUME [MCNext]_programVars
  PROVE  /\ [Next]_vars /\ [LteNext]_trackerVars /\ [WakeNext]_wakeVars
         /\ [NusLinkNext]_nusLinkVars /\ [CtsNext]_ctsVars /\ [DualNext]_dualVars
         /\ [HrNext]_hrVars /\ [BeaconNext]_beaconVars
<1>1. CASE UNCHANGED programVars
  BY <1>1 DEF programVars, wiredVars, peripheralVars, advertiserVars
<1>2. CASE Printer(Next) \/ Track(LteNext) \/ Wake(WakeNext)
  BY <1>2 DEF Printer, Track, Wake, Wired, peripheralVars, advertiserVars
<1>3. CASE Bridge(NusLinkNext) \/ Clock(CtsNext) \/ Relay(DualNext)
  BY <1>3 DEF Bridge, Clock, Relay, Peripheral, wiredVars, advertiserVars
<1>4. CASE HeartRate(HrNext) \/ Beacon(BeaconNext)
  BY <1>4 DEF HeartRate, Beacon, Advertiser, wiredVars, peripheralVars
<1> QED
  BY <1>1, <1>2, <1>3, <1>4 DEF MCNext

\* The types, with what the message buffers and the references rest on.
TypesInv == Types /\ ClosedInv /\ RefInv /\ CountInv

\* The programs start with these types.
LEMMA TypesInit == MCInit => TypesInv
<1> SUFFICES ASSUME MCInit PROVE TypesInv
  OBVIOUS
<1>1. ClosedInv /\ TypeOK
  BY ClosedInit DEF MCInit, Init, ClosedInv, TypeOK
<1>2. LteTypeOK
  BY InitInv DEF MCInit, Inv
<1>3. WakeTypeOK
  BY DEF MCInit, WakeInit, WakeTypeOK, Place, IsrPlace
<1>4. NusLinkTypeOK /\ CountInv
  <2>1. NusLinkInit
    BY DEF MCInit
  <2>2. refs = 0 /\ refs \in 0 .. MaxRefs
    BY <2>1, NusLinkAssumption DEF NusLinkInit
  <2>3. Held(authConn) = 0 /\ Held(currentConn) = 0
    BY <2>1 DEF NusLinkInit, Held
  <2>4. CountInv
    BY <2>2, <2>3 DEF CountInv
  <2>5. NusLinkTypeOK
    BY <2>1, <2>2 DEF NusLinkInit, NusLinkTypeOK, Step
  <2> QED
    BY <2>4, <2>5
<1>5. RefInv
  BY RefInit DEF MCInit
<1>6. CtsTypeOK
  <2>1. 0 \in Links
    BY CtsAssumption DEF Links
  <2> QED
    BY <2>1 DEF MCInit, CtsInit, CtsTypeOK
<1>7. DualTypeOK
  BY DEF MCInit, DualInit, DualTypeOK, Finder
<1>8. HrTypeOK
  BY DEF MCInit, HrInit, HrTypeOK
<1>9. BeaconTypeOK
  BY DEF MCInit, BeaconInit, BeaconTypeOK
<1> QED
  BY <1>1, <1>2, <1>3, <1>4, <1>5, <1>6, <1>7, <1>8, <1>9 DEF TypesInv, Types

\* One program runs; its step keeps its types.
LEMMA TypesStep ==
  ASSUME TypesInv, [MCNext]_programVars
  PROVE  TypesInv'
<1> USE DEF TypesInv, Types
<1>1. ClosedInv' /\ TypeOK'
  BY EachAlone, ClosedStep, PrinterTypeStep
<1>2. LteTypeOK'
  BY EachAlone, TypeStep
<1>3. WakeTypeOK'
  BY EachAlone, WakeTypeStep DEF WakeTypeOK, wakeVars, pinVars
<1>4. NusLinkTypeOK' /\ RefInv' /\ CountInv'
  <2>1. CASE NusLinkNext
    BY <2>1, NusLinkTypeStep, RefStep, CountStep
  <2>2. CASE UNCHANGED nusLinkVars
    BY <2>2 DEF NusLinkTypeOK, RefInv, CountInv, Held, nusLinkVars, connVars,
       advVars
  <2> QED
    BY <2>1, <2>2, EachAlone
<1>5. CtsTypeOK'
  BY EachAlone, CtsTypeStep DEF CtsTypeOK, ctsVars, ctsSecVars, ctsReadVars
<1>6. DualTypeOK'
  BY EachAlone, DualTypeStep DEF DualTypeOK, dualVars, dualAdvVars, dualScanVars,
     dualFindVars
<1>7. HrTypeOK'
  BY EachAlone, HrTypeStep DEF HrTypeOK, hrVars
<1>8. BeaconTypeOK'
  BY EachAlone, BeaconTypeStep DEF BeaconTypeOK, beaconVars
<1> QED
  BY <1>1, <1>2, <1>3, <1>4, <1>5, <1>6, <1>7, <1>8

\* The variables of every program keep their types; the bounds on positions,
\* links and references are never exceeded.
THEOREM TypesAreKept == MCSpec => []Types
<1>1. TypesInv /\ [MCNext]_programVars => TypesInv'
  BY TypesStep
<1>2. TypesInv => Types
  BY DEF TypesInv
<1> QED
  BY TypesInit, <1>1, <1>2, PTL DEF MCSpec
=============================================================================
