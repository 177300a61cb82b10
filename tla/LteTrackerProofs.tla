-------------------------- MODULE LteTrackerProofs --------------------------
(***************************************************************************)
(* Invariants of LteTracker: what the semaphore lte_connected can hold at  *)
(* each place of main(), and in which mode the modem is there.             *)
(***************************************************************************)
EXTENDS LteTracker, TLAPS

\* Until main() takes lte_connected nothing but the registration it waits for
\* can have given it, unless there is a spare one; afterwards a token that is
\* left, or still to come, is a spare one.
Tokens == lteConnected \/ news

TokenInv ==
  /\ pc = "lte" => (Tokens => came \/ spare) /\ (lteConnected /\ news => spare)
  /\ pc \in {"configure", "deactivate", "buttons", "start", "fix", "activate",
             "resolve", "connect", "send", "recv", "response", "rest"}
       => (Tokens => spare)
  /\ pc \in {"resolve", "connect", "send", "recv", "response", "rest"}
       => came \/ spare

\* LTE is on in the middle of the loop only, and a socket open only from
\* server_connect() to close().
ModeInv ==
  /\ registered => mode = "normal"
  /\ pc = "configure" => mode = "off"
  /\ pc \in {"buttons", "start", "fix", "activate"} => mode = "gnss"
  /\ pc \in {"configure", "deactivate", "buttons", "start", "fix", "activate",
             "lte", "resolve", "connect", "rest"} => sock = "none"

Inv == LteTypeOK /\ TokenInv /\ ModeInv

\* The invariant holds at the start.
LEMMA InitInv == LteInit => Inv
BY DEF LteInit, Inv, LteTypeOK, Status, TokenInv, Tokens, ModeInv

\* LteTypeOK in parts, each of which the provers can follow through main().
PlaceTypes ==
  /\ pc \in {"configure", "deactivate", "buttons", "start", "fix", "activate",
             "lte", "resolve", "connect", "send", "recv", "response",
             "rest", "fail", "shutdown", "stopped", "returned"}
  /\ mode \in {"off", "normal", "gnss"}
  /\ sock \in {"none", "open"}
LteTypes ==
  /\ registered \in BOOLEAN /\ news \in BOOLEAN /\ lteConnected \in BOOLEAN
  /\ came \in BOOLEAN /\ spare \in BOOLEAN
FixTypes == gnssFix \in BOOLEAN /\ waiting \in BOOLEAN
GnssTypes == gnss \in BOOLEAN /\ resolved \in BOOLEAN
LedTypes == status \in Status /\ leds \subseteq Status /\ toogle \in BOOLEAN

\* Every step but a fix.
Other ==
  \/ Recv \/ Register \/ Lose \/ LteHandler \/ Searching \/ ButtonHandler
  \/ UNCHANGED trackerVars

\* Every step keeps the types, ...
LEMMA TypeStep == LteTypeOK /\ [LteNext]_trackerVars => LteTypeOK'
<1> USE DEF Goto, lteVars, fixVars, ledVars
<1>1. PlaceTypes /\ [LteNext]_trackerVars => PlaceTypes'
  <2> USE DEF PlaceTypes
  <2>1. PlaceTypes /\ Main => PlaceTypes'
    BY DEF Main, ModemConfigure, FirstDeactivate, DeactivateLte,
       ButtonsInit, GnssInitAndStart, TakeGnssFix, ActivateLte, TakeLteConnected,
       ServerResolve, ServerConnect, ClientPostSend, HandleResponse, CloseSock,
       Rest, ResetStatus, ShutDown
  <2>2. PlaceTypes /\ Other => PlaceTypes'
    BY DEF Other, Recv, Register, Lose, LteHandler, Searching,
       ButtonHandler, trackerVars
  <2>3. ASSUME NEW readable \in BOOLEAN
        PROVE  PlaceTypes /\ SleepAfterFix(readable) => PlaceTypes'
    BY DEF SleepAfterFix, GiveFix
  <2> HIDE DEF PlaceTypes
  <2> QED
    BY <2>1, <2>2, <2>3 DEF LteNext, Other
<1>2. LteTypes /\ [LteNext]_trackerVars => LteTypes'
  <2> USE DEF LteTypes
  <2>1. LteTypes /\ Main => LteTypes'
    BY DEF Main, ModemConfigure, FirstDeactivate, DeactivateLte,
       ButtonsInit, GnssInitAndStart, TakeGnssFix, ActivateLte, TakeLteConnected,
       ServerResolve, ServerConnect, ClientPostSend, HandleResponse, CloseSock,
       Rest, ResetStatus, ShutDown
  <2>2. LteTypes /\ Other => LteTypes'
    BY DEF Other, Recv, Register, Lose, LteHandler, Searching,
       ButtonHandler, trackerVars
  <2>3. ASSUME NEW readable \in BOOLEAN
        PROVE  LteTypes /\ SleepAfterFix(readable) => LteTypes'
    BY DEF SleepAfterFix, GiveFix
  <2> HIDE DEF LteTypes
  <2> QED
    BY <2>1, <2>2, <2>3 DEF LteNext, Other
<1>3. FixTypes /\ [LteNext]_trackerVars => FixTypes'
  <2> USE DEF FixTypes
  <2>1. FixTypes /\ Main => FixTypes'
    BY DEF Main, ModemConfigure, FirstDeactivate, DeactivateLte,
       ButtonsInit, GnssInitAndStart, TakeGnssFix, ActivateLte, TakeLteConnected,
       ServerResolve, ServerConnect, ClientPostSend, HandleResponse, CloseSock,
       Rest, ResetStatus, ShutDown
  <2>2. FixTypes /\ Other => FixTypes'
    BY DEF Other, Recv, Register, Lose, LteHandler, Searching,
       ButtonHandler, trackerVars
  <2>3. ASSUME NEW readable \in BOOLEAN
        PROVE  FixTypes /\ SleepAfterFix(readable) => FixTypes'
    BY DEF SleepAfterFix, GiveFix
  <2> HIDE DEF FixTypes
  <2> QED
    BY <2>1, <2>2, <2>3 DEF LteNext, Other
<1>4. GnssTypes /\ [LteNext]_trackerVars => GnssTypes'
  <2> USE DEF GnssTypes
  <2>1. GnssTypes /\ Main => GnssTypes'
    BY DEF Main, ModemConfigure, FirstDeactivate, DeactivateLte,
       ButtonsInit, GnssInitAndStart, TakeGnssFix, ActivateLte, TakeLteConnected,
       ServerResolve, ServerConnect, ClientPostSend, HandleResponse, CloseSock,
       Rest, ResetStatus, ShutDown
  <2>2. GnssTypes /\ Other => GnssTypes'
    BY DEF Other, Recv, Register, Lose, LteHandler, Searching,
       ButtonHandler, trackerVars
  <2>3. ASSUME NEW readable \in BOOLEAN
        PROVE  GnssTypes /\ SleepAfterFix(readable) => GnssTypes'
    BY DEF SleepAfterFix, GiveFix
  <2> HIDE DEF GnssTypes
  <2> QED
    BY <2>1, <2>2, <2>3 DEF LteNext, Other
<1>5. LedTypes /\ [LteNext]_trackerVars => LedTypes'
  <2> USE DEF LedTypes, Status
  <2>1. LedTypes /\ Main => LedTypes'
    BY DEF Main, ModemConfigure, FirstDeactivate, DeactivateLte,
       ButtonsInit, GnssInitAndStart, TakeGnssFix, ActivateLte, TakeLteConnected,
       ServerResolve, ServerConnect, ClientPostSend, HandleResponse, CloseSock,
       Rest, ResetStatus, ShutDown
  <2>2. LedTypes /\ Other => LedTypes'
    BY DEF Other, Recv, Register, Lose, LteHandler, Searching,
       ButtonHandler, trackerVars
  <2>3. ASSUME NEW readable \in BOOLEAN
        PROVE  LedTypes /\ SleepAfterFix(readable) => LedTypes'
    BY DEF SleepAfterFix, GiveFix
  <2> HIDE DEF LedTypes
  <2> QED
    BY <2>1, <2>2, <2>3 DEF LteNext, Other
<1>6. LteTypeOK => PlaceTypes /\ LteTypes /\ FixTypes /\ GnssTypes /\ LedTypes
  BY DEF LteTypeOK, PlaceTypes, LteTypes, FixTypes, GnssTypes, LedTypes
<1>7. PlaceTypes' /\ LteTypes' /\ FixTypes' /\ GnssTypes' /\ LedTypes' => LteTypeOK'
  BY DEF LteTypeOK, PlaceTypes, LteTypes, FixTypes, GnssTypes, LedTypes
<1> QED
  BY <1>1, <1>2, <1>3, <1>4, <1>5, <1>6, <1>7

\* ... what the semaphore can hold at each place of main(), ...
LEMMA TokenStep == LteTypeOK /\ TokenInv /\ ModeInv /\ [LteNext]_trackerVars => TokenInv'
<1> SUFFICES ASSUME LteTypeOK, TokenInv, ModeInv, [LteNext]_trackerVars PROVE TokenInv'
  OBVIOUS
<1> USE DEF LteTypeOK, TokenInv, Tokens, Goto, lteVars, fixVars, ledVars
<1>1. ASSUME Main PROVE TokenInv'
  <2>1. CASE ModemConfigure \/ FirstDeactivate \/ ButtonsInit \/ GnssInitAndStart
    BY <2>1 DEF ModemConfigure, FirstDeactivate, DeactivateLte, ButtonsInit,
       GnssInitAndStart
  <2>2. CASE TakeGnssFix
    BY <2>2 DEF TakeGnssFix
  <2>3. CASE ActivateLte
    BY <2>3 DEF ActivateLte
  <2>4. CASE TakeLteConnected
    BY <2>4 DEF TakeLteConnected, IsConnected
  <2>5. CASE ServerResolve \/ ServerConnect \/ ClientPostSend
    BY <2>5 DEF ServerResolve, ServerConnect, ClientPostSend
  <2>6. CASE HandleResponse \/ Rest \/ ResetStatus \/ ShutDown
    BY <2>6 DEF HandleResponse, Rest, DeactivateLte, ResetStatus, ShutDown
  <2> QED
    BY <1>1, <2>1, <2>2, <2>3, <2>4, <2>5, <2>6 DEF Main
<1>2. ASSUME Register PROVE TokenInv'
  BY <1>2 DEF Register, ModeInv
<1>3. ASSUME Recv \/ Lose \/ LteHandler PROVE TokenInv'
  BY <1>3 DEF Recv, Lose, LteHandler
<1>4. ASSUME NEW readable \in BOOLEAN, SleepAfterFix(readable) PROVE TokenInv'
  BY <1>4 DEF SleepAfterFix
<1>5. ASSUME Searching \/ ButtonHandler PROVE TokenInv'
  BY <1>5 DEF Searching, ButtonHandler
<1>6. ASSUME UNCHANGED trackerVars PROVE TokenInv'
  BY <1>6 DEF trackerVars
<1> QED
  BY <1>1, <1>2, <1>3, <1>4, <1>5, <1>6 DEF LteNext

\* ... and what the mode and the socket are there.
LEMMA ModeStep == LteTypeOK /\ ModeInv /\ [LteNext]_trackerVars => ModeInv'
<1> SUFFICES ASSUME LteTypeOK, ModeInv, [LteNext]_trackerVars PROVE ModeInv'
  OBVIOUS
<1> USE DEF LteTypeOK, ModeInv, Goto, lteVars, fixVars, ledVars
<1>1. ASSUME Main PROVE ModeInv'
  <2>1. CASE ModemConfigure \/ FirstDeactivate \/ ButtonsInit \/ GnssInitAndStart
    BY <2>1 DEF ModemConfigure, FirstDeactivate, DeactivateLte, ButtonsInit,
       GnssInitAndStart
  <2>2. CASE TakeGnssFix \/ ActivateLte \/ TakeLteConnected
    BY <2>2 DEF TakeGnssFix, ActivateLte, TakeLteConnected
  <2>3. CASE ServerResolve \/ ServerConnect \/ ClientPostSend
    BY <2>3 DEF ServerResolve, ServerConnect, ClientPostSend
  <2>4. CASE HandleResponse \/ Rest \/ ResetStatus \/ ShutDown
    BY <2>4 DEF HandleResponse, CloseSock, Rest, DeactivateLte, ResetStatus,
       ShutDown
  <2> QED
    BY <1>1, <2>1, <2>2, <2>3, <2>4 DEF Main
<1>2. ASSUME Recv \/ Register \/ Lose \/ LteHandler PROVE ModeInv'
  BY <1>2 DEF Recv, Register, Lose, LteHandler
<1>3. ASSUME NEW readable \in BOOLEAN, SleepAfterFix(readable) PROVE ModeInv'
  BY <1>3 DEF SleepAfterFix
<1>4. ASSUME Searching \/ ButtonHandler PROVE ModeInv'
  BY <1>4 DEF Searching, ButtonHandler
<1>5. ASSUME UNCHANGED trackerVars PROVE ModeInv'
  BY <1>5 DEF trackerVars
<1> QED
  BY <1>1, <1>2, <1>3, <1>4, <1>5 DEF LteNext

\* Every reachable state satisfies the inductive invariant.
THEOREM TrackerInvariant == LteSpec => []Inv
<1>1. Inv /\ [LteNext]_trackerVars => Inv'
  BY TypeStep, TokenStep, ModeStep DEF Inv
<1> QED
  BY InitInv, <1>1, PTL DEF LteSpec

\* main() goes on to the server only with a registration since LTE was
\* switched on, or with one that it had not waited for.
THEOREM EarlyOnly == LteSpec => []EarlyOnlyWithSpare
<1>1. Inv => EarlyOnlyWithSpare
  BY DEF Inv, TokenInv, EarlyOnlyWithSpare
<1> QED
  BY TrackerInvariant, <1>1, PTL

\* Whenever main() waits for a fix, LTE is off and the socket closed.
THEOREM WaitsInGnss == LteSpec => []RestsInGnss
<1>1. Inv => RestsInGnss
  BY DEF Inv, ModeInv, RestsInGnss
<1> QED
  BY TrackerInvariant, <1>1, PTL
=============================================================================
