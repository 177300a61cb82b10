----------------------------- MODULE MCPrograms -----------------------------
(***************************************************************************)
(* The programs that are one module each, for TLC.  They have nothing to   *)
(* do with each other: a behaviour is one of any one of them, while the    *)
(* other ones stay in their initial states.                                *)
(***************************************************************************)
EXTENDS DualUart, LteTracker, NusLink, CtsClient, DualRole, HrAdvertiser,
        IntervalBeacon, UartWakeup

CONSTANT Programs    \* those that are checked

VARIABLE program     \* the one that runs

wiredVars == <<vars, trackerVars, wakeVars>>
peripheralVars == <<nusLinkVars, ctsVars, dualVars>>
advertiserVars == <<hrVars, beaconVars>>
programVars == <<program, wiredVars, peripheralVars, advertiserVars>>

Both == {"uart0", "uart1"}

\* What Init leaves open is of interest in the program that runs.
MCInit ==
  /\ program \in Programs
  /\ Init /\ LteInit /\ WakeInit
  /\ NusLinkInit /\ CtsInit /\ DualInit
  /\ HrInit /\ BeaconInit
  /\ program # "uart_wakeup_rx" => uartReady
  /\ program # "peripheral_and_central" => objects = 1

Wired(p, A) ==
  program = p /\ A /\ UNCHANGED <<program, peripheralVars, advertiserVars>>
Peripheral(p, A) ==
  program = p /\ A /\ UNCHANGED <<program, wiredVars, advertiserVars>>
Advertiser(p, A) ==
  program = p /\ A /\ UNCHANGED <<program, wiredVars, peripheralVars>>

Printer(A) == Wired("dual_uart_int", A /\ UNCHANGED <<trackerVars, wakeVars>>)
Track(A) == Wired("lte_tests", A /\ UNCHANGED <<vars, wakeVars>>)
Wake(A) == Wired("uart_wakeup_rx", A /\ UNCHANGED <<vars, trackerVars>>)
Bridge(A) == Peripheral("peripheral_uart_beacon", A /\ UNCHANGED <<ctsVars, dualVars>>)
Clock(A) == Peripheral("peripheral_cts_client", A /\ UNCHANGED <<nusLinkVars, dualVars>>)
Relay(A) == Peripheral("peripheral_and_central", A /\ UNCHANGED <<nusLinkVars, ctsVars>>)
HeartRate(A) == Advertiser("peripheral_hr_coded_multi", A /\ UNCHANGED beaconVars)
Beacon(A) == Advertiser("interval_beacon", A /\ UNCHANGED hrVars)

MCNext ==
  \/ Printer(Next) \/ Track(LteNext) \/ Wake(WakeNext)
  \/ Bridge(NusLinkNext) \/ Clock(CtsNext) \/ Relay(DualNext)
  \/ HeartRate(HrNext) \/ Beacon(BeaconNext)

\* In the tracker main() goes on, the modem registers as long as LTE is on,
\* and lte_handler() is told.  In the CTS client what was begun with the peer
\* ends, and security_changed() is called.  The beacon's work items run.
MCSpec ==
  /\ MCInit /\ [][MCNext]_programVars
  /\ WF_programVars(Track(Main))
  /\ WF_programVars(Track(Register))
  /\ WF_programVars(Track(LteHandler))
  /\ WF_programVars(Clock(DiscoveryEnds))
  /\ WF_programVars(Clock(SecurityReported))
  /\ WF_programVars(Clock(SecurityChanged))
  /\ WF_programVars(Beacon(BeaconWork))

\* The variables of every program keep their types.
Types ==
  /\ TypeOK /\ LteTypeOK /\ WakeTypeOK
  /\ NusLinkTypeOK /\ CtsTypeOK /\ DualTypeOK
  /\ HrTypeOK /\ BeaconTypeOK
=============================================================================
