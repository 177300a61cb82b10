---------------------------- MODULE HrAdvertiser ----------------------------
(***************************************************************************)
(* peripheral_hr_coded_multi/src/main.c: two connectable advertising sets, *)
(* one on the coded PHY, that work items start again when a link ends.     *)
(* Which of them is chosen by the PHY that the lost link had at its end,   *)
(* and a peer may have changed that (CONFIG_BT_USER_PHY_UPDATE).  A set    *)
(* that advertises and a link each take one of the connection objects.     *)
(***************************************************************************)
EXTENDS Naturals, FiniteSets

CONSTANT MaxConn   \* CONFIG_BT_MAX_CONN

ASSUME HrAssumption == MaxConn \in Nat \ {0}

VARIABLES
  hrMain,     \* where main() is
  hrAdv,      \* the sets that advertise
  hrWork,     \* the sets whose work item is queued
  hrLink,     \* each connection object's link: the set it came by, its PHY
  unserved    \* history: sets whose start was left out or refused

hrVars == <<hrMain, hrAdv, hrWork, hrLink, unserved>>

\* The advertising sets and, by the same names, the PHYs they are for: tx_phy
\* is 4 on "coded" alone.
AdvSet == {"coded", "regular"}
Obj == 1 .. MaxConn
NoLink == <<>>
Link == AdvSet \X AdvSet

HrTypeOK ==
  /\ hrMain \in {"boot", "ready", "registered"}
  /\ hrAdv \subseteq AdvSet /\ hrWork \subseteq AdvSet
  /\ hrLink \in [Obj -> {NoLink} \cup Link]
  /\ unserved \subseteq AdvSet

HrInit ==
  /\ hrMain = "boot"
  /\ hrAdv = {} /\ hrWork = {} /\ unserved = {}
  /\ hrLink = [o \in Obj |-> NoLink]

Via(o) == hrLink[o][1]
Phy(o) == hrLink[o][2]
Linked == {o \in Obj : hrLink[o] # NoLink}
ObjectLeft == Cardinality(Linked) + Cardinality(hrAdv) < MaxConn

-----------------------------------------------------------------------------

\* bt_ready(): both sets are created, or main() goes on without them.
HrReady(created) ==
  /\ hrMain = "boot" /\ hrMain' = "ready"
  /\ hrWork' = IF created THEN AdvSet ELSE {}
  /\ unserved' = IF created THEN {} ELSE AdvSet
  /\ UNCHANGED <<hrAdv, hrLink>>

\* Links that come and go earlier than this are not told to the program.
HrRegister ==
  /\ hrMain = "ready" /\ hrMain' = "registered"
  /\ UNCHANGED <<hrAdv, hrWork, hrLink, unserved>>

\* start_advertising_coded() and start_advertising_regular(): a set that is
\* started already, and one without an object, is refused, and the controller
\* may refuse any.
StartAdvertising(s, accepted) ==
  /\ s \in hrWork /\ hrWork' = hrWork \ {s}
  /\ IF s \notin hrAdv /\ ObjectLeft
       THEN /\ hrAdv' = IF accepted THEN hrAdv \cup {s} ELSE hrAdv
            /\ unserved' = IF accepted THEN unserved \ {s} ELSE unserved \cup {s}
       ELSE UNCHANGED <<hrAdv, unserved>>
  /\ UNCHANGED <<hrMain, hrLink>>

\* A peer connects by a set, which the controller stops.
HrConnected(s, o) ==
  /\ s \in hrAdv /\ hrAdv' = hrAdv \ {s}
  /\ hrLink[o] = NoLink /\ hrLink' = [hrLink EXCEPT ![o] = <<s, s>>]
  /\ UNCHANGED <<hrMain, hrWork, unserved>>

PhyUpdate(o, phy) ==
  /\ o \in Linked
  /\ hrLink' = [hrLink EXCEPT ![o] = <<Via(o), phy>>]
  /\ UNCHANGED <<hrMain, hrAdv, hrWork, unserved>>

OtherSet(o) == CHOOSE s \in AdvSet : s # Phy(o)    \* a mutant of SetToRestart
SetToRestart(o) == Phy(o)

\* disconnected(): bt_conn_get_info() may fail, and then nothing is started.
HrDisconnected(o, known) ==
  /\ o \in Linked /\ hrLink' = [hrLink EXCEPT ![o] = NoLink]
  /\ IF hrMain = "registered" /\ known
       THEN /\ hrWork' = hrWork \cup {SetToRestart(o)}
            /\ unserved' = IF Phy(o) = Via(o) THEN unserved
                                              ELSE unserved \cup {Via(o)}
       ELSE unserved' = unserved \cup {Via(o)} /\ UNCHANGED hrWork
  /\ UNCHANGED <<hrMain, hrAdv>>

HrNext ==
  \/ \E ok \in BOOLEAN : HrReady(ok)
  \/ HrRegister
  \/ \E s \in AdvSet, ok \in BOOLEAN : StartAdvertising(s, ok)
  \/ \E s \in AdvSet, o \in Obj : HrConnected(s, o)
  \/ \E o \in Obj, phy \in AdvSet : PhyUpdate(o, phy)
  \/ \E o \in Obj, ok \in BOOLEAN : HrDisconnected(o, ok)

HrSpec == HrInit /\ [][HrNext]_hrVars

-----------------------------------------------------------------------------
(* Properties.                                                             *)

\* Each set advertises, or serves a link, or is about to be started again,
\* unless its own last link ended on the other PHY or without its PHY being
\* known (before the callbacks were registered, or for an error), or the
\* controller refused it.  A start is never lost for want of an object or
\* because of the other set.
SetsServed ==
  hrMain # "boot" =>
    \A s \in AdvSet : s \in hrAdv \cup hrWork \cup unserved
                        \/ \E o \in Linked : Via(o) = s
=============================================================================
