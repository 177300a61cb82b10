----------------------------- MODULE CtsClient -----------------------------
(***************************************************************************)
(* peripheral_cts_client/src/main.c: a peripheral that looks for the       *)
(* Current Time Service of whoever connects, and subscribes to it when it  *)
(* was found and the link is encrypted.  The library's cts_c keeps the     *)
(* connection and the handles of the last discovery, also when the link is *)
(* gone.  Links are numbered; a peer may do without the service.           *)
(***************************************************************************)
EXTENDS Naturals

CONSTANT MaxLinks   \* bound: links one after the other

ASSUME CtsAssumption == MaxLinks \in Nat

VARIABLES
  ctsAdv,       \* advertising is on
  linkNo,       \* the number of the last link
  ctsLink,      \* the link: "closing" once the program has ended it
  serves,       \* its peer has the service
  discovering,  \* bt_gatt_dm_start() was called and no callback yet
  hasCts,       \* has_cts
  handles,      \* the link on which cts_c was assigned, 0 for none
  secured,      \* the link is encrypted, BT_SECURITY_L2
  securing,     \* its security is being raised
  secNews,      \* security_changed() to be called: "none", "ok" or "failed"
  subscribed,   \* the stack took the subscription of cts_c
  read, early,  \* handles that a read in flight uses; has_cts was false then
  ctsGivenUp    \* history: a call or a procedure of this link failed

ctsSecVars == <<secured, securing, secNews>>
ctsReadVars == <<read, early>>
ctsVars == <<ctsAdv, linkNo, ctsLink, serves, discovering, hasCts, handles,
             ctsSecVars, subscribed, ctsReadVars, ctsGivenUp>>

Links == 0 .. MaxLinks

CtsTypeOK ==
  /\ ctsAdv \in BOOLEAN /\ linkNo \in Links
  /\ ctsLink \in {"none", "up", "closing"} /\ serves \in BOOLEAN
  /\ discovering \in BOOLEAN /\ hasCts \in BOOLEAN /\ handles \in Links
  /\ secured \in BOOLEAN /\ securing \in BOOLEAN
  /\ secNews \in {"none", "ok", "failed"}
  /\ subscribed \in BOOLEAN /\ read \in Links /\ early \in BOOLEAN
  /\ ctsGivenUp \in BOOLEAN

CtsInit ==
  /\ ctsAdv = FALSE /\ linkNo = 0 /\ ctsLink = "none" /\ serves = FALSE
  /\ discovering = FALSE /\ hasCts = FALSE /\ handles = 0
  /\ secured = FALSE /\ securing = FALSE /\ secNews = "none"
  /\ subscribed = FALSE /\ read = 0 /\ early = FALSE /\ ctsGivenUp = FALSE

-----------------------------------------------------------------------------

\* The end of main(): a start of advertising that the stack keeps up.
CtsAdvStart ==
  /\ ~ctsAdv /\ linkNo = 0
  /\ ctsAdv' = TRUE
  /\ UNCHANGED <<linkNo, ctsLink, serves, discovering, hasCts, handles,
                 ctsSecVars, subscribed, ctsReadVars, ctsGivenUp>>

KeepHasCts == UNCHANGED hasCts                          \* a mutant of ForgetCts
ForgetCts == hasCts' = FALSE

\* connected(): bt_gatt_dm_start() may be refused.
CtsConnected(service, started) ==
  /\ ctsAdv /\ linkNo < MaxLinks
  /\ ctsAdv' = FALSE /\ ctsLink' = "up"
  /\ linkNo' = linkNo + 1 /\ serves' = service
  /\ ForgetCts
  /\ discovering' = started /\ ctsGivenUp' = ~started
  /\ UNCHANGED <<handles, ctsSecVars, subscribed, ctsReadVars>>

\* enable_notifications(): a second subscription is refused and changes
\* nothing; a first one is taken or not.
EnableNotifications(found) ==
  IF found /\ secured /\ ~subscribed
    THEN \E taken \in BOOLEAN :
           subscribed' = taken /\ ctsGivenUp' = (ctsGivenUp \/ ~taken)
    ELSE UNCHANGED <<subscribed, ctsGivenUp>>

\* bt_conn_set_security()
SetSecurity(taken) ==
  /\ securing' = (securing \/ taken)
  /\ ctsGivenUp' = (ctsGivenUp \/ ~taken)

\* discover_completed_cb(): the handles are assigned or not.
DiscoverCompleted(assigned) ==
  /\ discovering /\ discovering' = FALSE
  /\ serves
  /\ IF assigned
       THEN /\ hasCts' = TRUE /\ handles' = linkNo
            /\ IF secured
                 THEN EnableNotifications(TRUE) /\ UNCHANGED securing
                 ELSE /\ \E taken \in BOOLEAN : SetSecurity(taken)
                      /\ UNCHANGED subscribed
       ELSE /\ ctsGivenUp' = TRUE
            /\ UNCHANGED <<hasCts, handles, securing, subscribed>>
  /\ UNCHANGED <<ctsAdv, linkNo, ctsLink, serves, secured, secNews, ctsReadVars>>

\* discover_service_not_found_cb() and discover_error_found_cb() only log.
DiscoverFailed ==
  /\ discovering /\ discovering' = FALSE
  /\ ctsGivenUp' = TRUE
  /\ UNCHANGED <<ctsAdv, linkNo, ctsLink, serves, hasCts, handles, ctsSecVars,
                 subscribed, ctsReadVars>>

-----------------------------------------------------------------------------
(* Security: either end may start it, and the stack reports how it ended.  *)

PeerSecures ==
  /\ ctsLink = "up" /\ ~secured /\ securing' = TRUE
  /\ UNCHANGED <<ctsAdv, linkNo, ctsLink, serves, discovering, hasCts, handles,
                 secured, secNews, subscribed, ctsReadVars, ctsGivenUp>>

SecurityEnds(ok) ==
  /\ ctsLink = "up" /\ securing /\ secNews = "none"
  /\ securing' = FALSE
  /\ secured' = (secured \/ ok) /\ secNews' = IF ok THEN "ok" ELSE "failed"
  /\ UNCHANGED <<ctsAdv, linkNo, ctsLink, serves, discovering, hasCts, handles,
                 subscribed, ctsReadVars, ctsGivenUp>>

SecurityChangedOnlyLogs ==                       \* a mutant of SecurityChanged
  /\ ctsLink # "none" /\ secNews # "none" /\ secNews' = "none"
  /\ ctsGivenUp' = (ctsGivenUp \/ secNews = "failed")
  /\ UNCHANGED <<ctsAdv, linkNo, ctsLink, serves, discovering, hasCts, handles,
                 secured, securing, subscribed, ctsReadVars>>

\* pairing_failed(), and auth_cancel() too: bt_conn_disconnect()
PairingFailed == ctsLink' = "closing"

\* security_changed().  A key that was refused leaves the link open, a pairing
\* that failed does not.
SecurityChanged ==
  /\ ctsLink # "none" /\ secNews # "none" /\ secNews' = "none"
  /\ IF secNews = "ok"
       THEN EnableNotifications(hasCts) /\ UNCHANGED ctsLink
       ELSE /\ PairingFailed \/ UNCHANGED ctsLink
            /\ ctsGivenUp' = TRUE
            /\ UNCHANGED subscribed
  /\ UNCHANGED <<ctsAdv, linkNo, serves, discovering, hasCts, handles, secured,
                 securing, ctsReadVars>>

-----------------------------------------------------------------------------

\* The stack ends what runs on the link and advertises again; disconnected()
\* forgets nothing.
CtsDisconnected ==
  /\ ctsLink # "none" /\ ctsLink' = "none"
  /\ discovering' = FALSE /\ subscribed' = FALSE /\ read' = 0
  /\ secured' = FALSE /\ securing' = FALSE /\ secNews' = "none"
  /\ ctsAdv' = TRUE
  /\ UNCHANGED <<linkNo, serves, hasCts, handles, early, ctsGivenUp>>

\* KEY_READ_TIME: the handler does not look at has_cts.  Before the first
\* discovery, or without a link, there is nothing to read from.
ReadTime ==
  /\ ctsLink = "up" /\ read = 0 /\ handles # 0
  /\ read' = handles /\ early' = ~hasCts
  /\ UNCHANGED <<ctsAdv, linkNo, ctsLink, serves, discovering, hasCts, handles,
                 ctsSecVars, subscribed, ctsGivenUp>>

ReadCurrentTime ==
  /\ read # 0 /\ read' = 0
  /\ UNCHANGED <<ctsAdv, linkNo, ctsLink, serves, discovering, hasCts, handles,
                 ctsSecVars, subscribed, early, ctsGivenUp>>

DiscoveryEnds ==
  (\E assigned \in BOOLEAN : DiscoverCompleted(assigned)) \/ DiscoverFailed

SecurityReported == \E ok \in BOOLEAN : SecurityEnds(ok)

CtsNext ==
  \/ CtsAdvStart
  \/ \E service, started \in BOOLEAN : CtsConnected(service, started)
  \/ DiscoveryEnds
  \/ PeerSecures
  \/ SecurityReported
  \/ SecurityChanged
  \/ CtsDisconnected
  \/ ReadTime \/ ReadCurrentTime

CtsSpec == CtsInit /\ [][CtsNext]_ctsVars

-----------------------------------------------------------------------------
(* Properties.                                                             *)

\* What has_cts vouches for was found on the present link: a subscription is
\* one of an encrypted link with the handles of its own peer, and a read goes
\* out with the handles of an earlier peer only when the button was pressed
\* before the discovery of the present link had ended.
HandlesOfLink ==
  /\ ctsLink # "none" /\ hasCts => handles = linkNo
  /\ subscribed => hasCts /\ secured
  /\ read \notin {0, linkNo} => early

\* Whatever ends last, the discovery or the encryption, the time of a peer
\* that has the service is subscribed to, unless the link is lost or ended
\* or a procedure fails.
TimeSubscribed ==
  ctsLink = "up" /\ serves ~> subscribed \/ ctsGivenUp \/ ctsLink # "up"
=============================================================================
