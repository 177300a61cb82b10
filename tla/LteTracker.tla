----------------------------- MODULE LteTracker -----------------------------
(***************************************************************************)
(* lte_tests/src/main.c: wait for a fix, switch LTE on, send the fix to    *)
(* the server, switch LTE off.  main() waits on two binary semaphores that *)
(* the handlers of GNSS and LTE events give.  A registration is told to    *)
(* lte_handler() some time after it happened.                              *)
(***************************************************************************)
VARIABLES
  pc,           \* where main() is
  mode,         \* functional mode of the modem: LTE is on when "normal"
  registered, news,  \* the modem is registered; lte_handler() is to be told
  lteConnected, gnssFix,  \* the semaphores
  gnss,         \* GNSS was started
  resolved,     \* resolve_address_lock
  sock,         \* the socket: "none" or "open"
  status, leds, toogle,  \* device_status; the LEDs that are on
  waiting,      \* history: a fix was read that is in no request yet
  came,         \* history: registered since LTE was switched on last
  spare         \* history: a registration was reported that main() did not
                \* wait for

lteVars == <<registered, news, lteConnected, came, spare>>
fixVars == <<gnssFix, waiting>>
ledVars == <<status, leds, toogle>>
trackerVars == <<pc, mode, registered, news, lteConnected, gnssFix, gnss,
                 resolved, sock, status, leds, toogle, waiting, came, spare>>

Status == {"nolte", "searching", "fixed"}

LteTypeOK ==
  /\ pc \in {"configure", "deactivate", "buttons", "start", "fix", "activate",
             "lte", "resolve", "connect", "send", "recv", "response",
             "rest", "fail", "shutdown", "stopped", "returned"}
  /\ mode \in {"off", "normal", "gnss"}
  /\ registered \in BOOLEAN /\ news \in BOOLEAN
  /\ lteConnected \in BOOLEAN /\ gnssFix \in BOOLEAN
  /\ gnss \in BOOLEAN /\ resolved \in BOOLEAN
  /\ sock \in {"none", "open"}
  /\ status \in Status /\ leds \subseteq Status /\ toogle \in BOOLEAN
  /\ waiting \in BOOLEAN /\ came \in BOOLEAN /\ spare \in BOOLEAN

LteInit ==
  /\ pc = "configure" /\ mode = "off" /\ sock = "none"
  /\ registered = FALSE /\ news = FALSE /\ came = FALSE /\ spare = FALSE
  /\ lteConnected = FALSE /\ gnssFix = FALSE /\ waiting = FALSE
  /\ gnss = FALSE /\ resolved = FALSE
  /\ status = "nolte" /\ leds = {} /\ toogle = TRUE

-----------------------------------------------------------------------------
(* Events.                                                                 *)

GiveNoFix == UNCHANGED gnssFix                              \* a mutant of GiveFix
GiveFix == gnssFix' = TRUE

\* NRF_MODEM_GNSS_EVT_SLEEP_AFTER_FIX; the position can be read or not.
SleepAfterFix(readable) ==
  /\ gnss
  /\ status' = "fixed"
  /\ IF readable
       THEN GiveFix /\ waiting' = TRUE
       ELSE UNCHANGED fixVars
  /\ UNCHANGED <<pc, mode, lteVars, gnss, resolved, sock, leds, toogle>>

\* NRF_MODEM_GNSS_EVT_PVT; the other events change nothing.
Searching ==
  /\ gnss
  /\ status' = "searching"
  /\ UNCHANGED <<pc, mode, lteVars, fixVars, gnss, resolved, sock, leds, toogle>>

\* The modem registers, tells the library, and may lose the network.
Register ==
  /\ mode = "normal" /\ ~registered
  /\ registered' = TRUE /\ news' = TRUE /\ came' = TRUE
  /\ spare' = (spare \/ came \/ pc = "deactivate")
  /\ UNCHANGED <<pc, mode, lteConnected, fixVars, gnss, resolved, sock, ledVars>>

Lose ==
  /\ registered
  /\ registered' = FALSE
  /\ UNCHANGED <<pc, mode, news, lteConnected, came, spare, fixVars, gnss,
                 resolved, sock, ledVars>>

\* LTE_LC_EVT_NW_REG_STATUS, registered; the other events change nothing.
LteHandler ==
  /\ news
  /\ news' = FALSE
  /\ lteConnected' = TRUE
  /\ UNCHANGED <<pc, mode, registered, came, spare, fixVars, gnss, resolved,
                 sock, ledVars>>

\* Button 1.
ButtonHandler ==
  /\ pc \notin {"configure", "deactivate", "buttons"}
  /\ leds' = IF toogle THEN leds \cup {status} ELSE {}
  /\ toogle' = ~toogle
  /\ UNCHANGED <<pc, mode, lteVars, fixVars, gnss, resolved, sock, status>>

-----------------------------------------------------------------------------
(* main()                                                                  *)

Goto(from, to) ==
  /\ pc = from
  /\ pc' = to
  /\ UNCHANGED <<leds, toogle>>

\* modem_configure() up to lte_lc_connect_async(), which switches LTE on.
ModemConfigure ==
  /\ \/ Goto("configure", "deactivate") /\ mode' = "normal"
     \/ Goto("configure", "returned") /\ UNCHANGED mode
  /\ UNCHANGED <<lteVars, fixVars, gnss, resolved, sock, status>>

\* lte_lc_func_mode_set(LTE_LC_FUNC_MODE_DEACTIVATE_LTE).
DeactivateLte ==
  /\ mode' = "gnss"
  /\ registered' = FALSE
  /\ UNCHANGED <<news, lteConnected, came, spare>>

FirstDeactivate ==
  /\ \/ Goto("deactivate", "buttons") /\ DeactivateLte
     \/ Goto("deactivate", "returned") /\ UNCHANGED <<mode, lteVars>>
  /\ UNCHANGED <<fixVars, gnss, resolved, sock, status>>

ButtonsInit ==
  /\ \E to \in {"start", "returned"} : Goto("buttons", to)
  /\ UNCHANGED <<mode, lteVars, fixVars, gnss, resolved, sock, status>>

\* main() does not look at the result: GNSS may not have been started.
GnssInitAndStart ==
  /\ Goto("start", "fix")
  /\ gnss' \in BOOLEAN
  /\ UNCHANGED <<mode, lteVars, fixVars, resolved, sock, status>>

TakeGnssFix ==
  /\ Goto("fix", "activate")
  /\ gnssFix /\ gnssFix' = FALSE
  /\ UNCHANGED <<mode, lteVars, gnss, resolved, sock, status, waiting>>

ActivateLte ==
  /\ \/ /\ Goto("activate", "lte")
        /\ mode' = "normal"
        /\ came' = FALSE
        /\ spare' = (spare /\ (lteConnected \/ news))
     \/ Goto("activate", "fail") /\ UNCHANGED <<mode, came, spare>>
  /\ UNCHANGED <<registered, news, lteConnected, fixVars, gnss, resolved, sock,
                 status>>

NotWaiting == TRUE                                      \* a mutant of IsConnected
IsConnected == lteConnected

TakeLteConnected ==
  /\ Goto("lte", IF resolved THEN "connect" ELSE "resolve")
  /\ IsConnected /\ lteConnected' = FALSE
  /\ UNCHANGED <<mode, registered, news, came, spare, fixVars, gnss, resolved,
                 sock, status>>

ServerResolve ==
  /\ \/ Goto("resolve", "connect") /\ registered /\ resolved' = TRUE
     \/ Goto("resolve", "returned") /\ UNCHANGED resolved
  /\ UNCHANGED <<mode, lteVars, fixVars, gnss, sock, status>>

\* A failure after socket() leaves the socket open.
ServerConnect ==
  /\ \/ Goto("connect", "send") /\ registered /\ sock' = "open"
     \/ Goto("connect", "returned") /\ sock' \in {"none", "open"}
  /\ UNCHANGED <<mode, lteVars, fixVars, gnss, resolved, status>>

\* client_post_send(): current_pvt as it is now.
ClientPostSend ==
  /\ \E to \in {"recv", "fail"} : Goto("send", to)
  /\ waiting' = FALSE
  /\ UNCHANGED <<mode, lteVars, gnssFix, gnss, resolved, sock, status>>

\* Something is received, or an error.  An answer that is lost never is.
Recv ==
  /\ \E to \in {"response", "fail"} : Goto("recv", to)
  /\ UNCHANGED <<mode, lteVars, fixVars, gnss, resolved, sock, status>>

CloseSock == sock' = "none"

\* A response with a wrong token is as good as one with the right token.
HandleResponse ==
  /\ \/ Goto("response", "rest") /\ CloseSock
     \/ Goto("response", "fail") /\ UNCHANGED sock
  /\ UNCHANGED <<mode, lteVars, fixVars, gnss, resolved, status>>

Rest ==
  /\ \/ Goto("rest", "fix") /\ DeactivateLte
     \/ Goto("rest", "fail") /\ UNCHANGED <<mode, lteVars>>
  /\ UNCHANGED <<fixVars, gnss, resolved, sock, status>>

ResetStatus ==
  /\ Goto("fail", "shutdown")
  /\ status' = "nolte"
  /\ UNCHANGED <<mode, lteVars, fixVars, gnss, resolved, sock>>

\* lte_lc_power_off() and nrf_modem_lib_shutdown().
ShutDown ==
  /\ Goto("shutdown", "stopped")
  /\ mode' = "off" /\ gnss' = FALSE
  /\ registered' = FALSE /\ news' = FALSE
  /\ UNCHANGED <<lteConnected, came, spare, fixVars, resolved, sock, status>>

Main ==
  \/ ModemConfigure \/ FirstDeactivate \/ ButtonsInit \/ GnssInitAndStart
  \/ TakeGnssFix \/ ActivateLte \/ TakeLteConnected \/ ServerResolve
  \/ ServerConnect \/ ClientPostSend \/ HandleResponse \/ Rest
  \/ ResetStatus \/ ShutDown

LteNext ==
  \/ Main \/ Recv
  \/ Register \/ Lose \/ LteHandler
  \/ \E readable \in BOOLEAN : SleepAfterFix(readable)
  \/ Searching \/ ButtonHandler

LteSpec == LteInit /\ [][LteNext]_trackerVars

-----------------------------------------------------------------------------
(* Properties.                                                             *)

\* main() goes on to the server only when LTE was registered since it was
\* switched on, or when an earlier registration, at start or a second one in
\* the same period of LTE, left a token in lte_connected.
EarlyOnlyWithSpare == pc \in {"resolve", "connect"} => came \/ spare

\* While main() waits for a fix LTE is off, and the socket closed.
RestsInGnss == pc = "fix" => mode = "gnss" /\ ~registered /\ sock = "none"

\* A fix that was read gets into a request, when LTE registers after it was
\* switched on, unless the program stops or an answer is lost.
FixSent ==
  waiting ~> ~waiting \/ pc \in {"recv", "stopped", "returned"}
=============================================================================
