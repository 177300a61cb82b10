------------------------------ MODULE GnssCoap ------------------------------
(***************************************************************************)
(* gnss_coap/src/main.c: positions, from the GNSS receiver or simulated,   *)
(* are sent to a CoAP server.  Three contexts share the static variables:  *)
(*   - interrupts (the timer, the buttons, GNSS events) preempt all else;  *)
(*   - the system work queue runs new_fix_work and coap_put_work, one at a *)
(*     time; it preempts main(), except while it waits for the modem, in   *)
(*     setsockopt() and send();                                            *)
(*   - main() connects and then receives, into the buffer in which         *)
(*     coap_put_work builds its requests.                                  *)
(* The server may answer any request that reached it, in any order and     *)
(* more than once.                                                         *)
(***************************************************************************)
EXTENDS Naturals, Sequences, SequencesExt

CONSTANT TokenMod     \* next_token is a uint16_t: tokens are counted modulo this

ASSUME GnssAssumption == TokenMod \in Nat \ {0, 1}

VARIABLES
  simulate,   \* the build: CONFIG_GNSS_SIMULATE_FIX
  lte,        \* LTE_Connection_Current_State
  pc,         \* where main() is
  sock,       \* what the descriptor in sock is
  ticking,    \* my_timer runs, or the GNSS receiver does
  queue, wq,  \* the work items that wait; where the running one is
  pvt, seen,  \* pvt_data, and the part of it new_fix_work has read
  payload,    \* coap_payload
  token,      \* next_token
  buf,        \* coap_buf
  answers,    \* tokens of requests that the server may answer
  sentToken,  \* history: token of the last request that left
  late,       \* history: what has overwritten pvt_data since new_fix_work was
              \* submitted for it: no fix, or another one while it is printed
  verdict,    \* history: what CompareToken said of the last datagram
  latest      \* history: where the newest fix is, or what became of it

netVars == <<answers, sentToken>>
fixVars == <<pvt, seen, late, latest>>
coapVars == <<token, buf>>
gnssVars == <<simulate, lte, pc, sock, ticking, queue, wq, pvt, seen, payload,
              token, buf, answers, sentToken, late, verdict, latest>>

Tokens == 0 .. TokenMod - 1
Packet == [kind : {"none", "request", "reply", "malformed"}, token : Tokens]
Queues == {<<>>, <<"fix">>, <<"put">>, <<"fix", "put">>, <<"put", "fix">>}
NoPacket == [kind |-> "none", token |-> 0]

MainTypes ==
  /\ simulate \in BOOLEAN
  /\ lte \in {"ON", "BUSY", "OFFLINE"}
  /\ pc \in {"start", "armed", "busy", "time", "socket", "connect", "random",
             "begin", "recv", "parse", "token", "done"}
  /\ sock \in {"zero", "none", "new", "open", "closed"}
  /\ ticking \in BOOLEAN

WorkTypes ==
  /\ queue \in Queues
  /\ wq \in {"idle", "read", "print", "put", "option", "send"}
  /\ pvt \in {"none", "fix", "no fix"} 
  /\ seen \in {"none", "fix", "no fix", "stale"}
  /\ payload \in {"none", "initial", "fix", "no fix", "mixed"}

CoapTypes ==
  /\ token \in Tokens
  /\ buf \in Packet
  /\ answers \subseteq Tokens
  /\ sentToken \in Tokens \cup {TokenMod}

HistoryTypes ==
  /\ late \in {"none", "fix", "no fix"}
  /\ verdict \in {"none", "taken", "refused"}
  /\ latest \in {"none", "pvt", "payload", "request", "sent", "dropped", "spoiled"}

\* Types; in particular, no work item is queued twice.
TypeOK == MainTypes /\ WorkTypes /\ CoapTypes /\ HistoryTypes

\* LTE_STATE_ON and descriptor 0 are what static variables start as.
Init ==
  /\ simulate \in BOOLEAN
  /\ lte = "ON" /\ pc = "start" /\ sock = "zero" /\ ticking = FALSE
  /\ queue = <<>> /\ wq = "idle"
  /\ pvt = "none" /\ seen = "none" /\ payload = "none"
  /\ token = 0 /\ buf = NoPacket
  /\ answers = {} /\ sentToken = TokenMod
  /\ late = "none" /\ verdict = "none" /\ latest = "none"

-----------------------------------------------------------------------------
(* Interrupts.                                                             *)

\* k_work_submit() does nothing for an item that is queued already.
Submit(item) ==
  queue' = IF item \in ToSet(queue) THEN queue ELSE Append(queue, item)

\* pvt_data is there for new_fix_work.
SubmitFix ==
  /\ Submit("fix")
  /\ latest' = "pvt"

\* The simulated fix is always the same one.
GnssSimulateFix ==
  /\ pvt' = "fix"
  /\ SubmitFix
  /\ UNCHANGED <<seen, late>>

TimerHandler ==
  /\ ticking /\ simulate
  /\ GnssSimulateFix
  /\ UNCHANGED <<simulate, lte, pc, sock, ticking, wq, payload, coapVars, netVars,
                 verdict>>

\* The first button.
ButtonPressed ==
  /\ pc # "start"
  /\ lte = "ON"
  /\ IF simulate THEN GnssSimulateFix ELSE Submit("put") /\ UNCHANGED fixVars
  /\ UNCHANGED <<simulate, lte, pc, sock, ticking, wq, payload, coapVars, netVars,
                 verdict>>

\* NRF_MODEM_GNSS_EVT_PVT: pvt_data is read, with a valid fix or not.
SubmitAlways(valid) == SubmitFix                              \* a mutant of NewPvt

NewPvt(valid) ==
  IF valid
    THEN SubmitFix
    ELSE /\ latest' = IF latest = "pvt" THEN "spoiled" ELSE latest
         /\ UNCHANGED queue

GnssEventHandler(valid) ==
  /\ ticking /\ ~simulate
  /\ pvt' = IF valid THEN "fix" ELSE "no fix"
  /\ NewPvt(valid)
  /\ seen' = IF wq = "print" THEN "stale" ELSE seen
  /\ late' = IF valid
               THEN IF wq = "print" THEN "fix" ELSE "none"
               ELSE IF "fix" \in ToSet(queue) \/ wq \in {"read", "print"}
                      THEN "no fix"
                      ELSE late
  /\ UNCHANGED <<simulate, lte, pc, sock, ticking, wq, payload, coapVars, netVars,
                 verdict>>

\* lte_handler(): a registration status; the others change nothing.
LteHandler(registered) ==
  /\ pc \notin {"start", "armed"}
  /\ lte' = IF registered THEN "ON" ELSE "OFFLINE"
  /\ UNCHANGED <<simulate, pc, sock, ticking, queue, wq, payload, fixVars,
                 coapVars, netVars, verdict>>

-----------------------------------------------------------------------------
(* The system work queue.                                                  *)

TakeItem ==
  /\ wq = "idle" /\ queue # <<>>
  /\ wq' = IF Head(queue) = "fix" THEN "read" ELSE "put"
  /\ queue' = Tail(queue)
  /\ UNCHANGED <<simulate, lte, pc, sock, ticking, payload, fixVars, coapVars,
                 netVars, verdict>>

\* new_fix_work_fn() reads latitude and longitude one after the other, and
\* prints them.
ReadFix ==
  /\ wq = "read"
  /\ wq' = "print"
  /\ seen' = pvt
  /\ UNCHANGED <<simulate, lte, pc, sock, ticking, queue, payload, pvt, late,
                 latest, coapVars, netVars, verdict>>

PrintOnly == UNCHANGED queue                                \* a mutant of SubmitPut
SubmitPut == Submit("put")

PrintFix ==
  /\ wq = "print"
  /\ wq' = "idle"
  /\ payload' = IF seen = pvt THEN pvt ELSE "mixed"
  /\ latest' = IF latest \notin {"pvt", "payload"} THEN latest
               ELSE IF payload' = "fix" THEN "payload"
               ELSE IF latest = "payload" THEN "spoiled" ELSE "pvt"
  /\ late' = IF late = "no fix" /\ "fix" \in ToSet(queue) THEN late ELSE "none"
  /\ SubmitPut
  /\ UNCHANGED <<simulate, lte, pc, sock, ticking, pvt, seen, coapVars, netVars,
                 verdict>>

\* What becomes of the newest fix when the place it is in is used.
Becomes(place, fate) == latest' = IF latest = place THEN fate ELSE latest

Built == [kind |-> "request", token |-> (token + 1) % TokenMod]

\* coap_put_work_fn() up to setsockopt(), which waits for the modem.  For the
\* descriptor 0 and for a closed one it fails at once, and the request is
\* dropped.  An answer does not come TokenMod requests after its request,
\* when the token is in use again.
BuildRequest ==
  /\ wq = "put"
  /\ IF sock \in {"new", "open"}
       THEN wq' = "option" /\ Becomes("payload", "request")
       ELSE wq' = "idle" /\ Becomes("payload", "dropped")
  /\ IF sock = "none"
       THEN UNCHANGED <<coapVars, answers>>
       ELSE /\ token' = (token + 1) % TokenMod
            /\ buf' = Built
            /\ answers' = answers \ {token'}
  /\ UNCHANGED <<simulate, lte, pc, sock, ticking, queue, pvt, seen, payload,
                 late, sentToken, verdict>>

\* The option SO_RAI_LAST is set, or cannot be.  Then send(), which waits for
\* the modem too, but fails at once unless the socket is connected.
SetOption(err) ==
  /\ wq = "option"
  /\ IF err \/ sock # "open"
       THEN wq' = "idle" /\ Becomes("request", "dropped")
       ELSE wq' = "send" /\ UNCHANGED latest
  /\ UNCHANGED <<simulate, lte, pc, sock, ticking, queue, pvt, seen, payload,
                 late, coapVars, netVars, verdict>>

\* What leaves is what the buffer holds by then.
Send(err) ==
  /\ wq = "send"
  /\ wq' = "idle"
  /\ IF ~err /\ buf.kind = "request"
       THEN /\ answers' = answers \cup {buf.token}
            /\ sentToken' = buf.token
            /\ Becomes("request", "sent")
       ELSE /\ Becomes("request", IF err THEN "dropped" ELSE "spoiled")
            /\ UNCHANGED netVars
  /\ UNCHANGED <<simulate, lte, pc, sock, ticking, queue, pvt, seen, payload,
                 late, coapVars, verdict>>

WorkQueue ==
  \/ TakeItem \/ ReadFix \/ PrintFix \/ BuildRequest
  \/ \E err \in BOOLEAN : SetOption(err) \/ Send(err)

-----------------------------------------------------------------------------
(* main()                                                                  *)

\* main() runs while the work queue waits for the modem or has nothing to do.
MainRuns == wq \in {"option", "send"} \/ (wq = "idle" /\ queue = <<>>)

Goto(from, to) ==
  /\ MainRuns
  /\ pc = from
  /\ pc' = to
  /\ UNCHANGED <<simulate, wq, sentToken>>

ButtonInit ==
  /\ Goto("start", "armed")
  /\ UNCHANGED <<lte, sock, ticking, queue, payload, fixVars, coapVars, answers,
                 verdict>>

ModemConnect ==
  /\ Goto("armed", "busy")
  /\ lte' = "BUSY"
  /\ UNCHANGED <<sock, ticking, queue, payload, fixVars, coapVars, answers, verdict>>

Registered ==
  /\ lte # "BUSY"
  /\ Goto("busy", "time")
  /\ UNCHANGED <<lte, sock, ticking, queue, payload, fixVars, coapVars, answers,
                 verdict>>

\* The time is known or not: main() goes on.  The server is resolved or not.
ServerResolve ==
  /\ \E to \in {"socket", "done"} : Goto("time", to)
  /\ UNCHANGED <<lte, sock, ticking, queue, payload, fixVars, coapVars, answers,
                 verdict>>

\* server_connect(): the socket, the connection, the first token.
ServerSocket ==
  /\ \/ Goto("socket", "connect") /\ sock' = "new"
     \/ Goto("socket", "done") /\ sock' = "none"
  /\ UNCHANGED <<lte, ticking, queue, payload, fixVars, coapVars, answers, verdict>>

ServerConnect ==
  /\ \/ Goto("connect", "random") /\ sock' = "open"
     \/ Goto("connect", "done") /\ sock' = "closed"
  /\ UNCHANGED <<lte, ticking, queue, payload, fixVars, coapVars, answers, verdict>>

RandomToken ==
  /\ Goto("random", "begin")
  /\ token' \in Tokens
  /\ answers' = answers \ {token'}
  /\ UNCHANGED <<lte, sock, ticking, queue, payload, fixVars, buf, verdict>>

StartSimulation ==
  /\ simulate
  /\ Goto("begin", "recv")
  /\ ticking' = TRUE
  /\ GnssSimulateFix
  /\ UNCHANGED <<lte, sock, payload, coapVars, answers, verdict>>

GnssInitAndStart ==
  /\ ~simulate
  /\ payload' = "initial"
  /\ \/ Goto("begin", "recv") /\ ticking' = TRUE
     \/ Goto("begin", "done") /\ UNCHANGED ticking
  /\ UNCHANGED <<lte, sock, queue, fixVars, coapVars, answers, verdict>>

\* recv() copies a datagram to the start of coap_buf; an empty one changes
\* nothing.
Receive(datagram) ==
  /\ Goto("recv", "parse")
  /\ buf' = datagram
  /\ verdict' = "none"
  /\ UNCHANGED <<lte, sock, ticking, queue, payload, fixVars, token, answers>>

ReceiveError ==
  /\ Goto("recv", "done")
  /\ sock' = "closed"
  /\ UNCHANGED <<lte, ticking, queue, payload, fixVars, coapVars, answers, verdict>>

\* coap_packet_parse(): whatever the buffer holds by then.  A request that was
\* written over the datagram is parsed up to the datagram's length, at which
\* it may be well-formed or not.
Parse ==
  /\ \/ buf.kind # "malformed" /\ Goto("parse", "token") /\ UNCHANGED sock
     \/ buf.kind # "reply" /\ Goto("parse", "done") /\ sock' = "closed"
  /\ UNCHANGED <<lte, ticking, queue, payload, fixVars, coapVars, answers, verdict>>

LengthMatches == TRUE                                       \* a mutant of Matches
Matches == buf.token = token

CompareToken ==
  /\ Goto("token", "recv")
  /\ verdict' = IF Matches THEN "taken" ELSE "refused"
  /\ UNCHANGED <<lte, sock, ticking, queue, payload, fixVars, coapVars, answers>>

\* The replies of the server, and what no CoAP server sends.
Datagram ==
  [kind : {"reply"}, token : answers] \cup
  [kind : {"malformed"}, token : {0}]

Main ==
  \/ ButtonInit \/ ModemConnect \/ Registered
  \/ ServerResolve \/ ServerSocket \/ ServerConnect \/ RandomToken
  \/ StartSimulation \/ GnssInitAndStart
  \/ \E datagram \in Datagram : Receive(datagram)
  \/ ReceiveError \/ Parse \/ CompareToken

Interrupt ==
  \/ TimerHandler \/ ButtonPressed
  \/ \E valid \in BOOLEAN : GnssEventHandler(valid)
  \/ \E registered \in BOOLEAN : LteHandler(registered)

Next == Interrupt \/ WorkQueue \/ Main

Spec == Init /\ [][Next]_gnssVars

\* The work queue does not rest while it has work, and the modem answers its
\* calls.  Nothing is assumed of main(), the server, or the interrupts.
FairSpec == Spec /\ WF_gnssVars(WorkQueue)

-----------------------------------------------------------------------------
(* Properties.                                                             *)

\* The payload that new_fix_work makes is a whole fix, unless a PVT event came
\* in between: one without a fix after k_work_submit(&new_fix_work), or any
\* while the position is read and printed.  Each such event spoils one payload
\* and no later one.
InvalidOnlyIfLate ==
  [][PrintFix => /\ payload' = "no fix" => late = "no fix"
                 /\ payload' = "mixed" => late # "none"]_gnssVars

\* A response is taken for valid only when it answers the last request that
\* left, never an earlier one: neither a late answer nor a repeated one.
OnlyLatestAccepted ==
  [][CompareToken /\ buf.kind = "reply" /\ verdict' = "taken"
       => buf.token = sentToken]_gnssVars

NewPosition ==
  \/ TimerHandler \/ (simulate /\ ButtonPressed)
  \/ \E valid \in BOOLEAN : GnssEventHandler(valid)

\* When no more positions come, the newest fix is sent, whole, although fixes
\* come in while others are printed and work items that are queued already
\* are not queued again: a newer fix may take an older one's place in pvt_data
\* and in the payload, but nothing that was in progress then passes for it.
\* It is not sent when a call on the socket fails, when a position without a
\* fix takes its place, or when a datagram is received over its request.
LastFixSent ==
  <>[][~NewPosition]_gnssVars =>
    (latest \in {"pvt", "payload", "request"}
       ~> latest \in {"sent", "dropped", "spoiled"})

\* "Confirm the token in the response matches the token sent": a response
\* with the token of the last request that left is not refused.
SentTokenAccepted ==
  [][CompareToken /\ buf.kind = "reply" /\ buf.token = sentToken
       => verdict' = "taken"]_gnssVars
=============================================================================
