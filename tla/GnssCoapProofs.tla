--------------------------- MODULE GnssCoapProofs ---------------------------
(***************************************************************************)
(* What holds of the GNSS tracker for every number of tokens.              *)
(***************************************************************************)
EXTENDS GnssCoap, SequenceTheorems, TLAPS

-----------------------------------------------------------------------------
(* The queue of two work items.                                            *)

Item == {"fix", "put"}

\* What submitting a second work item gives.
LEMMA AppendOne == ASSUME NEW a, NEW b PROVE Append(<<a>>, b) = <<a, b>>
<1>1. <<a>> \in Seq({a, b}) /\ <<a, b>> \in Seq({a, b})
  OBVIOUS
<1>2. /\ Append(<<a>>, b) \in Seq({a, b})
      /\ Len(Append(<<a>>, b)) = Len(<<a, b>>)
      /\ \A i \in 1 .. 2 : Append(<<a>>, b)[i] = <<a, b>>[i]
  BY <1>1
<1> QED
  BY <1>1, <1>2, SeqEqual

\* Submitting an item adds it and nothing else, and no item is queued twice.
LEMMA SubmitQueues ==
  ASSUME queue \in Queues, NEW item \in Item, Submit(item)
  PROVE  queue' \in Queues /\ ToSet(queue') = ToSet(queue) \cup {item}
<1>1. CASE queue = <<>>
  BY <1>1, AppendOne DEF Queues, Item, Submit, ToSet
<1>2. CASE queue = <<"fix">>
  BY <1>2, AppendOne DEF Queues, Item, Submit, ToSet
<1>3. CASE queue = <<"put">>
  BY <1>3, AppendOne DEF Queues, Item, Submit, ToSet
<1>4. CASE queue = <<"fix", "put">>
  BY <1>4, AppendOne DEF Queues, Item, Submit, ToSet
<1>5. CASE queue = <<"put", "fix">>
  BY <1>5, AppendOne DEF Queues, Item, Submit, ToSet
<1> QED
  BY <1>1, <1>2, <1>3, <1>4, <1>5 DEF Queues

\* What is left when the work queue takes its first item.
LEMMA TakeQueues ==
  ASSUME queue \in Queues, queue # <<>>
  PROVE  /\ Tail(queue) \in Queues
         /\ Head(queue) \in Item
         /\ ToSet(queue) = ToSet(Tail(queue)) \cup {Head(queue)}
<1>2. CASE queue = <<"fix">>
  BY <1>2 DEF Queues, Item, ToSet
<1>3. CASE queue = <<"put">>
  BY <1>3 DEF Queues, Item, ToSet
<1>4. CASE queue = <<"fix", "put">>
  BY <1>4 DEF Queues, Item, ToSet
<1>5. CASE queue = <<"put", "fix">>
  BY <1>5 DEF Queues, Item, ToSet
<1> QED
  BY <1>2, <1>3, <1>4, <1>5 DEF Queues

-----------------------------------------------------------------------------
(* The inductive invariant.                                                *)

\* As long as no event without a fix overtook new_fix_work, pvt_data is the fix
\* it was submitted for; as long as no event did, so is what it has read.
FixInv ==
  /\ late # "no fix" /\ ("fix" \in ToSet(queue) \/ wq \in {"read", "print"})
       => pvt = "fix"
  /\ late = "none" /\ wq = "print" => seen = pvt

\* Wherever the newest fix is, a work item is about to take it further, and it
\* is whole.
UnderWay ==
  /\ latest = "pvt" => /\ pvt = "fix"
                       /\ \/ "fix" \in ToSet(queue)
                          \/ wq = "read"
                          \/ wq = "print" /\ seen = "fix"
  /\ latest = "payload" => /\ payload = "fix"
                           /\ "put" \in ToSet(queue) \/ wq = "put"
  /\ latest = "request" => wq \in {"option", "send"}

\* No position comes before main() receives, unless a button simulates one.
StartInv ==
  ticking \/ (~simulate /\ latest # "none")
    => pc \in {"recv", "parse", "token", "done"}

\* The server can answer with next_token only if it was sent last, which it
\* was not while a request waits; nothing is received before the first token.
AnswersInv ==
  /\ token \in answers => sentToken = token
  /\ wq \in {"option", "send"} => token \notin answers
  /\ buf.kind = "reply" /\ buf.token = token => sentToken = token
  /\ pc \notin {"recv", "parse", "token", "done"} => buf.kind # "reply"

Inv == TypeOK /\ FixInv /\ UnderWay /\ StartInv /\ AnswersInv

-----------------------------------------------------------------------------
(* Types.                                                                  *)

\* The token that follows is one.
LEMMA NextToken == ASSUME CoapTypes PROVE (token + 1) % TokenMod \in Tokens
  BY GnssAssumption DEF CoapTypes, Tokens

\* What can be built, sent and received is a packet.
LEMMA PacketTypes ==
  ASSUME CoapTypes
  PROVE  Built \in Packet /\ buf.token \in Tokens /\ Datagram \subseteq Packet
<1>1. Built \in Packet
  BY NextToken DEF Built, Packet
<1>2. buf.token \in Tokens
  BY DEF CoapTypes, Packet
<1>3. Datagram \subseteq Packet
  <2>1. answers \subseteq Tokens /\ 0 \in Tokens
    BY GnssAssumption DEF CoapTypes, Tokens
  <2>2. ASSUME NEW datagram \in Datagram
        PROVE  datagram \in Packet
    BY <2>1, <2>2 DEF Datagram, Packet
  <2> QED
    BY <2>2
<1> QED
  BY <1>1, <1>2, <1>3

\* Every step keeps the types, in four parts: those of main() and the button ...
LEMMA MainTypesStep == MainTypes /\ [Next]_gnssVars => MainTypes'
<1> SUFFICES ASSUME MainTypes, [Next]_gnssVars
             PROVE  MainTypes'
  OBVIOUS
<1>1. ASSUME NEW registered \in BOOLEAN, LteHandler(registered)
      PROVE  MainTypes'
  BY <1>1 DEF MainTypes, LteHandler
<1>2. ASSUME ButtonInit
      PROVE  MainTypes'
  BY <1>2 DEF MainTypes, ButtonInit, Goto
<1>3. ASSUME ModemConnect
      PROVE  MainTypes'
  BY <1>3 DEF MainTypes, ModemConnect, Goto
<1>4. ASSUME Registered
      PROVE  MainTypes'
  BY <1>4 DEF MainTypes, Registered, Goto
<1>5. ASSUME ServerResolve
      PROVE  MainTypes'
  BY <1>5 DEF MainTypes, ServerResolve, Goto
<1>6. ASSUME ServerSocket
      PROVE  MainTypes'
  BY <1>6 DEF MainTypes, ServerSocket, Goto
<1>7. ASSUME ServerConnect
      PROVE  MainTypes'
  BY <1>7 DEF MainTypes, ServerConnect, Goto
<1>8. ASSUME RandomToken
      PROVE  MainTypes'
  BY <1>8 DEF MainTypes, RandomToken, Goto
<1>9. ASSUME StartSimulation
      PROVE  MainTypes'
  BY <1>9 DEF MainTypes, StartSimulation, Goto, GnssSimulateFix, SubmitFix
<1>10. ASSUME GnssInitAndStart
      PROVE  MainTypes'
  BY <1>10 DEF MainTypes, GnssInitAndStart, Goto
<1>11. ASSUME NEW datagram \in Datagram, Receive(datagram)
      PROVE  MainTypes'
  BY <1>11 DEF MainTypes, Receive, Goto
<1>12. ASSUME ReceiveError
      PROVE  MainTypes'
  BY <1>12 DEF MainTypes, ReceiveError, Goto
<1>13. ASSUME Parse
      PROVE  MainTypes'
  BY <1>13 DEF MainTypes, Parse, Goto
<1>14. ASSUME CompareToken
      PROVE  MainTypes'
  BY <1>14 DEF MainTypes, CompareToken, Goto
<1>15. ASSUME
           \/ TimerHandler
           \/ ButtonPressed
           \/ \E valid \in BOOLEAN : GnssEventHandler(valid)
           \/ TakeItem
           \/ ReadFix
           \/ PrintFix
           \/ BuildRequest
           \/ \E err \in BOOLEAN : SetOption(err)
           \/ \E err \in BOOLEAN : Send(err)
           \/ UNCHANGED gnssVars
      PROVE  MainTypes'
  <2>1. UNCHANGED <<simulate, lte, pc, sock, ticking>>
    BY <1>15
    DEF TimerHandler, GnssSimulateFix, SubmitFix, ButtonPressed,
        GnssEventHandler, NewPvt, TakeItem, ReadFix, PrintFix, SubmitPut,
        BuildRequest, Built, SetOption, Send, fixVars, coapVars, netVars,
        gnssVars
  <2> QED
    BY <2>1 DEF MainTypes
<1> QED
  BY <1>1, <1>2, <1>3, <1>4, <1>5, <1>6, <1>7, <1>8, <1>9, <1>10, <1>11, <1>12,
      <1>13, <1>14, <1>15 DEF Next, Interrupt, WorkQueue, Main

\* ... of the work queue ...
LEMMA WorkTypesStep == WorkTypes /\ [Next]_gnssVars => WorkTypes'
<1> SUFFICES ASSUME WorkTypes, [Next]_gnssVars
             PROVE  WorkTypes'
  OBVIOUS
<1>1. ASSUME TimerHandler
      PROVE  WorkTypes'
  <2>1. queue' \in Queues
    BY <1>1, SubmitQueues DEF WorkTypes, Item, TimerHandler, GnssSimulateFix, SubmitFix
  <2> QED
    BY <1>1, <2>1 DEF WorkTypes, TimerHandler, GnssSimulateFix, SubmitFix, fixVars
<1>2. ASSUME ButtonPressed
      PROVE  WorkTypes'
  <2>1. queue' \in Queues
    BY <1>2, SubmitQueues DEF WorkTypes, Item, ButtonPressed, GnssSimulateFix, SubmitFix
  <2> QED
    BY <1>2, <2>1 DEF WorkTypes, ButtonPressed, GnssSimulateFix, SubmitFix, fixVars
<1>3. ASSUME NEW valid \in BOOLEAN, GnssEventHandler(valid)
      PROVE  WorkTypes'
  <2>1. queue' \in Queues
    BY <1>3, SubmitQueues DEF WorkTypes, Item, GnssEventHandler, NewPvt, SubmitFix
  <2> QED
    BY <1>3, <2>1 DEF WorkTypes, GnssEventHandler, NewPvt, SubmitFix, fixVars
<1>4. ASSUME TakeItem
      PROVE  WorkTypes'
  <2>1. queue' \in Queues
    BY <1>4, TakeQueues DEF WorkTypes, Item, TakeItem
  <2> QED
    BY <1>4, <2>1 DEF WorkTypes, TakeItem, fixVars
<1>5. ASSUME ReadFix
      PROVE  WorkTypes'
  BY <1>5 DEF WorkTypes, ReadFix, fixVars
<1>6. ASSUME PrintFix
      PROVE  WorkTypes'
  <2>1. queue' \in Queues
    BY <1>6, SubmitQueues DEF WorkTypes, Item, PrintFix, SubmitPut
  <2> QED
    BY <1>6, <2>1 DEF WorkTypes, PrintFix, SubmitPut, fixVars
<1>7. ASSUME BuildRequest
      PROVE  WorkTypes'
  BY <1>7 DEF WorkTypes, BuildRequest, Built, fixVars
<1>8. ASSUME NEW err \in BOOLEAN, SetOption(err)
      PROVE  WorkTypes'
  BY <1>8 DEF WorkTypes, SetOption, fixVars
<1>9. ASSUME NEW err \in BOOLEAN, Send(err)
      PROVE  WorkTypes'
  BY <1>9 DEF WorkTypes, Send, fixVars
<1>10. ASSUME StartSimulation
      PROVE  WorkTypes'
  <2>1. queue' \in Queues
    BY <1>10, SubmitQueues
    DEF WorkTypes, Item, StartSimulation, Goto, GnssSimulateFix, SubmitFix
  <2> QED
    BY <1>10, <2>1
    DEF WorkTypes, StartSimulation, Goto, GnssSimulateFix, SubmitFix, fixVars
<1>11. ASSUME GnssInitAndStart
      PROVE  WorkTypes'
  BY <1>11 DEF WorkTypes, GnssInitAndStart, Goto, fixVars
<1>12. ASSUME
           \/ \E registered \in BOOLEAN : LteHandler(registered)
           \/ ButtonInit
           \/ ModemConnect
           \/ Registered
           \/ ServerResolve
           \/ ServerSocket
           \/ ServerConnect
           \/ RandomToken
           \/ \E datagram \in Datagram : Receive(datagram)
           \/ ReceiveError
           \/ Parse
           \/ CompareToken
           \/ UNCHANGED gnssVars
      PROVE  WorkTypes'
  <2>1. UNCHANGED <<queue, wq, pvt, seen, payload>>
    BY <1>12
    DEF LteHandler, ButtonInit, Goto, ModemConnect, Registered, ServerResolve,
        ServerSocket, ServerConnect, RandomToken, Receive, ReceiveError, Parse,
        CompareToken, fixVars, coapVars, netVars, gnssVars
  <2> QED
    BY <2>1 DEF WorkTypes
<1> QED
  BY <1>1, <1>2, <1>3, <1>4, <1>5, <1>6, <1>7, <1>8, <1>9, <1>10, <1>11,
      <1>12 DEF Next, Interrupt, WorkQueue, Main

\* ... of the buffer and the network ...
LEMMA CoapTypesStep == CoapTypes /\ [Next]_gnssVars => CoapTypes'
<1> SUFFICES ASSUME CoapTypes, [Next]_gnssVars
             PROVE  CoapTypes'
  OBVIOUS
<1>1. ASSUME BuildRequest
      PROVE  CoapTypes'
  BY <1>1, NextToken, PacketTypes DEF CoapTypes, BuildRequest, coapVars
<1>2. ASSUME NEW err \in BOOLEAN, Send(err)
      PROVE  CoapTypes'
  BY <1>2, PacketTypes DEF CoapTypes, Send, coapVars, netVars
<1>3. ASSUME RandomToken
      PROVE  CoapTypes'
  BY <1>3 DEF CoapTypes, RandomToken, Goto
<1>4. ASSUME NEW datagram \in Datagram, Receive(datagram)
      PROVE  CoapTypes'
  BY <1>4, PacketTypes DEF CoapTypes, Receive, Goto
<1>5. ASSUME
           \/ TimerHandler
           \/ ButtonPressed
           \/ \E valid \in BOOLEAN : GnssEventHandler(valid)
           \/ \E registered \in BOOLEAN : LteHandler(registered)
           \/ TakeItem
           \/ ReadFix
           \/ PrintFix
           \/ \E err \in BOOLEAN : SetOption(err)
           \/ ButtonInit
           \/ ModemConnect
           \/ Registered
           \/ ServerResolve
           \/ ServerSocket
           \/ ServerConnect
           \/ StartSimulation
           \/ GnssInitAndStart
           \/ ReceiveError
           \/ Parse
           \/ CompareToken
           \/ UNCHANGED gnssVars
      PROVE  CoapTypes'
  <2>1. UNCHANGED <<token, buf, answers, sentToken>>
    BY <1>5
    DEF TimerHandler, GnssSimulateFix, SubmitFix, ButtonPressed,
        GnssEventHandler, NewPvt, LteHandler, TakeItem, ReadFix, PrintFix,
        SubmitPut, SetOption, ButtonInit, Goto, ModemConnect, Registered,
        ServerResolve, ServerSocket, ServerConnect, StartSimulation,
        GnssInitAndStart, ReceiveError, Parse, CompareToken, fixVars, coapVars,
        netVars, gnssVars
  <2> QED
    BY <2>1 DEF CoapTypes
<1> QED
  BY <1>1, <1>2, <1>3, <1>4, <1>5 DEF Next, Interrupt, WorkQueue, Main

\* ... and of the histories.
LEMMA HistoryTypesStep == HistoryTypes /\ [Next]_gnssVars => HistoryTypes'
<1> SUFFICES ASSUME HistoryTypes, [Next]_gnssVars
             PROVE  HistoryTypes'
  OBVIOUS
<1>1. ASSUME TimerHandler
      PROVE  HistoryTypes'
  BY <1>1 DEF HistoryTypes, TimerHandler, GnssSimulateFix, SubmitFix, fixVars, coapVars
<1>2. ASSUME ButtonPressed
      PROVE  HistoryTypes'
  BY <1>2 DEF HistoryTypes, ButtonPressed, GnssSimulateFix, SubmitFix, fixVars, coapVars
<1>3. ASSUME NEW valid \in BOOLEAN, GnssEventHandler(valid)
      PROVE  HistoryTypes'
  BY <1>3 DEF HistoryTypes, GnssEventHandler, NewPvt, SubmitFix, fixVars, coapVars
<1>4. ASSUME PrintFix
      PROVE  HistoryTypes'
  BY <1>4 DEF HistoryTypes, PrintFix, SubmitPut, fixVars, coapVars
<1>5. ASSUME BuildRequest
      PROVE  HistoryTypes'
  BY <1>5 DEF HistoryTypes, BuildRequest, Becomes, Built, fixVars, coapVars
<1>6. ASSUME StartSimulation
      PROVE  HistoryTypes'
  BY <1>6
  DEF HistoryTypes, StartSimulation, Goto, GnssSimulateFix, SubmitFix, fixVars,
      coapVars
<1>7. ASSUME NEW datagram \in Datagram, Receive(datagram)
      PROVE  HistoryTypes'
  BY <1>7 DEF HistoryTypes, Receive, Goto, fixVars, coapVars
<1>8. ASSUME CompareToken
      PROVE  HistoryTypes'
  BY <1>8 DEF HistoryTypes, CompareToken, Goto, fixVars, coapVars
<1>9. ASSUME
           \/ \E registered \in BOOLEAN : LteHandler(registered)
           \/ TakeItem
           \/ ReadFix
           \/ ButtonInit
           \/ ModemConnect
           \/ Registered
           \/ ServerResolve
           \/ ServerSocket
           \/ ServerConnect
           \/ RandomToken
           \/ GnssInitAndStart
           \/ ReceiveError
           \/ Parse
           \/ UNCHANGED gnssVars
      PROVE  HistoryTypes'
  <2>1. UNCHANGED <<late, verdict, latest>>
    BY <1>9
    DEF LteHandler, TakeItem, ReadFix, ButtonInit, Goto, ModemConnect,
        Registered, ServerResolve, ServerSocket, ServerConnect,
        RandomToken, GnssInitAndStart, ReceiveError, Parse, fixVars, coapVars,
        netVars, gnssVars
  <2> QED
    BY <2>1 DEF HistoryTypes
<1>10. ASSUME NEW err \in BOOLEAN, SetOption(err)
      PROVE  HistoryTypes'
  BY <1>10 DEF HistoryTypes, SetOption, Becomes, fixVars, coapVars
<1>11. ASSUME NEW err \in BOOLEAN, Send(err)
      PROVE  HistoryTypes'
  BY <1>11 DEF HistoryTypes, Send, Becomes, fixVars, coapVars
<1> QED
  BY <1>1, <1>2, <1>3, <1>4, <1>5, <1>6, <1>7, <1>8, <1>9, <1>10, <1>11
  DEF Next, Interrupt, WorkQueue, Main

\* All of them.
LEMMA TypeStep == TypeOK /\ [Next]_gnssVars => TypeOK'
  BY MainTypesStep, WorkTypesStep, CoapTypesStep, HistoryTypesStep DEF TypeOK

-----------------------------------------------------------------------------
(* The invariant holds.                                                    *)

\* The invariant holds at the start.
LEMMA InitInv == Init => Inv
<1> SUFFICES ASSUME Init
             PROVE  Inv
  OBVIOUS
<1>1. ToSet(<<>>) = {}
  BY DEF ToSet
<1>2. MainTypes /\ HistoryTypes
  BY DEF Init, MainTypes, HistoryTypes
<1>3. WorkTypes
  BY DEF Init, WorkTypes, Queues
<1>4. CoapTypes
  BY GnssAssumption DEF Init, CoapTypes, NoPacket, Packet, Tokens
<1> QED
  BY <1>1, <1>2, <1>3, <1>4, GnssAssumption
  DEF Init, Inv, TypeOK, FixInv, UnderWay, StartInv, AnswersInv, NoPacket, Tokens

\* Every step keeps what pvt_data is.
LEMMA FixStep == TypeOK /\ FixInv /\ [Next]_gnssVars => FixInv'
<1> SUFFICES ASSUME TypeOK, FixInv, [Next]_gnssVars
             PROVE  FixInv'
  OBVIOUS
<1>0. queue \in Queues
  BY DEF TypeOK, WorkTypes
<1>1. ASSUME TimerHandler
      PROVE  FixInv'
  BY <1>1, <1>0, SubmitQueues
  DEF FixInv, TimerHandler, GnssSimulateFix, SubmitFix, Item, fixVars
<1>2. ASSUME ButtonPressed
      PROVE  FixInv'
  BY <1>2, <1>0, SubmitQueues
  DEF FixInv, ButtonPressed, GnssSimulateFix, SubmitFix, Item, fixVars
<1>3. ASSUME NEW valid \in BOOLEAN, GnssEventHandler(valid)
      PROVE  FixInv'
  BY <1>3, <1>0, SubmitQueues
  DEF FixInv, GnssEventHandler, NewPvt, SubmitFix, Item, fixVars
<1>4. ASSUME TakeItem
      PROVE  FixInv'
  BY <1>4, <1>0, TakeQueues DEF FixInv, TakeItem, Item, fixVars
<1>5. ASSUME ReadFix
      PROVE  FixInv'
  BY <1>5 DEF FixInv, ReadFix, Item, fixVars
<1>6. ASSUME PrintFix
      PROVE  FixInv'
  BY <1>6, <1>0, SubmitQueues DEF FixInv, PrintFix, SubmitPut, Item, fixVars
<1>7. ASSUME StartSimulation
      PROVE  FixInv'
  BY <1>7, <1>0, SubmitQueues
  DEF FixInv, StartSimulation, Goto, GnssSimulateFix, SubmitFix, Item, fixVars
<1>8. ASSUME GnssInitAndStart
      PROVE  FixInv'
  BY <1>8 DEF FixInv, GnssInitAndStart, Goto, Item, fixVars
<1>9. ASSUME
           \/ \E registered \in BOOLEAN : LteHandler(registered)
           \/ BuildRequest
           \/ \E err \in BOOLEAN : SetOption(err)
           \/ \E err \in BOOLEAN : Send(err)
           \/ ButtonInit \/ ModemConnect \/ Registered
           \/ ServerResolve \/ ServerSocket \/ ServerConnect
           \/ RandomToken
           \/ \E datagram \in Datagram : Receive(datagram)
           \/ ReceiveError \/ Parse \/ CompareToken
           \/ UNCHANGED gnssVars
      PROVE  FixInv'
  <2>1. /\ UNCHANGED <<queue, pvt, seen, payload, late>>
        /\ wq' = wq \/ wq' \in {"idle", "option", "send"}
    BY <1>9
    DEF LteHandler, BuildRequest, SetOption, Send, ButtonInit, ModemConnect,
        Registered, ServerResolve, ServerSocket, ServerConnect, RandomToken,
        Receive, ReceiveError, Parse, CompareToken, Goto, fixVars, gnssVars
  <2> QED
    BY <2>1 DEF FixInv
<1> QED
  BY <1>1, <1>2, <1>3, <1>4, <1>5, <1>6, <1>7, <1>8, <1>9
  DEF Next, Interrupt, WorkQueue, Main

\* Every step keeps the newest fix under way.
LEMMA UnderWayStep ==
  TypeOK /\ UnderWay /\ StartInv /\ [Next]_gnssVars => UnderWay'
<1> SUFFICES ASSUME TypeOK, UnderWay, StartInv, [Next]_gnssVars
             PROVE  UnderWay'
  OBVIOUS
<1>0. queue \in Queues
  BY DEF TypeOK, WorkTypes
<1>1. ASSUME TimerHandler
      PROVE  UnderWay'
  BY <1>1, <1>0, SubmitQueues
  DEF UnderWay, TimerHandler, GnssSimulateFix, SubmitFix, Item
<1>2. ASSUME ButtonPressed
      PROVE  UnderWay'
  BY <1>2, <1>0, SubmitQueues
  DEF UnderWay, ButtonPressed, GnssSimulateFix, SubmitFix, Item, fixVars
<1>3. ASSUME NEW valid \in BOOLEAN, GnssEventHandler(valid)
      PROVE  UnderWay'
  BY <1>3, <1>0, SubmitQueues
  DEF UnderWay, GnssEventHandler, NewPvt, SubmitFix, Item
<1>4. ASSUME TakeItem
      PROVE  UnderWay'
  BY <1>4, <1>0, TakeQueues DEF UnderWay, TakeItem, Item, fixVars
<1>5. ASSUME ReadFix
      PROVE  UnderWay'
  BY <1>5 DEF UnderWay, ReadFix
<1>6. ASSUME PrintFix
      PROVE  UnderWay'
  BY <1>6, <1>0, SubmitQueues DEF UnderWay, PrintFix, SubmitPut, Item
<1>7. ASSUME BuildRequest
      PROVE  UnderWay'
  BY <1>7 DEF UnderWay, BuildRequest, Becomes
<1>8. ASSUME NEW err \in BOOLEAN, SetOption(err)
      PROVE  UnderWay'
  BY <1>8 DEF UnderWay, SetOption, Becomes
<1>9. ASSUME NEW err \in BOOLEAN, Send(err)
      PROVE  UnderWay'
  BY <1>9 DEF UnderWay, Send, Becomes
<1>10. ASSUME StartSimulation
      PROVE  UnderWay'
  BY <1>10, <1>0, SubmitQueues
  DEF UnderWay, StartSimulation, Goto, GnssSimulateFix, SubmitFix, Item
<1>11. ASSUME GnssInitAndStart
      PROVE  UnderWay'
  <2>1. latest = "none"
    BY <1>11 DEF StartInv, GnssInitAndStart, Goto
  <2> QED
    BY <1>11, <2>1 DEF UnderWay, GnssInitAndStart, Goto, fixVars
<1>12. CASE \/ \E registered \in BOOLEAN : LteHandler(registered)
            \/ ButtonInit \/ ModemConnect \/ Registered
            \/ ServerResolve \/ ServerSocket \/ ServerConnect
            \/ RandomToken
            \/ \E datagram \in Datagram : Receive(datagram)
            \/ ReceiveError \/ Parse \/ CompareToken
            \/ UNCHANGED gnssVars
  <2>1. UNCHANGED <<queue, wq, pvt, seen, payload, latest>>
    BY <1>12
    DEF LteHandler, ButtonInit, ModemConnect, Registered, ServerResolve,
        ServerSocket, ServerConnect, RandomToken, Receive, ReceiveError, Parse,
        CompareToken, Goto, fixVars, gnssVars
  <2> QED
    BY <2>1 DEF UnderWay
<1> QED
  BY <1>1, <1>2, <1>3, <1>4, <1>5, <1>6, <1>7, <1>8, <1>9, <1>10, <1>11,
      <1>12 DEF Next, Interrupt, WorkQueue, Main

\* Every step keeps positions from coming early.
LEMMA StartStep == TypeOK /\ StartInv /\ [Next]_gnssVars => StartInv'
<1> SUFFICES ASSUME TypeOK, StartInv, [Next]_gnssVars
             PROVE  StartInv'
  OBVIOUS
<1>1. CASE \/ TimerHandler \/ ButtonPressed
           \/ \E valid \in BOOLEAN : GnssEventHandler(valid)
           \/ \E registered \in BOOLEAN : LteHandler(registered)
  <2>1. /\ UNCHANGED <<simulate, pc, ticking>>
        /\ ticking \/ simulate \/ latest' = latest
    BY <1>1
    DEF TimerHandler, ButtonPressed, GnssEventHandler, LteHandler, fixVars
  <2> QED
    BY <2>1 DEF StartInv
<1>2. CASE \/ TakeItem \/ ReadFix \/ PrintFix \/ BuildRequest
           \/ \E err \in BOOLEAN : SetOption(err)
           \/ \E err \in BOOLEAN : Send(err)
  <2>1. /\ UNCHANGED <<simulate, pc, ticking>>
        /\ latest = "none" => latest' = "none"
    BY <1>2
    DEF TakeItem, ReadFix, PrintFix, BuildRequest, SetOption, Send, Becomes,
        fixVars
  <2> QED
    BY <2>1 DEF StartInv
<1>3. CASE StartSimulation \/ GnssInitAndStart
  <2>1. pc' = "recv" \/ (pc' = "done" /\ UNCHANGED <<simulate, ticking, latest>>)
    BY <1>3 DEF StartSimulation, GnssInitAndStart, Goto, fixVars
  <2> QED
    BY <2>1 DEF StartInv
<1>4. CASE \/ ButtonInit \/ ModemConnect \/ Registered \/ ServerResolve
           \/ ServerSocket \/ ServerConnect \/ RandomToken
           \/ \E datagram \in Datagram : Receive(datagram)
           \/ ReceiveError \/ Parse \/ CompareToken
  <2>1. /\ UNCHANGED <<simulate, ticking, latest>>
        /\ pc \in {"recv", "parse", "token", "done"}
             => pc' \in {"recv", "parse", "token", "done"}
    BY <1>4
    DEF ButtonInit, ModemConnect, Registered, ServerResolve, ServerSocket,
        ServerConnect, RandomToken, Receive, ReceiveError, Parse, CompareToken,
        Goto, fixVars
  <2> QED
    BY <2>1 DEF StartInv
<1>5. CASE UNCHANGED gnssVars
  BY <1>5 DEF StartInv, gnssVars
<1> QED
  BY <1>1, <1>2, <1>3, <1>4, <1>5 DEF Next, Interrupt, WorkQueue, Main

\* Every step keeps what the server can answer.
LEMMA AnswersStep == TypeOK /\ AnswersInv /\ [Next]_gnssVars => AnswersInv'
<1> SUFFICES ASSUME TypeOK, AnswersInv, [Next]_gnssVars
             PROVE  AnswersInv'
  OBVIOUS
<1> USE DEF AnswersInv
<1>1. ASSUME BuildRequest
      PROVE  AnswersInv'
  BY <1>1 DEF BuildRequest, Built, coapVars
<1>2. ASSUME NEW err \in BOOLEAN, SetOption(err)
      PROVE  AnswersInv'
  BY <1>2 DEF SetOption, coapVars, netVars
<1>3. ASSUME NEW err \in BOOLEAN, Send(err)
      PROVE  AnswersInv'
  BY <1>3 DEF Send, coapVars, netVars
<1>4. ASSUME RandomToken
      PROVE  AnswersInv'
  BY <1>4 DEF RandomToken, Goto
<1>5. ASSUME NEW datagram \in Datagram, Receive(datagram)
      PROVE  AnswersInv'
  BY <1>5 DEF Receive, Goto, Datagram
<1>6. CASE \/ TimerHandler \/ ButtonPressed
           \/ \E valid \in BOOLEAN : GnssEventHandler(valid)
           \/ \E registered \in BOOLEAN : LteHandler(registered)
           \/ TakeItem \/ ReadFix \/ PrintFix
  <2>1. /\ UNCHANGED <<token, buf, answers, sentToken, pc>>
        /\ wq' = wq \/ wq' \in {"idle", "read", "put", "print"}
    BY <1>6
    DEF TimerHandler, ButtonPressed, GnssEventHandler, LteHandler, TakeItem,
        ReadFix, PrintFix, coapVars, netVars
  <2> QED
    BY <2>1
<1>7. CASE \/ ButtonInit \/ ModemConnect \/ Registered \/ ServerResolve
           \/ ServerSocket \/ ServerConnect \/ StartSimulation
           \/ GnssInitAndStart \/ ReceiveError \/ Parse \/ CompareToken
  <2>1. /\ UNCHANGED <<token, buf, answers, sentToken, wq>>
        /\ \/ pc' \in {"done", "recv", "token"}
           \/ pc \notin {"recv", "parse", "token", "done"}
    BY <1>7
    DEF ButtonInit, ModemConnect, Registered, ServerResolve, ServerSocket,
        ServerConnect, StartSimulation, GnssInitAndStart, ReceiveError, Parse,
        CompareToken, Goto, coapVars
  <2> QED
    BY <2>1
<1>8. CASE UNCHANGED gnssVars
  BY <1>8 DEF gnssVars
<1> QED
  BY <1>1, <1>2, <1>3, <1>4, <1>5, <1>6, <1>7, <1>8
  DEF Next, Interrupt, WorkQueue, Main

\* The invariant always holds.
LEMMA Invariance == Spec => []Inv
<1>1. Inv /\ [Next]_gnssVars => Inv'
  BY TypeStep, FixStep, UnderWayStep, StartStep, AnswersStep DEF Inv
<1> QED
  BY InitInv, <1>1, PTL DEF Spec

-----------------------------------------------------------------------------
(* Theorems.                                                               *)

\* The variables keep their types: in particular no work item is queued twice.
THEOREM TrackerTypeCorrect == Spec => []TypeOK
<1>1. Inv => TypeOK
  BY DEF Inv
<1> QED
  BY <1>1, Invariance, PTL

\* The payload that new_fix_work makes is a whole fix unless an event overtook
\* it, one without a fix or, while it printed, any.
THEOREM ReportsAreFixes == Spec => InvalidOnlyIfLate
<1>1. /\ Inv
      /\ [Next]_gnssVars
      => [PrintFix => /\ payload' = "no fix" => late = "no fix"
                      /\ payload' = "mixed" => late # "none"]_gnssVars
  BY DEF Inv, FixInv, PrintFix
<1> QED
  BY <1>1, Invariance, PTL DEF Spec, InvalidOnlyIfLate

\* A fix is not forgotten: until a newer one comes or a position without a fix
\* takes its place, pvt_data or coap_payload is that fix and the work item that
\* takes it further is queued or runs, or its request waits for the modem.
THEOREM NewestIsUnderWay == Spec => []UnderWay
<1>1. Inv => UnderWay
  BY DEF Inv
<1> QED
  BY <1>1, Invariance, PTL

\* No response is taken for valid unless it has the token that was sent last.
THEOREM LatestIsAccepted == Spec => OnlyLatestAccepted
<1>1. /\ Inv
      /\ [Next]_gnssVars
      => [CompareToken /\ buf.kind = "reply" /\ verdict' = "taken"
            => buf.token = sentToken]_gnssVars
  BY DEF Inv, AnswersInv, CompareToken, Matches
<1> QED
  BY <1>1, Invariance, PTL DEF Spec, OnlyLatestAccepted
=============================================================================
