------------------------- MODULE VoiceGatewayProofs -------------------------
(***************************************************************************)
(* Theorems about one voice call (VoiceGateway), for every number of inputs *)
(* and of broken connections, proved from Spec: none of them needs the       *)
(* fairness of FairSpec.                                                    *)
(*                                                                         *)
(* That the call implements CallOutcome needs to know what is under way      *)
(* between the gateway and the backend: the start is sent at most once, ahead  *)
(* of everything else, and the only decision under way is the one asked for.  *)
(***************************************************************************)
EXTENDS VoiceGateway, SequenceTheorems, TLAPS

Messages == {"start", "input"} \cup Decisions

None(m, s) == \A i \in 1..Len(s) : s[i] # m

\* Only the first message of s can be m.
Leads(m, s) == \A i \in 1..Len(s) : i # 1 => s[i] # m

\* Nothing reached the backend before its socket opened.
NothingSent ==
    link \in {"none", "connecting", "closed"} =>
      /\ wire = <<>> /\ inbox = <<>>
      /\ bpc = "idle" /\ outcome = "none"

\* The start is the first message of the connection, and there is one.
OneStart ==
    /\ Leads("start", wire) /\ Leads("start", inbox)
    /\ ~None("start", wire) => inbox = <<>>
    /\ (bpc # "idle" \/ outcome # "none") => None("start", wire) /\ None("start", inbox)
    /\ bpc = "starting" => outcome = "none"

\* A decision that is under way or handled is the one the client asked for; the
\* backend handles it for an active session, which a close leaves alone then.
OneDecision ==
    /\ asked # "nothing" => task = "delay" \/ ~active
    /\ \A d \in Decisions :
         d # asked => None(d, wire) /\ None(d, inbox) /\ bpc # d
    /\ bpc \in Decisions => outcome = "active" /\ bStopped

CallInv == NothingSent /\ OneStart /\ OneDecision

\* TypeOK in parts: the gateway's session, the messages under way, the rest.
GatewayType ==
    /\ state \in {"idle", "starting", "listening", "stopping"} \cup Ended
    /\ active \in BOOLEAN /\ explicitlyStopped \in BOOLEAN /\ idleTimer \in BOOLEAN
    /\ asr \in {"none", "running", "stopped"}
    /\ task \in {"none", "open", "ack", "delay"}
    /\ pcm \in BOOLEAN /\ heard \in BOOLEAN
    /\ link \in {"none", "connecting", "open", "closing", "closed", "broken"}

WireType == wire \in Seq(Messages) /\ inbox \in Seq(Messages)

OtherType ==
    /\ clientOpen \in BOOLEAN /\ attached \in BOOLEAN
    /\ asked \in {"nothing"} \cup Decisions
    /\ inputs \in 0..MaxInputs /\ drops \in 0..MaxDrops
    /\ answer \in {"none", "ack", "error"}
    /\ bpc \in {"idle", "starting", "answering"} \cup Decisions
    /\ outcome \in {"none", "active", "saved", "discarded", "interrupted"}
    /\ bStopped \in BOOLEAN /\ bClosed \in BOOLEAN

Inv == GatewayType /\ WireType /\ OtherType /\ OverIsReleased

-----------------------------------------------------------------------------
\* Every variable keeps its type, and a session that is over holds neither a
\* running recogniser nor an open backend socket.
LEMMA InvCorrect == Spec => []Inv
  <1>. USE ConstantsAssumption DEF GatewayType, WireType, OtherType, OverIsReleased, Messages, Decisions, Ended
  <1>1. Init => Inv
    <2>. SUFFICES ASSUME Init PROVE Inv
      OBVIOUS
    <2>1. GatewayType /\ OverIsReleased
      BY DEF Init
    <2>2. WireType
      BY DEF Init
    <2>3. inputs \in 0..MaxInputs /\ drops \in 0..MaxDrops
      BY DEF Init
    <2>4. OtherType
      BY <2>3 DEF Init
    <2>. QED
      BY <2>1, <2>2, <2>4 DEF Inv
  <1>2. Inv /\ [Next]_vars => Inv'
    <2>. SUFFICES ASSUME Inv, [Next]_vars PROVE Inv'
      OBVIOUS
    <2>0. GatewayType /\ WireType /\ OtherType /\ OverIsReleased
      BY DEF Inv
    <2>. USE DEF gatewayVars, clientVars, linkVars, backendVars, bumpClient, Accepts,
                 StopAsr, CloseBackend, SendOrThrow, canEmit
    <2>a. ASSUME NEW timer \in BOOLEAN, disconnect(timer),
                 UNCHANGED <<explicitlyStopped, task, pcm, heard>>
          PROVE  GatewayType' /\ OverIsReleased'
      <3>1. CASE active /\ ~explicitlyStopped
        <4>1. active' = FALSE /\ state' = "interrupted" /\ idleTimer' = FALSE
          BY <2>a, <3>1 DEF disconnect
        <4>2. asr' \in {"none", "stopped"} /\ link' \in {"none", "closing", "closed", "broken"}
          BY <2>0, <2>a, <3>1 DEF disconnect
        <4>. QED
          BY <2>0, <2>a, <4>1, <4>2
      <3>2. CASE ~(active /\ ~explicitlyStopped)
        <4>1. UNCHANGED <<active, state, asr, link>> /\ idleTimer' = timer
          BY <2>a, <3>2 DEF disconnect
        <4>. QED
          BY <2>0, <2>a, <4>1
      <3>. QED
        BY <3>1, <3>2
    <2>1. CASE RefuseStart
      <3>1. GatewayType' /\ OverIsReleased'
        BY <2>0, <2>1 DEF RefuseStart
      <3>2. WireType'
        BY <2>0, <2>1 DEF RefuseStart
      <3>3. OtherType'
        BY <2>0, <2>1 DEF RefuseStart
      <3>. QED
        BY <3>1, <3>2, <3>3 DEF Inv
    <2>2. ASSUME NEW audio \in BOOLEAN, start(audio) PROVE Inv'
      <3>1. GatewayType' /\ OverIsReleased'
        BY <2>0, <2>2 DEF start
      <3>2. WireType'
        BY <2>0, <2>2 DEF start
      <3>3. OtherType'
        BY <2>0, <2>2 DEF start
      <3>. QED
        BY <3>1, <3>2, <3>3 DEF Inv
    <2>3. CASE RefuseMessage
      <3>1. GatewayType' /\ OverIsReleased'
        BY <2>0, <2>3 DEF RefuseMessage
      <3>2. WireType'
        BY <2>0, <2>3 DEF RefuseMessage
      <3>3. OtherType'
        BY <2>0, <2>3 DEF RefuseMessage
      <3>. QED
        BY <3>1, <3>2, <3>3 DEF Inv
    <2>4. CASE Forward
      <3>1. GatewayType' /\ OverIsReleased'
        BY <2>0, <2>4 DEF Forward
      <3>2. WireType'
        BY <2>0, <2>4 DEF Forward
      <3>3. OtherType'
        BY <2>0, <2>4 DEF Forward
      <3>. QED
        BY <3>1, <3>2, <3>3 DEF Inv
    <2>5. CASE handleBinary
      <3>1. GatewayType' /\ OverIsReleased'
        BY <2>0, <2>5 DEF handleBinary
      <3>2. WireType'
        BY <2>0, <2>5 DEF handleBinary
      <3>3. OtherType'
        BY <2>0, <2>5 DEF handleBinary
      <3>. QED
        BY <3>1, <3>2, <3>3 DEF Inv
    <2>6. ASSUME NEW d \in Decisions, stop(d) PROVE Inv'
      <3>1. GatewayType' /\ OverIsReleased'
        BY <2>0, <2>6 DEF stop
      <3>2. WireType'
        BY <2>0, <2>6 DEF stop
      <3>3. OtherType'
        BY <2>0, <2>6 DEF stop
      <3>. QED
        BY <3>1, <3>2, <3>3 DEF Inv
    <2>7. CASE StopDelayEnds
      <3>1. GatewayType' /\ OverIsReleased'
        BY <2>0, <2>7 DEF StopDelayEnds
      <3>2. WireType'
        BY <2>0, <2>7 DEF StopDelayEnds
      <3>3. OtherType'
        BY <2>0, <2>7 DEF StopDelayEnds
      <3>. QED
        BY <3>1, <3>2, <3>3 DEF Inv
    <2>8. CASE ClientCloses
      <3>1. GatewayType' /\ OverIsReleased'
        BY <2>0, <2>8, <2>a DEF ClientCloses
      <3>2. WireType'
        BY <2>0, <2>8 DEF ClientCloses
      <3>3. OtherType'
        BY <2>0, <2>8, ZenonT(60) DEF ClientCloses
      <3>. QED
        BY <3>1, <3>2, <3>3 DEF Inv
    <2>9. CASE ConnectFails
      <3>1. GatewayType' /\ OverIsReleased'
        BY <2>0, <2>9 DEF ConnectFails
      <3>2. WireType'
        BY <2>0, <2>9 DEF ConnectFails
      <3>3. OtherType'
        BY <2>0, <2>9 DEF ConnectFails
      <3>. QED
        BY <3>1, <3>2, <3>3 DEF Inv
    <2>10. CASE StartTimesOut \/ StartRejected
      <3>1. GatewayType' /\ OverIsReleased'
        BY <2>0, <2>10 DEF StartTimesOut, StartRejected
      <3>2. WireType'
        BY <2>0, <2>10 DEF StartTimesOut, StartRejected
      <3>3. OtherType'
        BY <2>0, <2>10 DEF StartTimesOut, StartRejected
      <3>. QED
        BY <3>1, <3>2, <3>3 DEF Inv
    <2>11. CASE AckArrives
      <3>1. GatewayType' /\ OverIsReleased'
        BY <2>0, <2>11 DEF AckArrives
      <3>2. WireType'
        BY <2>0, <2>11 DEF AckArrives
      <3>3. OtherType'
        BY <2>0, <2>11 DEF AckArrives
      <3>. QED
        BY <3>1, <3>2, <3>3 DEF Inv
    <2>12. CASE onFinal
      <3>1. GatewayType' /\ OverIsReleased'
        <4>1. heard' = FALSE /\ UNCHANGED <<state, active, explicitlyStopped, asr, idleTimer,
                                           task, pcm, link>>
          BY <2>12 DEF onFinal
        <4>2. heard' \in BOOLEAN
          BY <4>1
        <4>. QED
          BY <2>0, <4>1, <4>2
      <3>2. WireType'
        <4>1. UNCHANGED wire \/ wire' = Append(wire, "input")
          BY <2>12 DEF onFinal
        <4>. QED
          BY <2>0, <2>12, <4>1 DEF onFinal
      <3>3. OtherType'
        BY <2>0, <2>12 DEF onFinal
      <3>. QED
        BY <3>1, <3>2, <3>3 DEF Inv
    <2>13. CASE BackendCloseSeen
      <3>1. GatewayType' /\ OverIsReleased'
        BY <2>0, <2>13, <2>a DEF BackendCloseSeen
      <3>2. WireType'
        BY <2>0, <2>13 DEF BackendCloseSeen
      <3>3. OtherType'
        BY <2>0, <2>13, ZenonT(60) DEF BackendCloseSeen
      <3>. QED
        BY <3>1, <3>2, <3>3 DEF Inv
    <2>14. CASE BackendOpens
      <3>1. GatewayType' /\ OverIsReleased'
        BY <2>0, <2>14 DEF BackendOpens
      <3>2. WireType'
        <4>1. UNCHANGED inbox /\ (UNCHANGED wire \/ wire' = <<"start">>)
          BY <2>14 DEF BackendOpens
        <4>2. <<"start">> \in Seq(Messages)
          OBVIOUS
        <4>. QED
          BY <2>0, <4>1, <4>2
      <3>3. OtherType'
        <4>1. UNCHANGED <<clientVars, answer, drops, backendVars>>
          BY <2>14 DEF BackendOpens
        <4>2. attached' = attached \/ attached' = TRUE
          BY <2>14 DEF BackendOpens
        <4>3. attached' \in BOOLEAN
          BY <2>0, <4>2, Zenon
        <4>. QED
          BY <2>0, <4>1, <4>3
      <3>. QED
        BY <3>1, <3>2, <3>3 DEF Inv
    <2>15. CASE IdleTimeout
      <3>1. GatewayType' /\ OverIsReleased'
        BY <2>0, <2>15, <2>a DEF IdleTimeout
      <3>2. WireType'
        BY <2>0, <2>15 DEF IdleTimeout
      <3>3. OtherType'
        BY <2>0, <2>15 DEF IdleTimeout
      <3>. QED
        BY <3>1, <3>2, <3>3 DEF Inv
    <2>16. CASE Deliver
      <3>1. GatewayType' /\ OverIsReleased'
        BY <2>0, <2>16 DEF Deliver
      <3>2. WireType'
        BY <2>0, <2>16 DEF Deliver
      <3>3. OtherType'
        BY <2>0, <2>16 DEF Deliver
      <3>. QED
        BY <3>1, <3>2, <3>3 DEF Inv
    <2>17. CASE Drop
      <3>1. GatewayType' /\ OverIsReleased'
        BY <2>0, <2>17 DEF Drop
      <3>2. WireType'
        BY <2>0, <2>17 DEF Drop
      <3>3. OtherType'
        BY <2>0, <2>17 DEF Drop
      <3>. QED
        BY <3>1, <3>2, <3>3 DEF Inv
    <2>18. CASE Handle
      <3>1. GatewayType' /\ OverIsReleased'
        BY <2>0, <2>18 DEF Handle
      <3>2. WireType'
        BY <2>0, <2>18 DEF Handle
      <3>3. OtherType'
        BY <2>0, <2>18 DEF Handle
      <3>. QED
        BY <3>1, <3>2, <3>3 DEF Inv
    <2>19. ASSUME NEW ok \in BOOLEAN, Started(ok) PROVE Inv'
      <3>1. GatewayType' /\ OverIsReleased'
        BY <2>0, <2>19 DEF Started
      <3>2. WireType'
        BY <2>0, <2>19 DEF Started
      <3>3. OtherType'
        BY <2>0, <2>19 DEF Started
      <3>. QED
        BY <3>1, <3>2, <3>3 DEF Inv
    <2>20. CASE Answered \/ Stopped \/ Closed
      <3>1. GatewayType' /\ OverIsReleased'
        BY <2>0, <2>20 DEF Answered, Stopped, Closed
      <3>2. WireType'
        BY <2>0, <2>20 DEF Answered, Stopped, Closed
      <3>3. OtherType'
        <4>1. UNCHANGED <<clientVars, attached, answer, drops, bStopped>>
          BY <2>20 DEF Answered, Stopped, Closed
        <4>2. bClosed' \in BOOLEAN /\ bpc' \in {bpc, "idle"}
          BY <2>0, <2>20 DEF Answered, Stopped, Closed
        <4>3. outcome' \in {outcome, "saved", "discarded", "interrupted"}
          BY <2>20 DEF Answered, Stopped, Closed
        <4>. QED
          BY <2>0, <4>1, <4>2, <4>3
      <3>. QED
        BY <3>1, <3>2, <3>3 DEF Inv
    <2>21. CASE UNCHANGED vars
      <3>1. GatewayType' /\ OverIsReleased'
        BY <2>0, <2>21 DEF vars
      <3>2. WireType'
        BY <2>0, <2>21 DEF vars
      <3>3. OtherType'
        BY <2>0, <2>21 DEF vars
      <3>. QED
        BY <3>1, <3>2, <3>3 DEF Inv
    <2>. QED
      BY <2>1, <2>2, <2>3, <2>4, <2>5, <2>6, <2>7, <2>8, <2>9, <2>10, <2>11, <2>12,
         <2>13, <2>14, <2>15, <2>16, <2>17, <2>18, <2>19, <2>20, <2>21
         DEF Next, ClientMessage, GatewayStep, BackendStep
  <1>. QED
    BY <1>1, <1>2, PTL DEF Spec

\* The variables of a call keep their types (GatewaySession, BackendVoiceClient).
THEOREM TypeCorrect == Spec => []TypeOK
    <1>1. Inv => TypeOK
    BY DEF Inv, GatewayType, WireType, OtherType, TypeOK, Messages
  <1>. QED
    BY <1>1, InvCorrect, PTL

\* A gateway session that is over has stopped its recogniser, has closed its
\* backend socket and stays over (disconnect, stop, startAsr).
THEOREM ReleaseCorrect == Spec => []OverIsReleased
    <1>1. Inv => OverIsReleased
    BY DEF Inv
  <1>. QED
    BY <1>1, InvCorrect, PTL

-----------------------------------------------------------------------------
(* The call implements CallOutcome. *)

\* What None and Leads become when a message is appended or taken.
LEMMA NoneAndLeads ==
    ASSUME NEW s \in Seq(Messages), NEW m, NEW x \in Messages
    PROVE  /\ None(m, Append(s, x)) <=> None(m, s) /\ x # m
           /\ x # m /\ Leads(m, s) => Leads(m, Append(s, x))
           /\ None(m, s) => Leads(m, s)
           /\ s = <<>> => None(m, s) /\ Leads(m, Append(s, x))
           /\ s # <<>> /\ Leads(m, s) => None(m, Tail(s))
           /\ s # <<>> /\ None(m, s) => None(m, Tail(s)) /\ Head(s) # m
           /\ s # <<>> => Head(s) \in Messages
  <1>. USE DEF None, Leads
  <1>1. s # <<>> => /\ Len(Tail(s)) = Len(s) - 1
                    /\ Head(s) = s[1] /\ Len(s) \in Nat \ {0} /\ s[1] \in Messages
                    /\ \A i \in 1..Len(Tail(s)) : Tail(s)[i] = s[i + 1]
    BY HeadTailProperties
  <1>2. /\ Len(Append(s, x)) = Len(s) + 1
        /\ \A i \in 1..Len(s) : Append(s, x)[i] = s[i]
        /\ Append(s, x)[Len(s) + 1] = x
    BY AppendProperties
  <1>3. None(m, Append(s, x)) <=> None(m, s) /\ x # m
    BY <1>2
  <1>4. x # m /\ Leads(m, s) => Leads(m, Append(s, x))
    BY <1>2
  <1>5. s = <<>> => None(m, s) /\ Leads(m, Append(s, x))
    BY <1>2
  <1>6. s # <<>> /\ Leads(m, s) => None(m, Tail(s))
    BY <1>1
  <1>7. s # <<>> /\ None(m, s) => None(m, Tail(s)) /\ Head(s) # m
    BY <1>1
  <1>. QED
    BY <1>1, <1>3, <1>4, <1>5, <1>6, <1>7

\* The start is sent once and first, and what is under way is what was asked.
LEMMA CallCorrect == Spec => []CallInv
  <1>1. Init => CallInv
    BY DEF Init, CallInv, NothingSent, OneStart, OneDecision, None, Leads, Decisions
  <1>2. TypeOK /\ CallInv /\ [Next]_vars => CallInv'
    <2>. SUFFICES ASSUME TypeOK, CallInv, [Next]_vars PROVE CallInv'
      OBVIOUS
    <2>0. /\ wire \in Seq(Messages) /\ inbox \in Seq(Messages)
          /\ "start" \in Messages /\ "input" \in Messages /\ Decisions \subseteq Messages
          /\ "start" \notin Decisions /\ "input" \notin Decisions /\ "nothing" \notin Decisions
          /\ "idle" \notin Decisions /\ "starting" \notin Decisions /\ "answering" \notin Decisions
          /\ asked \in {"nothing"} \cup Decisions
      BY DEF TypeOK, Messages, Decisions
    <2>n. \A m, s : None(m, s) => Leads(m, s)
      BY DEF None, Leads
    <2>. USE DEF CallInv, NothingSent, OneStart, OneDecision, gatewayVars, clientVars,
                 linkVars, backendVars
    <2>1. CASE RefuseStart \/ RefuseMessage \/ handleBinary
      BY <2>1 DEF RefuseStart, RefuseMessage, handleBinary
    <2>2. ASSUME NEW audio \in BOOLEAN, start(audio) PROVE CallInv'
      BY <2>2 DEF start
    <2>3. CASE Forward
      BY <2>0, <2>3, NoneAndLeads DEF Forward, SendOrThrow
    <2>4. ASSUME NEW d \in Decisions, stop(d) PROVE CallInv'
      BY <2>0, <2>4, NoneAndLeads DEF stop, SendOrThrow, Accepts
    <2>5. CASE StopDelayEnds
      BY <2>5 DEF StopDelayEnds, CloseBackend
    <2>6. CASE ClientCloses \/ IdleTimeout \/ BackendCloseSeen
      BY <2>6 DEF ClientCloses, IdleTimeout, BackendCloseSeen, disconnect, CloseBackend
    <2>7. CASE ConnectFails \/ StartTimesOut \/ StartRejected \/ AckArrives
      BY <2>7 DEF ConnectFails, StartTimesOut, StartRejected, AckArrives
    <2>8. CASE onFinal
      <3>1. UNCHANGED <<task, active, asked, link, inbox, bpc, outcome, bStopped>>
        BY <2>8 DEF onFinal
      <3>2. UNCHANGED wire \/ (wire' = Append(wire, "input") /\ link = "open")
        BY <2>8 DEF onFinal, SendOrThrow
      <3>3. CASE UNCHANGED wire
        BY <3>1, <3>3
      <3>4. CASE wire' = Append(wire, "input") /\ link = "open"
        BY <2>0, <3>1, <3>4, NoneAndLeads
      <3>. QED
        BY <3>2, <3>3, <3>4
    <2>9. CASE BackendOpens
      <3>1. /\ wire = <<>> /\ inbox = <<>> /\ bpc = "idle" /\ outcome = "none"
            /\ link' = "open"
            /\ UNCHANGED <<asked, active, inbox, bpc, outcome, bStopped>>
        BY <2>9 DEF BackendOpens
      <3>2. CASE task = "open"
        <4>1. wire' = <<"start">>
          BY <2>9, <3>2 DEF BackendOpens
        <4>2. Leads("start", wire') /\ ~None("start", wire')
          BY <4>1 DEF None, Leads
        <4>3. \A d \in Decisions : None(d, wire')
          BY <2>0, <4>1 DEF None
        <4>. QED
          BY <2>0, <3>1, <3>2, <4>2, <4>3
      <3>3. CASE task # "open"
        BY <2>9, <3>1, <3>3 DEF BackendOpens
      <3>. QED
        BY <3>2, <3>3
    <2>10. CASE Deliver
      <3>1. /\ wire # <<>> /\ link \in {"open", "closing"} /\ Head(wire) \in Messages
            /\ inbox' = Append(inbox, Head(wire)) /\ wire' = Tail(wire)
            /\ UNCHANGED <<link, task, active, asked, bpc, outcome, bStopped>>
        BY <2>0, <2>10, NoneAndLeads DEF Deliver
      <3>2. None("start", wire') /\ Leads("start", wire')
        BY <2>0, <2>n, <3>1, NoneAndLeads
      <3>3. Leads("start", inbox')
        <4>1. CASE Head(wire) = "start"
          <5>1. inbox = <<>>
            BY <2>0, <3>1, <4>1, NoneAndLeads
          <5>. QED
            BY <2>0, <3>1, <5>1, NoneAndLeads
        <4>2. CASE Head(wire) # "start"
          BY <2>0, <3>1, <4>2, NoneAndLeads
        <4>. QED
          BY <4>1, <4>2
      <3>4. None("start", wire) /\ None("start", inbox) => None("start", inbox')
        BY <2>0, <3>1, NoneAndLeads
      <3>5. \A d \in Decisions : d # asked => None(d, wire') /\ None(d, inbox')
        BY <2>0, <3>1, NoneAndLeads
      <3>. QED
        BY <3>1, <3>2, <3>3, <3>4, <3>5
    <2>11. CASE Drop
      <3>1. \A m : None(m, wire') /\ Leads(m, wire')
        BY <2>11 DEF Drop, None, Leads
      <3>. QED
        BY <2>11, <3>1 DEF Drop
    <2>12. CASE Handle
      <3>1. /\ inbox # <<>> /\ bpc = "idle" /\ inbox' = Tail(inbox)
            /\ UNCHANGED <<wire, link, task, active, asked, outcome>>
            /\ Head(inbox) \in Messages
        BY <2>0, <2>12, NoneAndLeads DEF Handle
      <3>2. None("start", inbox') /\ Leads("start", inbox')
        BY <2>0, <2>n, <3>1, NoneAndLeads
      <3>3. None("start", wire)
        BY <3>1
      <3>4. Head(inbox) = "start" => outcome = "none"
        BY <2>0, <3>1, NoneAndLeads
      <3>5. \A d \in Decisions : d # asked => None(d, inbox') /\ Head(inbox) # d
        BY <2>0, <3>1, NoneAndLeads
      <3>6. \/ bpc' = "starting" /\ Head(inbox) = "start"
            \/ bpc' = "idle" \/ bpc' = "answering"
            \/ bpc' = Head(inbox) /\ bpc' \in Decisions /\ outcome = "active" /\ bStopped'
        <4>1. CASE Head(inbox) = "start"
          <5>1. bpc' = "starting"
            BY <2>0, <2>12, <4>1 DEF Handle
          <5>. QED
            BY <4>1, <5>1
        <4>2. CASE Head(inbox) # "start" /\ outcome # "active"
          <5>1. bpc' = "idle"
            BY <2>12, <4>2 DEF Handle
          <5>. QED
            BY <5>1
        <4>3. CASE Head(inbox) \in Decisions /\ outcome = "active"
          <5>1. Head(inbox) # "start" /\ bpc' = Head(inbox)
            BY <2>0, <2>12, <4>3 DEF Handle
          <5>2. bStopped'
            BY <2>12, <4>3, Zenon DEF Handle
          <5>. QED
            BY <4>3, <5>1, <5>2
        <4>4. CASE Head(inbox) \notin Decisions \cup {"start"} /\ outcome = "active"
          <5>1. bpc' = "answering"
            BY <2>12, <4>4 DEF Handle
          <5>. QED
            BY <5>1
        <4>. QED
          BY <4>1, <4>2, <4>3, <4>4
      <3>. QED
        BY <2>0, <3>1, <3>2, <3>3, <3>4, <3>5, <3>6
    <2>13. ASSUME NEW ok \in BOOLEAN, Started(ok) PROVE CallInv'
      BY <2>0, <2>13 DEF Started
    <2>14. CASE Answered \/ Stopped \/ Closed
      BY <2>0, <2>14 DEF Answered, Stopped, Closed
    <2>15. CASE UNCHANGED vars
      BY <2>15 DEF vars
    <2>. HIDE DEF CallInv
    <2>. QED
      BY <2>1, <2>2, <2>3, <2>4, <2>5, <2>6, <2>7, <2>8, <2>9, <2>10, <2>11, <2>12,
         <2>13, <2>14, <2>15 DEF Next, ClientMessage, GatewayStep, BackendStep
  <1>. QED
    BY <1>1, <1>2, TypeCorrect, PTL DEF Spec

\* The session a call opens at the backend is begun once and ended once, saved or
\* discarded only as the client decided: the call implements CallOutcome.
THEOREM OutcomeCorrect == Spec => OutcomeSpec
  <1>1. Init => Outcome!Init
    BY DEF Init, Outcome!Init
  <1>2. TypeOK /\ CallInv /\ [Next]_vars => [Outcome!Next]_<<outcome, asked>>
    <2>. SUFFICES ASSUME TypeOK, CallInv, [Next]_vars
                  PROVE  [Outcome!Next]_<<outcome, asked>>
      OBVIOUS
    <2>. USE DEF gatewayVars, clientVars, linkVars, backendVars
    <2>1. CASE RefuseStart \/ RefuseMessage \/ Forward \/ handleBinary
      BY <2>1 DEF RefuseStart, RefuseMessage, Forward, handleBinary
    <2>2. ASSUME NEW audio \in BOOLEAN, start(audio) PROVE UNCHANGED <<outcome, asked>>
      BY <2>2 DEF start
    <2>3. ASSUME NEW d \in Decisions, stop(d) PROVE [Outcome!Next]_<<outcome, asked>>
      <3>1. UNCHANGED outcome
        BY <2>3 DEF stop
      <3>2. UNCHANGED asked \/ (asked = "nothing" /\ asked' = d)
        BY <2>3 DEF stop
      <3>. QED
        BY <3>1, <3>2 DEF Outcome!Next, Outcome!Ask, Outcome!Decisions, Decisions
    <2>4. CASE StopDelayEnds \/ ClientCloses \/ ConnectFails \/ StartTimesOut \/ StartRejected
      BY <2>4 DEF StopDelayEnds, ClientCloses, ConnectFails, StartTimesOut, StartRejected
    <2>5. CASE AckArrives \/ onFinal \/ BackendCloseSeen \/ BackendOpens \/ IdleTimeout
      BY <2>5 DEF AckArrives, onFinal, BackendCloseSeen, BackendOpens, IdleTimeout
    <2>6. CASE Deliver \/ Drop \/ Handle \/ Answered
      BY <2>6 DEF Deliver, Drop, Handle, Answered
    <2>7. ASSUME NEW ok \in BOOLEAN, Started(ok) PROVE [Outcome!Next]_<<outcome, asked>>
      <3>1. outcome = "none" /\ UNCHANGED asked /\ outcome' \in {outcome, "active"}
        BY <2>7 DEF Started, CallInv, OneStart
      <3>. QED
        BY <3>1 DEF Outcome!Next, Outcome!Begin
    <2>8. CASE Stopped
      <3>1. outcome = "active" /\ bpc = asked /\ asked \in Decisions
        BY <2>8 DEF Stopped, CallInv, OneDecision
      <3>. QED
        BY <2>8, <3>1 DEF Stopped, Outcome!Next, Outcome!Honour, Outcome!EndOf,
                          Outcome!Decisions, Decisions
    <2>9. CASE Closed
      <3>1. UNCHANGED asked
        BY <2>9 DEF Closed
      <3>2. UNCHANGED outcome \/ (outcome = "active" /\ outcome' = "interrupted")
        BY <2>9 DEF Closed
      <3>. QED
        BY <3>1, <3>2 DEF Outcome!Next, Outcome!Interrupt
    <2>10. CASE UNCHANGED vars
      BY <2>10 DEF vars
    <2>. QED
      BY <2>1, <2>2, <2>3, <2>4, <2>5, <2>6, <2>7, <2>8, <2>9, <2>10
         DEF Next, ClientMessage, GatewayStep, BackendStep
  <1>. QED
    BY <1>1, <1>2, TypeCorrect, CallCorrect, PTL DEF Spec, OutcomeSpec, Outcome!Spec
=============================================================================
