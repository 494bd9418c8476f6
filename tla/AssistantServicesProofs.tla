---------------------- MODULE AssistantServicesProofs ----------------------
(***************************************************************************)
(* Theorems about the services of the assistant (AssistantServices), for     *)
(* every set of users, calls and rows: what users agree on, sign in to and sync. *)
(* The others are in AssistantRecordsProofs. Each property is of one service, whose *)
(* steps are the only ones that change its variables: a section shows that     *)
(* its inductive invariant holds initially and that a step of that service      *)
(* keeps it, and Lift that a step of the services is a step of each or leaves     *)
(* its variables alone.                                                     *)
(***************************************************************************)
EXTENDS AssistantServices, FiniteSetTheorems, SequenceTheorems, WellFoundedInduction, TLAPS

\* A sequence whose elements are all in a set is a sequence over that set.
LEMMA Narrowed ==
    ASSUME NEW S, NEW T, NEW s \in Seq(S), \A i \in DOMAIN s : s[i] \in T
    PROVE  s \in Seq(T)
  <1>1. Len(s) \in Nat /\ DOMAIN s = 1..Len(s) /\ s = [i \in 1..Len(s) |-> s[i]]
    BY LenProperties
  <1>2. [i \in 1..Len(s) |-> s[i]] \in Seq(T)
    BY <1>1, IsASeq
  <1>. QED
    BY <1>1, <1>2

-----------------------------------------------------------------------------
(* Relay. *)

ContactRows == [owner : Users, user : Users, usable : BOOLEAN]
RequestRows == [from : Users, to : Users, contact : Nat, type : RelayTypes, status : RelayStatuses]

BlockCalls == [op : {"contact"}, pc : {"block"}, user : Users, contact : Nat]
DraftCalls == [op : {"draft"}, pc : {"rate", "recipient", "insert"}, user : Users,
               type : RelayTypes, contact : Nat, to : Users]
SendCalls == [op : {"send"}, pc : {"contact", "blocks", "update", "notify"}, user : Users,
              request : Nat, barred : BOOLEAN]
MessageCalls == [op : {"message"}, pc : {"notify"}, request : Nat]
DecisionCalls == [op : {"decide"}, pc : {"update", "approval", "block"}, user : Users,
                  request : Nat, decision : Decisions]

RelayCallTypes == {NoCall} \cup BlockCalls \cup DraftCalls \cup SendCalls \cup DecisionCalls
                  \cup MessageCalls

RelayShape ==
    /\ contacts \in Seq(ContactRows)
    /\ agentRequests \in Seq(RequestRows)
    /\ relayCalls \in [RelayCalls -> RelayCallTypes]

WasSent(r) == \E s \in sends : s.request = r

\* A request has its contact, and one that was sent or decided has its send.
RequestOK(r) ==
    /\ agentRequests[r].contact \in DOMAIN contacts
    /\ agentRequests[r].status \in {"sent", "decided"} => WasSent(r)

\* What a call has read that still holds: a block is never taken back, and the
\* recipient of a request is the account its contact was made for.
CallOK(call) ==
    /\ call.op = "draft" =>
         /\ call.contact # 0 => call.contact \in DOMAIN contacts
         /\ call.pc = "insert" => call.contact # 0
    /\ call.op = "send" =>
         /\ call.request \in DOMAIN agentRequests
         /\ agentRequests[call.request].type # "team_update_request"
         /\ call.barred => BlockedByRecipient(call.user, Recipient(call.request))
         /\ call.pc = "update" => ~call.barred
         /\ call.pc = "notify" => WasSent(call.request)
    /\ call.op = "message" => call.request \in messages
    /\ call.op = "decide" => call.request \in DOMAIN agentRequests /\ WasSent(call.request)

RelayInv ==
    /\ \A r \in DOMAIN agentRequests : RequestOK(r)
    /\ \A r \in answered : WasSent(r)
    /\ \A s \in sends : /\ s.request \in DOMAIN agentRequests
                        /\ agentRequests[s.request].type # "team_update_request"
                        /\ ~s.barred
    /\ \A r \in notified : r \in messages \/ WasSent(r)
    /\ \A c \in RelayCalls : CallOK(relayCalls[c])

\* What every step keeps of what calls have read.
RelayGrows ==
    /\ DOMAIN contacts \subseteq DOMAIN contacts'
    /\ \A k \in DOMAIN contacts : contacts'[k].user = contacts[k].user
    /\ DOMAIN agentRequests \subseteq DOMAIN agentRequests'
    /\ \A r \in DOMAIN agentRequests : /\ agentRequests'[r].contact = agentRequests[r].contact
                                       /\ agentRequests'[r].type = agentRequests[r].type
    /\ blocks \subseteq blocks' /\ sends \subseteq sends' /\ messages \subseteq messages'

\* What the operation of a call says of its record.
LEMMA CallOfOp ==
    ASSUME RelayShape, NEW c \in RelayCalls
    PROVE  /\ relayCalls[c].op = "contact" => relayCalls[c] \in BlockCalls
           /\ relayCalls[c].op = "draft" => relayCalls[c] \in DraftCalls
           /\ relayCalls[c].op = "send" => relayCalls[c] \in SendCalls
           /\ relayCalls[c].op = "decide" => relayCalls[c] \in DecisionCalls
           /\ relayCalls[c].op = "message" => relayCalls[c] \in MessageCalls
  BY DEF RelayShape, RelayCallTypes, NoCall, BlockCalls, DraftCalls, SendCalls, DecisionCalls,
         MessageCalls

\* A contact's row is written.
LEMMA ContactEdited ==
    ASSUME RelayShape, NEW k \in DOMAIN contacts, NEW v \in BOOLEAN,
           contacts' = [contacts EXCEPT ![k].usable = v]
    PROVE  /\ contacts' \in Seq(ContactRows) /\ DOMAIN contacts' = DOMAIN contacts
           /\ \A j \in DOMAIN contacts : contacts'[j].user = contacts[j].user
  <1>. DEFINE e == [contacts[k] EXCEPT !.usable = v]
  <1>1. k \in 1..Len(contacts) /\ contacts \in Seq(ContactRows)
    BY DEF RelayShape
  <1>2. e \in ContactRows /\ e.user = contacts[k].user
    <2>1. contacts[k] \in ContactRows
      BY <1>1, ElementOfSeq
    <2>. QED
      BY <2>1 DEF ContactRows
  <1>3. contacts' = [contacts EXCEPT ![k] = e]
    OBVIOUS
  <1>. HIDE DEF e
  <1>. QED
    BY <1>1, <1>2, <1>3, ExceptSeq, LenProperties

\* A request's row is written.
LEMMA RequestEdited ==
    ASSUME RelayShape, NEW r \in DOMAIN agentRequests, NEW e \in RequestRows,
           e.contact = agentRequests[r].contact, e.type = agentRequests[r].type,
           agentRequests' = [agentRequests EXCEPT ![r] = e]
    PROVE  /\ agentRequests' \in Seq(RequestRows)
           /\ DOMAIN agentRequests' = DOMAIN agentRequests
           /\ \A q \in DOMAIN agentRequests :
                /\ agentRequests'[q].contact = agentRequests[q].contact
                /\ agentRequests'[q].type = agentRequests[q].type
                /\ q # r => agentRequests'[q].status = agentRequests[q].status
           /\ agentRequests'[r].status = e.status
  <1>1. r \in 1..Len(agentRequests) /\ agentRequests \in Seq(RequestRows)
    BY DEF RelayShape
  <1>. QED
    BY <1>1, ExceptSeq, LenProperties

\* What a call has read still holds when rows, blocks and sends only grow, and so
\* does the invariant when nothing else happens to requests, answers and sends.
LEMMA RelayKept ==
    ASSUME RelayShape, RelayInv, RelayGrows
    PROVE  /\ \A r : WasSent(r) => WasSent(r)'
           /\ \A call \in RelayCallTypes : CallOK(call) => CallOK(call)'
           /\ \A r \in DOMAIN agentRequests :
                \/ agentRequests'[r].status = agentRequests[r].status
                \/ agentRequests'[r].status \notin {"sent", "decided"}
                \/ WasSent(r)'
                => RequestOK(r)'
           /\ \A s \in sends : /\ s.request \in DOMAIN agentRequests'
                               /\ agentRequests'[s.request].type # "team_update_request"
                               /\ ~s.barred
           /\ \A r \in answered : WasSent(r)'
           /\ \A r \in notified : r \in messages' \/ WasSent(r)'
  <1>1. \A r : WasSent(r) => WasSent(r)'
    BY DEF WasSent, RelayGrows
  <1>2. ASSUME NEW call \in RelayCallTypes, CallOK(call) PROVE CallOK(call)'
    <2>1. CASE call.op = "draft"
      BY <1>2, <2>1 DEF CallOK, RelayGrows
    <2>2. CASE call.op = "send"
      <3>1. /\ call.request \in DOMAIN agentRequests
            /\ agentRequests[call.request].contact \in DOMAIN contacts
        BY <1>2, <2>2 DEF CallOK, RelayInv, RequestOK
      <3>2. Recipient(call.request)' = Recipient(call.request)
        BY <3>1 DEF Recipient, RelayGrows
      <3>3. call.barred => BlockedByRecipient(call.user, Recipient(call.request))'
        BY <1>2, <2>2, <3>2 DEF CallOK, BlockedByRecipient, RelayGrows
      <3>. QED
        BY <1>1, <1>2, <2>2, <3>1, <3>3 DEF CallOK, RelayGrows
    <2>3. CASE call.op = "decide"
      BY <1>1, <1>2, <2>3 DEF CallOK, RelayGrows
    <2>4. CASE call.op \notin {"draft", "send", "decide", "message"}
      BY <2>4 DEF CallOK
    <2>5. CASE call.op = "message"
      BY <1>2, <2>5 DEF CallOK, RelayGrows
    <2>. QED
      BY <2>1, <2>2, <2>3, <2>4, <2>5
  <1>3. ASSUME NEW r \in DOMAIN agentRequests,
               \/ agentRequests'[r].status = agentRequests[r].status
               \/ agentRequests'[r].status \notin {"sent", "decided"}
               \/ WasSent(r)'
        PROVE  RequestOK(r)'
    BY <1>1, <1>3 DEF RelayInv, RequestOK, RelayGrows
  <1>4. ASSUME NEW s \in sends
        PROVE  /\ s.request \in DOMAIN agentRequests'
               /\ agentRequests'[s.request].type # "team_update_request"
               /\ ~s.barred
    BY DEF RelayInv, RelayGrows
  <1>5. \A r \in answered : WasSent(r)'
    BY <1>1 DEF RelayInv
  <1>6. \A r \in notified : r \in messages' \/ WasSent(r)'
    BY <1>1 DEF RelayInv, RelayGrows
  <1>. QED
    BY <1>1, <1>2, <1>3, <1>4, <1>5, <1>6

\* What a step does to the rows and calls, and that what it adds is sound.
RelayEffect ==
    /\ RelayShape' /\ RelayGrows
    /\ \A r \in DOMAIN agentRequests' :
         \/ /\ r \in DOMAIN agentRequests
            /\ \/ agentRequests'[r].status = agentRequests[r].status
               \/ agentRequests'[r].status \notin {"sent", "decided"}
               \/ WasSent(r)'
         \/ RequestOK(r)'
    /\ \A r \in answered' : r \in answered \/ WasSent(r)'
    /\ \A s \in sends' : \/ s \in sends
                        \/ /\ s.request \in DOMAIN agentRequests'
                           /\ agentRequests'[s.request].type # "team_update_request"
                           /\ ~s.barred
    /\ \A r \in notified' : r \in notified \/ r \in messages' \/ WasSent(r)'
    /\ \A d \in RelayCalls : relayCalls'[d] = relayCalls[d] \/ CallOK(relayCalls[d])'

\* RelayEffect keeps the invariant.
LEMMA RelayEffectKeeps == RelayShape /\ RelayInv /\ RelayEffect => RelayInv'
  <1>. SUFFICES ASSUME RelayShape, RelayInv, RelayEffect PROVE RelayInv'
    OBVIOUS
  <1>1. RelayGrows
    BY DEF RelayEffect
  <1>2. \A r \in DOMAIN agentRequests' : RequestOK(r)'
    BY <1>1, RelayKept DEF RelayEffect
  <1>3. \A r \in answered' : WasSent(r)'
    BY <1>1, RelayKept DEF RelayEffect
  <1>4. \A s \in sends' : /\ s.request \in DOMAIN agentRequests'
                         /\ agentRequests'[s.request].type # "team_update_request"
                         /\ ~s.barred
    BY <1>1, RelayKept DEF RelayEffect
  <1>5. ASSUME NEW d \in RelayCalls PROVE CallOK(relayCalls[d])'
    <2>1. CASE relayCalls'[d] = relayCalls[d]
      <3>1. relayCalls[d] \in RelayCallTypes /\ CallOK(relayCalls[d])
        BY DEF RelayShape, RelayInv
      <3>2. \A call : call = relayCalls[d] => CallOK(call)'
        BY <1>1, <3>1, RelayKept
      <3>. QED
        BY <2>1, <3>2
    <2>2. CASE relayCalls'[d] # relayCalls[d]
      BY <2>2 DEF RelayEffect
    <2>. QED
      BY <2>1, <2>2
  <1>6. \A r \in notified' : r \in messages' \/ WasSent(r)'
    BY <1>1, RelayKept DEF RelayEffect
  <1>. QED
    BY <1>2, <1>3, <1>4, <1>5, <1>6 DEF RelayInv

\* Every step of the relay has such an effect.
LEMMA RelayStepEffect == RelayShape /\ RelayInv /\ [RelayNext]_relayVars => RelayEffect
  <1>. SUFFICES ASSUME RelayShape, RelayInv, [RelayNext]_relayVars PROVE RelayEffect
    OBVIOUS
  <1>0. /\ contacts \in Seq(ContactRows) /\ agentRequests \in Seq(RequestRows)
        /\ relayCalls \in [RelayCalls -> RelayCallTypes]
        /\ DOMAIN contacts = 1..Len(contacts) /\ DOMAIN agentRequests = 1..Len(agentRequests)
        /\ \A k \in DOMAIN contacts : k \in Nat \ {0}
        /\ \A r \in DOMAIN agentRequests : r \in Nat /\ agentRequests[r] \in RequestRows
        /\ \A r \in DOMAIN agentRequests : RequestOK(r)
        /\ \A d \in RelayCalls : CallOK(relayCalls[d])
    BY ElementOfSeq DEF RelayShape, RelayInv
  <1>n. CallOK(NoCall)'
    BY DEF CallOK, NoCall
  <1>. USE DEF RelayEffect, RelayShape, RelayGrows, notices
  <1>1. ASSUME NEW u \in Users, NEW user \in Users, AddContact(u, user)
        PROVE  RelayEffect
    <2>1. NewContact(u, user) \in ContactRows
      BY DEF NewContact, ContactRows
    <2>. QED
      BY <1>0, <1>1, <2>1, AppendProperties, LenProperties DEF AddContact, NewContact
  <1>2. ASSUME NEW u \in Users, NEW r \in DOMAIN agentRequests, CancelRequest(u, r)
        PROVE  RelayEffect
    <2>. DEFINE e == [agentRequests[r] EXCEPT !.status = "canceled"]
    <2>1. e \in RequestRows /\ e.contact = agentRequests[r].contact /\ e.type = agentRequests[r].type
      BY <1>0 DEF RequestRows, RelayStatuses
    <2>2. e.status = "canceled" /\ agentRequests' = [agentRequests EXCEPT ![r] = e]
      BY <1>0, <1>2 DEF CancelRequest, SetStatus, RequestRows
    <2>. HIDE DEF e
    <2>. QED
      BY <1>0, <1>2, <2>1, <2>2, RequestEdited DEF CancelRequest
  <1>3. ASSUME NEW u \in Users, NEW k \in DOMAIN contacts, NEW usable \in BOOLEAN, SetContactUsable(u, k, usable)
        PROVE  RelayEffect
    BY <1>0, <1>3, ContactEdited DEF SetContactUsable
  <1>4. ASSUME NEW c \in RelayCalls, NEW u \in Users, NEW k \in DOMAIN contacts, StartBlockContact(c, u, k)
        PROVE  RelayEffect
    <2>1. [op |-> "contact", pc |-> "block", user |-> u, contact |-> k] \in BlockCalls
      BY <1>0 DEF BlockCalls
    <2>. QED
      BY <1>0, <1>4, <2>1, ContactEdited DEF StartBlockContact, Begin, CallOK, RelayCallTypes
  <1>5. ASSUME NEW c \in RelayCalls, NEW u \in Users, NEW type \in RelayTypes,
                 NEW k \in {0} \cup DOMAIN contacts, NEW user \in Users, StartDraft(c, u, type, k, user)
        PROVE  RelayEffect
    <2>. DEFINE new == [op |-> "draft", user |-> u, type |-> type, contact |-> k, to |-> user,
                        pc |-> "rate"]
    <2>1. new \in DraftCalls /\ CallOK(new)'
      BY <1>0, <1>5 DEF StartDraft, DraftCalls, CallOK
    <2>2. relayCalls' = [relayCalls EXCEPT ![c] = new]
      BY <1>5 DEF StartDraft, Begin
    <2>. HIDE DEF new
    <2>. QED
      BY <1>0, <1>5, <2>1, <2>2 DEF StartDraft, RelayCallTypes
  <1>6. ASSUME NEW c \in RelayCalls, NEW u \in Users, NEW r \in DOMAIN agentRequests, StartSend(c, u, r)
        PROVE  RelayEffect
    <2>. SUFFICES ASSUME NEW CONSTANT barred, barred = BlockedByRecipient(u, Recipient(r))
                  PROVE  RelayEffect
      OBVIOUS
    <2>. DEFINE new == [op |-> "send", pc |-> "contact", user |-> u, request |-> r,
                        barred |-> barred]
    <2>1. new \in SendCalls
      BY <1>0 DEF SendCalls, BlockedByRecipient
    <2>2. UNCHANGED <<contacts, agentRequests, answered, blocks, sends, notices>>
      BY <1>6 DEF StartSend
    <2>3. CallOK(new)'
      BY <1>6, <2>2 DEF StartSend, CallOK, BlockedByRecipient, Recipient
    <2>4. relayCalls' = [relayCalls EXCEPT ![c] = new]
      BY <1>6 DEF StartSend, Begin
    <2>. HIDE DEF new
    <2>. QED
      BY <1>0, <2>1, <2>2, <2>3, <2>4 DEF RelayCallTypes
  <1>7. ASSUME NEW c \in RelayCalls, NEW u \in Users, NEW r \in DOMAIN agentRequests,
                 NEW d \in Decisions, StartDecision(c, u, r, d)
        PROVE  RelayEffect
    <2>. DEFINE new == [op |-> "decide", pc |-> "update", user |-> u, request |-> r, decision |-> d]
    <2>1. new \in DecisionCalls
      BY <1>0 DEF DecisionCalls
    <2>2. CallOK(new)'
      BY <1>0, <1>7 DEF StartDecision, CallOK, RequestOK, WasSent
    <2>3. relayCalls' = [relayCalls EXCEPT ![c] = new]
      BY <1>7 DEF StartDecision, Begin
    <2>. HIDE DEF new
    <2>. QED
      BY <1>0, <1>7, <2>1, <2>2, <2>3 DEF StartDecision, RelayCallTypes
  <1>8. ASSUME NEW c \in RelayCalls, BlockContact(c)
        PROVE  RelayEffect
    <2>1. relayCalls[c] \in BlockCalls
      BY <1>0, <1>8, CallOfOp DEF BlockContact, At
    <2>2. blocks \subseteq blocks'
      BY <1>8 DEF BlockContact
    <2>. QED
      BY <1>0, <1>8, <2>1, <2>2 DEF BlockContact, Finish, CallOK, RelayCallTypes, NoCall
  <1>9. ASSUME NEW c \in RelayCalls, CheckRate(c)
        PROVE  RelayEffect
    <2>. SUFFICES ASSUME NEW CONSTANT call, call = relayCalls[c] PROVE RelayEffect
      OBVIOUS
    <2>1. call \in DraftCalls
      BY <1>0, <1>9, CallOfOp DEF CheckRate, At
    <2>. DEFINE new == [call EXCEPT !.pc = "recipient"]
    <2>2. new \in DraftCalls /\ CallOK(new)'
      BY <1>0, <1>9, <2>1 DEF CheckRate, CallOK, DraftCalls, RelayInv
    <2>3. relayCalls' = [relayCalls EXCEPT ![c] = new] \/ relayCalls' = [relayCalls EXCEPT ![c] = NoCall]
      BY <1>9 DEF CheckRate, Go, Finish
    <2>4. UNCHANGED <<contacts, agentRequests, answered, blocks, sends, notices>>
      BY <1>9 DEF CheckRate
    <2>. HIDE DEF new
    <2>. QED
      BY <1>0, <2>2, <2>3, <2>4, <1>n DEF RelayCallTypes
  <1>10. ASSUME NEW c \in RelayCalls, ResolveContact(c)
        PROVE  RelayEffect
    <2>. SUFFICES ASSUME NEW CONSTANT call, call = relayCalls[c] PROVE RelayEffect
      OBVIOUS
    <2>1. call \in DraftCalls
      BY <1>0, <1>10, CallOfOp DEF ResolveContact, At
    <2>. DEFINE new == [call EXCEPT !.pc = "insert"]
    <2>2. new \in DraftCalls /\ CallOK(new)'
      BY <1>0, <1>10, <2>1 DEF ResolveContact, CallOK, DraftCalls, RelayInv
    <2>3. relayCalls' = [relayCalls EXCEPT ![c] = new] \/ relayCalls' = [relayCalls EXCEPT ![c] = NoCall]
      BY <1>10 DEF ResolveContact, Go, Finish
    <2>4. UNCHANGED <<contacts, agentRequests, answered, blocks, sends, notices>>
      BY <1>10 DEF ResolveContact
    <2>. HIDE DEF new
    <2>. QED
      BY <1>0, <2>2, <2>3, <2>4, <1>n DEF RelayCallTypes
  <1>11. ASSUME NEW c \in RelayCalls, ResolveAddress(c)
        PROVE  RelayEffect
    <2>. SUFFICES ASSUME NEW CONSTANT call, call = relayCalls[c],
                         NEW CONSTANT n, n = Len(contacts) + 1
                  PROVE  RelayEffect
      OBVIOUS
    <2>1. call \in DraftCalls
      BY <1>0, <1>11, CallOfOp DEF ResolveAddress, At
    <2>. DEFINE row == NewContact(call.user, call.to)
                new == [call EXCEPT !.contact = n, !.pc = "insert"]
    <2>2. row \in ContactRows
      BY <2>1 DEF NewContact, ContactRows, DraftCalls
    <2>3. contacts' = Append(contacts, row) /\ UNCHANGED <<agentRequests, answered, blocks, sends, notices>>
      BY <1>11 DEF ResolveAddress
    <2>4. Len(contacts) + 1 \in DOMAIN contacts' /\ Len(contacts) + 1 \in Nat \ {0}
      BY <1>0, <2>2, <2>3, AppendProperties, LenProperties
    <2>5. new \in DraftCalls /\ CallOK(new)'
      BY <2>1, <2>4 DEF CallOK, DraftCalls
    <2>6. relayCalls' = [relayCalls EXCEPT ![c] = new]
      BY <1>11 DEF ResolveAddress
    <2>. HIDE DEF new, row
    <2>7. /\ contacts' \in Seq(ContactRows) /\ DOMAIN contacts \subseteq DOMAIN contacts'
          /\ \A k \in DOMAIN contacts : contacts'[k] = contacts[k]
      BY <1>0, <2>2, <2>3, AppendProperties, LenProperties
    <2>. QED
      BY <1>0, <2>3, <2>5, <2>6, <2>7 DEF RelayCallTypes
  <1>12. ASSUME NEW c \in RelayCalls, InsertRequest(c)
        PROVE  RelayEffect
    <2>. SUFFICES ASSUME NEW CONSTANT call, call = relayCalls[c] PROVE RelayEffect
      OBVIOUS
    <2>1. call \in DraftCalls
      BY <1>0, <1>12, CallOfOp DEF InsertRequest, At
    <2>. DEFINE row == [from |-> call.user, to |-> call.to,
                        contact |-> call.contact, type |-> call.type,
                        status |-> IF call.type = "team_update_request" THEN "draft"
                                   ELSE "pending_sender_approval"]
    <2>2. row \in RequestRows /\ row.status \notin {"sent", "decided"}
      BY <2>1 DEF RequestRows, DraftCalls, RelayStatuses
    <2>3. row.contact \in DOMAIN contacts
      BY <1>0, <1>12, <2>1 DEF InsertRequest, At, RelayInv, CallOK, DraftCalls
    <2>4. /\ agentRequests' = Append(agentRequests, row)
          /\ relayCalls' = [relayCalls EXCEPT ![c] = NoCall]
          /\ UNCHANGED <<contacts, answered, blocks, sends, notices>>
      BY <1>12 DEF InsertRequest, Finish
    <2>. HIDE DEF row
    <2>5. /\ agentRequests' \in Seq(RequestRows)
          /\ DOMAIN agentRequests \subseteq DOMAIN agentRequests'
          /\ \A r \in DOMAIN agentRequests : agentRequests'[r] = agentRequests[r]
          /\ \A r \in DOMAIN agentRequests' :
               r \in DOMAIN agentRequests \/ agentRequests'[r] = row
      BY <1>0, <2>2, <2>4, AppendProperties, LenProperties
    <2>6. \A r \in DOMAIN agentRequests' : r \in DOMAIN agentRequests \/ RequestOK(r)'
      BY <2>2, <2>3, <2>4, <2>5 DEF RequestOK
    <2>. QED
      BY <1>0, <2>4, <2>5, <2>6, <1>n DEF RelayCallTypes
  <1>13. ASSUME NEW c \in RelayCalls, CheckSendContact(c)
        PROVE  RelayEffect
    <2>. SUFFICES ASSUME NEW CONSTANT call, call = relayCalls[c] PROVE RelayEffect
      OBVIOUS
    <2>1. call \in SendCalls
      BY <1>0, <1>13, CallOfOp DEF CheckSendContact, At
    <2>. DEFINE new == [call EXCEPT !.pc = "blocks"]
    <2>2. UNCHANGED <<contacts, agentRequests, answered, blocks, sends, notices>>
      BY <1>13 DEF CheckSendContact
    <2>3. new \in SendCalls /\ CallOK(new)'
      BY <1>0, <2>1, <2>2 DEF CallOK, SendCalls, RelayInv, BlockedByRecipient, Recipient
    <2>4. relayCalls' = [relayCalls EXCEPT ![c] = new] \/ relayCalls' = [relayCalls EXCEPT ![c] = NoCall]
      BY <1>13 DEF CheckSendContact, Go, Finish
    <2>. HIDE DEF new
    <2>. QED
      BY <1>0, <2>2, <2>3, <2>4, <1>n DEF RelayCallTypes
  <1>14. ASSUME NEW c \in RelayCalls, CheckBlocks(c)
        PROVE  RelayEffect
    <2>. SUFFICES ASSUME NEW CONSTANT call, call = relayCalls[c] PROVE RelayEffect
      OBVIOUS
    <2>1. call \in SendCalls
      BY <1>0, <1>14, CallOfOp DEF CheckBlocks, At
    <2>. DEFINE new == [call EXCEPT !.pc = "update"]
    <2>2. UNCHANGED <<contacts, agentRequests, answered, blocks, sends, notices>>
      BY <1>14 DEF CheckBlocks
    <2>3. \/ relayCalls' = [relayCalls EXCEPT ![c] = NoCall]
          \/ /\ relayCalls' = [relayCalls EXCEPT ![c] = new]
             /\ ~BlockedByRecipient(call.user, Recipient(call.request))
      BY <1>14 DEF CheckBlocks, Go, Finish
    <2>4. new \in SendCalls
      BY <2>1 DEF SendCalls
    <2>5. ~BlockedByRecipient(call.user, Recipient(call.request)) => CallOK(new)'
      BY <1>0, <2>1, <2>2 DEF CallOK, SendCalls, RelayInv
    <2>. HIDE DEF new
    <2>. QED
      BY <1>0, <2>2, <2>3, <2>4, <2>5, <1>n DEF RelayCallTypes
  <1>15. ASSUME NEW c \in RelayCalls, MarkSent(c)
        PROVE  RelayEffect
    <2>. SUFFICES ASSUME NEW CONSTANT call, call = relayCalls[c] PROVE RelayEffect
      OBVIOUS
    <2>1. call \in SendCalls /\ call.pc = "update"
      BY <1>0, <1>15, CallOfOp DEF MarkSent, At
    <2>. DEFINE r == call.request
                e == [agentRequests[r] EXCEPT !.status = "sent", !.to = Recipient(r)]
                new == [call EXCEPT !.pc = "notify"]
    <2>2. /\ r \in DOMAIN agentRequests /\ ~call.barred
          /\ agentRequests[r].type # "team_update_request"
          /\ agentRequests[r].contact \in DOMAIN contacts
      BY <1>0, <2>1 DEF RelayInv, CallOK, SendCalls, RequestOK
    <2>3. Recipient(r) \in Users
      <3>1. contacts[agentRequests[r].contact] \in ContactRows
        BY <1>0, <2>2, ElementOfSeq
      <3>. QED
        BY <3>1 DEF Recipient, ContactRows
    <2>4. agentRequests[r] \in RequestRows
      BY <1>0, <2>2, ElementOfSeq
    <2>5. e \in RequestRows /\ e.contact = agentRequests[r].contact /\ e.type = agentRequests[r].type
      BY <2>3, <2>4 DEF RequestRows, RelayStatuses
    <2>6. /\ agentRequests' = [agentRequests EXCEPT ![r] = e]
          /\ sends' = sends \cup {[request |-> r, barred |-> call.barred]}
          /\ relayCalls' = [relayCalls EXCEPT ![c] = new]
          /\ UNCHANGED <<contacts, answered, blocks, notices>>
      BY <1>15 DEF MarkSent, Go
    <2>7. WasSent(r)'
      <3>1. [request |-> r, barred |-> call.barred] \in sends'
        BY <2>6
      <3>. QED
        BY <3>1 DEF WasSent
    <2>8. new \in SendCalls /\ new.op = "send" /\ ~new.barred /\ new.request = r
      BY <2>1, <2>2 DEF SendCalls
    <2>. HIDE DEF r, e, new
    <2>9. /\ agentRequests' \in Seq(RequestRows)
          /\ DOMAIN agentRequests' = DOMAIN agentRequests
          /\ \A q \in DOMAIN agentRequests :
               /\ agentRequests'[q].contact = agentRequests[q].contact
               /\ agentRequests'[q].type = agentRequests[q].type
               /\ q # r => agentRequests'[q].status = agentRequests[q].status
      BY <1>0, <2>2, <2>5, <2>6, RequestEdited
    <2>10. CallOK(new)'
      BY <2>2, <2>7, <2>8, <2>9 DEF CallOK
    <2>11. relayCalls' \in [RelayCalls -> RelayCallTypes]
      BY <1>0, <2>6, <2>8 DEF RelayCallTypes
    <2>12. \A q \in DOMAIN agentRequests' :
              /\ q \in DOMAIN agentRequests
              /\ agentRequests'[q].status = agentRequests[q].status \/ WasSent(q)'
      BY <2>7, <2>9
    <2>13. \A s \in sends' : \/ s \in sends
                             \/ /\ s.request \in DOMAIN agentRequests'
                                /\ agentRequests'[s.request].type # "team_update_request"
                                /\ ~s.barred
      BY <2>2, <2>6, <2>9
    <2>14. sends \subseteq sends'
      BY <2>6
    <2>. QED
      BY <1>0, <2>6, <2>9, <2>10, <2>11, <2>12, <2>13, <2>14
  <1>16. ASSUME NEW c \in RelayCalls, Decide(c)
        PROVE  RelayEffect
    <2>. SUFFICES ASSUME NEW CONSTANT call, call = relayCalls[c] PROVE RelayEffect
      OBVIOUS
    <2>1. call \in DecisionCalls
      BY <1>0, <1>16, CallOfOp DEF Decide, At
    <2>. DEFINE r == call.request
                e == [agentRequests[r] EXCEPT !.status = "decided"]
                new == [call EXCEPT !.pc = "approval"]
    <2>2. r \in DOMAIN agentRequests /\ WasSent(r)
      BY <1>0, <2>1 DEF RelayInv, CallOK, DecisionCalls
    <2>3. agentRequests[r] \in RequestRows
      BY <1>0, <2>2, ElementOfSeq
    <2>4. e \in RequestRows /\ e.contact = agentRequests[r].contact /\ e.type = agentRequests[r].type
      BY <2>3 DEF RequestRows, RelayStatuses
    <2>5. /\ agentRequests' = [agentRequests EXCEPT ![r] = e]
          /\ relayCalls' = [relayCalls EXCEPT ![c] = new]
          /\ UNCHANGED <<contacts, answered, blocks, sends, notices>>
      BY <1>16 DEF Decide, SetStatus, Go
    <2>6. WasSent(r)'
      BY <2>2, <2>5 DEF WasSent
    <2>7. new \in DecisionCalls /\ new.op = "decide" /\ new.request = r
      BY <2>1 DEF DecisionCalls
    <2>. HIDE DEF r, e, new
    <2>8. /\ agentRequests' \in Seq(RequestRows)
          /\ DOMAIN agentRequests' = DOMAIN agentRequests
          /\ \A q \in DOMAIN agentRequests :
               /\ agentRequests'[q].contact = agentRequests[q].contact
               /\ agentRequests'[q].type = agentRequests[q].type
               /\ q # r => agentRequests'[q].status = agentRequests[q].status
      BY <1>0, <2>2, <2>4, <2>5, RequestEdited
    <2>9. CallOK(new)'
      BY <2>2, <2>6, <2>7, <2>8 DEF CallOK
    <2>. QED
      BY <1>0, <2>5, <2>6, <2>7, <2>8, <2>9 DEF RelayCallTypes
  <1>17. ASSUME NEW c \in RelayCalls, RecordDecision(c)
        PROVE  RelayEffect
    <2>. SUFFICES ASSUME NEW CONSTANT call, call = relayCalls[c] PROVE RelayEffect
      OBVIOUS
    <2>1. call \in DecisionCalls
      BY <1>0, <1>17, CallOfOp DEF RecordDecision, At
    <2>. DEFINE r == call.request
                new == [call EXCEPT !.pc = "block"]
    <2>2. r \in DOMAIN agentRequests /\ WasSent(r)
      BY <1>0, <2>1 DEF RelayInv, CallOK, DecisionCalls
    <2>3. /\ answered' = answered \cup {r} /\ UNCHANGED <<contacts, agentRequests, blocks, sends, notices>>
          /\ \/ relayCalls' = [relayCalls EXCEPT ![c] = new]
             \/ relayCalls' = [relayCalls EXCEPT ![c] = NoCall]
      BY <1>17 DEF RecordDecision, Go, Finish
    <2>4. new \in DecisionCalls /\ new.op = "decide" /\ new.request = r
      BY <2>1 DEF DecisionCalls
    <2>5. WasSent(r)'
      BY <2>2, <2>3 DEF WasSent
    <2>. HIDE DEF r, new
    <2>6. CallOK(new)'
      BY <2>2, <2>3, <2>4, <2>5 DEF CallOK
    <2>. QED
      BY <1>0, <1>n, <2>3, <2>4, <2>5, <2>6 DEF RelayCallTypes
  <1>18. ASSUME NEW c \in RelayCalls, BlockSender(c)
        PROVE  RelayEffect
    BY <1>0, <1>n, <1>18 DEF BlockSender, Finish, RelayCallTypes
  <1>19. ASSUME NEW c \in RelayCalls, RelayCallDies(c)
        PROVE  RelayEffect
    BY <1>0, <1>n, <1>19 DEF RelayCallDies, Finish, RelayCallTypes
  <1>20. CASE UNCHANGED relayVars
    BY <1>0, <1>20 DEF relayVars
  <1>21. ASSUME NEW c \in RelayCalls, NotifySent(c)
        PROVE  RelayEffect
    <2>. SUFFICES ASSUME NEW CONSTANT call, call = relayCalls[c] PROVE RelayEffect
      OBVIOUS
    <2>1. call \in SendCalls /\ call.pc = "notify"
      BY <1>0, <1>21, CallOfOp DEF NotifySent, At
    <2>2. WasSent(call.request)
      BY <1>0, <2>1 DEF CallOK, SendCalls
    <2>3. /\ notified' = notified \cup {call.request}
          /\ relayCalls' = [relayCalls EXCEPT ![c] = NoCall]
          /\ UNCHANGED <<contacts, agentRequests, answered, blocks, sends, messages>>
      BY <1>21 DEF NotifySent, Finish
    <2>4. WasSent(call.request)'
      BY <2>2, <2>3 DEF WasSent
    <2>. QED
      BY <1>0, <1>n, <2>3, <2>4 DEF RelayCallTypes
  <1>22. ASSUME NEW c \in RelayCalls, NEW u \in Users, NEW r \in DOMAIN agentRequests,
                AddMessage(c, u, r)
        PROVE  RelayEffect
    <2>. DEFINE new == [op |-> "message", pc |-> "notify", request |-> r]
    <2>1. new \in MessageCalls
      BY <1>0 DEF MessageCalls
    <2>2. /\ messages' = messages \cup {r} /\ relayCalls' = [relayCalls EXCEPT ![c] = new]
          /\ UNCHANGED <<contacts, agentRequests, answered, blocks, sends, notified>>
      BY <1>22 DEF AddMessage, Begin
    <2>3. CallOK(new)'
      BY <2>2 DEF CallOK
    <2>. HIDE DEF new
    <2>. QED
      BY <1>0, <2>1, <2>2, <2>3 DEF RelayCallTypes
  <1>23. ASSUME NEW c \in RelayCalls, NotifyMessage(c)
        PROVE  RelayEffect
    <2>. SUFFICES ASSUME NEW CONSTANT call, call = relayCalls[c] PROVE RelayEffect
      OBVIOUS
    <2>1. call.request \in messages
      BY <1>0, <1>23 DEF NotifyMessage, At, CallOK
    <2>2. /\ notified' = notified \cup {call.request}
          /\ relayCalls' = [relayCalls EXCEPT ![c] = NoCall]
          /\ UNCHANGED <<contacts, agentRequests, answered, blocks, sends, messages>>
      BY <1>23 DEF NotifyMessage, Finish
    <2>. QED
      BY <1>0, <1>n, <2>1, <2>2 DEF RelayCallTypes
  <1>. HIDE DEF RelayEffect
  <1>. QED
    BY <1>1, <1>2, <1>3, <1>4, <1>5, <1>6, <1>7, <1>8, <1>9, <1>10, <1>11, <1>12, <1>13, <1>14, <1>15, <1>16, <1>17, <1>18, <1>19, <1>20,
       <1>21, <1>22, <1>23 DEF RelayNext

\* Whatever a receiver decided answers a request its sender approved for sending,
\* no send takes place that a block barred when it began, and a recipient is notified
\* by a send or by a message of the sender, for every number of users, calls and
\* requests (approveRelaySend, decideIncomingRelayRequest, addRelayMessage).
THEOREM RelayCorrect == RelaySpec => []RelayIsAgreed
  <1>1. RelayInit => RelayShape /\ RelayInv
    BY EmptySeq DEF RelayInit, RelayShape, RelayInv, RelayCallTypes, NoCall, CallOK
  <1>2. RelayShape /\ RelayInv /\ [RelayNext]_relayVars => RelayShape' /\ RelayInv'
    BY RelayStepEffect, RelayEffectKeeps DEF RelayEffect
  <1>3. RelayShape /\ RelayInv => RelayIsAgreed
    <2>. SUFFICES ASSUME RelayInv PROVE RelayIsAgreed
      OBVIOUS
    <2>1. ShareFollowsSend
      BY DEF RelayInv, RequestOK, WasSent, ShareFollowsSend
    <2>2. BlockedNeverSends
      BY DEF RelayInv, BlockedNeverSends
    <2>3. NoticesHaveReason
      BY DEF RelayInv, WasSent, NoticesHaveReason
    <2>. QED
      BY <2>1, <2>2, <2>3 DEF RelayIsAgreed
  <1>. QED
    BY <1>1, <1>2, <1>3, PTL DEF RelaySpec

\* The rest of the type of the relay: who blocks whom, what was sent and written, and that the
\* contact a call is to block is one there is.
RelayMore ==
    /\ blocks \subseteq Users \X Users
    /\ sends \subseteq [request : Nat, barred : BOOLEAN]
    /\ messages \subseteq DOMAIN agentRequests
    /\ \A c \in RelayCalls : relayCalls[c].op = "contact" => relayCalls[c].contact \in DOMAIN contacts

LEMMA RelayMoreStep ==
  RelayShape /\ RelayInv /\ RelayMore /\ [RelayNext]_relayVars => RelayMore'
  <1>. SUFFICES ASSUME RelayShape, RelayInv, RelayMore, [RelayNext]_relayVars PROVE RelayMore'
    OBVIOUS
  <1>0. /\ relayCalls \in [RelayCalls -> RelayCallTypes]
        /\ \A r \in DOMAIN agentRequests : agentRequests[r] \in RequestRows
        /\ \A k \in DOMAIN contacts : contacts[k] \in ContactRows
    BY ElementOfSeq DEF RelayShape
  <1>g. DOMAIN contacts \subseteq DOMAIN contacts' /\ DOMAIN agentRequests \subseteq DOMAIN agentRequests'
    BY RelayStepEffect DEF RelayEffect, RelayGrows
  <1>n. NoCall.op = "none"
    BY DEF NoCall
  \* A call that goes on or ends is no new one that blocks a contact.
  <1>c. ASSUME NEW c \in RelayCalls,
               \/ Finish(c)
               \/ \E pc : Go(c, pc)
               \/ \E call : Begin(c, call) /\ (call.op = "contact" => call.contact \in DOMAIN contacts)
               \/ \E k : relayCalls' = [relayCalls EXCEPT ![c].contact = k, ![c].pc = "insert"]
                         /\ relayCalls[c].op # "contact"
        PROVE  \A d \in RelayCalls :
                 relayCalls'[d].op = "contact" => relayCalls'[d].contact \in DOMAIN contacts'
    <2>1. CASE Finish(c)
      BY <1>0, <1>g, <1>n, <2>1 DEF Finish, RelayMore
    <2>2. ASSUME NEW pc, Go(c, pc) PROVE \A d \in RelayCalls :
                 relayCalls'[d].op = "contact" => relayCalls'[d].contact \in DOMAIN contacts'
      <3>1. relayCalls' = [relayCalls EXCEPT ![c] = [relayCalls[c] EXCEPT !.pc = pc]]
        BY <2>2 DEF Go
      <3>2. relayCalls[c].op = "contact" => relayCalls[c] \in BlockCalls
        BY CallOfOp
      <3>3. [relayCalls[c] EXCEPT !.pc = pc].op = "contact" => relayCalls[c].op = "contact"
        BY <1>0 DEF RelayCallTypes, NoCall, BlockCalls, DraftCalls, SendCalls, DecisionCalls, MessageCalls
      <3>4. relayCalls[c].op = "contact" => [relayCalls[c] EXCEPT !.pc = pc].contact = relayCalls[c].contact
        BY <3>2 DEF BlockCalls
      <3>. QED
        BY <1>0, <1>g, <3>1, <3>3, <3>4 DEF RelayMore
    <2>3. ASSUME NEW call, Begin(c, call), call.op = "contact" => call.contact \in DOMAIN contacts
          PROVE  \A d \in RelayCalls :
                 relayCalls'[d].op = "contact" => relayCalls'[d].contact \in DOMAIN contacts'
      BY <1>0, <1>g, <2>3 DEF Begin, RelayMore
    <2>4. ASSUME NEW k, relayCalls' = [relayCalls EXCEPT ![c].contact = k, ![c].pc = "insert"],
                 relayCalls[c].op # "contact"
          PROVE  \A d \in RelayCalls :
                 relayCalls'[d].op = "contact" => relayCalls'[d].contact \in DOMAIN contacts'
      <3>1. relayCalls'[c].op # "contact"
        BY <1>0, <2>4 DEF RelayCallTypes, NoCall, BlockCalls, DraftCalls, SendCalls, DecisionCalls, MessageCalls
      <3>2. \A d \in RelayCalls : d # c => relayCalls'[d] = relayCalls[d]
        BY <1>0, <2>4
      <3>. QED
        BY <1>g, <3>1, <3>2 DEF RelayMore
    <2>. QED
      BY <1>c, <2>1, <2>2, <2>3, <2>4
  <1>k. UNCHANGED relayCalls => \A d \in RelayCalls :
                 relayCalls'[d].op = "contact" => relayCalls'[d].contact \in DOMAIN contacts'
    BY <1>g DEF RelayMore
  <1>s. UNCHANGED <<blocks, sends>> => blocks' \subseteq Users \X Users /\ sends' \subseteq [request : Nat, barred : BOOLEAN]
    BY DEF RelayMore
  <1>m. UNCHANGED messages => messages' \subseteq DOMAIN agentRequests'
    BY <1>g DEF RelayMore
  <1>1. ASSUME NEW u \in Users, NEW user \in Users, AddContact(u, user)
        PROVE  RelayMore'
    BY <1>1, <1>k, <1>s, <1>m DEF AddContact, RelayMore, notices
  <1>2. ASSUME NEW u \in Users, NEW r \in DOMAIN agentRequests, CancelRequest(u, r)
        PROVE  RelayMore'
    BY <1>2, <1>k, <1>s, <1>m DEF CancelRequest, RelayMore, notices
  <1>3. ASSUME NEW u \in Users, NEW k \in DOMAIN contacts, NEW usable \in BOOLEAN,
               SetContactUsable(u, k, usable)
        PROVE  RelayMore'
    BY <1>3, <1>k, <1>s, <1>m DEF SetContactUsable, RelayMore, notices
  <1>4. ASSUME NEW c \in RelayCalls, NEW u \in Users, NEW k \in DOMAIN contacts, StartBlockContact(c, u, k)
        PROVE  RelayMore'
    <2>. DEFINE call == [op |-> "contact", pc |-> "block", user |-> u, contact |-> k]
    <2>1. Begin(c, call) /\ (call.op = "contact" => call.contact \in DOMAIN contacts)
      BY <1>4 DEF StartBlockContact
    <2>. HIDE DEF call
    <2>. QED
      BY <1>4, <1>c, <1>s, <1>m, <2>1 DEF StartBlockContact, RelayMore, notices
  <1>5. ASSUME NEW c \in RelayCalls, NEW u \in Users, NEW type \in RelayTypes, NEW k \in {0} \cup DOMAIN contacts,
               NEW user \in Users \ {u}, StartDraft(c, u, type, k, user)
        PROVE  RelayMore'
    <2>. DEFINE call == [op |-> "draft", user |-> u, type |-> type, contact |-> k, to |-> user, pc |-> "rate"]
    <2>1. Begin(c, call) /\ call.op # "contact"
      BY <1>5 DEF StartDraft
    <2>. HIDE DEF call
    <2>. QED
      BY <1>5, <1>c, <1>s, <1>m, <2>1 DEF StartDraft, RelayMore, notices
  <1>6. ASSUME NEW c \in RelayCalls, NEW u \in Users, NEW r \in DOMAIN agentRequests, StartSend(c, u, r)
        PROVE  RelayMore'
    <2>. DEFINE call == [op |-> "send", pc |-> "contact", user |-> u, request |-> r,
                 barred |-> BlockedByRecipient(u, Recipient(r))]
    <2>1. Begin(c, call) /\ call.op # "contact"
      BY <1>6 DEF StartSend
    <2>. HIDE DEF call
    <2>. QED
      BY <1>6, <1>c, <1>s, <1>m, <2>1 DEF StartSend, RelayMore, notices
  <1>7. ASSUME NEW c \in RelayCalls, NEW u \in Users, NEW r \in DOMAIN agentRequests, NEW d \in Decisions,
               StartDecision(c, u, r, d)
        PROVE  RelayMore'
    <2>. DEFINE call == [op |-> "decide", pc |-> "update", user |-> u, request |-> r, decision |-> d]
    <2>1. Begin(c, call) /\ call.op # "contact"
      BY <1>7 DEF StartDecision
    <2>. HIDE DEF call
    <2>. QED
      BY <1>7, <1>c, <1>s, <1>m, <2>1 DEF StartDecision, RelayMore, notices
  <1>8. ASSUME NEW c \in RelayCalls, BlockContact(c) PROVE RelayMore'
    <2>1. relayCalls[c] \in BlockCalls /\ relayCalls[c].contact \in DOMAIN contacts
      BY <1>8, CallOfOp DEF BlockContact, At, RelayMore
    <2>2. relayCalls[c].user \in Users /\ contacts[relayCalls[c].contact].user \in Users
      BY <1>0, <2>1 DEF BlockCalls, ContactRows
    <2>3. blocks' \subseteq Users \X Users
      BY <1>8, <2>2 DEF BlockContact, RelayMore
    <2>. QED
      BY <1>8, <1>c, <1>m, <2>3 DEF BlockContact, RelayMore, notices
  <1>9. ASSUME NEW c \in RelayCalls, BlockSender(c) PROVE RelayMore'
    <2>1. relayCalls[c] \in DecisionCalls /\ CallOK(relayCalls[c])
      BY <1>9, CallOfOp DEF BlockSender, At, RelayInv
    <2>2. relayCalls[c].user \in Users /\ agentRequests[relayCalls[c].request].from \in Users
      BY <1>0, <2>1 DEF DecisionCalls, CallOK, RequestRows
    <2>3. blocks' \subseteq Users \X Users
      BY <1>9, <2>2 DEF BlockSender, RelayMore
    <2>. QED
      BY <1>9, <1>c, <1>m, <2>3 DEF BlockSender, RelayMore, notices
  <1>10. ASSUME NEW c \in RelayCalls, MarkSent(c) PROVE RelayMore'
    <2>1. relayCalls[c] \in SendCalls
      BY <1>10, CallOfOp DEF MarkSent, At
    <2>2. [request |-> relayCalls[c].request, barred |-> relayCalls[c].barred]
            \in [request : Nat, barred : BOOLEAN]
      BY <2>1 DEF SendCalls
    <2>3. sends' \subseteq [request : Nat, barred : BOOLEAN]
      BY <1>10, <2>2 DEF MarkSent, RelayMore
    <2>. QED
      BY <1>10, <1>c, <1>m, <2>3 DEF MarkSent, RelayMore, notices
  <1>11. ASSUME NEW c \in RelayCalls, ResolveAddress(c) PROVE RelayMore'
    <2>1. /\ relayCalls' = [relayCalls EXCEPT ![c].contact = Len(contacts) + 1, ![c].pc = "insert"]
          /\ relayCalls[c].op # "contact" /\ UNCHANGED <<blocks, sends, messages>>
      BY <1>11 DEF ResolveAddress, At, notices
    <2>. QED
      BY <1>c, <1>s, <1>m, <2>1 DEF RelayMore, notices
  <1>12. ASSUME NEW c \in RelayCalls,
                \/ CheckRate(c) \/ ResolveContact(c) \/ InsertRequest(c) \/ CheckSendContact(c)
                \/ CheckBlocks(c) \/ Decide(c) \/ RecordDecision(c) \/ RelayCallDies(c)
                \/ NotifySent(c) \/ NotifyMessage(c)
         PROVE  RelayMore'
    <2>1. Finish(c) \/ \E pc : Go(c, pc)
      BY <1>12 DEF CheckRate, ResolveContact, InsertRequest, CheckSendContact, CheckBlocks, Decide,
                   RecordDecision, RelayCallDies, NotifySent, NotifyMessage
    <2>2. UNCHANGED <<blocks, sends, messages>>
      BY <1>12 DEF CheckRate, ResolveContact, InsertRequest, CheckSendContact, CheckBlocks, Decide,
                   RecordDecision, RelayCallDies, NotifySent, NotifyMessage, notices
    <2>. QED
      BY <1>c, <1>s, <1>m, <2>1, <2>2 DEF RelayMore, notices
  <1>13. CASE UNCHANGED relayVars
    BY <1>13, <1>k, <1>s, <1>m DEF relayVars, RelayMore, notices
  <1>14. ASSUME NEW c \in RelayCalls, NEW u \in Users, NEW r \in DOMAIN agentRequests, AddMessage(c, u, r)
         PROVE  RelayMore'
    <2>. DEFINE call == [op |-> "message", pc |-> "notify", request |-> r]
    <2>1. Begin(c, call) /\ call.op # "contact"
      BY <1>14 DEF AddMessage
    <2>2. messages' \subseteq DOMAIN agentRequests' /\ UNCHANGED <<blocks, sends>>
      BY <1>14, <1>g DEF AddMessage, RelayMore
    <2>. HIDE DEF call
    <2>. QED
      BY <1>c, <1>s, <2>1, <2>2 DEF RelayMore
  <1>. QED
    BY <1>1, <1>2, <1>3, <1>4, <1>5, <1>6, <1>7, <1>8, <1>9, <1>10, <1>11, <1>12, <1>13, <1>14 DEF RelayNext

\* Every variable of the relay has its type, and a row refers to rows there are.
LEMMA RelayTyped == RelaySpec => []RelayTypeOK
  <1>1. RelayInit => RelayShape /\ RelayInv /\ RelayMore
    BY EmptySeq DEF RelayInit, RelayShape, RelayInv, RelayCallTypes, NoCall, CallOK, RelayMore
  <1>2. RelayShape /\ RelayInv /\ [RelayNext]_relayVars => RelayShape' /\ RelayInv'
    BY RelayStepEffect, RelayEffectKeeps DEF RelayEffect
  <1>3. RelayShape /\ RelayInv /\ RelayMore => RelayTypeOK
    <2>. SUFFICES ASSUME RelayShape, RelayInv, RelayMore PROVE RelayTypeOK
      OBVIOUS
    <2>1. agentRequests \in Seq([from : Users, to : Users, contact : DOMAIN contacts,
                                 type : RelayTypes, status : RelayStatuses])
      <3>1. agentRequests \in Seq(RequestRows)
        BY DEF RelayShape
      <3>2. ASSUME NEW r \in DOMAIN agentRequests
            PROVE  agentRequests[r] \in [from : Users, to : Users, contact : DOMAIN contacts,
                                         type : RelayTypes, status : RelayStatuses]
        <4>1. agentRequests[r] \in RequestRows /\ agentRequests[r].contact \in DOMAIN contacts
          BY <3>1, ElementOfSeq, LenProperties DEF RelayInv, RequestOK
        <4>. QED
          BY <4>1 DEF RequestRows
      <3>. QED
        BY <3>1, <3>2, Narrowed
    <2>2. answered \subseteq DOMAIN agentRequests
      BY DEF RelayInv, WasSent
    <2>3. sends \subseteq [request : DOMAIN agentRequests, barred : BOOLEAN]
      BY DEF RelayInv, RelayMore
    <2>4. notified \subseteq DOMAIN agentRequests
      BY DEF RelayInv, RelayMore, WasSent
    <2>. QED
      BY <2>1, <2>2, <2>3, <2>4 DEF RelayTypeOK, RelayShape, RelayMore, ContactRows
  <1>. QED
    BY <1>1, <1>2, <1>3, RelayMoreStep, PTL DEF RelaySpec

-----------------------------------------------------------------------------
(* Action proposals. *)

DecideCalls == [op : {"decide"}, pc : {"decide"}, proposal : Proposals,
                decision : {"approved", "rejected"}]
ExecuteCalls == [op : {"execute"}, proposal : Proposals,
                 pc : {"effect", "skill", "enable", "block", "log", "logFailed",
                       "markExecuted", "markFailed"}]
RouteCalls == [op : {"route"}, pc : {"skill", "enable"}]

ActionCallTypes == {Idle} \cup DecideCalls \cup ExecuteCalls \cup RouteCalls

ProposalRows == [type : SafeTypes \cup {"external"}, status : ProposalStatuses]

ActionShape ==
    /\ proposals \in [Proposals -> ProposalRows]
    /\ logs \in [Proposals -> SUBSET {"completed", "failed", "blocked"}]
    /\ actionCalls \in [ActionCalls -> ActionCallTypes]

\* What is recorded of a proposal; once it exists, its type never changes.
ProposalOK(p) ==
    /\ proposals[p].status = "approved" => p \in approvedOnce
    /\ p \in approvedOnce => proposals[p].status # "none"
    /\ proposals[p].status = "executed" => "completed" \in logs[p]
    /\ "completed" \in logs[p] =>
         p \in approvedOnce /\ (p \in applied \/ proposals[p].type = "skill_enable")
    /\ p \in applied => p \in approvedOnce /\ proposals[p].type # "external"

\* An execution is of an approved proposal and knows its type by where it is, and
\* a skill is about to be enabled only when it was approved.
ExecutionOK(call) ==
    /\ call.op = "decide" => proposals[call.proposal].status # "none"
    /\ call.op = "execute" =>
         /\ call.proposal \in approvedOnce
         /\ call.pc = "effect" => proposals[call.proposal].type # "external"
         /\ call.pc \in {"skill", "enable"} => proposals[call.proposal].type = "skill_enable"
         /\ call.pc = "log" =>
              \/ call.proposal \in applied
              \/ proposals[call.proposal].type = "skill_enable"
         /\ call.pc = "markExecuted" => "completed" \in logs[call.proposal]
    /\ call.op \in {"execute", "route"} /\ call.pc = "enable" => skillApproved

ActionInv ==
    /\ \A p \in Proposals : ProposalOK(p)
    /\ \A c \in ActionCalls : ExecutionOK(actionCalls[c])
    /\ skill \in {"approved", "enabled"} => skillApproved

\* What every step keeps of what calls rely on.
ActionGrows ==
    /\ approvedOnce \subseteq approvedOnce' /\ applied \subseteq applied'
    /\ \A p \in Proposals : logs[p] \subseteq logs'[p]
    /\ skillApproved => skillApproved'
    /\ \A p \in Proposals :
         proposals[p].status # "none" => /\ proposals'[p].status # "none"
                                         /\ proposals'[p].type = proposals[p].type

ActionEffect ==
    /\ ActionShape' /\ ActionGrows
    /\ \A p \in Proposals : ProposalOK(p)'
    /\ skill' \in {"approved", "enabled"} => skillApproved'
    /\ \A d \in ActionCalls : actionCalls'[d] = actionCalls[d] \/ ExecutionOK(actionCalls[d])'

\* Every step of the proposals has such an effect.
LEMMA ActionStepEffect == ActionShape /\ ActionInv /\ [ActionNext]_actionVars => ActionEffect
  <1>. SUFFICES ASSUME ActionShape, ActionInv, [ActionNext]_actionVars PROVE ActionEffect
    OBVIOUS
  <1>0. /\ proposals \in [Proposals -> ProposalRows]
        /\ logs \in [Proposals -> SUBSET {"completed", "failed", "blocked"}]
        /\ actionCalls \in [ActionCalls -> ActionCallTypes]
        /\ \A p \in Proposals : ProposalOK(p)
        /\ \A c \in ActionCalls : ExecutionOK(actionCalls[c])
        /\ skill \in {"approved", "enabled"} => skillApproved
    BY DEF ActionShape, ActionInv
  <1>n. ExecutionOK(Idle)'
    BY DEF ExecutionOK, Idle
  <1>. USE DEF ActionEffect, ActionShape, ActionGrows, effectVars
  <1>1. ASSUME NEW p \in Proposals, NEW type \in SafeTypes \cup {"external"}, NEW allowed \in BOOLEAN, Propose(p, type, allowed)
        PROVE  ActionEffect
    <2>1. /\ proposals[p].status = "none" /\ p \notin approvedOnce
          /\ proposals' = [proposals EXCEPT
               ![p] = [type |-> type, status |-> IF allowed THEN "proposed" ELSE "rejected"]]
          /\ UNCHANGED <<approvedOnce, logs, targetVars, actionCalls, applied>>
      BY <1>0, <1>1 DEF Propose, ProposalOK
    <2>2. proposals' \in [Proposals -> ProposalRows]
      BY <1>0, <2>1 DEF ProposalRows, ProposalStatuses
    <2>3. proposals'[p].status \notin {"none", "approved", "executed"}
      BY <1>0, <2>1
    <2>4. \A q \in Proposals : q # p => proposals'[q] = proposals[q]
      BY <1>0, <2>1
    <2>. QED
      BY <1>0, <2>1, <2>2, <2>3, <2>4 DEF ProposalOK, targetVars
  <1>2. ASSUME NEW st \in {"accepted", "closed"}, UpdateTaskStatus(st)
        PROVE  ActionEffect
    BY <1>0, <1>n, <1>2 DEF UpdateTaskStatus, decisionVars, targetVars, ProposalOK
  <1>3. CASE ProposeTask \/ CreateProposedSkill \/ ApproveSkill \/ DisableSkill
    BY <1>0, <1>n, <1>3 DEF ProposeTask, CreateProposedSkill, ApproveSkill, DisableSkill, decisionVars, targetVars, ProposalOK
  <1>4. ASSUME NEW c \in ActionCalls, NEW p \in Proposals, NEW d \in {"approved", "rejected"}, StartDecide(c, p, d)
        PROVE  ActionEffect
    <2>. DEFINE new == [op |-> "decide", pc |-> "decide", proposal |-> p, decision |-> d]
    <2>1. new \in DecideCalls /\ actionCalls' = [actionCalls EXCEPT ![c] = new]
      BY <1>4 DEF StartDecide, StartAction, DecideCalls
    <2>2. UNCHANGED <<decisionVars, logs, targetVars, applied>>
      BY <1>4 DEF StartDecide
    <2>3. proposals'[p].status # "none"
      BY <1>4, <2>2 DEF StartDecide, ProposalStatuses, decisionVars
    <2>4. ExecutionOK(new)'
      BY <2>3 DEF ExecutionOK
    <2>. HIDE DEF new
    <2>. QED
      BY <1>0, <2>1, <2>2, <2>4 DEF ActionCallTypes, decisionVars, targetVars, ProposalOK
  <1>5. ASSUME NEW c \in ActionCalls, NEW p \in Proposals, StartExecute(c, p)
        PROVE  ActionEffect
    <2>. SUFFICES ASSUME NEW CONSTANT new,
                         new = [op |-> "execute", proposal |-> p,
                                pc |-> IF proposals[p].type \in SafeTypes THEN "effect" ELSE "block"]
                  PROVE  ActionEffect
      OBVIOUS
    <2>1. new \in ExecuteCalls /\ actionCalls' = [actionCalls EXCEPT ![c] = new]
      BY <1>5 DEF StartExecute, StartAction, ExecuteCalls
    <2>2. UNCHANGED <<decisionVars, logs, targetVars, applied>>
      BY <1>5 DEF StartExecute
    <2>3. p \in approvedOnce
      BY <1>0, <1>5 DEF StartExecute, ProposalOK
    <2>4. new.op = "execute" /\ new.proposal = p /\ new.pc \in {"effect", "block"}
      OBVIOUS
    <2>5. new.pc = "effect" => proposals[p].type # "external"
      BY DEF SafeTypes
    <2>6. ExecutionOK(new)'
      BY <2>2, <2>3, <2>4, <2>5 DEF ExecutionOK, decisionVars
    <2>. QED
      BY <1>0, <2>1, <2>2, <2>6 DEF ActionCallTypes, decisionVars, targetVars, ProposalOK
  <1>6. ASSUME NEW c \in ActionCalls, DecideProposal(c)
        PROVE  ActionEffect
    <2>. SUFFICES ASSUME NEW CONSTANT call, call = actionCalls[c] PROVE ActionEffect
      OBVIOUS
    <2>1. call \in DecideCalls /\ proposals[call.proposal].status # "none"
      BY <1>0, <1>6 DEF DecideProposal, ActionAt, ActionCallTypes, DecideCalls, ExecuteCalls,
                        RouteCalls, Idle, ExecutionOK
    <2>. DEFINE q == call.proposal
                row == [proposals[q] EXCEPT !.status = call.decision]
    <2>2. row \in ProposalRows /\ row.type = proposals[q].type /\ row.status = call.decision
      BY <1>0, <2>1 DEF ProposalRows, DecideCalls, ProposalStatuses
    <2>3. /\ proposals' = [proposals EXCEPT ![q] = row]
          /\ approvedOnce' = IF call.decision = "approved" THEN approvedOnce \cup {q} ELSE approvedOnce
          /\ actionCalls' = [actionCalls EXCEPT ![c] = Idle]
          /\ UNCHANGED <<logs, targetVars, applied>>
      BY <1>6 DEF DecideProposal, EndAction
    <2>4. q \in Proposals /\ call.decision \in {"approved", "rejected"}
      BY <2>1 DEF DecideCalls
    <2>. HIDE DEF q, row
    <2>. QED
      BY <1>0, <1>n, <2>1, <2>2, <2>3, <2>4 DEF ActionCallTypes, ProposalOK, targetVars
  <1>7. ASSUME NEW c \in ActionCalls, InsertTaskOrConfirmFact(c) \/ AcceptTask(c)
        PROVE  ActionEffect
    <2>. SUFFICES ASSUME NEW CONSTANT call, call = actionCalls[c] PROVE ActionEffect
      OBVIOUS
    <2>1. call \in ExecuteCalls /\ ExecutionOK(call) /\ call.pc = "effect"
      BY <1>0, <1>7 DEF InsertTaskOrConfirmFact, AcceptTask, ExecutingType, ActionAt,
                        ActionCallTypes, DecideCalls, ExecuteCalls, RouteCalls, Idle
    <2>. DEFINE new == [call EXCEPT !.pc = "log"]
    <2>2. /\ actionCalls' = [actionCalls EXCEPT ![c] = new] /\ applied' = applied \cup {call.proposal}
          /\ UNCHANGED <<decisionVars, logs, skill, skillApproved>>
      BY <1>7, <2>1 DEF InsertTaskOrConfirmFact, AcceptTask, EffectDone, ActionGo, ExecuteCalls, targetVars
    <2>3. /\ call.proposal \in Proposals /\ call.proposal \in approvedOnce
          /\ proposals[call.proposal].type # "external"
      BY <2>1 DEF ExecuteCalls, ExecutionOK
    <2>4. /\ new \in ExecuteCalls /\ new.op = "execute" /\ new.pc = "log"
          /\ new.proposal = call.proposal
      BY <2>1 DEF ExecuteCalls
    <2>. HIDE DEF new
    <2>5. ExecutionOK(new)'
      BY <2>2, <2>3, <2>4 DEF ExecutionOK, decisionVars
    <2>. QED
      BY <1>0, <2>2, <2>3, <2>4, <2>5 DEF ActionCallTypes, decisionVars, targetVars, ProposalOK
  <1>8. ASSUME NEW c \in ActionCalls, TaskNotFound(c) \/ ExecutionThrows(c) \/ LogBlocked(c) \/ LogFailed(c)
        PROVE  ActionEffect
    <2>. SUFFICES ASSUME NEW CONSTANT call, call = actionCalls[c] PROVE ActionEffect
      OBVIOUS
    <2>1. call \in ExecuteCalls /\ ExecutionOK(call)
      BY <1>0, <1>8 DEF TaskNotFound, ExecutionThrows, LogBlocked, LogFailed, Log, ExecutingType, ActionAt,
                        ActionCallTypes, DecideCalls, ExecuteCalls, RouteCalls, Idle
    <2>2. PICK pc \in {"logFailed", "markFailed"} :
            /\ actionCalls' = [actionCalls EXCEPT ![c] = [call EXCEPT !.pc = pc]]
            /\ UNCHANGED <<decisionVars, targetVars, applied>>
      BY <1>8 DEF TaskNotFound, ExecutionThrows, LogBlocked, LogFailed, Log, ActionGo
    <2>3. \/ UNCHANGED logs
          \/ \E status \in {"blocked", "failed"} :
               logs' = [logs EXCEPT ![call.proposal] = @ \cup {status}]
      BY <1>8 DEF TaskNotFound, ExecutionThrows, LogBlocked, LogFailed, Log
    <2>4. /\ logs' \in [Proposals -> SUBSET {"completed", "failed", "blocked"}]
          /\ \A q \in Proposals : /\ logs[q] \subseteq logs'[q]
                                  /\ "completed" \in logs'[q] => "completed" \in logs[q]
      BY <1>0, <2>1, <2>3 DEF ExecuteCalls
    <2>. DEFINE new == [call EXCEPT !.pc = pc]
    <2>5. /\ new \in ExecuteCalls /\ new.op = "execute" /\ new.pc = pc
          /\ new.proposal = call.proposal /\ call.proposal \in approvedOnce
      BY <2>1 DEF ExecuteCalls, ExecutionOK
    <2>. HIDE DEF new
    <2>6. ExecutionOK(new)'
      BY <2>2, <2>5 DEF ExecutionOK, decisionVars
    <2>. QED
      BY <1>0, <2>2, <2>4, <2>5, <2>6 DEF new, ActionCallTypes, decisionVars, targetVars, ProposalOK
  <1>9. ASSUME NEW c \in ActionCalls, ExecuteSkill(c)
        PROVE  ActionEffect
    <2>. SUFFICES ASSUME NEW CONSTANT call, call = actionCalls[c] PROVE ActionEffect
      OBVIOUS
    <2>1. call \in ExecuteCalls /\ ExecutionOK(call) /\ proposals[call.proposal].type = "skill_enable"
      BY <1>0, <1>9 DEF ExecuteSkill, ExecutingType, ActionAt,
                        ActionCallTypes, DecideCalls, ExecuteCalls, RouteCalls, Idle
    <2>2. PICK pc \in {"logFailed", "skill"} :
            /\ actionCalls' = [actionCalls EXCEPT ![c] = [call EXCEPT !.pc = pc]]
            /\ UNCHANGED <<decisionVars, logs, targetVars, applied>>
      BY <1>9 DEF ExecuteSkill, ActionGo
    <2>. DEFINE new == [call EXCEPT !.pc = pc]
    <2>3. /\ new \in ExecuteCalls /\ new.op = "execute" /\ new.pc = pc
          /\ new.proposal = call.proposal /\ call.proposal \in approvedOnce
      BY <2>1 DEF ExecuteCalls, ExecutionOK
    <2>. HIDE DEF new
    <2>4. ExecutionOK(new)'
      BY <2>1, <2>2, <2>3 DEF ExecutionOK, decisionVars
    <2>. QED
      BY <1>0, <2>2, <2>3, <2>4 DEF new, ActionCallTypes, decisionVars, targetVars, ProposalOK
  <1>10. ASSUME NEW c \in ActionCalls, LogCompleted(c)
        PROVE  ActionEffect
    <2>. SUFFICES ASSUME NEW CONSTANT call, call = actionCalls[c] PROVE ActionEffect
      OBVIOUS
    <2>1. call \in ExecuteCalls /\ ExecutionOK(call) /\ call.pc = "log"
      BY <1>0, <1>10 DEF LogCompleted, Log, ActionAt,
                        ActionCallTypes, DecideCalls, ExecuteCalls, RouteCalls, Idle
    <2>. DEFINE new == [call EXCEPT !.pc = "markExecuted"]
    <2>2. /\ actionCalls' = [actionCalls EXCEPT ![c] = new]
          /\ logs' = [logs EXCEPT ![call.proposal] = @ \cup {"completed"}]
          /\ UNCHANGED <<decisionVars, targetVars, applied>>
      BY <1>10 DEF LogCompleted, Log, ActionGo
    <2>3. /\ call.proposal \in Proposals /\ call.proposal \in approvedOnce
          /\ call.proposal \in applied \/ proposals[call.proposal].type = "skill_enable"
      BY <2>1 DEF ExecuteCalls, ExecutionOK
    <2>4. /\ new \in ExecuteCalls /\ new.op = "execute" /\ new.pc = "markExecuted"
          /\ new.proposal = call.proposal
      BY <2>1 DEF ExecuteCalls
    <2>. HIDE DEF new
    <2>5. /\ logs' \in [Proposals -> SUBSET {"completed", "failed", "blocked"}]
          /\ "completed" \in logs'[call.proposal]
          /\ \A q \in Proposals : /\ logs[q] \subseteq logs'[q]
                                  /\ q # call.proposal => logs'[q] = logs[q]
      BY <1>0, <2>2, <2>3
    <2>6. ExecutionOK(new)'
      BY <2>2, <2>3, <2>4, <2>5 DEF ExecutionOK, decisionVars
    <2>. QED
      BY <1>0, <2>2, <2>3, <2>4, <2>5, <2>6 DEF ActionCallTypes, decisionVars, targetVars, ProposalOK
  <1>11. ASSUME NEW c \in ActionCalls, MarkFailed(c) \/ MarkExecuted(c)
        PROVE  ActionEffect
    <2>. SUFFICES ASSUME NEW CONSTANT call, call = actionCalls[c] PROVE ActionEffect
      OBVIOUS
    <2>1. call \in ExecuteCalls /\ ExecutionOK(call)
      BY <1>0, <1>11 DEF MarkFailed, MarkExecuted, Mark, ActionAt,
                        ActionCallTypes, DecideCalls, ExecuteCalls, RouteCalls, Idle
    <2>2. PICK status \in {"failed", "executed"} :
            /\ proposals' = [proposals EXCEPT ![call.proposal].status = status]
            /\ status = "executed" => call.pc = "markExecuted"
            /\ actionCalls' = [actionCalls EXCEPT ![c] = Idle]
            /\ UNCHANGED <<approvedOnce, logs, targetVars, applied>>
      BY <1>11 DEF MarkFailed, MarkExecuted, Mark, ActionAt, EndAction
    <2>. DEFINE q == call.proposal
                row == [proposals[q] EXCEPT !.status = status]
    <2>3. q \in Proposals /\ q \in approvedOnce /\ (status = "executed" => "completed" \in logs[q])
      BY <2>1, <2>2 DEF ExecuteCalls, ExecutionOK
    <2>4. row \in ProposalRows /\ row.type = proposals[q].type /\ row.status = status
      BY <1>0, <2>3 DEF ProposalRows, ProposalStatuses
    <2>5. proposals' = [proposals EXCEPT ![q] = row]
      BY <2>2
    <2>. HIDE DEF q, row
    <2>6. /\ proposals' \in [Proposals -> ProposalRows] /\ proposals'[q] = row
          /\ \A p \in Proposals : p # q => proposals'[p] = proposals[p]
      BY <1>0, <2>3, <2>4, <2>5
    <2>7. actionCalls' \in [ActionCalls -> ActionCallTypes]
      BY <1>0, <2>2 DEF ActionCallTypes
    <2>8. \A d \in ActionCalls : actionCalls'[d] = actionCalls[d] \/ ExecutionOK(actionCalls[d])'
      BY <1>0, <1>n, <2>2
    <2>9. ASSUME NEW p \in Proposals PROVE ProposalOK(p)'
      <3>1. ProposalOK(p) /\ UNCHANGED <<approvedOnce, logs, applied>>
        BY <1>0, <2>2
      <3>2. CASE p # q
        BY <2>6, <3>1, <3>2 DEF ProposalOK
      <3>3. CASE p = q
        <4>1. /\ proposals'[p].status = status /\ proposals'[p].type = proposals[p].type
              /\ p \in approvedOnce /\ (status = "executed" => "completed" \in logs[p])
          BY <2>3, <2>4, <2>6, <3>3
        <4>. QED
          BY <3>1, <4>1 DEF ProposalOK
      <3>. QED
        BY <3>2, <3>3
    <2>. QED
      BY <1>0, <2>2, <2>3, <2>4, <2>6, <2>7, <2>8, <2>9 DEF targetVars, ProposalOK
  <1>12. ASSUME NEW c \in ActionCalls, StartEnableSkill(c)
        PROVE  ActionEffect
    <2>. DEFINE new == [op |-> "route", pc |-> "skill"]
    <2>1. /\ actionCalls' = [actionCalls EXCEPT ![c] = new]
          /\ UNCHANGED <<decisionVars, logs, targetVars, applied>>
      BY <1>12 DEF StartEnableSkill, StartAction
    <2>2. new \in RouteCalls /\ ExecutionOK(new)'
      BY DEF RouteCalls, ExecutionOK
    <2>. HIDE DEF new
    <2>. QED
      BY <1>0, <2>1, <2>2 DEF ActionCallTypes, decisionVars, targetVars, ProposalOK
  <1>13. ASSUME NEW c \in ActionCalls, ReadSkill(c)
        PROVE  ActionEffect
    <2>. SUFFICES ASSUME NEW CONSTANT call, call = actionCalls[c] PROVE ActionEffect
      OBVIOUS
    <2>1. call \in ExecuteCalls \cup RouteCalls /\ ExecutionOK(call) /\ call.pc = "skill"
      BY <1>0, <1>13 DEF ReadSkill, ActionAt,
                        ActionCallTypes, DecideCalls, ExecuteCalls, RouteCalls, Idle
    <2>2. UNCHANGED <<decisionVars, logs, targetVars, applied>>
      BY <1>13 DEF ReadSkill
    <2>3. CASE actionCalls' = [actionCalls EXCEPT ![c] = Idle]
      BY <1>0, <1>n, <2>2, <2>3 DEF ActionCallTypes, decisionVars, targetVars, ProposalOK
    <2>4. ASSUME NEW pc \in {"enable", "log"},
                 actionCalls' = [actionCalls EXCEPT ![c] = [call EXCEPT !.pc = pc]],
                 pc = "log" => call.op = "execute",
                 pc = "enable" => skill \in {"approved", "enabled"}
          PROVE  ActionEffect
      <3>. DEFINE new == [call EXCEPT !.pc = pc]
      <3>1. new \in ExecuteCalls \cup RouteCalls /\ new.op = call.op /\ new.pc = pc
        BY <2>1, <2>4 DEF ExecuteCalls, RouteCalls
      <3>2. call.op = "execute" => /\ new.proposal = call.proposal
                                   /\ call.proposal \in approvedOnce
                                   /\ proposals[call.proposal].type = "skill_enable"
        BY <2>1 DEF ExecuteCalls, RouteCalls, ExecutionOK
      <3>3. pc = "enable" => skillApproved
        BY <1>0, <2>4
      <3>4. call.op \in {"execute", "route"}
        BY <2>1 DEF ExecuteCalls, RouteCalls
      <3>. HIDE DEF new
      <3>5. ExecutionOK(new)'
        BY <2>2, <3>1, <3>2, <3>3, <3>4 DEF ExecutionOK, decisionVars, targetVars
      <3>. QED
        BY <1>0, <2>2, <2>4, <3>1, <3>5 DEF new, ActionCallTypes, decisionVars, targetVars, ProposalOK
    <2>. QED
      BY <1>13, <2>3, <2>4 DEF ReadSkill, ActionGo, EndAction
  <1>14. ASSUME NEW c \in ActionCalls, WriteSkill(c)
        PROVE  ActionEffect
    <2>. SUFFICES ASSUME NEW CONSTANT call, call = actionCalls[c] PROVE ActionEffect
      OBVIOUS
    <2>1. /\ call \in ExecuteCalls \cup RouteCalls /\ ExecutionOK(call) /\ call.pc = "enable"
          /\ skillApproved
      BY <1>0, <1>14 DEF WriteSkill, ActionAt, ExecutionOK,
                        ActionCallTypes, DecideCalls, ExecuteCalls, RouteCalls, Idle
    <2>2. skill' = "enabled" /\ UNCHANGED <<decisionVars, logs, skillApproved>>
      BY <1>14 DEF WriteSkill
    <2>3. CASE call.op = "execute"
      <3>. DEFINE new == [call EXCEPT !.pc = "log"]
      <3>1. /\ actionCalls' = [actionCalls EXCEPT ![c] = new]
            /\ applied' = applied \cup {call.proposal}
        BY <1>14, <2>3 DEF WriteSkill, EffectDone, ActionGo
      <3>2. /\ call.proposal \in Proposals /\ call.proposal \in approvedOnce
            /\ proposals[call.proposal].type = "skill_enable"
        BY <2>1, <2>3 DEF ExecuteCalls, RouteCalls, ExecutionOK
      <3>3. /\ new \in ExecuteCalls /\ new.op = "execute" /\ new.pc = "log"
            /\ new.proposal = call.proposal
        BY <2>1, <2>3 DEF ExecuteCalls, RouteCalls
      <3>. HIDE DEF new
      <3>4. ExecutionOK(new)'
        BY <2>2, <3>1, <3>2, <3>3 DEF ExecutionOK, decisionVars
      <3>. QED
        BY <1>0, <2>1, <2>2, <3>1, <3>2, <3>3, <3>4 DEF ActionCallTypes, decisionVars, targetVars, ProposalOK
    <2>4. CASE call.op # "execute"
      <3>1. actionCalls' = [actionCalls EXCEPT ![c] = Idle] /\ UNCHANGED applied
        BY <1>14, <2>4 DEF WriteSkill, EffectDone, EndAction
      <3>. QED
        BY <1>0, <1>n, <2>1, <2>2, <3>1 DEF ActionCallTypes, decisionVars, targetVars, ProposalOK
    <2>. QED
      BY <2>3, <2>4
  <1>15. ASSUME NEW c \in ActionCalls, ActionCallDies(c)
        PROVE  ActionEffect
    BY <1>0, <1>n, <1>15 DEF ActionCallDies, EndAction, ActionCallTypes, decisionVars, targetVars, ProposalOK
  <1>16. CASE UNCHANGED actionVars
    BY <1>0, <1>16 DEF actionVars, decisionVars, targetVars, ProposalOK
  <1>. HIDE DEF ActionEffect
  <1>. QED
    BY <1>1, <1>2, <1>3, <1>4, <1>5, <1>6, <1>7, <1>8, <1>9,
       <1>10, <1>11, <1>12, <1>13, <1>14, <1>15, <1>16 DEF ActionNext

\* What is recorded of the proposals and what calls rely on hold again after a step.
LEMMA ActionKept == ActionShape /\ ActionInv /\ [ActionNext]_actionVars => ActionShape' /\ ActionInv'
  <1>1. ActionShape /\ ActionInv /\ ActionEffect => ActionInv'
    <2>. SUFFICES ASSUME ActionShape, ActionInv, ActionEffect PROVE ActionInv'
      OBVIOUS
    <2>1. ASSUME NEW call \in ActionCallTypes, ExecutionOK(call) PROVE ExecutionOK(call)'
      <3>1. call.op = "decide" => call \in DecideCalls
        BY DEF ActionCallTypes, Idle, ExecuteCalls, RouteCalls
      <3>2. call.op = "execute" => call \in ExecuteCalls
        BY DEF ActionCallTypes, Idle, DecideCalls, RouteCalls
      <3>3. call.op = "execute" => proposals[call.proposal].status # "none"
        BY <2>1, <3>2 DEF ExecutionOK, ActionInv, ProposalOK, ExecuteCalls
      <3>. QED
        BY <2>1, <3>1, <3>2, <3>3 DEF ExecutionOK, ActionEffect, ActionGrows, DecideCalls, ExecuteCalls
    <2>2. ASSUME NEW d \in ActionCalls PROVE ExecutionOK(actionCalls[d])'
      <3>1. actionCalls[d] \in ActionCallTypes /\ ExecutionOK(actionCalls[d])
        BY DEF ActionShape, ActionInv
      <3>2. \A call : call = actionCalls[d] => ExecutionOK(call)'
        BY <2>1, <3>1
      <3>. QED
        BY <3>2 DEF ActionEffect
    <2>. QED
      BY <2>2 DEF ActionEffect, ActionInv
  <1>2. ActionEffect => ActionShape'
    BY DEF ActionEffect
  <1>. QED
    BY <1>1, <1>2, ActionStepEffect

\* The rest of the type of the proposals: what the effects are on, and that what is
\* approved or applied is a proposal.
ActionMore ==
    /\ task \in {"missing", "proposed", "accepted", "closed"}
    /\ skill \in {"none", "proposed", "approved", "enabled", "disabled"}
    /\ approvedOnce \subseteq Proposals /\ applied \subseteq Proposals
    /\ repeated \subseteq Proposals /\ mayRepeat \subseteq Proposals

LEMMA ActionMoreStep == ActionShape /\ ActionMore /\ [ActionNext]_actionVars => ActionMore'
  <1>. SUFFICES ASSUME ActionShape, ActionMore, [ActionNext]_actionVars PROVE ActionMore'
    OBVIOUS
  <1>0. actionCalls \in [ActionCalls -> ActionCallTypes]
    BY DEF ActionShape
  <1>. USE DEF effectVars
  <1>e. ASSUME NEW c \in ActionCalls, EffectDone(c)
        PROVE  applied' \subseteq Proposals /\ repeated' \subseteq Proposals /\ mayRepeat' \subseteq Proposals
    <2>1. actionCalls[c].op = "execute" => actionCalls[c].proposal \in Proposals
      BY <1>0 DEF ActionCallTypes, Idle, DecideCalls, ExecuteCalls, RouteCalls
    <2>. QED
      BY <1>e, <2>1 DEF EffectDone, ActionMore
  <1>1. ASSUME NEW p \in Proposals, NEW type, NEW allowed, Propose(p, type, allowed) PROVE ActionMore'
    BY <1>1 DEF Propose, ActionMore, targetVars
  <1>2. ASSUME \/ \E s \in {"accepted", "closed"} : UpdateTaskStatus(s)
               \/ ProposeTask \/ CreateProposedSkill \/ ApproveSkill \/ DisableSkill
        PROVE  ActionMore'
    BY <1>2 DEF UpdateTaskStatus, ProposeTask, CreateProposedSkill, ApproveSkill, DisableSkill,
                ActionMore, decisionVars
  <1>3. ASSUME NEW c, NEW p \in Proposals, (\E d : StartDecide(c, p, d)) \/ StartExecute(c, p)
        PROVE  ActionMore'
    BY <1>3 DEF StartDecide, StartExecute, Disturb, ActionMore, decisionVars, targetVars
  <1>4. ASSUME NEW c \in ActionCalls, DecideProposal(c) PROVE ActionMore'
    <2>1. actionCalls[c].proposal \in Proposals
      BY <1>0, <1>4 DEF DecideProposal, ActionAt, ActionCallTypes, Idle, DecideCalls, ExecuteCalls, RouteCalls
    <2>. QED
      BY <1>4, <2>1 DEF DecideProposal, Disturb, ActionMore, targetVars
  <1>5. ASSUME NEW c \in ActionCalls, InsertTaskOrConfirmFact(c) \/ AcceptTask(c) \/ WriteSkill(c)
        PROVE  ActionMore'
    BY <1>5, <1>e DEF InsertTaskOrConfirmFact, AcceptTask, WriteSkill, ActionMore, decisionVars, targetVars
  <1>6. ASSUME NEW c, \/ TaskNotFound(c) \/ ExecuteSkill(c) \/ LogBlocked(c) \/ LogFailed(c)
                      \/ LogCompleted(c) \/ MarkFailed(c) \/ MarkExecuted(c) \/ ExecutionThrows(c)
                      \/ StartEnableSkill(c) \/ ReadSkill(c)
        PROVE  ActionMore'
    BY <1>6 DEF TaskNotFound, ExecuteSkill, LogBlocked, LogFailed, LogCompleted, Log, MarkFailed,
                MarkExecuted, Mark, ExecutionThrows, StartEnableSkill, ReadSkill,
                ActionMore, decisionVars, targetVars
  <1>7. CASE UNCHANGED actionVars
    BY <1>7 DEF actionVars, ActionMore, decisionVars, targetVars
  <1>8. ASSUME NEW c, ActionCallDies(c) PROVE ActionMore'
    BY <1>8 DEF ActionCallDies, Disturb, ActionMore, decisionVars, targetVars
  <1>. QED
    BY <1>1, <1>2, <1>3, <1>4, <1>5, <1>6, <1>7, <1>8 DEF ActionNext

\* An execution that is past the effect, or will have none.
Past == {"log", "logFailed", "markExecuted", "markFailed"}

ExecutesOn(c, p) == actionCalls[c].op = "execute" /\ actionCalls[c].proposal = p

Approvable == {"proposed", "approved"}

\* A proposal no race has disturbed has one execution at a time, and once its effect
\* took place it can be approved, or executed, only while that execution is not over.
OnceOK(p) ==
    /\ \A c, d \in ActionCalls : ExecutesOn(c, p) /\ ExecutesOn(d, p) => c = d
    /\ p \in applied => \A c \in ActionCalls : ExecutesOn(c, p) => actionCalls[c].pc \in Past
    /\ p \in applied /\ proposals[p].status \in Approvable => \E c \in ActionCalls : ExecutesOn(c, p)
    /\ p \notin repeated

ActionOnce == \A p \in Proposals : p \in mayRepeat \/ OnceOK(p)

\* A step of one call that starts no execution of the proposal and applies it not.
LEMMA OnceKept ==
    ASSUME NEW p \in Proposals, OnceOK(p), NEW c \in ActionCalls,
           \A d \in ActionCalls : d # c => actionCalls'[d] = actionCalls[d],
           ExecutesOn(c, p)' => ExecutesOn(c, p),
           p \in applied' <=> p \in applied, p \notin repeated',
           p \in applied /\ ExecutesOn(c, p)' => actionCalls'[c].pc \in Past,
           p \in applied /\ proposals'[p].status \in Approvable =>
             proposals[p].status \in Approvable /\ (ExecutesOn(c, p) => ExecutesOn(c, p)')
    PROVE  OnceOK(p)'
  <1>1. \A d \in ActionCalls : ExecutesOn(d, p)' => ExecutesOn(d, p)
    BY DEF ExecutesOn
  <1>2. \A a, b \in ActionCalls : ExecutesOn(a, p)' /\ ExecutesOn(b, p)' => a = b
    BY <1>1 DEF OnceOK
  <1>3. p \in applied' => \A d \in ActionCalls : ExecutesOn(d, p)' => actionCalls'[d].pc \in Past
    BY <1>1 DEF OnceOK
  <1>4. p \in applied' /\ proposals'[p].status \in Approvable => \E d \in ActionCalls : ExecutesOn(d, p)'
    <2>. SUFFICES ASSUME p \in applied', proposals'[p].status \in Approvable
                  PROVE  \E d \in ActionCalls : ExecutesOn(d, p)'
      OBVIOUS
    <2>1. PICK d \in ActionCalls : ExecutesOn(d, p)
      BY DEF OnceOK
    <2>2. ExecutesOn(d, p)'
      BY <2>1 DEF ExecutesOn
    <2>. QED
      BY <2>2
  <1>. QED
    BY <1>2, <1>3, <1>4 DEF OnceOK

LEMMA ActionOnceStep ==
  ActionShape /\ ActionInv /\ ActionOnce /\ [ActionNext]_actionVars => ActionOnce'
  <1>. SUFFICES ASSUME ActionShape, ActionInv, ActionOnce, [ActionNext]_actionVars,
                       NEW p \in Proposals, p \notin mayRepeat'
                PROVE  OnceOK(p)'
    BY DEF ActionOnce
  <1>0. /\ actionCalls \in [ActionCalls -> ActionCallTypes]
        /\ proposals \in [Proposals -> ProposalRows]
        /\ p \in applied => proposals[p].status # "none"
    BY DEF ActionShape, ActionInv, ProposalOK
  <1>. USE DEF effectVars
  <1>o. \A c \in ActionCalls : /\ actionCalls[c].op = "execute" => actionCalls[c] \in ExecuteCalls
                               /\ actionCalls[c].op = "decide" => actionCalls[c] \in DecideCalls
                               /\ actionCalls[c].op = "route" => actionCalls[c] \in RouteCalls
    BY <1>0 DEF ActionCallTypes, Idle, DecideCalls, ExecuteCalls, RouteCalls
  <1>t. \A c \in ActionCalls : actionCalls[c] = Idle \/ actionCalls[c].op \in {"execute", "decide", "route"}
    BY <1>0 DEF ActionCallTypes, Idle, DecideCalls, ExecuteCalls, RouteCalls
  <1>i. Idle.op = "none"
    BY DEF Idle
  \* The steps of one call leave the others.
  <1>g. ASSUME NEW c \in ActionCalls, NEW new, actionCalls' = [actionCalls EXCEPT ![c] = new]
        PROVE  /\ \A d \in ActionCalls : d # c => actionCalls'[d] = actionCalls[d]
               /\ actionCalls'[c] = new
    BY <1>0, <1>g
  \* A step of an execution from one statement to the next.
  <1>m. ASSUME NEW c \in ActionCalls, NEW pc, p \notin mayRepeat, OnceOK(p),
               actionCalls[c].op = "execute",
               actionCalls' = [actionCalls EXCEPT ![c].pc = pc],
               actionCalls[c].pc \in Past => pc \in Past,
               UNCHANGED <<proposals, applied, repeated>>
        PROVE  OnceOK(p)'
    <2>1. /\ actionCalls'[c].op = actionCalls[c].op /\ actionCalls'[c].proposal = actionCalls[c].proposal
          /\ actionCalls'[c].pc = pc
          /\ \A d \in ActionCalls : d # c => actionCalls'[d] = actionCalls[d]
      <3>1. actionCalls[c] \in ExecuteCalls
        BY <1>m, <1>o
      <3>2. actionCalls' = [actionCalls EXCEPT ![c] = [actionCalls[c] EXCEPT !.pc = pc]]
        BY <1>m
      <3>. QED
        BY <1>0, <3>1, <3>2 DEF ExecuteCalls
    <2>2. ExecutesOn(c, p)' <=> ExecutesOn(c, p)
      BY <2>1 DEF ExecutesOn
    <2>3. p \in applied /\ ExecutesOn(c, p)' => actionCalls'[c].pc \in Past
      BY <1>m, <2>1, <2>2 DEF OnceOK
    <2>. QED
      BY <1>m, <2>1, <2>2, <2>3, OnceKept DEF OnceOK
  \* A call that ends, when its proposal can not be approved any more or is not applied.
  <1>d. ASSUME NEW c \in ActionCalls, p \notin mayRepeat, OnceOK(p), EndAction(c),
               UNCHANGED <<applied, repeated>>,
               p \in applied /\ proposals'[p].status \in Approvable =>
                 proposals[p].status \in Approvable /\ ~ExecutesOn(c, p)
        PROVE  OnceOK(p)'
    <2>1. actionCalls' = [actionCalls EXCEPT ![c] = Idle]
      BY <1>d DEF EndAction
    <2>2. ~ExecutesOn(c, p)' /\ \A d \in ActionCalls : d # c => actionCalls'[d] = actionCalls[d]
      BY <1>g, <1>i, <2>1 DEF ExecutesOn
    <2>. QED
      BY <1>d, <2>2, OnceKept DEF OnceOK
  <1>1. ASSUME NEW q \in Proposals, NEW type, NEW allowed, Propose(q, type, allowed)
        PROVE  OnceOK(p)'
    <2>1. UNCHANGED <<actionCalls, applied, repeated, mayRepeat>> /\ (p \in applied => proposals'[p] = proposals[p])
      BY <1>0, <1>1 DEF Propose
    <2>. QED
      BY <2>1 DEF ActionOnce, OnceOK, ExecutesOn
  <1>2. CASE \/ \E s \in {"accepted", "closed"} : UpdateTaskStatus(s)
             \/ ProposeTask \/ CreateProposedSkill \/ ApproveSkill \/ DisableSkill
    <2>1. UNCHANGED <<actionCalls, applied, repeated, mayRepeat, proposals>>
      BY <1>2 DEF UpdateTaskStatus, ProposeTask, CreateProposedSkill, ApproveSkill, DisableSkill,
                  decisionVars
    <2>. QED
      BY <2>1 DEF ActionOnce, OnceOK, ExecutesOn
  <1>s. ASSUME NEW c \in ActionCalls, NEW new, new.op # "execute", actionCalls[c] = Idle,
               actionCalls' = [actionCalls EXCEPT ![c] = new],
               UNCHANGED <<applied, repeated, mayRepeat, proposals>>
        PROVE  OnceOK(p)'
    <2>1. /\ ~ExecutesOn(c, p)' /\ ~ExecutesOn(c, p)
          /\ \A d \in ActionCalls : d # c => actionCalls'[d] = actionCalls[d]
      BY <1>g, <1>i, <1>s DEF ExecutesOn
    <2>. QED
      BY <1>s, <2>1, OnceKept DEF ActionOnce, OnceOK
  <1>3. ASSUME NEW c \in ActionCalls, NEW q \in Proposals, NEW d, StartDecide(c, q, d)
        PROVE  OnceOK(p)'
    <2>. DEFINE new == [op |-> "decide", pc |-> "decide", proposal |-> q, decision |-> d]
    <2>1. /\ new.op # "execute" /\ actionCalls[c] = Idle
          /\ actionCalls' = [actionCalls EXCEPT ![c] = new]
          /\ UNCHANGED <<applied, repeated, mayRepeat, proposals>>
      BY <1>3 DEF StartDecide, StartAction, decisionVars
    <2>. HIDE DEF new
    <2>. QED
      BY <1>s, <2>1
  <1>12. ASSUME NEW c \in ActionCalls, StartEnableSkill(c) PROVE OnceOK(p)'
    <2>. DEFINE new == [op |-> "route", pc |-> "skill"]
    <2>1. /\ new.op # "execute" /\ actionCalls[c] = Idle
          /\ actionCalls' = [actionCalls EXCEPT ![c] = new]
          /\ UNCHANGED <<applied, repeated, mayRepeat, proposals>>
      BY <1>12 DEF StartEnableSkill, StartAction, decisionVars
    <2>. HIDE DEF new
    <2>. QED
      BY <1>s, <2>1
  <1>4. ASSUME NEW c \in ActionCalls, NEW q \in Proposals, StartExecute(c, q)
        PROVE  OnceOK(p)'
    <2>. SUFFICES ASSUME NEW CONSTANT new,
                         new = [op |-> "execute", proposal |-> q,
                                pc |-> IF proposals[q].type \in SafeTypes THEN "effect" ELSE "block"]
                  PROVE  OnceOK(p)'
      OBVIOUS
    <2>1. /\ new.op = "execute" /\ new.proposal = q
          /\ actionCalls' = [actionCalls EXCEPT ![c] = new]
      BY <1>4 DEF StartExecute, StartAction
    <2>2. /\ proposals[q].status = "approved" /\ UNCHANGED <<applied, repeated, proposals>>
          /\ actionCalls[c] = Idle /\ p \notin mayRepeat
          /\ ExecutionsOf(q) # {} => q \in mayRepeat'
      BY <1>4 DEF StartExecute, StartAction, Disturb, decisionVars
    <2>3. /\ \A d \in ActionCalls : d # c => actionCalls'[d] = actionCalls[d]
          /\ actionCalls'[c] = new /\ ~ExecutesOn(c, p)
      <3>1. \A d \in ActionCalls : d # c => actionCalls'[d] = actionCalls[d]
        BY <1>0, <2>1
      <3>2. actionCalls'[c] = new
        BY <1>0, <2>1
      <3>3. ~ExecutesOn(c, p)
        BY <1>i, <2>2 DEF ExecutesOn
      <3>. QED
        BY <3>1, <3>2, <3>3
    <2>4. CASE q # p
      <3>1. ~ExecutesOn(c, p)'
        BY <2>1, <2>3, <2>4 DEF ExecutesOn
      <3>. QED
        BY <2>2, <2>3, <3>1, OnceKept DEF ActionOnce, OnceOK
    <2>5. CASE q = p
      <3>1. \A d \in ActionCalls : ~ExecutesOn(d, p)
        BY <2>2, <2>5 DEF ExecutionsOf, ExecutesOn
      <3>2. p \notin applied /\ p \notin repeated
        BY <2>2, <2>5, <3>1 DEF ActionOnce, OnceOK, Approvable
      <3>3. \A d \in ActionCalls : ExecutesOn(d, p)' => d = c
        BY <2>3, <3>1 DEF ExecutesOn
      <3>. QED
        BY <2>2, <3>2, <3>3 DEF OnceOK
    <2>. QED
      BY <2>4, <2>5
  <1>5. ASSUME NEW c \in ActionCalls, DecideProposal(c) PROVE OnceOK(p)'
    <2>1. actionCalls[c] \in DecideCalls
      BY <1>0, <1>5 DEF DecideProposal, ActionAt, ActionCallTypes, Idle, DecideCalls, ExecuteCalls, RouteCalls
    <2>2. /\ EndAction(c) /\ UNCHANGED <<applied, repeated>> /\ p \notin mayRepeat
          /\ ~ExecutesOn(c, p)
      BY <1>5, <2>1 DEF DecideProposal, Disturb, ExecutesOn, DecideCalls
    <2>3. proposals'[p].status \in Approvable => proposals[p].status \in Approvable
      <3>. SUFFICES ASSUME proposals'[p].status \in Approvable, proposals[p].status \notin Approvable
                    PROVE  FALSE
        OBVIOUS
      <3>1. actionCalls[c].proposal = p /\ proposals'[p].status = actionCalls[c].decision
        BY <1>0, <1>5, <2>1 DEF DecideProposal, DecideCalls, ProposalRows
      <3>2. actionCalls[c].decision = "approved"
        BY <2>1, <3>1 DEF DecideCalls, Approvable
      <3>. QED
        BY <1>5, <3>1, <3>2 DEF DecideProposal, Disturb, Approvable
    <2>. QED
      BY <1>d, <2>2, <2>3 DEF ActionOnce
  <1>6. ASSUME NEW c \in ActionCalls,
               \/ InsertTaskOrConfirmFact(c)
               \/ AcceptTask(c)
               \/ WriteSkill(c) /\ actionCalls[c].op = "execute"
        PROVE  OnceOK(p)'
    <2>. SUFFICES ASSUME NEW CONSTANT q, q = actionCalls[c].proposal PROVE OnceOK(p)'
      OBVIOUS
    <2>1. /\ actionCalls[c] \in ExecuteCalls /\ actionCalls[c].pc \in {"effect", "enable"}
          /\ UNCHANGED proposals
      BY <1>0, <1>6 DEF InsertTaskOrConfirmFact, AcceptTask, WriteSkill, ExecutingType, ActionAt, decisionVars,
                        ActionCallTypes, Idle, DecideCalls, ExecuteCalls, RouteCalls
    <2>2. /\ actionCalls' = [actionCalls EXCEPT ![c].pc = "log"]
          /\ applied' = applied \cup {q} /\ repeated' = repeated \cup ({q} \cap applied)
          /\ UNCHANGED mayRepeat
      BY <1>6, <2>1 DEF InsertTaskOrConfirmFact, AcceptTask, WriteSkill, EffectDone, ActionGo, ExecuteCalls
    <2>3. OnceOK(p) /\ p \notin mayRepeat
      BY <2>2 DEF ActionOnce
    <2>4. /\ actionCalls'[c].op = "execute" /\ actionCalls'[c].proposal = q
          /\ actionCalls'[c].pc = "log"
          /\ \A d \in ActionCalls : d # c => actionCalls'[d] = actionCalls[d]
      <3>1. actionCalls' = [actionCalls EXCEPT ![c] = [actionCalls[c] EXCEPT !.pc = "log"]]
        BY <2>2
      <3>. QED
        BY <1>0, <2>1, <3>1 DEF ExecuteCalls
    <2>5. CASE q # p
      <3>1. ~ExecutesOn(c, p)' /\ ~ExecutesOn(c, p)
        BY <2>4, <2>5 DEF ExecutesOn
      <3>. QED
        BY <2>1, <2>2, <2>3, <2>4, <2>5, <3>1, OnceKept DEF OnceOK
    <2>6. CASE q = p
      <3>1. ExecutesOn(c, p) /\ ExecutesOn(c, p)'
        BY <2>1, <2>4, <2>6 DEF ExecutesOn, ExecuteCalls
      <3>2. p \notin applied /\ p \notin repeated'
        BY <2>1, <2>2, <2>3, <3>1 DEF OnceOK, Past
      <3>3. \A d \in ActionCalls : ExecutesOn(d, p)' => d = c
        BY <2>3, <2>4, <3>1 DEF OnceOK, ExecutesOn
      <3>4. \A d \in ActionCalls : ExecutesOn(d, p)' => actionCalls'[d].pc \in Past
        BY <2>4, <3>3 DEF Past
      <3>. QED
        BY <3>1, <3>2, <3>3, <3>4 DEF OnceOK
    <2>. QED
      BY <2>5, <2>6
  <1>7. ASSUME NEW c \in ActionCalls, \/ TaskNotFound(c) \/ ExecutionThrows(c) \/ LogBlocked(c) \/ LogFailed(c)
               \/ LogCompleted(c) \/ ExecuteSkill(c)
        PROVE  OnceOK(p)'
    <2>1. actionCalls[c].op = "execute" /\ UNCHANGED <<applied, repeated, mayRepeat, proposals>>
      BY <1>0, <1>7 DEF TaskNotFound, ExecutionThrows, LogBlocked, LogFailed, LogCompleted, Log, ExecuteSkill,
                        ExecutingType, ActionAt, decisionVars,
                        ActionCallTypes, Idle, DecideCalls, ExecuteCalls, RouteCalls
    <2>2. \/ \E pc \in Past : actionCalls' = [actionCalls EXCEPT ![c].pc = pc]
          \/ /\ actionCalls' = [actionCalls EXCEPT ![c].pc = "skill"]
             /\ actionCalls[c].pc = "effect"
      BY <1>7 DEF TaskNotFound, ExecutionThrows, LogBlocked, LogFailed, LogCompleted, Log, ExecuteSkill,
                  ExecutingType, ActionAt, ActionGo, Past
    <2>3. \E pc : /\ actionCalls' = [actionCalls EXCEPT ![c].pc = pc]
                  /\ actionCalls[c].pc \in Past => pc \in Past
      BY <2>2 DEF Past
    <2>. QED
      BY <1>m, <2>1, <2>3 DEF ActionOnce
  <1>8. ASSUME NEW c \in ActionCalls, MarkFailed(c) \/ MarkExecuted(c) PROVE OnceOK(p)'
    <2>. SUFFICES ASSUME NEW CONSTANT q, q = actionCalls[c].proposal PROVE OnceOK(p)'
      OBVIOUS
    <2>1. /\ EndAction(c) /\ UNCHANGED <<applied, repeated, mayRepeat>>
          /\ \E s \in {"failed", "executed"} : proposals' = [proposals EXCEPT ![q].status = s]
      BY <1>8 DEF MarkFailed, MarkExecuted, Mark
    <2>2. proposals'[p].status \in Approvable => proposals'[p] = proposals[p] /\ q # p
      BY <1>0, <2>1 DEF Approvable, ProposalRows
    <2>3. proposals'[p].status \in Approvable => proposals[p].status \in Approvable /\ ~ExecutesOn(c, p)
      BY <2>2 DEF ExecutesOn
    <2>. QED
      BY <1>d, <2>1, <2>3 DEF ActionOnce
  <1>9. ASSUME NEW c \in ActionCalls,
               \/ ReadSkill(c)
               \/ WriteSkill(c) /\ actionCalls[c].op # "execute"
        PROVE  OnceOK(p)'
    <2>1. UNCHANGED <<applied, repeated, mayRepeat, proposals>>
      BY <1>9 DEF ReadSkill, WriteSkill, EffectDone, decisionVars
    <2>2. CASE actionCalls[c].op = "execute"
      <3>1. actionCalls[c].pc = "skill" /\ \E pc : actionCalls' = [actionCalls EXCEPT ![c].pc = pc]
        BY <1>9, <2>2 DEF ReadSkill, ActionAt, ActionGo
      <3>. QED
        BY <1>m, <2>1, <2>2, <3>1 DEF ActionOnce, Past
    <2>3. CASE actionCalls[c].op # "execute"
      <3>1. EndAction(c) \/ \E pc : actionCalls' = [actionCalls EXCEPT ![c].pc = pc]
        BY <1>9, <2>3 DEF ReadSkill, WriteSkill, EffectDone, ActionGo
      <3>2. ~ExecutesOn(c, p)
        BY <2>3 DEF ExecutesOn
      <3>3. CASE EndAction(c)
        BY <1>d, <2>1, <3>2, <3>3 DEF ActionOnce
      <3>4. ASSUME NEW pc, actionCalls' = [actionCalls EXCEPT ![c].pc = pc] PROVE OnceOK(p)'
        <4>1. actionCalls[c] \in RouteCalls
          BY <1>9, <1>0, <2>3 DEF ReadSkill, WriteSkill, ActionAt, ActionCallTypes, Idle, DecideCalls,
                                  ExecuteCalls, RouteCalls
        <4>2. actionCalls' = [actionCalls EXCEPT ![c] = [actionCalls[c] EXCEPT !.pc = pc]]
          BY <3>4
        <4>3. /\ ~ExecutesOn(c, p)'
              /\ \A d \in ActionCalls : d # c => actionCalls'[d] = actionCalls[d]
          BY <1>0, <4>1, <4>2 DEF ExecutesOn, RouteCalls
        <4>. QED
          BY <2>1, <3>2, <4>3, OnceKept DEF ActionOnce, OnceOK
      <3>. QED
        BY <3>1, <3>3, <3>4
    <2>. QED
      BY <2>2, <2>3
  <1>10. ASSUME NEW c \in ActionCalls, ActionCallDies(c) PROVE OnceOK(p)'
    <2>1. EndAction(c) /\ UNCHANGED <<applied, repeated, proposals>> /\ p \notin mayRepeat
      BY <1>10 DEF ActionCallDies, Disturb, decisionVars
    <2>2. p \in applied => ~ExecutesOn(c, p)
      BY <1>10 DEF ActionCallDies, Disturb, ExecutesOn
    <2>. QED
      BY <1>d, <2>1, <2>2 DEF ActionOnce
  <1>11. CASE UNCHANGED actionVars
    <2>1. UNCHANGED <<actionCalls, applied, repeated, mayRepeat, proposals>>
      BY <1>11 DEF actionVars, decisionVars
    <2>. QED
      BY <2>1 DEF ActionOnce, OnceOK, ExecutesOn
  <1>. QED
    <2>1. CASE \E q \in Proposals, type \in SafeTypes \cup {"external"}, allowed \in BOOLEAN :
                 Propose(q, type, allowed)
      BY <1>1, <2>1
    <2>2. CASE \E c \in ActionCalls, q \in Proposals :
                 (\E d \in {"approved", "rejected"} : StartDecide(c, q, d)) \/ StartExecute(c, q)
      BY <1>3, <1>4, <2>2
    <2>3. CASE \E c \in ActionCalls :
                 \/ DecideProposal(c) \/ InsertTaskOrConfirmFact(c) \/ AcceptTask(c) \/ TaskNotFound(c)
                 \/ ExecuteSkill(c) \/ LogBlocked(c) \/ LogFailed(c)
                 \/ LogCompleted(c) \/ MarkFailed(c) \/ MarkExecuted(c) \/ ExecutionThrows(c)
                 \/ StartEnableSkill(c) \/ ReadSkill(c) \/ WriteSkill(c) \/ ActionCallDies(c)
      <3>1. PICK c \in ActionCalls :
                 \/ DecideProposal(c) \/ InsertTaskOrConfirmFact(c) \/ AcceptTask(c) \/ TaskNotFound(c)
                 \/ ExecuteSkill(c) \/ LogBlocked(c) \/ LogFailed(c)
                 \/ LogCompleted(c) \/ MarkFailed(c) \/ MarkExecuted(c) \/ ExecutionThrows(c)
                 \/ StartEnableSkill(c) \/ ReadSkill(c) \/ WriteSkill(c) \/ ActionCallDies(c)
        BY <2>3
      <3>2. CASE InsertTaskOrConfirmFact(c) \/ AcceptTask(c)
        BY <1>6, <3>2
      <3>3. CASE WriteSkill(c)
        BY <1>6, <1>9, <3>3
      <3>4. CASE ReadSkill(c)
        BY <1>9, <3>4
      <3>5. CASE TaskNotFound(c) \/ ExecuteSkill(c) \/ LogBlocked(c) \/ LogFailed(c) \/ LogCompleted(c) \/ ExecutionThrows(c)
        BY <1>7, <3>5
      <3>. QED
        BY <1>5, <1>8, <1>10, <1>12, <3>1, <3>2, <3>3, <3>4, <3>5
    <2>. QED
      BY <1>2, <1>11, <2>1, <2>2, <2>3 DEF ActionNext

\* No effect, log, mark or skill without the approval it needs, and no effect twice but
\* in the races named, for every number of proposals and calls (executor.ts, approval.ts,
\* enableSkill).
LEMMA ActionCorrect == ActionSpec => [](ActionsAreApproved /\ ActionTypeOK)
  <1>1. ActionInit => ActionShape /\ ActionInv /\ ActionMore /\ ActionOnce
    BY DEF ActionInit, ActionShape, ActionInv, ActionCallTypes, Idle, ProposalOK, ExecutionOK,
           ProposalRows, ProposalStatuses, ActionMore, ActionOnce, OnceOK, ExecutesOn
  <1>2. ActionShape /\ ActionInv /\ ActionMore /\ ActionOnce => ActionsAreApproved
    BY DEF ActionInv, ProposalOK, ActionsAreApproved, ExecutedIsBacked, EnabledWasApproved,
           EffectNotRepeated, ActionMore, ActionOnce, OnceOK
  <1>3. ActionShape /\ ActionMore => ActionTypeOK
    BY DEF ActionShape, ActionMore, ActionTypeOK, ProposalRows
  <1>. QED
    BY <1>1, <1>2, <1>3, ActionKept, ActionMoreStep, ActionOnceStep, PTL DEF ActionSpec

\* Every variable of the proposals has its type.
LEMMA ActionTyped == ActionSpec => []ActionTypeOK
  BY ActionCorrect, PTL

-----------------------------------------------------------------------------
(* Answers of the voice agent. *)

\* A set of the positions of the patterns has a least one.
LEMMA LeastPosition ==
    ASSUME NEW S \in SUBSET (1..18), S # {}
    PROVE  \E x \in S : \A y \in S : x =< y
  <1>. SUFFICES ASSUME \A x \in S : \E y \in S : ~(x =< y) PROVE FALSE
    OBVIOUS
  <1>1. 1 \notin S /\ 2 \notin S /\ 3 \notin S
    OBVIOUS
  <1>2. 4 \notin S /\ 5 \notin S /\ 6 \notin S
    BY <1>1
  <1>3. 7 \notin S /\ 8 \notin S /\ 9 \notin S
    BY <1>1, <1>2
  <1>4. 10 \notin S /\ 11 \notin S /\ 12 \notin S
    BY <1>1, <1>2, <1>3
  <1>5. 13 \notin S /\ 14 \notin S /\ 15 \notin S
    BY <1>1, <1>2, <1>3, <1>4
  <1>6. 16 \notin S /\ 17 \notin S /\ 18 \notin S
    BY <1>1, <1>2, <1>3, <1>4, <1>5
  <1>7. \A x \in S : x > 9
    BY <1>1, <1>2, <1>3
  <1>8. \A x \in S : x > 18
    BY <1>4, <1>5, <1>6, <1>7
  <1>9. PICK x \in S : TRUE
    OBVIOUS
  <1>. QED
    BY <1>8, <1>9

\* The pattern that decides is the first that matches.
LEMMA FirstMatches ==
    \E k \in 1..18 : /\ Pattern = Patterns[k] /\ Matches(Patterns[k])
                     /\ \A j \in 1..18 : j < k => ~Matches(Patterns[j])
  <1>. DEFINE S == {i \in DOMAIN Patterns : Matches(Patterns[i])}
  <1>1. DOMAIN Patterns = 1..18 /\ Patterns[18] = "any"
    BY DEF Patterns
  <1>2. S \in SUBSET (1..18) /\ 18 \in S
    BY <1>1 DEF Matches
  <1>3. \E x \in S : \A y \in S : x =< y
    BY <1>2, LeastPosition
  <1>4. Min(S) \in S /\ \A y \in S : Min(S) =< y
    BY <1>3 DEF Min
  <1>5. Pattern = Patterns[Min(S)]
    BY DEF Pattern
  <1>6. \A i \in 1..18 : i \in S <=> Matches(Patterns[i])
    BY <1>1
  <1>7. \A i \in S : i \in 1..18
    BY <1>2
  <1>. HIDE DEF S
  <1>8. Min(S) \in 1..18 /\ Matches(Patterns[Min(S)])
    BY <1>4, <1>6, <1>7
  <1>9. \A j \in 1..18 : j < Min(S) => ~Matches(Patterns[j])
    BY <1>4, <1>6, <1>8
  <1>. QED
    BY <1>5, <1>8, <1>9

\* In a live conversation no pattern decides that would propose or set up something.
LEMMA WhisperRefuses == Whispering => Pattern \notin ActionIntents \cup {"outreach"}
  <1>. SUFFICES ASSUME Whispering, Pattern \in ActionIntents \cup {"outreach"} PROVE FALSE
    OBVIOUS
  <1>1. PICK k \in 1..18 : /\ Pattern = Patterns[k] /\ Matches(Patterns[k])
                           /\ \A j \in 1..18 : j < k => ~Matches(Patterns[j])
    BY FirstMatches
  <1>2. /\ \A i \in 1..18 : Patterns[i] \in ActionIntents => 6 < i
        /\ \A i \in 1..18 : Patterns[i] = "outreach" => 9 < i
        /\ Patterns[6] = "refuse_action" /\ Patterns[9] = "refuse_outreach"
    BY DEF Patterns, ActionIntents
  <1>3. CASE Pattern \in ActionIntents
    <2>1. Pattern \in spoken
      BY <1>1, <1>3 DEF Matches, ActionIntents
    <2>2. Matches(Patterns[6])
      BY <1>2, <1>3, <2>1 DEF Matches
    <2>. QED
      BY <1>1, <1>2, <1>3, <2>2
  <1>4. CASE Pattern = "outreach"
    <2>1. "outreach" \in spoken
      BY <1>1, <1>4 DEF Matches
    <2>2. Matches(Patterns[9])
      BY <1>2, <2>1 DEF Matches
    <2>3. 9 < k
      BY <1>1, <1>2, <1>4
    <2>. QED
      BY <1>1, <2>2, <2>3
  <1>. QED
    BY <1>3, <1>4

\* What an answer has made at each of its steps.
AnswerInv ==
    /\ AnswersKeepPolicy
    /\ answerStep \in {"idle", "route", "ask"} =>
         answerRows = {} /\ claimed = {} /\ answerKind = "none"
    /\ answerStep = "research" =>
         answerRows = {"campaign"} /\ ~Whispering /\ answerKind = "none"
    /\ answerStep = "tasks" =>
         /\ answerRows \subseteq {"commitment", "task", "earlier"}
         /\ claimed = {} /\ answerKind = "none"

\* An answer keeps the policy of its mode, and says what it made, for texts that
\* match any number of patterns (answerVoiceUserText).
LEMMA AnswerCorrect == VoiceAnswerSpec => []AnswersKeepPolicy
  <1>1. VoiceAnswerInit => AnswerInv
    BY DEF VoiceAnswerInit, AnswerInv, AnswersKeepPolicy, Whispering
  <1>2. AnswerInv /\ [VoiceAnswerNext]_voiceAnswerVars => AnswerInv'
    <2>. SUFFICES ASSUME AnswerInv, [VoiceAnswerNext]_voiceAnswerVars PROVE AnswerInv'
      OBVIOUS
    <2>. USE DEF AnswerInv, AnswersKeepPolicy, Whispering
    <2>1. ASSUME NEW text \in Texts, NEW policy \in VoicePolicies, Hear(text, policy)
          PROVE  AnswerInv'
      BY <2>1 DEF Hear
    <2>2. CASE AnswerReads \/ AskProvider \/ FindNoCommitment \/ ProviderSpeaks \/ AnswerThrows
      BY <2>2 DEF AnswerReads, AskProvider, FindNoCommitment, ProviderSpeaks, AnswerThrows, Say
    <2>3. CASE AnswerSupports \/ AnswerReviews
      BY <2>3 DEF AnswerSupports, AnswerReviews, Say
    <2>4. CASE AnswerProposes \/ CreateCampaign
      <3>1. ~Whispering
        BY <2>4, WhisperRefuses DEF AnswerProposes, CreateCampaign
      <3>. QED
        BY <2>4, <3>1 DEF AnswerProposes, CreateCampaign, Say
    <2>5. CASE StartResearch \/ InsertCommitments \/ ClaimTasks
      BY <2>5 DEF StartResearch, InsertCommitments, ClaimTasks
    <2>7. ASSUME NEW row \in {"task", "earlier"}, CreateTaskFor(row) PROVE AnswerInv'
      BY <2>7 DEF CreateTaskFor
    <2>6. CASE UNCHANGED voiceAnswerVars
      BY <2>6 DEF voiceAnswerVars
    <2>. HIDE DEF AnswerInv
    <2>. QED
      BY <2>1, <2>2, <2>3, <2>4, <2>5, <2>6, <2>7 DEF VoiceAnswerNext
  <1>3. AnswerInv => AnswersKeepPolicy
    BY DEF AnswerInv
  <1>. QED
    BY <1>1, <1>2, <1>3, PTL DEF VoiceAnswerSpec

\* The pattern that decides aside, an answer ends with what it is.
LEMMA AnswerTyped == VoiceAnswerSpec => []VoiceAnswerTypeOK
  <1>1. VoiceAnswerInit => VoiceAnswerTypeOK
    BY DEF VoiceAnswerInit, VoiceAnswerTypeOK, VoicePolicies
  <1>2. VoiceAnswerTypeOK /\ [VoiceAnswerNext]_voiceAnswerVars => VoiceAnswerTypeOK'
    <2>. SUFFICES ASSUME VoiceAnswerTypeOK, [VoiceAnswerNext]_voiceAnswerVars PROVE VoiceAnswerTypeOK'
      OBVIOUS
    <2>. USE DEF VoiceAnswerTypeOK
    <2>1. ASSUME NEW text \in Texts, NEW policy \in VoicePolicies, Hear(text, policy)
          PROVE  VoiceAnswerTypeOK'
      <3>1. text \subseteq Intents
        BY DEF Texts
      <3>. QED
        BY <2>1, <3>1 DEF Hear
    <2>2. CASE AnswerReads \/ AnswerSupports \/ AnswerReviews \/ AnswerProposes
      BY <2>2 DEF AnswerReads, AnswerSupports, AnswerReviews, AnswerProposes, Say, AnswerRows
    <2>3. CASE CreateCampaign \/ StartResearch \/ InsertCommitments \/ ClaimTasks
      BY <2>3 DEF CreateCampaign, StartResearch, InsertCommitments, ClaimTasks, AnswerRows
    <2>6. ASSUME NEW row \in {"task", "earlier"}, CreateTaskFor(row) PROVE VoiceAnswerTypeOK'
      BY <2>6 DEF CreateTaskFor, AnswerRows
    <2>4. CASE FindNoCommitment \/ AskProvider \/ ProviderSpeaks \/ AnswerThrows
      BY <2>4 DEF FindNoCommitment, AskProvider, ProviderSpeaks, AnswerThrows, Say
    <2>5. CASE UNCHANGED voiceAnswerVars
      BY <2>5 DEF voiceAnswerVars
    <2>. HIDE DEF VoiceAnswerTypeOK
    <2>. QED
      BY <2>1, <2>2, <2>3, <2>4, <2>5, <2>6 DEF VoiceAnswerNext
  <1>. QED
    BY <1>1, <1>2, PTL DEF VoiceAnswerSpec

-----------------------------------------------------------------------------
(* Daily budgets. *)

\* The calls that have passed a budget's check and not yet recorded their request.
Asking(b) == {c \in BudgetCalls : budgetCalls[c] # NoBudgetCall /\ BudgetOf(budgetCalls[c].op) = b}

BudgetInv == BudgetTypeOK /\ \A b \in Budgets :
    recorded[b] + Cardinality(Asking(b)) <= DailyLimit - 1 + Cardinality(BudgetCalls)

\* Every call asks for one budget at most, so the calls of one are finitely many.
LEMMA AskingFinite ==
    ASSUME NEW b PROVE IsFiniteSet(Asking(b)) /\ Cardinality(Asking(b)) \in Nat
                       /\ Cardinality(Asking(b)) <= Cardinality(BudgetCalls)
                       /\ Cardinality(BudgetCalls) \in Nat
  BY BudgetAssumption, FS_Subset, FS_CardinalityType DEF Asking

\* A call that ends leaves the calls that ask for its budget, or for none.
LEMMA AskingShrinks ==
    ASSUME NEW b, NEW c \in BudgetCalls, BudgetTypeOK, EndRequest(c)
    PROVE  /\ Cardinality(Asking(b)') \in Nat
           /\ Cardinality(Asking(b)') <= Cardinality(Asking(b))
           /\ c \in Asking(b) => Cardinality(Asking(b)') = Cardinality(Asking(b)) - 1
  <1>1. Asking(b)' = Asking(b) \ {c}
    BY DEF Asking, EndRequest, BudgetTypeOK
  <1>2. Cardinality(Asking(b) \ {c}) = IF c \in Asking(b) THEN Cardinality(Asking(b)) - 1 ELSE Cardinality(Asking(b))
    BY AskingFinite, FS_RemoveElement
  <1>3. Cardinality(Asking(b)') = Cardinality(Asking(b) \ {c})
    BY <1>1
  <1>4. Cardinality(Asking(b) \ {c}) \in Nat
    BY AskingFinite, FS_Subset, FS_CardinalityType
  <1>. HIDE DEF Asking
  <1>. QED
    BY <1>2, <1>3, <1>4, AskingFinite

LEMMA BudgetCorrect == BudgetSpec => []BudgetInv
  <1>1. BudgetInit => BudgetInv
    <2>. SUFFICES ASSUME BudgetInit PROVE BudgetInv
      OBVIOUS
    <2>1. BudgetTypeOK
      BY BudgetAssumption DEF BudgetInit, BudgetTypeOK, NoRequests
    <2>2. \A b \in Budgets : recorded[b] = 0
      BY DEF BudgetInit, NoRequests
    <2>. QED
      BY <2>1, <2>2, AskingFinite, BudgetAssumption DEF BudgetInv
  <1>2. BudgetInv /\ [BudgetNext]_budgetVars => BudgetInv'
    <2>. SUFFICES ASSUME BudgetInv, [BudgetNext]_budgetVars PROVE BudgetInv'
      OBVIOUS
    <2>0. /\ recorded \in [Budgets -> 0..MaxRequests]
          /\ budgetCalls \in [BudgetCalls -> {NoBudgetCall} \cup [pc : {"request", "record"}, op : Operations]]
          /\ \A b \in Budgets : recorded[b] + Cardinality(Asking(b)) <= DailyLimit - 1 + Cardinality(BudgetCalls)
          /\ BudgetTypeOK /\ MaxRequests \in Nat /\ DailyLimit \in Nat \ {0}
      BY BudgetAssumption DEF BudgetInv, BudgetTypeOK
    <2>1. ASSUME NEW c \in BudgetCalls, NEW op \in Operations, StartRequest(c, op)
          PROVE  BudgetInv'
      <3>1. BudgetTypeOK'
        BY <2>0, <2>1 DEF StartRequest, BudgetTypeOK
      <3>2. UNCHANGED recorded /\ recorded[BudgetOf(op)] < DailyLimit
        <4>1. BudgetOf(op) \in Budgets
          BY DEF BudgetOf, Budgets
        <4>. QED
          BY <2>0, <2>1, <4>1 DEF StartRequest, BudgetExceeded
      <3>3. ASSUME NEW b \in Budgets, b # BudgetOf(op)
            PROVE  Asking(b)' = Asking(b)
        BY <2>0, <2>1, <3>3 DEF StartRequest, Asking, NoBudgetCall
      <3>4. /\ Cardinality(Asking(BudgetOf(op)))' <= Cardinality(BudgetCalls)
            /\ Cardinality(Asking(BudgetOf(op)))' \in Nat
        <4>1. Asking(BudgetOf(op))' \subseteq BudgetCalls
          BY DEF Asking
        <4>. QED
          BY <4>1, BudgetAssumption, FS_Subset, FS_CardinalityType
      <3>5. ASSUME NEW b \in Budgets
            PROVE  recorded'[b] + Cardinality(Asking(b))' <= DailyLimit - 1 + Cardinality(BudgetCalls)
        <4>1. CASE b = BudgetOf(op)
          <5>. HIDE DEF Asking
          <5>. QED
            BY <2>0, <3>2, <3>4, <4>1, AskingFinite
        <4>2. CASE b # BudgetOf(op)
          BY <2>0, <3>2, <3>3, <4>2
        <4>. QED
          BY <4>1, <4>2
      <3>. QED
        BY <3>1, <3>5 DEF BudgetInv
    <2>2. ASSUME NEW c \in BudgetCalls, ProviderAnswers(c)
          PROVE  BudgetInv'
      <3>1. BudgetTypeOK' /\ UNCHANGED recorded
        BY <2>0, <2>2 DEF ProviderAnswers, InStep, BudgetTypeOK, NoBudgetCall
      <3>2. \A b \in Budgets : Asking(b)' = Asking(b)
        BY <2>0, <2>2 DEF ProviderAnswers, InStep, Asking, NoBudgetCall
      <3>. QED
        BY <2>0, <3>1, <3>2 DEF BudgetInv
    <2>3. ASSUME NEW c \in BudgetCalls, ProviderRejects(c) \/ RecordFails(c)
          PROVE  BudgetInv'
      <3>1. EndRequest(c) /\ UNCHANGED recorded
        BY <2>3 DEF ProviderRejects, RecordFails
      <3>2. BudgetTypeOK'
        BY <2>0, <3>1 DEF EndRequest, BudgetTypeOK
      <3>3. \A b \in Budgets : recorded'[b] + Cardinality(Asking(b)') <= DailyLimit - 1 + Cardinality(BudgetCalls)
        <4>. TAKE b \in Budgets
        <4>1. Cardinality(Asking(b)') \in Nat /\ Cardinality(Asking(b)') <= Cardinality(Asking(b))
          BY <2>0, <3>1, AskingShrinks
        <4>. QED
          BY <2>0, <3>1, <4>1, AskingFinite
      <3>. QED
        BY <3>2, <3>3 DEF BudgetInv
    <2>4. ASSUME NEW c \in BudgetCalls, RecordUsage(c)
          PROVE  BudgetInv'
      <3>. SUFFICES ASSUME NEW CONSTANT b0, b0 = BudgetOf(budgetCalls[c].op) PROVE BudgetInv'
        OBVIOUS
      <3>0. budgetCalls[c] \in [pc : {"request", "record"}, op : Operations]
        BY <2>0, <2>4 DEF RecordUsage, InStep, NoBudgetCall
      <3>1. /\ EndRequest(c) /\ budgetCalls[c] # NoBudgetCall /\ b0 \in Budgets
            /\ recorded[b0] < MaxRequests
            /\ \/ recorded' = [recorded EXCEPT ![b0] = @ + 1]
               \/ recorded' = [recorded EXCEPT ![b0] = @ + 0]
        <4>1. b0 \in Budgets /\ budgetCalls[c] # NoBudgetCall
          BY <3>0 DEF BudgetOf, Budgets, NoBudgetCall
        <4>. QED
          BY <2>4, <4>1 DEF RecordUsage
      <3>2. c \in Asking(b0)
        BY <3>1 DEF Asking
      <3>3. recorded' \in [Budgets -> 0..MaxRequests]
        BY <2>0, <3>1
      <3>4. BudgetTypeOK'
        BY <2>0, <3>1, <3>3 DEF EndRequest, BudgetTypeOK
      <3>5. ASSUME NEW b \in Budgets
            PROVE  recorded'[b] + Cardinality(Asking(b))' <= DailyLimit - 1 + Cardinality(BudgetCalls)
        <4>1. CASE b = b0
          <5>1. /\ Cardinality(Asking(b0)') \in Nat
                /\ Cardinality(Asking(b0)') = Cardinality(Asking(b0)) - 1
            BY <2>0, <3>1, <3>2, AskingShrinks
          <5>2. recorded'[b0] <= recorded[b0] + 1
            BY <2>0, <3>1
          <5>. QED
            BY <2>0, <3>1, <3>3, <4>1, <5>1, <5>2, AskingFinite
        <4>2. CASE b # b0
          <5>1. recorded'[b] = recorded[b]
            BY <2>0, <3>1, <4>2
          <5>. QED
            <6>1. Cardinality(Asking(b)') \in Nat /\ Cardinality(Asking(b)') <= Cardinality(Asking(b))
              BY <2>0, <3>1, AskingShrinks
            <6>. QED
              BY <2>0, <5>1, <6>1, AskingFinite
        <4>. QED
          BY <4>1, <4>2
      <3>. QED
        BY <3>4, <3>5 DEF BudgetInv
    <2>5. CASE Midnight
      <3>1. BudgetTypeOK' /\ \A b \in Budgets : recorded'[b] = 0 /\ Asking(b)' = Asking(b)
        BY <2>0, <2>5 DEF Midnight, BudgetTypeOK, NoRequests, Asking
      <3>. QED
        BY <2>0, <3>1, AskingFinite DEF BudgetInv
    <2>6. CASE UNCHANGED budgetVars
      BY <2>0, <2>6 DEF budgetVars, BudgetInv, BudgetTypeOK, Asking
    <2>. QED
      BY <2>1, <2>2, <2>3, <2>4, <2>5, <2>6 DEF BudgetNext
  <1>. QED
    BY <1>1, <1>2, PTL DEF BudgetSpec

-----------------------------------------------------------------------------
(* Human profile. *)

ProjectLists == {list \in Seq(Facts \cup {"earlier"}) :
    Len(list) <= ProjectLimit /\ \A i \in DOMAIN list : list[i] = "earlier" => i = 1}

\* A list has a project, or has dropped it for later ones.
KeptBy(list, f) ==
    f \in Elements(list) \/ (Len(list) = ProjectLimit /\ "earlier" \notin Elements(list))

LEMMA ProjectAppended ==
    ASSUME NEW list \in ProjectLists, NEW f \in Facts
    PROVE  /\ AppendUnique(list, f) \in ProjectLists
           /\ Elements(AppendUnique(list, f)) \subseteq Elements(list) \cup {f}
           /\ \A g : g = f \/ KeptBy(list, g) => KeptBy(AppendUnique(list, f), g)
  <1>0. /\ list \in Seq(Facts \cup {"earlier"}) /\ Len(list) <= ProjectLimit
        /\ \A i \in DOMAIN list : list[i] = "earlier" => i = 1
        /\ ProjectLimit \in Nat \ {0} /\ f # "earlier"
    BY ProjectAssumption DEF ProjectLists
  <1>l. ProjectLimit \in Nat /\ Len(list) \in Nat
    BY <1>0, LenProperties
  <1>1. CASE f \in Elements(list)
    BY <1>1 DEF AppendUnique, KeptBy
  <1>2. CASE f \notin Elements(list) /\ Len(list) < ProjectLimit
    <2>. SUFFICES ASSUME NEW CONSTANT new, new = AppendUnique(list, f)
                  PROVE  /\ new \in ProjectLists /\ Elements(new) \subseteq Elements(list) \cup {f}
                         /\ \A g : g = f \/ KeptBy(list, g) => KeptBy(new, g)
      OBVIOUS
    <2>1. new = Append(list, f)
      BY <1>2 DEF AppendUnique
    <2>2. /\ new \in Seq(Facts \cup {"earlier"}) /\ Len(new) = Len(list) + 1
          /\ \A i \in 1..Len(list) : new[i] = list[i]
          /\ new[Len(list) + 1] = f
      BY <1>0, <2>1, AppendProperties
    <2>3. /\ Len(list) \in Nat /\ DOMAIN list = 1..Len(list) /\ DOMAIN new = 1..Len(list) + 1
      BY <1>0, <2>2, LenProperties
    <2>4. \A i \in DOMAIN new : i \in DOMAIN list \/ i = Len(list) + 1
      BY <2>3
    <2>5. Elements(new) \subseteq Elements(list) \cup {f}
      BY <2>2, <2>3, <2>4 DEF Elements
    <2>6. \A i \in DOMAIN list : i \in DOMAIN new /\ new[i] = list[i]
      BY <2>2, <2>3
    <2>7. Elements(list) \subseteq Elements(new)
      BY <2>6 DEF Elements
    <2>8. f \in Elements(new)
      BY <2>2, <2>3 DEF Elements
    <2>9. new \in ProjectLists
      <3>1. Len(new) <= ProjectLimit
        BY <1>2, <1>l, <2>2, <2>3
      <3>2. \A i \in DOMAIN new : new[i] = "earlier" => i = 1
        BY <1>0, <2>2, <2>4, <2>6
      <3>. QED
        BY <2>2, <3>1, <3>2 DEF ProjectLists
    <2>10. Len(list) # ProjectLimit
      <3>1. \A m, n \in Nat : m < n => m # n
        OBVIOUS
      <3>. QED
        BY <1>2, <1>l, <3>1, Zenon
    <2>. QED
      BY <2>5, <2>7, <2>8, <2>9, <2>10 DEF KeptBy
  <1>3. CASE f \notin Elements(list) /\ ~(Len(list) < ProjectLimit)
    <2>. SUFFICES ASSUME NEW CONSTANT new, new = AppendUnique(list, f)
                  PROVE  /\ new \in ProjectLists /\ Elements(new) \subseteq Elements(list) \cup {f}
                         /\ \A g : g = f \/ KeptBy(list, g) => KeptBy(new, g)
      OBVIOUS
    <2>1. new = Append(Tail(list), f)
      BY <1>3 DEF AppendUnique
    <2>2. Len(list) \in Nat /\ DOMAIN list = 1..Len(list) /\ Len(list) = ProjectLimit
      BY <1>0, <1>3, LenProperties
    <2>3. list # <<>>
      BY <1>0, <2>2
    <2>. SUFFICES ASSUME NEW CONSTANT rest, rest = Tail(list)
                  PROVE  /\ new \in ProjectLists /\ Elements(new) \subseteq Elements(list) \cup {f}
                         /\ \A g : g = f \/ KeptBy(list, g) => KeptBy(new, g)
      OBVIOUS
    <2>4. /\ rest \in Seq(Facts \cup {"earlier"}) /\ Len(rest) = Len(list) - 1
          /\ \A i \in 1..Len(rest) : rest[i] = list[i + 1]
      BY <1>0, <2>3, HeadTailProperties
    <2>5. /\ new \in Seq(Facts \cup {"earlier"}) /\ Len(new) = Len(rest) + 1
          /\ \A i \in 1..Len(rest) : new[i] = rest[i]
          /\ new[Len(rest) + 1] = f
      BY <1>0, <2>1, <2>4, AppendProperties
    <2>6. DOMAIN new = 1..Len(list) /\ Len(new) = ProjectLimit /\ new[Len(list)] = f
      BY <1>0, <2>2, <2>4, <2>5, LenProperties
    <2>7. \A i \in DOMAIN new : i = Len(list) \/ (i + 1 \in DOMAIN list /\ i + 1 # 1 /\ new[i] = list[i + 1])
      BY <2>2, <2>4, <2>5, <2>6
    <2>8. Elements(new) \subseteq Elements(list) \cup {f}
      BY <2>6, <2>7 DEF Elements
    <2>9. \A i \in DOMAIN new : new[i] # "earlier"
      BY <1>0, <2>6, <2>7
    <2>10. "earlier" \notin Elements(new)
      BY <2>9 DEF Elements
    <2>11. new \in ProjectLists
      BY <1>0, <2>5, <2>6, <2>9 DEF ProjectLists
    <2>. QED
      BY <2>6, <2>8, <2>10, <2>11 DEF KeptBy
  <1>. QED
    BY <1>1, <1>2, <1>3

TextCalls == [pc : {"insert"}, from : FactSources]
ApplyCalls == [pc : {"profile"}, from : FactSources, fact : Facts, kind : FactKinds]
UpdateCalls == [pc : {"update"}, from : FactSources, fact : Facts, kind : {"project", "goal"},
                read : ProjectLists]
DeleteCalls == [pc : {"delete"}, from : {"close"}]

ProfileCallTypes == {NoProfileCall} \cup TextCalls \cup ApplyCalls \cup UpdateCalls \cup DeleteCalls

ProfileShape ==
    /\ facts \in [Facts -> {NoFact, DeletedFact} \cup FactRows]
    /\ profileCalls \in [ProfileCalls -> ProfileCallTypes]
    /\ projects \in ProjectLists /\ goal \subseteq Facts /\ confirmedOnce \subseteq Facts

\* A fact was confirmed, and is of a kind unless it is deleted.
FactIs(f, kind) == f \in confirmedOnce /\ (FactStored(f) => facts[f].kind = kind)

\* A project is confirmed, and no call of it is under way, failed or raced.
ProjectSettled(f) ==
    /\ facts[f].status = "confirmed" /\ facts[f].kind = "project"
    /\ f \notin Applying /\ f \notin profileCut /\ f \notin racedFacts

Applies(call, f) == call.pc \in {"profile", "update"} /\ call.fact = f
Lists(call) == call.pc = "update" /\ call.kind = "project"

\* What a fact is: in the column of its kind, and of a request once the session is discarded.
FactOK(f) ==
    /\ f \in confirmedOnce => facts[f] # NoFact
    /\ f \in Elements(projects) => FactIs(f, "project")
    /\ f \in goal => FactIs(f, "goal")
    /\ FactStored(f) => (told = "discarded" => facts[f].source = "request")

\* What the row keeps of a fact that is confirmed, and of one that is deleted.
RowOK(f) ==
    /\ ProjectSettled(f) =>
         \/ f \in Elements(projects)
         \/ Len(projects) = ProjectLimit /\ "earlier" \notin Elements(projects)
    /\ facts[f].status = "confirmed" /\ facts[f].kind = "goal" =>
         f \in Applying \/ f \in profileCut \/ goal # {}
LeftOK(f) ==
    told = "discarded" /\ facts[f] = DeletedFact
    /\ (f \in Elements(projects) \/ f \in goal \/ f \in Applying \/ f \in ListsRead)
    => f \in leftover

\* A call applies a confirmed fact of the kind it says, to a list that keeps every
\* settled project; and none tells a fact of a session that was discarded, or deletes then.
ApplyOK(call) ==
    /\ call.pc = "insert" => (told = "discarded" => call.from = "request")
    /\ call.pc = "delete" => told = "interrupted"
    /\ call.pc \in {"profile", "update"} => FactIs(call.fact, call.kind)
    /\ call.pc = "update" => \A f \in Elements(call.read) \cap Facts : FactIs(f, "project")
    /\ Lists(call) => \A f \in Facts : ProjectSettled(f) => KeptBy(call.read, f)

RaceOK(one, other) == Lists(one) /\ Lists(other) =>
    one.fact \in racedFacts /\ other.fact \in racedFacts

ProfileInv ==
    /\ \A f \in Facts : FactOK(f) /\ RowOK(f) /\ LeftOK(f)
    /\ \A c \in ProfileCalls : ApplyOK(profileCalls[c])
    /\ \A c, d \in ProfileCalls : c # d => RaceOK(profileCalls[c], profileCalls[d])

\* What every step keeps of the facts that calls speak of.
FactsGrow ==
    /\ confirmedOnce \subseteq confirmedOnce' /\ confirmedOnce' \subseteq Facts
    /\ racedFacts \subseteq racedFacts'
    /\ facts' \in [Facts -> {NoFact, DeletedFact} \cup FactRows]
    /\ \A f \in Facts : facts[f] # NoFact =>
         /\ facts'[f] # NoFact
         /\ FactStored(f)' => FactStored(f) /\ facts'[f].kind = facts[f].kind
    /\ told = "interrupted" => told' = "interrupted"

LEMMA FactIsKept ==
    ASSUME FactsGrow, NEW f \in Facts, f \in confirmedOnce => facts[f] # NoFact, NEW kind, FactIs(f, kind)
    PROVE  FactIs(f, kind)'
  BY DEF FactsGrow, FactIs

LEMMA CallKept ==
    ASSUME ProfileShape, FactsGrow, \A f \in Facts : f \in confirmedOnce => facts[f] # NoFact,
           NEW call \in ProfileCallTypes, ApplyOK(call),
           call.pc = "insert" /\ told' = "discarded" => told = "discarded" \/ call.from = "request",
           Lists(call) => \A f \in Facts : ProjectSettled(f)' => ProjectSettled(f)
    PROVE  ApplyOK(call)'
  <1>1. call.pc \in {"profile", "update"} => call.fact \in Facts
    BY DEF ProfileCallTypes, NoProfileCall, TextCalls, ApplyCalls, UpdateCalls, DeleteCalls
  <1>2. call.pc \in {"profile", "update"} => FactIs(call.fact, call.kind)'
    BY <1>1, FactIsKept DEF ApplyOK
  <1>3. call.pc = "update" => \A f \in Elements(call.read) \cap Facts : FactIs(f, "project")'
    BY FactIsKept DEF ApplyOK
  <1>4. /\ call.pc = "insert" => (told' = "discarded" => call.from = "request")
        /\ call.pc = "delete" => told' = "interrupted"
    BY DEF ApplyOK, FactsGrow
  <1>5. Lists(call) => \A f \in Facts : ProjectSettled(f)' => KeptBy(call.read, f)
    BY DEF ApplyOK
  <1>. QED
    BY <1>2, <1>3, <1>4, <1>5 DEF ApplyOK

\* A step in which no call moves.
LEMMA FactsKept ==
    ASSUME ProfileShape, ProfileInv, FactsGrow, profileCalls' = profileCalls,
           projects' \in ProjectLists, goal' \subseteq Facts,
           told' = "discarded" => told = "discarded" \/ ~TextHandled,
           \A f \in Facts : ProjectSettled(f)' => ProjectSettled(f),
           \A f \in Facts : FactOK(f)' /\ RowOK(f)' /\ LeftOK(f)'
    PROVE  ProfileShape' /\ ProfileInv'
  <1>1. \A f \in Facts : f \in confirmedOnce => facts[f] # NoFact
    BY DEF ProfileInv, FactOK
  <1>2. ASSUME NEW d \in ProfileCalls PROVE ApplyOK(profileCalls[d])'
    <2>. SUFFICES ASSUME NEW CONSTANT call, call = profileCalls[d] PROVE ApplyOK(call)'
      OBVIOUS
    <2>1. call \in ProfileCallTypes /\ ApplyOK(call)
      BY DEF ProfileShape, ProfileInv
    <2>2. ~TextHandled /\ call.pc = "insert" => call.from = "request"
      BY <2>1 DEF TextHandled, ProfileCallTypes, NoProfileCall, TextCalls, ApplyCalls, UpdateCalls,
         DeleteCalls, FactSources
    <2>. QED
      BY <1>1, <2>1, <2>2, CallKept
  <1>3. \A d, e \in ProfileCalls : d # e => RaceOK(profileCalls[d], profileCalls[e])'
    BY DEF ProfileInv, RaceOK, FactsGrow
  <1>4. ProfileShape'
    BY DEF ProfileShape, FactsGrow
  <1>. QED
    BY <1>2, <1>3, <1>4 DEF ProfileInv

\* A step in which one call moves.
LEMMA CallMoved ==
    ASSUME ProfileShape, ProfileInv, FactsGrow, projects' \in ProjectLists, goal' \subseteq Facts,
           told' = "discarded" => told = "discarded",
           NEW c \in ProfileCalls, NEW call \in ProfileCallTypes, ApplyOK(call)',
           profileCalls' = [profileCalls EXCEPT ![c] = call],
           \A f \in Facts : ProjectSettled(f)' => ProjectSettled(f)
               \/ \A d \in ProfileCalls : d # c => ~Lists(profileCalls[d]),
           Lists(call) => \A d \in ProfileCalls : d # c /\ Lists(profileCalls[d]) =>
               call.fact \in racedFacts' /\ profileCalls[d].fact \in racedFacts',
           \A f \in Facts : FactOK(f)' /\ RowOK(f)' /\ LeftOK(f)'
    PROVE  ProfileShape' /\ ProfileInv'
  <1>1. \A f \in Facts : f \in confirmedOnce => facts[f] # NoFact
    BY DEF ProfileInv, FactOK
  <1>2. /\ profileCalls'[c] = call /\ profileCalls' \in [ProfileCalls -> ProfileCallTypes]
        /\ \A d \in ProfileCalls : d # c => profileCalls'[d] = profileCalls[d]
    BY DEF ProfileShape
  <1>3. ASSUME NEW d \in ProfileCalls PROVE ApplyOK(profileCalls[d])'
    <2>. SUFFICES ASSUME NEW CONSTANT other, other = profileCalls'[d] PROVE ApplyOK(other)'
      OBVIOUS
    <2>1. CASE d = c
      BY <1>2, <2>1
    <2>2. CASE d # c
      <3>1. other \in ProfileCallTypes /\ ApplyOK(other) /\ other = profileCalls[d]
        BY <1>2, <2>2 DEF ProfileShape, ProfileInv
      <3>2. Lists(other) => \A f \in Facts : ProjectSettled(f)' => ProjectSettled(f)
        BY <2>2, <3>1
      <3>. QED
        BY <1>1, <3>1, <3>2, CallKept
    <2>. QED
      BY <2>1, <2>2
  <1>4. ASSUME NEW d \in ProfileCalls, NEW e \in ProfileCalls, d # e
        PROVE  RaceOK(profileCalls[d], profileCalls[e])'
    <2>1. CASE d = c
      BY <1>2, <1>4, <2>1 DEF RaceOK, Lists
    <2>2. CASE e = c
      BY <1>2, <1>4, <2>2 DEF RaceOK, Lists
    <2>3. CASE d # c /\ e # c
      <3>1. RaceOK(profileCalls[d], profileCalls[e])
        BY <1>4 DEF ProfileInv
      <3>. QED
        BY <1>2, <2>3, <3>1 DEF RaceOK, Lists, FactsGrow
    <2>. QED
      BY <2>1, <2>2, <2>3
  <1>5. ProfileShape'
    BY <1>2 DEF ProfileShape, FactsGrow
  <1>. QED
    BY <1>3, <1>4, <1>5 DEF ProfileInv

\* What calls apply and have selected changes only with the call that moves.
LEMMA CallSwapped ==
    ASSUME ProfileShape, NEW c \in ProfileCalls, NEW call \in ProfileCallTypes,
           profileCalls' = [profileCalls EXCEPT ![c] = call], NEW f \in Facts
    PROVE  /\ f \in Applying' => f \in Applying \/ Applies(call, f)
           /\ f \in Applying => f \in Applying' \/ Applies(profileCalls[c], f)
           /\ Applies(call, f) => f \in Applying'
           /\ f \in ListsRead' => f \in ListsRead \/ (Lists(call) /\ f \in Elements(call.read))
  <1>1. /\ profileCalls'[c] = call
        /\ \A d \in ProfileCalls : d # c => profileCalls'[d] = profileCalls[d]
    BY DEF ProfileShape
  <1>2. (f \in Applying' => f \in Applying \/ Applies(call, f)) /\ (Applies(call, f) => f \in Applying')
    BY <1>1 DEF Applying, Applies
  <1>3. f \in Applying => f \in Applying' \/ Applies(profileCalls[c], f)
    BY <1>1 DEF Applying, Applies
  <1>4. f \in ListsRead' => f \in ListsRead \/ (Lists(call) /\ f \in Elements(call.read))
    BY <1>1 DEF ListsRead, Listing, ProfileAt, Lists
  <1>. QED
    BY <1>2, <1>3, <1>4

\* Every step of the profile keeps the invariant.
LEMMA ProfileStep == ProfileShape /\ ProfileInv /\ [ProfileNext]_profileVars => ProfileShape' /\ ProfileInv'
  <1>. SUFFICES ASSUME ProfileShape, ProfileInv, [ProfileNext]_profileVars
                PROVE  ProfileShape' /\ ProfileInv'
    OBVIOUS
  <1>0. /\ facts \in [Facts -> {NoFact, DeletedFact} \cup FactRows]
        /\ profileCalls \in [ProfileCalls -> ProfileCallTypes]
        /\ projects \in ProjectLists /\ goal \subseteq Facts /\ confirmedOnce \subseteq Facts
        /\ \A f \in Facts : FactOK(f) /\ RowOK(f) /\ LeftOK(f)
        /\ \A c \in ProfileCalls : ApplyOK(profileCalls[c])
        /\ \A f \in confirmedOnce : facts[f] # NoFact
    BY DEF ProfileShape, ProfileInv, FactOK
  <1>n. /\ NoProfileCall \in ProfileCallTypes /\ ApplyOK(NoProfileCall)'
        /\ ~Lists(NoProfileCall) /\ \A f : ~Applies(NoProfileCall, f)
    BY DEF ProfileCallTypes, ApplyOK, NoProfileCall, Lists, Applies
  <1>t. \A c \in ProfileCalls :
          /\ profileCalls[c].pc = "insert" => profileCalls[c] \in TextCalls
          /\ profileCalls[c].pc = "profile" => profileCalls[c] \in ApplyCalls
          /\ profileCalls[c].pc = "update" => profileCalls[c] \in UpdateCalls
          /\ profileCalls[c].pc = "delete" => profileCalls[c] \in DeleteCalls
    BY <1>0 DEF ProfileCallTypes, TextCalls, ApplyCalls, UpdateCalls, DeleteCalls, NoProfileCall
  \* A call that applies nothing starts, and no row is written.
  <1>a. ASSUME NEW c \in ProfileCalls, NEW call \in TextCalls \cup DeleteCalls, ApplyOK(call)',
               profileCalls[c] = NoProfileCall, profileCalls' = [profileCalls EXCEPT ![c] = call],
               UNCHANGED <<facts, projects, goal, profileHistory>>,
               told' = "discarded" => told = "discarded",
               told = "interrupted" => told' = "interrupted"
        PROVE  ProfileShape' /\ ProfileInv'
    <2>1. call \in ProfileCallTypes /\ ~Lists(call) /\ \A f : ~Applies(call, f)
      BY DEF ProfileCallTypes, TextCalls, DeleteCalls, Lists, Applies
    <2>2. FactsGrow
      BY <1>0, <1>a DEF FactsGrow, FactStored, profileHistory
    <2>3. ASSUME NEW f \in Facts
          PROVE  (f \in Applying' <=> f \in Applying) /\ (f \in ListsRead' => f \in ListsRead)
      BY <1>n, <1>a, <2>1, CallSwapped
    <2>4. \A f \in Facts : ProjectSettled(f)' => ProjectSettled(f)
      BY <1>a, <2>3 DEF ProjectSettled, profileHistory
    <2>5. ASSUME NEW f \in Facts PROVE FactOK(f)' /\ RowOK(f)' /\ LeftOK(f)'
      <3>1. FactOK(f)'
        BY <1>0, <1>a DEF FactOK, FactIs, FactStored, profileHistory
      <3>2. RowOK(f)'
        BY <1>0, <1>a, <2>3, <2>4 DEF RowOK, profileHistory
      <3>3. LeftOK(f)'
        BY <1>0, <1>a, <2>3 DEF LeftOK, profileHistory
      <3>. QED
        BY <3>1, <3>2, <3>3
    <2>. QED
      BY <1>0, <1>a, <2>1, <2>2, <2>4, <2>5, CallMoved DEF profileHistory
  \* A call applies its fact no more, or fails, and the facts stay.
  <1>b. ASSUME NEW c \in ProfileCalls, profileCalls' = [profileCalls EXCEPT ![c] = NoProfileCall],
               UNCHANGED <<facts, projects, goal, told, confirmedOnce, racedFacts, leftover>>,
               profileCut \subseteq profileCut',
               \A f \in Facts : Applies(profileCalls[c], f) /\ f \notin profileCut' =>
                   ~FactStored(f) \/ facts[f].kind = "sensitive_candidate"
        PROVE  ProfileShape' /\ ProfileInv'
    <2>1. FactsGrow
      BY <1>0, <1>b DEF FactsGrow, FactStored
    <2>2. ASSUME NEW f \in Facts
          PROVE  /\ f \in Applying' => f \in Applying
                 /\ f \in Applying => f \in Applying' \/ Applies(profileCalls[c], f)
                 /\ f \in ListsRead' => f \in ListsRead
      BY <1>n, <1>b, CallSwapped
    <2>3. ASSUME NEW f \in Facts, facts[f].status = "confirmed", facts[f].kind \in {"project", "goal"},
                 f \notin Applying', f \notin profileCut'
          PROVE  f \notin Applying /\ f \notin profileCut
      BY <1>b, <2>2, <2>3 DEF FactStored
    <2>4. \A f \in Facts : ProjectSettled(f)' => ProjectSettled(f)
      BY <1>b, <2>3 DEF ProjectSettled
    <2>5. ASSUME NEW f \in Facts PROVE FactOK(f)' /\ RowOK(f)' /\ LeftOK(f)'
      <3>1. FactOK(f)'
        BY <1>0, <1>b DEF FactOK, FactIs, FactStored
      <3>2. RowOK(f)'
        BY <1>0, <1>b, <2>3, <2>4 DEF RowOK
      <3>3. LeftOK(f)'
        BY <1>0, <1>b, <2>2 DEF LeftOK
      <3>. QED
        BY <3>1, <3>2, <3>3
    <2>. QED
      BY <1>0, <1>b, <1>n, <2>1, <2>4, <2>5, CallMoved
  <1>1. ASSUME NEW c \in ProfileCalls, SaveTold(c)
        PROVE  ProfileShape' /\ ProfileInv'
    <2>. DEFINE new == [pc |-> "insert", from |-> "session"]
    <2>1. new \in TextCalls /\ ApplyOK(new)'
      BY <1>1 DEF SaveTold, TextCalls, FactSources, ApplyOK, Lists
    <2>. HIDE DEF new
    <2>2. /\ profileCalls[c] = NoProfileCall /\ profileCalls' = [profileCalls EXCEPT ![c] = new]
          /\ UNCHANGED <<facts, projects, goal, profileHistory>>
          /\ told' = "saved" /\ told = "active"
      BY <1>1 DEF SaveTold, ProfileStart, ProfileSet, new
    <2>. QED
      BY <1>a, <2>1, <2>2
  <1>2. ASSUME NEW c \in ProfileCalls, NEW source \in FactSources, StartText(c, source)
        PROVE  ProfileShape' /\ ProfileInv'
    <2>. DEFINE new == [pc |-> "insert", from |-> source]
    <2>1. new \in TextCalls /\ ApplyOK(new)'
      BY <1>2 DEF StartText, profileRows, TextCalls, FactSources, ApplyOK, Lists
    <2>. HIDE DEF new
    <2>2. /\ profileCalls[c] = NoProfileCall /\ profileCalls' = [profileCalls EXCEPT ![c] = new]
          /\ UNCHANGED <<facts, projects, goal, profileHistory>> /\ UNCHANGED told
      BY <1>2 DEF StartText, profileRows, ProfileStart, ProfileSet, new
    <2>. QED
      BY <1>a, <2>1, <2>2
  <1>3. ASSUME NEW c \in ProfileCalls, InterruptTold(c)
        PROVE  ProfileShape' /\ ProfileInv'
    <2>. DEFINE new == [pc |-> "delete", from |-> "close"]
    <2>1. new \in DeleteCalls /\ ApplyOK(new)'
      BY <1>3 DEF InterruptTold, DeleteCalls, ApplyOK, Lists
    <2>. HIDE DEF new
    <2>2. /\ profileCalls[c] = NoProfileCall /\ profileCalls' = [profileCalls EXCEPT ![c] = new]
          /\ UNCHANGED <<facts, projects, goal, profileHistory>>
          /\ told' = "interrupted" /\ told = "active"
      BY <1>3 DEF InterruptTold, ProfileStart, ProfileSet, new
    <2>. QED
      BY <1>a, <2>1, <2>2
  <1>4. ASSUME NEW c \in ProfileCalls, NEW f \in Facts, NEW draft \in FactDrafts, InsertFact(c, f, draft)
        PROVE  ProfileShape' /\ ProfileInv'
    <2>. SUFFICES ASSUME NEW CONSTANT call, call = profileCalls[c],
                         NEW CONSTANT row,
                         row = [status |-> draft.status, kind |-> draft.kind, source |-> call.from],
                         NEW CONSTANT apply,
                         apply = [pc |-> "profile", from |-> call.from, fact |-> f, kind |-> draft.kind]
                  PROVE ProfileShape' /\ ProfileInv'
      OBVIOUS
    <2>1. /\ call \in TextCalls /\ facts[f] = NoFact /\ facts' = [facts EXCEPT ![f] = row]
          /\ UNCHANGED <<projects, goal, told, racedFacts, profileCut, leftover>>
      BY <1>4, <1>t DEF InsertFact, ProfileAt
    <2>2. /\ row \in FactRows /\ apply \in ApplyCalls /\ row # NoFact /\ row # DeletedFact
          /\ row.status = draft.status /\ row.kind = draft.kind
          /\ told = "discarded" => row.source = "request"
      BY <1>0, <2>1 DEF TextCalls, FactDrafts, FactRows, ApplyCalls, NoFact, DeletedFact, ApplyOK
    <2>3. facts'[f] = row /\ \A g \in Facts : g # f => facts'[g] = facts[g]
      BY <1>0, <2>1
    <2>4. /\ confirmedOnce \subseteq confirmedOnce' /\ confirmedOnce' \subseteq Facts
          /\ \A g \in Facts : g \in confirmedOnce' => g \in confirmedOnce \/ g = f
      BY <1>0, <1>4 DEF InsertFact
    <2>5. FactsGrow
      BY <1>0, <2>1, <2>2, <2>3, <2>4 DEF FactsGrow, FactStored
    <2>6. f \notin confirmedOnce /\ f \notin Elements(projects) /\ f \notin goal
      BY <1>0, <2>1 DEF FactOK, FactIs
    <2>7. ASSUME NEW g \in Facts PROVE FactOK(g)'
      <3>1. CASE g = f
        BY <2>1, <2>2, <2>3, <2>6, <3>1 DEF FactOK, FactStored
      <3>2. CASE g # f
        BY <1>0, <2>1, <2>3, <2>4, <3>2 DEF FactOK, FactIs, FactStored
      <3>. QED
        BY <3>1, <3>2
    <2>8. ~Lists(call) /\ \A g : ~Applies(call, g)
      BY <2>1 DEF TextCalls, Lists, Applies
    \* The fact is applied at once, or is only proposed.
    <2>a. ASSUME NEW new \in ProfileCallTypes, profileCalls' = [profileCalls EXCEPT ![c] = new],
                 ~Lists(new), \A g \in Facts : Applies(new, g) => g = f,
                 Applies(new, f) \/ row.status # "confirmed"
          PROVE  /\ \A g \in Facts : ProjectSettled(g)' => ProjectSettled(g)
                 /\ \A g \in Facts : RowOK(g)' /\ LeftOK(g)'
      <3>1. ASSUME NEW g \in Facts
            PROVE  /\ g \in Applying' => g \in Applying \/ g = f
                   /\ g \in Applying => g \in Applying'
                   /\ row.status = "confirmed" => f \in Applying'
                   /\ g \in ListsRead' => g \in ListsRead
        BY <2>8, <2>a, CallSwapped
      <3>2. ASSUME NEW g \in Facts, g \notin Applying' PROVE g \notin Applying /\ (g = f => row.status # "confirmed")
        BY <3>1, <3>2
      <3>3. \A g \in Facts : ProjectSettled(g)' => ProjectSettled(g) /\ g # f
        BY <2>1, <2>3, <3>2 DEF ProjectSettled
      <3>4. ASSUME NEW g \in Facts PROVE RowOK(g)'
        <4>1. ProjectSettled(g)' =>
                 g \in Elements(projects) \/ (Len(projects) = ProjectLimit /\ "earlier" \notin Elements(projects))
          BY <1>0, <3>3 DEF RowOK
        <4>2. ASSUME facts'[g].status = "confirmed", facts'[g].kind = "goal"
              PROVE  g \in Applying' \/ g \in profileCut' \/ goal' # {}
          BY <1>0, <2>1, <2>3, <3>1, <4>2 DEF RowOK
        <4>. QED
          BY <2>1, <4>1, <4>2 DEF RowOK
      <3>5. ASSUME NEW g \in Facts PROVE LeftOK(g)'
        BY <1>0, <2>1, <2>2, <2>3, <3>1 DEF LeftOK
      <3>. QED
        BY <3>3, <3>4, <3>5
    <2>9. CASE draft.status = "confirmed"
      <3>1. profileCalls' = [profileCalls EXCEPT ![c] = apply] /\ f \in confirmedOnce'
        BY <1>4, <2>9 DEF InsertFact, ProfileSet
      <3>2. ApplyOK(apply)'
        BY <2>2, <2>3, <3>1 DEF ApplyOK, FactIs, Lists, ApplyCalls
      <3>3. /\ apply \in ProfileCallTypes /\ ~Lists(apply) /\ Applies(apply, f)
            /\ \A g \in Facts : Applies(apply, g) => g = f
        BY <2>2 DEF ProfileCallTypes, ApplyCalls, Lists, Applies
      <3>. QED
        BY <1>0, <2>1, <2>5, <2>7, <2>a, <3>1, <3>2, <3>3, CallMoved
    <2>10. CASE draft.status # "confirmed"
      <3>1. profileCalls' = [profileCalls EXCEPT ![c] = NoProfileCall]
        BY <1>4, <2>10 DEF InsertFact, ProfileSet, ProfileDone
      <3>. QED
        BY <1>0, <1>n, <2>1, <2>2, <2>5, <2>7, <2>10, <2>a, <3>1, CallMoved
    <2>. QED
      BY <2>9, <2>10
  <1>5. ASSUME NEW c \in ProfileCalls, NEW f \in Facts, ConfirmFact(c, f)
        PROVE  ProfileShape' /\ ProfileInv'
    <2>. SUFFICES ASSUME NEW CONSTANT new,
                         new = [pc |-> "profile", from |-> "request", fact |-> f, kind |-> facts[f].kind]
                  PROVE ProfileShape' /\ ProfileInv'
      OBVIOUS
    <2>1. /\ profileCalls[c] = NoProfileCall
          /\ profileCalls' = [profileCalls EXCEPT ![c] = new]
          /\ facts' = [facts EXCEPT ![f].status = "confirmed"]
          /\ confirmedOnce' = confirmedOnce \cup {f} /\ FactStored(f)
          /\ UNCHANGED <<projects, goal, told, racedFacts, profileCut, leftover>>
      BY <1>5 DEF ConfirmFact, ProfileStart, ProfileSet
    <2>2. facts[f] \in FactRows
      BY <1>0, <2>1 DEF FactStored, NoFact, DeletedFact
    <2>3. /\ facts'[f] = [facts[f] EXCEPT !.status = "confirmed"]
          /\ \A g \in Facts : g # f => facts'[g] = facts[g]
      BY <1>0, <2>1
    <2>4. /\ facts'[f] \in FactRows /\ facts'[f] # NoFact /\ facts'[f] # DeletedFact
          /\ facts'[f].kind = facts[f].kind /\ facts'[f].source = facts[f].source
      BY <2>2, <2>3 DEF FactRows, NoFact, DeletedFact
    <2>5. facts' \in [Facts -> {NoFact, DeletedFact} \cup FactRows]
      BY <1>0, <2>1, <2>3, <2>4
    <2>6. FactsGrow
      BY <1>0, <2>1, <2>3, <2>4, <2>5 DEF FactsGrow, FactStored
    <2>7. ASSUME NEW g \in Facts PROVE FactOK(g)'
      <3>1. CASE g = f
        <4>1. f \in Elements(projects) => facts[f].kind = "project"
          BY <1>0, <2>1 DEF FactOK, FactIs
        <4>2. f \in goal => facts[f].kind = "goal"
          BY <1>0, <2>1 DEF FactOK, FactIs
        <4>3. told = "discarded" => facts[f].source = "request"
          BY <1>0, <2>1 DEF FactOK
        <4>. QED
          BY <2>1, <2>4, <3>1, <4>1, <4>2, <4>3 DEF FactOK, FactIs
      <3>2. CASE g # f
        BY <1>0, <2>1, <2>3, <3>2 DEF FactOK, FactIs, FactStored
      <3>. QED
        BY <3>1, <3>2
    <2>8. /\ new \in ApplyCalls /\ new \in ProfileCallTypes /\ ~Lists(new) /\ Applies(new, f)
          /\ \A g \in Facts : Applies(new, g) => g = f
      BY <2>2 DEF ApplyCalls, FactRows, ProfileCallTypes, FactSources, Lists, Applies
    <2>9. ApplyOK(new)'
      BY <2>1, <2>4, <2>8 DEF ApplyOK, FactIs, ApplyCalls
    <2>10. ASSUME NEW g \in Facts
           PROVE  /\ g \in Applying' => g \in Applying \/ g = f
                  /\ g \in Applying => g \in Applying'
                  /\ f \in Applying'
                  /\ g \in ListsRead' => g \in ListsRead
      BY <1>n, <2>1, <2>8, CallSwapped
    <2>11. \A g \in Facts : ProjectSettled(g)' => ProjectSettled(g) /\ g # f
      BY <2>1, <2>3, <2>10 DEF ProjectSettled
    <2>12. ASSUME NEW g \in Facts PROVE RowOK(g)' /\ LeftOK(g)'
      <3>1. ProjectSettled(g)' =>
               g \in Elements(projects) \/ (Len(projects) = ProjectLimit /\ "earlier" \notin Elements(projects))
        BY <1>0, <2>11 DEF RowOK
      <3>2. ASSUME facts'[g].status = "confirmed", facts'[g].kind = "goal"
            PROVE  g \in Applying' \/ g \in profileCut' \/ goal' # {}
        BY <1>0, <2>1, <2>3, <2>10, <3>2 DEF RowOK
      <3>3. LeftOK(g)'
        BY <1>0, <2>1, <2>3, <2>4, <2>10 DEF LeftOK
      <3>. QED
        BY <2>1, <3>1, <3>2, <3>3 DEF RowOK
    <2>. QED
      BY <1>0, <2>1, <2>6, <2>7, <2>8, <2>9, <2>11, <2>12, CallMoved
  <1>6. ASSUME NEW f \in Facts, RejectFact(f)
        PROVE  ProfileShape' /\ ProfileInv'
    <2>1. /\ facts' = [facts EXCEPT ![f].status = "rejected"] /\ FactStored(f)
          /\ UNCHANGED <<projects, goal, told, profileCalls, profileHistory>>
      BY <1>6 DEF RejectFact
    <2>2. facts[f] \in FactRows
      BY <1>0, <2>1 DEF FactStored, NoFact, DeletedFact
    <2>3. /\ facts'[f] = [facts[f] EXCEPT !.status = "rejected"]
          /\ \A g \in Facts : g # f => facts'[g] = facts[g]
      BY <1>0, <2>1
    <2>4. /\ facts'[f] \in FactRows /\ facts'[f] # NoFact /\ facts'[f] # DeletedFact
          /\ facts'[f].status = "rejected"
          /\ facts'[f].kind = facts[f].kind /\ facts'[f].source = facts[f].source
      BY <2>2, <2>3 DEF FactRows, NoFact, DeletedFact
    <2>5. facts' \in [Facts -> {NoFact, DeletedFact} \cup FactRows]
      BY <1>0, <2>1, <2>3, <2>4
    <2>6. FactsGrow
      BY <1>0, <2>1, <2>3, <2>4, <2>5 DEF FactsGrow, FactStored, profileHistory
    <2>7. \A g \in Facts : FactOK(g)'
      BY <1>0, <2>1, <2>3, <2>4 DEF FactOK, FactIs, FactStored, profileHistory
    <2>8. \A g \in Facts : (g \in Applying' <=> g \in Applying) /\ (g \in ListsRead' <=> g \in ListsRead)
      BY <2>1 DEF Applying, ListsRead, Listing, ProfileAt
    <2>9. \A g \in Facts : ProjectSettled(g)' => ProjectSettled(g)
      BY <2>1, <2>3, <2>4, <2>8 DEF ProjectSettled, profileHistory
    <2>10. ASSUME NEW g \in Facts PROVE RowOK(g)'
      BY <1>0, <2>1, <2>3, <2>4, <2>8, <2>9 DEF RowOK, profileHistory
    <2>11. ASSUME NEW g \in Facts PROVE LeftOK(g)'
      BY <1>0, <2>1, <2>3, <2>4, <2>8 DEF LeftOK, profileHistory
    <2>. QED
      BY <1>0, <2>1, <2>6, <2>7, <2>9, <2>10, <2>11, FactsKept
  <1>7. ASSUME NEW c \in ProfileCalls, ReadProfile(c)
        PROVE  ProfileShape' /\ ProfileInv'
    <2>. SUFFICES ASSUME NEW CONSTANT call, call = profileCalls[c],
                         NEW CONSTANT list, list = IF call.kind = "project" THEN projects ELSE <<>>,
                         NEW CONSTANT new,
                         new = [pc |-> "update", from |-> call.from, fact |-> call.fact,
                                kind |-> call.kind, read |-> list]
                  PROVE ProfileShape' /\ ProfileInv'
      OBVIOUS
    <2>1. /\ call \in ApplyCalls /\ call.pc = "profile" /\ racedFacts \subseteq racedFacts'
          /\ UNCHANGED <<facts, projects, goal, told, confirmedOnce, profileCut, leftover>>
      BY <1>7, <1>t DEF ReadProfile, ProfileAt, profileRows
    <2>2. call.fact \in Facts /\ FactIs(call.fact, call.kind)
      BY <1>0, <2>1 DEF ApplyOK, ApplyCalls
    <2>3. \A f \in Facts : FactOK(f)'
      BY <1>0, <2>1 DEF FactOK, FactIs, FactStored
    <2>4. CASE call.kind = "sensitive_candidate"
      <3>1. UNCHANGED racedFacts /\ profileCalls' = [profileCalls EXCEPT ![c] = NoProfileCall]
        BY <1>7, <2>4 DEF ReadProfile, ProfileDone, ProfileSet
      <3>2. \A f \in Facts : Applies(call, f) => ~FactStored(f) \/ facts[f].kind = "sensitive_candidate"
        BY <2>2, <2>4 DEF Applies, FactIs
      <3>. QED
        BY <1>b, <2>1, <3>1, <3>2
    <2>5. CASE call.kind # "sensitive_candidate"
      <3>1. profileCalls' = [profileCalls EXCEPT ![c] = new]
        BY <1>7, <2>5 DEF ReadProfile, ProfileSet
      <3>2. call.kind = "project" /\ Listing # {} =>
               /\ call.fact \in racedFacts'
               /\ \A d \in Listing : profileCalls[d].fact \in racedFacts'
        BY <1>7 DEF ReadProfile
      <3>3. list \in ProjectLists /\ Elements(<<>>) = {} /\ (call.kind = "project" => list = projects)
        BY <1>0, ProjectAssumption DEF ProjectLists, Elements
      <3>4. /\ new \in UpdateCalls /\ new \in ProfileCallTypes /\ new.pc = "update"
            /\ new.fact = call.fact /\ new.kind = call.kind /\ new.read = list
        BY <2>1, <2>5, <3>3 DEF ApplyCalls, UpdateCalls, FactKinds, ProfileCallTypes
      <3>5. FactsGrow
        BY <1>0, <2>1 DEF FactsGrow, FactStored
      <3>6. ASSUME NEW f \in Facts
            PROVE  /\ f \in Applying' <=> f \in Applying
                   /\ f \in ListsRead' => f \in ListsRead \/ f \in Elements(projects)
        <4>1. \A g : Applies(new, g) <=> Applies(call, g)
          BY <2>1, <3>4 DEF Applies
        <4>2. f \in Applying' => f \in Applying \/ Applies(new, f)
          BY <3>1, <3>4, CallSwapped
        <4>3. f \in Applying => f \in Applying' \/ Applies(call, f)
          BY <3>1, <3>4, CallSwapped
        <4>4. Applies(new, f) => f \in Applying'
          BY <3>1, <3>4, CallSwapped
        <4>5. f \in ListsRead' => f \in ListsRead \/ (Lists(new) /\ f \in Elements(new.read))
          BY <3>1, <3>4, CallSwapped
        <4>6. Applies(call, f) => f \in Applying
          BY DEF Applies, Applying
        <4>. QED
          BY <3>3, <3>4, <4>1, <4>2, <4>3, <4>4, <4>5, <4>6 DEF Lists
      <3>7. \A f \in Facts : ProjectSettled(f)' => ProjectSettled(f)
        BY <2>1, <3>6 DEF ProjectSettled
      <3>8. ASSUME NEW f \in Facts PROVE RowOK(f)' /\ LeftOK(f)'
        <4>1. RowOK(f)'
          BY <1>0, <2>1, <3>6, <3>7 DEF RowOK
        <4>2. LeftOK(f)'
          BY <1>0, <2>1, <3>6 DEF LeftOK
        <4>. QED
          BY <4>1, <4>2
      <3>9. ApplyOK(new)'
        <4>1. FactIs(new.fact, new.kind)'
          BY <2>1, <2>2, <3>4 DEF FactIs, FactStored
        <4>2. \A f \in Elements(projects) \cap Facts : FactIs(f, "project")'
          BY <2>1, <2>3 DEF FactOK
        <4>3. \A f \in Elements(new.read) \cap Facts : FactIs(f, "project")'
          BY <3>3, <3>4, <4>2
        <4>4. ASSUME Lists(new), NEW f \in Facts, ProjectSettled(f)' PROVE KeptBy(new.read, f)
          BY <1>0, <3>3, <3>4, <3>7, <4>4 DEF Lists, RowOK, KeptBy
        <4>. QED
          BY <3>4, <4>1, <4>3, <4>4 DEF ApplyOK
      <3>10. Lists(new) => \A d \in ProfileCalls : d # c /\ Lists(profileCalls[d]) =>
               new.fact \in racedFacts' /\ profileCalls[d].fact \in racedFacts'
        BY <3>2, <3>4 DEF Lists, Listing, ProfileAt
      <3>. QED
        BY <1>0, <2>1, <2>3, <3>1, <3>4, <3>5, <3>7, <3>8, <3>9, <3>10, CallMoved
    <2>. QED
      BY <2>4, <2>5
  <1>8. ASSUME NEW c \in ProfileCalls, UpdateProfile(c)
        PROVE  ProfileShape' /\ ProfileInv'
    <2>. SUFFICES ASSUME NEW CONSTANT call, call = profileCalls[c]
                  PROVE ProfileShape' /\ ProfileInv'
      OBVIOUS
    <2>1. /\ call \in UpdateCalls /\ call.pc = "update"
          /\ profileCalls' = [profileCalls EXCEPT ![c] = NoProfileCall]
          /\ UNCHANGED <<facts, told, confirmedOnce, racedFacts, profileCut, leftover>>
      BY <1>8, <1>t DEF UpdateProfile, ProfileAt, ProfileDone, ProfileSet, profileHistory
    <2>2. /\ call.fact \in Facts /\ call.read \in ProjectLists /\ FactIs(call.fact, call.kind)
          /\ \A f \in Elements(call.read) \cap Facts : FactIs(f, "project")
          /\ call.kind \in {"project", "goal"}
          /\ call.kind = "project" => \A f \in Facts : ProjectSettled(f) => KeptBy(call.read, f)
      <3>1. ApplyOK(call)
        BY <1>0
      <3>. QED
        BY <2>1, <3>1 DEF ApplyOK, UpdateCalls, Lists
    <2>3. FactsGrow
      BY <1>0, <2>1 DEF FactsGrow, FactStored
    <2>4. ASSUME NEW f \in Facts
          PROVE  /\ f \in Applying' => f \in Applying
                 /\ f \in Applying => f \in Applying' \/ f = call.fact
                 /\ f \in ListsRead' => f \in ListsRead
      <3>1. Applies(call, f) => f = call.fact
        BY DEF Applies
      <3>2. f \in Applying' => f \in Applying \/ Applies(NoProfileCall, f)
        BY <1>n, <2>1, CallSwapped
      <3>3. f \in Applying => f \in Applying' \/ Applies(call, f)
        BY <1>n, <2>1, CallSwapped
      <3>4. f \in ListsRead' => f \in ListsRead \/ Lists(NoProfileCall)
        BY <1>n, <2>1, CallSwapped
      <3>. QED
        BY <1>n, <3>1, <3>2, <3>3, <3>4
    <2>5. call.fact \in Applying
      BY <2>1, <2>2 DEF Applying
    <2>6. CASE call.kind = "project"
      <3>. SUFFICES ASSUME NEW CONSTANT list, list = AppendUnique(call.read, call.fact)
                    PROVE  ProfileShape' /\ ProfileInv'
        OBVIOUS
      <3>1. projects' = list /\ goal' = goal
        BY <1>8, <2>6 DEF UpdateProfile
      <3>2. list \in ProjectLists /\ Elements(list) \subseteq Elements(call.read) \cup {call.fact}
        BY <2>2, ProjectAppended
      <3>3. \A g : g = call.fact \/ KeptBy(call.read, g) => KeptBy(list, g)
        BY <2>2, ProjectAppended
      <3>4. \A f \in Elements(call.read) \cap Facts : f \in ListsRead
        BY <2>1, <2>6 DEF ListsRead, Listing, ProfileAt
      <3>5. ASSUME NEW f \in Facts, ProjectSettled(f)' PROVE ProjectSettled(f) \/ f = call.fact
        BY <2>1, <2>4, <3>5 DEF ProjectSettled
      <3>6. ASSUME NEW f \in Facts, ProjectSettled(f)' PROVE KeptBy(list, f)
        BY <2>2, <2>6, <3>3, <3>5, <3>6
      <3>7. ASSUME NEW f \in Facts PROVE FactOK(f)'
        <4>1. f \in Elements(list) => FactIs(f, "project")
          BY <2>2, <2>6, <3>2
        <4>. QED
          BY <1>0, <2>1, <3>1, <4>1 DEF FactOK, FactIs, FactStored
      <3>8. ASSUME NEW f \in Facts PROVE RowOK(f)'
        <4>1. facts[f].status = "confirmed" /\ facts[f].kind = "goal" =>
                 f \in Applying' \/ f \in profileCut \/ goal # {}
          <5>1. facts[f].status = "confirmed" => FactStored(f)
            BY DEF FactStored
          <5>2. f = call.fact /\ FactStored(f) => facts[f].kind = "project"
            BY <2>2, <2>6 DEF FactIs
          <5>. QED
            BY <1>0, <2>4, <5>1, <5>2 DEF RowOK
        <4>2. ProjectSettled(f)' => f \in Elements(list) \/ (Len(list) = ProjectLimit /\ "earlier" \notin Elements(list))
          BY <3>6 DEF KeptBy
        <4>. QED
          BY <2>1, <3>1, <4>1, <4>2 DEF RowOK
      <3>9. ASSUME NEW f \in Facts PROVE LeftOK(f)'
        <4>1. f \in Elements(list) => f \in ListsRead \/ f \in Applying
          BY <2>5, <3>2, <3>4
        <4>. QED
          BY <1>0, <2>1, <2>4, <3>1, <4>1 DEF LeftOK
      <3>10. \A f \in Facts : ProjectSettled(f)' => ProjectSettled(f)
               \/ \A d \in ProfileCalls : d # c => ~Lists(profileCalls[d])
        <4>. SUFFICES ASSUME NEW f \in Facts, ProjectSettled(f)', ~ProjectSettled(f),
                             NEW d \in ProfileCalls, d # c, Lists(profileCalls[d])
                      PROVE  FALSE
          OBVIOUS
        <4>1. f = call.fact /\ f \notin racedFacts
          BY <2>1, <3>5 DEF ProjectSettled
        <4>2. RaceOK(profileCalls[c], profileCalls[d])
          BY DEF ProfileInv
        <4>. QED
          BY <2>1, <2>6, <4>1, <4>2 DEF RaceOK, Lists
      <3>. QED
        BY <1>0, <1>n, <2>1, <2>3, <3>1, <3>2, <3>7, <3>8, <3>9, <3>10, CallMoved
    <2>7. CASE call.kind = "goal"
      <3>1. projects' = projects /\ goal' = {call.fact}
        BY <1>8, <2>7 DEF UpdateProfile
      <3>2. ASSUME NEW f \in Facts, ProjectSettled(f)' PROVE ProjectSettled(f)
        <4>1. FactStored(f) /\ facts[f].kind = "project"
          BY <2>1, <3>2 DEF ProjectSettled, FactStored
        <4>2. f # call.fact
          BY <2>2, <2>7, <4>1 DEF FactIs
        <4>. QED
          BY <2>1, <2>4, <3>2, <4>2 DEF ProjectSettled
      <3>3. ASSUME NEW f \in Facts PROVE FactOK(f)'
        <4>1. f \in goal' => FactIs(f, "goal")
          BY <2>2, <2>7, <3>1
        <4>. QED
          BY <1>0, <2>1, <3>1, <4>1 DEF FactOK, FactIs, FactStored
      <3>4. ASSUME NEW f \in Facts PROVE RowOK(f)'
        BY <1>0, <2>1, <3>1, <3>2 DEF RowOK
      <3>5. ASSUME NEW f \in Facts PROVE LeftOK(f)'
        BY <1>0, <2>1, <2>4, <2>5, <3>1 DEF LeftOK
      <3>. QED
        BY <1>0, <1>n, <2>1, <2>2, <2>3, <3>1, <3>2, <3>3, <3>4, <3>5, CallMoved
    <2>. QED
      BY <2>2, <2>6, <2>7
  <1>9. CASE DiscardTold
    <2>1. /\ told = "active" /\ told' = "discarded" /\ facts' = FactsDeleted /\ ~TextHandled
          /\ leftover' = Listed \cup Applying \cup ListsRead
          /\ UNCHANGED <<projects, goal, profileCalls, confirmedOnce, racedFacts, profileCut>>
      BY <1>9 DEF DiscardTold
    <2>2. /\ facts' \in [Facts -> {NoFact, DeletedFact} \cup FactRows]
          /\ \A f \in Facts : ~FactStored(f)' /\ (facts[f] # NoFact => facts'[f] # NoFact)
          /\ \A f \in Facts : facts'[f].status # "confirmed"
      BY <1>0, <2>1 DEF FactsDeleted, FactStored, NoFact, DeletedFact
    <2>3. \A f \in Facts : (f \in Applying' <=> f \in Applying) /\ (f \in ListsRead' <=> f \in ListsRead)
      BY <2>1 DEF Applying, ListsRead, Listing, ProfileAt
    <2>4. ASSUME NEW f \in Facts PROVE FactOK(f)' /\ RowOK(f)' /\ LeftOK(f)'
      <3>1. FactOK(f)'
        BY <1>0, <2>1, <2>2 DEF FactOK, FactIs
      <3>2. RowOK(f)'
        BY <2>2 DEF RowOK, ProjectSettled
      <3>3. LeftOK(f)'
        BY <2>1, <2>3 DEF LeftOK, Listed
      <3>. QED
        BY <3>1, <3>2, <3>3
    <2>5. \A f \in Facts : ~ProjectSettled(f)'
      BY <2>2 DEF ProjectSettled
    <2>6. FactsGrow
      BY <1>0, <2>1, <2>2 DEF FactsGrow
    <2>. QED
      BY <1>0, <2>1, <2>4, <2>5, <2>6, FactsKept
  <1>10. ASSUME NEW c \in ProfileCalls, DeleteFacts(c)
        PROVE  ProfileShape' /\ ProfileInv'
    <2>1. /\ facts' = FactsDeleted /\ profileCalls[c].pc = "delete"
          /\ profileCalls' = [profileCalls EXCEPT ![c] = NoProfileCall]
          /\ UNCHANGED <<projects, goal, told, confirmedOnce, racedFacts, profileCut, leftover>>
      BY <1>10 DEF DeleteFacts, ProfileAt, ProfileDone, ProfileSet, profileHistory
    <2>2. /\ facts' \in [Facts -> {NoFact, DeletedFact} \cup FactRows]
          /\ \A f \in Facts : ~FactStored(f)' /\ (facts[f] # NoFact => facts'[f] # NoFact)
          /\ \A f \in Facts : facts'[f].status # "confirmed"
      BY <1>0, <2>1 DEF FactsDeleted, FactStored, NoFact, DeletedFact
    <2>3. told = "interrupted"
      BY <1>0, <2>1 DEF ApplyOK
    <2>4. ASSUME NEW f \in Facts PROVE FactOK(f)' /\ RowOK(f)' /\ LeftOK(f)'
      <3>1. FactOK(f)'
        BY <1>0, <2>1, <2>2 DEF FactOK, FactIs
      <3>2. RowOK(f)'
        BY <2>2 DEF RowOK, ProjectSettled
      <3>3. LeftOK(f)'
        BY <2>1, <2>3 DEF LeftOK
      <3>. QED
        BY <3>1, <3>2, <3>3
    <2>5. \A f \in Facts : ~ProjectSettled(f)'
      BY <2>2 DEF ProjectSettled
    <2>6. FactsGrow
      BY <1>0, <2>1, <2>2 DEF FactsGrow
    <2>. QED
      BY <1>0, <1>n, <2>1, <2>4, <2>5, <2>6, CallMoved
  <1>11. ASSUME NEW c \in ProfileCalls, ProfileFails(c)
        PROVE  ProfileShape' /\ ProfileInv'
    <2>1. /\ profileCalls' = [profileCalls EXCEPT ![c] = NoProfileCall]
          /\ UNCHANGED <<facts, projects, goal, told, confirmedOnce, racedFacts, leftover>>
          /\ profileCut \subseteq profileCut'
          /\ profileCalls[c].pc \in {"profile", "update"} => profileCalls[c].fact \in profileCut'
      BY <1>11 DEF ProfileFails, ProfileDone, ProfileSet, profileRows
    <2>2. \A f \in Facts : Applies(profileCalls[c], f) => f \in profileCut'
      BY <2>1 DEF Applies
    <2>. QED
      BY <1>b, <2>1, <2>2
  <1>12. CASE UNCHANGED profileVars
    <2>1. UNCHANGED <<facts, projects, goal, told, profileCalls, confirmedOnce, racedFacts, profileCut, leftover>>
      BY <1>12 DEF profileVars, profileRows, profileHistory
    <2>2. FactsGrow
      BY <1>0, <2>1 DEF FactsGrow, FactStored
    <2>3. \A f \in Facts : (f \in Applying' <=> f \in Applying) /\ (f \in ListsRead' <=> f \in ListsRead)
      BY <2>1 DEF Applying, ListsRead, Listing, ProfileAt
    <2>4. \A f \in Facts : ProjectSettled(f)' <=> ProjectSettled(f)
      BY <2>1, <2>3 DEF ProjectSettled
    <2>5. ASSUME NEW f \in Facts PROVE FactOK(f)' /\ RowOK(f)' /\ LeftOK(f)'
      <3>1. FactOK(f)'
        BY <1>0, <2>1 DEF FactOK, FactIs, FactStored
      <3>2. RowOK(f)'
        BY <1>0, <2>1, <2>3, <2>4 DEF RowOK
      <3>3. LeftOK(f)'
        BY <1>0, <2>1, <2>3 DEF LeftOK
      <3>. QED
        BY <3>1, <3>2, <3>3
    <2>. QED
      BY <1>0, <2>1, <2>2, <2>4, <2>5, FactsKept
  <1>13. CASE ProfileNext
    <2>1. CASE \E c \in ProfileCalls, f \in Facts, draft \in FactDrafts : InsertFact(c, f, draft)
      BY <1>4, <2>1
    <2>2. CASE \E c \in ProfileCalls, source \in FactSources : StartText(c, source)
      BY <1>2, <2>2
    <2>3. CASE \E c \in ProfileCalls : SaveTold(c) \/ ReadProfile(c) \/ UpdateProfile(c)
      BY <1>1, <1>7, <1>8, <2>3
    <2>4. CASE \E c \in ProfileCalls : InterruptTold(c) \/ DeleteFacts(c) \/ ProfileFails(c)
      BY <1>3, <1>10, <1>11, <2>4
    <2>5. CASE \E c \in ProfileCalls, f \in Facts : ConfirmFact(c, f)
      BY <1>5, <2>5
    <2>6. CASE (\E f \in Facts : RejectFact(f)) \/ DiscardTold
      BY <1>6, <1>9, <2>6
    <2>. QED
      BY <1>13, <2>1, <2>2, <2>3, <2>4, <2>5, <2>6 DEF ProfileNext
  <1>. QED
    BY <1>12, <1>13

LEMMA ProfileBegins == ProfileInit => ProfileShape /\ ProfileInv
  <1>. SUFFICES ASSUME ProfileInit PROVE ProfileShape /\ ProfileInv
    OBVIOUS
  <1>1. /\ <<"earlier">> \in ProjectLists
        /\ \A f \in Facts : f \notin Elements(<<"earlier">>)
    BY ProjectAssumption DEF ProjectLists, Elements
  <1>2. \A c \in ProfileCalls : profileCalls[c] = NoProfileCall /\ profileCalls[c].pc = "none"
    BY DEF ProfileInit, NoProfileCall
  <1>3. ProfileShape
    BY <1>1 DEF ProfileInit, ProfileShape, ProfileCallTypes
  <1>4. \A f \in Facts : FactOK(f) /\ RowOK(f) /\ LeftOK(f)
    BY <1>1 DEF ProfileInit, FactOK, RowOK, LeftOK, FactStored, NoFact, ProjectSettled
  <1>5. \A c \in ProfileCalls : ApplyOK(profileCalls[c])
    BY <1>2 DEF ApplyOK, Lists
  <1>6. \A c, d \in ProfileCalls : c # d => RaceOK(profileCalls[c], profileCalls[d])
    BY <1>2 DEF RaceOK, Lists
  <1>. QED
    BY <1>3, <1>4, <1>5, <1>6 DEF ProfileInv

LEMMA ProfileCorrect == ProfileSpec => []ProfileFollowsFacts
  <1>1. ProfileShape /\ ProfileInv => ProfileFollowsFacts
    <2>. SUFFICES ASSUME ProfileShape, ProfileInv PROVE ProfileFollowsFacts
      OBVIOUS
    <2>1. \A f \in Facts : FactOK(f) /\ RowOK(f) /\ LeftOK(f)
      BY DEF ProfileInv
    <2>2. ASSUME NEW f \in Listed
          PROVE  /\ f \in Facts /\ f \in confirmedOnce
                 /\ FactStored(f) => facts[f].kind = IF f \in goal THEN "goal" ELSE "project"
      <3>1. f \in Facts /\ (f \in Elements(projects) \/ f \in goal)
        BY DEF Listed, ProfileShape
      <3>. QED
        BY <2>1, <3>1 DEF FactOK, FactIs
    <2>3. ASSUME NEW f \in Facts \ (Applying \cup profileCut), facts[f].status = "confirmed"
          PROVE  /\ facts[f].kind = "project" =>
                      \/ f \in Listed \cup racedFacts
                      \/ Len(projects) = ProjectLimit /\ "earlier" \notin Elements(projects)
                 /\ facts[f].kind = "goal" => goal # {}
      BY <2>1, <2>3 DEF RowOK, ProjectSettled, Listed
    <2>4. ProfileListsConfirmed
      BY <2>2, <2>3 DEF ProfileListsConfirmed
    <2>5. DiscardForgetsFacts
      BY <2>1, <2>2 DEF DiscardForgetsFacts, FactOK, LeftOK, Listed
    <2>. QED
      BY <2>4, <2>5 DEF ProfileFollowsFacts
  <1>. QED
    BY <1>1, ProfileBegins, ProfileStep, PTL DEF ProfileSpec

\* The rest of the type of the profile: how the session ended, and that what raced,
\* was cut short or was left over is a fact.
ProfileMore ==
    /\ told \in {"active", "saved", "discarded", "interrupted"}
    /\ racedFacts \subseteq Facts /\ profileCut \subseteq Facts /\ leftover \subseteq Facts

LEMMA ProfileTyped == ProfileSpec => []ProfileTypeOK
  <1>1. ProfileInit => ProfileShape /\ ProfileInv /\ ProfileMore
    BY ProfileBegins DEF ProfileInit, ProfileMore
  <1>2. ProfileShape /\ ProfileMore /\ [ProfileNext]_profileVars => ProfileMore'
    <2>. SUFFICES ASSUME ProfileShape, ProfileMore, [ProfileNext]_profileVars PROVE ProfileMore'
      OBVIOUS
    <2>0. \A c \in ProfileCalls : profileCalls[c].pc \in {"profile", "update"} => profileCalls[c].fact \in Facts
      BY DEF ProfileShape, ProfileCallTypes, NoProfileCall, TextCalls, ApplyCalls, UpdateCalls, DeleteCalls
    <2>1. ASSUME NEW c \in ProfileCalls, SaveTold(c) \/ \E source \in FactSources : StartText(c, source)
          PROVE  ProfileMore'
      BY <2>1 DEF SaveTold, StartText, ProfileMore, profileRows, profileHistory
    <2>2. ASSUME NEW c \in ProfileCalls, ReadProfile(c) PROVE ProfileMore'
      <3>1. profileCalls[c].fact \in Facts /\ \A d \in Listing : profileCalls[d].fact \in Facts
        BY <2>0, <2>2 DEF ReadProfile, ProfileAt, Listing
      <3>2. racedFacts' \subseteq Facts
        BY <2>2, <3>1 DEF ReadProfile, ProfileMore
      <3>. QED
        BY <2>2, <3>2 DEF ReadProfile, ProfileMore, profileRows
    <2>3. ASSUME NEW c \in ProfileCalls, ProfileFails(c) PROVE ProfileMore'
      BY <2>0, <2>3 DEF ProfileFails, ProfileMore, profileRows
    <2>4. ASSUME NEW c \in ProfileCalls,
                 \/ \E f \in Facts, draft \in FactDrafts : InsertFact(c, f, draft)
                 \/ UpdateProfile(c) \/ InterruptTold(c) \/ DeleteFacts(c)
                 \/ \E f \in Facts : ConfirmFact(c, f)
          PROVE  ProfileMore'
      BY <2>4 DEF InsertFact, UpdateProfile, InterruptTold, DeleteFacts, ConfirmFact, ProfileMore,
         profileHistory
    <2>5. CASE (\E f \in Facts : RejectFact(f)) \/ UNCHANGED profileVars
      BY <2>5 DEF RejectFact, profileVars, profileRows, profileHistory, ProfileMore
    <2>6. CASE DiscardTold
      <3>1. Listed \cup Applying \cup ListsRead \subseteq Facts
        BY DEF Listed, Applying, ListsRead, ProfileShape
      <3>. QED
        BY <2>6, <3>1 DEF DiscardTold, ProfileMore
    <2>. QED
      BY <2>1, <2>2, <2>3, <2>4, <2>5, <2>6 DEF ProfileNext
  <1>3. ProfileShape /\ ProfileMore => ProfileTypeOK
    BY DEF ProfileShape, ProjectLists, ProfileMore, ProfileTypeOK, ProfileCallTypes, NoProfileCall,
           TextCalls, ApplyCalls, UpdateCalls, DeleteCalls
  <1>. QED
    BY <1>1, <1>2, <1>3, ProfileStep, PTL DEF ProfileSpec

-----------------------------------------------------------------------------
(* Rooms and skills. *)

\* Who lacks consent is known to be too late for each call that has made its check.
RoomInv ==
    /\ RoomTypeOK /\ overheard = {}
    /\ \A c \in RoomCalls : RoomAt(c, "segment") => Lacking \subseteq roomCalls[c].late

LEMMA RoomCorrect == RoomSpec => []RoomInv
  <1>1. RoomInit => RoomInv
    BY DEF RoomInit, RoomInv, RoomTypeOK, NoRoomCall, Consents, Participants, RoomAt
  <1>2. RoomInv /\ [RoomNext]_roomVars => RoomInv'
    <2>. SUFFICES ASSUME RoomInv, [RoomNext]_roomVars PROVE RoomInv'
      OBVIOUS
    <2>. DEFINE HostCalls == [pc : {"host"}]
                CheckCalls == [pc : {"participants"}]
                SegmentCalls == [pc : {"segment"}, late : SUBSET Participants]
                JoinCalls == [pc : {"join"}, guest : Guests]
                Calls == {NoRoomCall} \cup HostCalls \cup CheckCalls \cup SegmentCalls \cup JoinCalls
    <2>0. /\ consent \in [Participants -> Consents] /\ roomCalls \in [RoomCalls -> Calls]
          /\ roomStatus \in {"none", "draft", "ended"} /\ joined \subseteq Guests
          /\ overheard = {} /\ "host" \in Participants /\ Guests \subseteq Participants
          /\ \A c \in RoomCalls : roomCalls[c].pc = "segment" => Lacking \subseteq roomCalls[c].late
      BY DEF RoomInv, RoomTypeOK, RoomAt, Participants
    <2>n. NoRoomCall \in Calls /\ NoRoomCall.pc = "none"
      BY DEF NoRoomCall
    <2>s. \A c \in RoomCalls : roomCalls[c].pc = "segment" => roomCalls[c] \in SegmentCalls
      BY <2>0 DEF NoRoomCall
    \* A call starts, goes on or ends, and everything else stays as it is.
    <2>a. ASSUME NEW c \in RoomCalls, NEW call \in Calls, roomCalls' = [roomCalls EXCEPT ![c] = call],
                 UNCHANGED consent, roomStatus' \in {"none", "draft", "ended"},
                 joined' \subseteq Guests, overheard' = {},
                 call.pc = "segment" => Lacking \subseteq call.late
          PROVE  RoomInv'
      <3>1. Lacking' = Lacking
        BY <2>a DEF Lacking, Present
      <3>2. roomCalls' \in [RoomCalls -> Calls]
        BY <2>0, <2>a
      <3>3. \A d \in RoomCalls : roomCalls'[d].pc = "segment" => Lacking \subseteq roomCalls'[d].late
        BY <2>0, <2>a
      <3>. QED
        BY <2>0, <2>a, <3>1, <3>2, <3>3 DEF RoomInv, RoomTypeOK, RoomAt
    \* A guest is invited, or denies consent, behind the calls that have made their check.
    <2>b. ASSUME NEW g \in Guests, NEW answer \in {"pending", "denied"}, TooLate(g),
                 consent' = [consent EXCEPT ![g] = answer], UNCHANGED <<roomStatus, joined, overheard>>
          PROVE  RoomInv'
      <3>1. consent' \in [Participants -> Consents] /\ Lacking' \subseteq Lacking \cup {g}
        BY <2>0, <2>b DEF Consents, Lacking, Present
      <3>2. ASSUME NEW c \in RoomCalls
            PROVE  /\ roomCalls'[c] \in Calls
                   /\ roomCalls'[c].pc = "segment" => Lacking' \subseteq roomCalls'[c].late
        <4>. SUFFICES ASSUME NEW CONSTANT call, call = roomCalls[c], NEW CONSTANT new, new = roomCalls'[c]
                      PROVE  new \in Calls /\ (new.pc = "segment" => Lacking' \subseteq new.late)
          OBVIOUS
        <4>1. CASE call.pc = "segment"
          <5>1. call \in SegmentCalls /\ Lacking \subseteq call.late
            BY <2>0, <2>s, <4>1
          <5>2. new = [call EXCEPT !.late = @ \cup {g}]
            BY <2>b, <4>1 DEF TooLate
          <5>3. new \in SegmentCalls /\ new.late = call.late \cup {g}
            BY <2>0, <5>1, <5>2
          <5>. HIDE DEF SegmentCalls
          <5>. QED
            BY <3>1, <5>1, <5>3
        <4>2. CASE call.pc # "segment"
          <5>1. new = call
            BY <2>b, <4>2 DEF TooLate
          <5>. QED
            BY <2>0, <4>2, <5>1
        <4>. QED
          BY <4>1, <4>2
      <3>3. roomCalls' \in [RoomCalls -> Calls]
        BY <2>b, <3>2 DEF TooLate
      <3>. QED
        BY <2>0, <2>b, <3>1, <3>2, <3>3 DEF RoomInv, RoomTypeOK, RoomAt
    <2>1. CASE EndRoom
      BY <2>0, <2>1 DEF EndRoom, RoomInv, RoomTypeOK, RoomAt, Lacking, Present
    <2>2. ASSUME NEW g \in Guests, CreateGuestLink(g)
          PROVE  RoomInv'
      BY <2>2, <2>b DEF CreateGuestLink
    <2>3. ASSUME NEW g \in Guests, NEW a \in {"granted", "denied"}, SetConsent(g, a)
          PROVE  RoomInv'
      <3>1. CASE a = "denied"
        BY <2>3, <2>b, <3>1 DEF SetConsent
      <3>2. CASE a = "granted"
        <4>1. consent' = [consent EXCEPT ![g] = "granted"] /\ UNCHANGED <<roomStatus, joined, overheard, roomCalls>>
          BY <2>3, <3>2 DEF SetConsent
        <4>2. consent' \in [Participants -> Consents] /\ Lacking' \subseteq Lacking
          BY <2>0, <4>1 DEF Consents, Lacking, Present
        <4>. QED
          BY <2>0, <4>1, <4>2 DEF RoomInv, RoomTypeOK, RoomAt
      <3>. QED
        BY <3>1, <3>2
    <2>4. ASSUME NEW c \in RoomCalls, CreateRoom(c)
          PROVE  RoomInv'
      <3>1. [pc |-> "host"] \in Calls
        OBVIOUS
      <3>. HIDE DEF Calls
      <3>. QED
        BY <2>0, <2>4, <2>a, <3>1 DEF CreateRoom, StartRoomCall
    <2>5. ASSUME NEW c \in RoomCalls, InsertHost(c)
          PROVE  RoomInv'
      <3>1. /\ consent' = [consent EXCEPT !["host"] = "granted"]
            /\ UNCHANGED <<roomStatus, joined, overheard>>
            /\ roomCalls' = [roomCalls EXCEPT ![c] = NoRoomCall]
        BY <2>5 DEF InsertHost, EndRoomCall
      <3>2. consent' \in [Participants -> Consents] /\ Lacking' \subseteq Lacking
        BY <2>0, <3>1 DEF Consents, Lacking, Present
      <3>4. \A d \in RoomCalls : roomCalls'[d] = NoRoomCall \/ roomCalls'[d] = roomCalls[d]
        BY <2>0, <3>1
      <3>5. roomCalls' \in [RoomCalls -> Calls]
        BY <2>0, <2>n, <3>1
      <3>. QED
        BY <2>0, <2>n, <3>1, <3>2, <3>4, <3>5 DEF RoomInv, RoomTypeOK, RoomAt
    <2>6. ASSUME NEW c \in RoomCalls, NEW g \in Guests, StartJoin(c, g)
          PROVE  RoomInv'
      <3>1. [pc |-> "join", guest |-> g] \in Calls
        OBVIOUS
      <3>. HIDE DEF Calls
      <3>. QED
        BY <2>0, <2>6, <2>a, <3>1 DEF StartJoin, StartRoomCall
    <2>7. ASSUME NEW c \in RoomCalls, Join(c)
          PROVE  RoomInv'
      <3>1. roomCalls[c].guest \in Guests
        BY <2>0, <2>7 DEF Join, RoomAt, NoRoomCall
      <3>. HIDE DEF Calls
      <3>. QED
        BY <2>0, <2>7, <2>a, <2>n, <3>1 DEF Join, EndRoomCall
    <2>8. ASSUME NEW c \in RoomCalls, StartSegment(c)
          PROVE  RoomInv'
      <3>1. [pc |-> "participants"] \in Calls
        OBVIOUS
      <3>. HIDE DEF Calls
      <3>. QED
        BY <2>0, <2>8, <2>a, <3>1 DEF StartSegment, StartRoomCall
    <2>9. ASSUME NEW c \in RoomCalls, CheckConsent(c)
          PROVE  RoomInv'
      <3>2. UNCHANGED <<roomStatus, consent, joined, overheard>>
        BY <2>9 DEF CheckConsent
      <3>3. CASE CanTranscript
        <4>1. Lacking = {}
          BY <3>3 DEF CanTranscript, Lacking
        <4>. DEFINE new == [pc |-> "segment", late |-> {}]
        <4>2. new \in Calls /\ Lacking \subseteq new.late
          BY <4>1
        <4>3. roomCalls' = [roomCalls EXCEPT ![c] = new]
          BY <2>9, <3>3 DEF CheckConsent
        <4>. HIDE DEF Calls, new
        <4>. QED
          BY <2>0, <2>a, <3>2, <4>2, <4>3
      <3>4. CASE ~CanTranscript
        <4>1. roomCalls' = [roomCalls EXCEPT ![c] = NoRoomCall]
          BY <2>9, <3>4 DEF CheckConsent
        <4>. HIDE DEF Calls
        <4>. QED
          BY <2>0, <2>a, <2>n, <3>2, <4>1
      <3>. QED
        BY <3>3, <3>4
    <2>10. ASSUME NEW c \in RoomCalls, InsertSegment(c)
          PROVE  RoomInv'
      <3>1. overheard' = {}
        BY <2>0, <2>10 DEF InsertSegment, RoomAt
      <3>. HIDE DEF Calls
      <3>. QED
        BY <2>0, <2>10, <2>a, <2>n, <3>1 DEF InsertSegment, EndRoomCall
    <2>11. ASSUME NEW c \in RoomCalls, RoomCallFails(c)
          PROVE  RoomInv'
      <3>. HIDE DEF Calls
      <3>. QED
        BY <2>0, <2>11, <2>a, <2>n DEF RoomCallFails, EndRoomCall
    <2>12. CASE UNCHANGED roomVars
      BY <2>0, <2>12 DEF roomVars, RoomInv, RoomTypeOK, RoomAt, Lacking, Present
    <2>. QED
      BY <2>1, <2>2, <2>3, <2>4, <2>5, <2>6, <2>7, <2>8, <2>9, <2>10, <2>11, <2>12 DEF RoomNext
  <1>. QED
    BY <1>1, <1>2, PTL DEF RoomSpec

DraftedSkills == [pc : {"draft"}]
ImportedFacts == [pc : {"facts"}, fact : PrivateFacts]
ImportedSkills == [pc : {"skills"}, status : {"enabled", "proposed", "dangerous"}]
EnabledSkills == [pc : {"enable"}, skill : Nat]
SupportCalls == [pc : {"support"}, optedIn : BOOLEAN]
ToldCalls == [pc : {"told"}, optedIn : BOOLEAN]

SkillCallTypes == {NoSkillCall} \cup DraftedSkills \cup ImportedFacts \cup ImportedSkills
                  \cup EnabledSkills \cup SupportCalls \cup ToldCalls

\* A call enables a skill that was approved, and keeps what was agreed to.
SkillCallOK(call) ==
    /\ call.pc = "enable" => call.skill \in approvedSkills
    /\ call.pc = "facts" => call.fact \in agreed
    /\ call.pc = "support" /\ call.optedIn => "support" \in agreed
    /\ call.pc = "told" /\ call.optedIn => "told" \in agreed

StressOK ==
    /\ stressFacts \subseteq {"proposed", "confirmed"}
    /\ "confirmed" \in stressFacts => "told" \in agreed

SkillsInv ==
    /\ skills \in Seq(SkillStatus) /\ approvedSkills \subseteq SkillIds
    /\ \A i \in SkillIds : skills[i] \in {"approved", "enabled"} => i \in approvedSkills
    /\ kept \subseteq agreed /\ StressOK /\ stressOptIn \in BOOLEAN
    /\ stressOptIn => {"stress", "support", "told"} \subseteq agreed
    /\ skillCalls \in [SkillCalls -> SkillCallTypes]
    /\ \A c \in SkillCalls : SkillCallOK(skillCalls[c])

LEMMA SkillsCorrect == SkillsInit /\ [][SkillsNext]_skillVars => []SkillsInv
  <1>1. SkillsInit => SkillsInv
    <2>. SUFFICES ASSUME SkillsInit PROVE SkillsInv
      OBVIOUS
    <2>1. /\ skills \in Seq(SkillStatus) /\ SkillIds = {}
          /\ approvedSkills = {} /\ kept = {} /\ agreed = {} /\ StressOK
      BY EmptySeq DEF SkillsInit, SkillIds, StressOK
    <2>2. stressOptIn \in BOOLEAN /\ ~stressOptIn
      BY Zenon DEF SkillsInit
    <2>3. /\ skillCalls \in [SkillCalls -> SkillCallTypes]
          /\ \A c \in SkillCalls : SkillCallOK(skillCalls[c])
      BY DEF SkillsInit, SkillCallOK, SkillCallTypes, NoSkillCall
    <2>. QED
      BY <2>1, <2>2, <2>3 DEF SkillsInv
  <1>2. SkillsInv /\ [SkillsNext]_skillVars => SkillsInv'
    <2>. SUFFICES ASSUME SkillsInv, [SkillsNext]_skillVars PROVE SkillsInv'
      OBVIOUS
    <2>0. /\ skills \in Seq(SkillStatus) /\ approvedSkills \subseteq 1..Len(skills)
          /\ SkillIds = 1..Len(skills)
          /\ \A i \in 1..Len(skills) : skills[i] \in {"approved", "enabled"} => i \in approvedSkills
          /\ kept \subseteq agreed /\ StressOK /\ stressOptIn \in BOOLEAN
          /\ stressOptIn => {"stress", "support", "told"} \subseteq agreed
          /\ skillCalls \in [SkillCalls -> SkillCallTypes]
          /\ \A c \in SkillCalls : SkillCallOK(skillCalls[c])
      BY LenProperties DEF SkillsInv, SkillIds
    <2>n. NoSkillCall \in SkillCallTypes /\ SkillCallOK(NoSkillCall)'
      BY DEF SkillCallTypes, SkillCallOK, NoSkillCall
    <2>t. \A c \in SkillCalls :
            /\ skillCalls[c].pc = "enable" => skillCalls[c] \in EnabledSkills
            /\ skillCalls[c].pc = "facts" => skillCalls[c] \in ImportedFacts
            /\ skillCalls[c].pc = "skills" => skillCalls[c] \in ImportedSkills
            /\ skillCalls[c].pc = "support" => skillCalls[c] \in SupportCalls
      BY <2>0 DEF SkillCallTypes, NoSkillCall, DraftedSkills, ImportedFacts, ImportedSkills,
                  EnabledSkills, SupportCalls, ToldCalls
    \* A step of one call, or of none, on a store that only grows.
    <2>a. ASSUME skillCalls' \in [SkillCalls -> SkillCallTypes],
                 \A d \in SkillCalls : skillCalls'[d] = skillCalls[d] \/ SkillCallOK(skillCalls[d])',
                 skills' \in Seq(SkillStatus), approvedSkills \subseteq approvedSkills',
                 approvedSkills' \subseteq 1..Len(skills'),
                 \A i \in 1..Len(skills') : skills'[i] \in {"approved", "enabled"} => i \in approvedSkills',
                 agreed \subseteq agreed', kept' \subseteq agreed', StressOK', stressOptIn' \in BOOLEAN,
                 stressOptIn' => {"stress", "support", "told"} \subseteq agreed'
          PROVE  SkillsInv'
      <3>1. \A d \in SkillCalls : SkillCallOK(skillCalls[d])'
        <4>. SUFFICES ASSUME NEW d \in SkillCalls, SkillCallOK(skillCalls[d]), skillCalls'[d] = skillCalls[d]
                      PROVE  SkillCallOK(skillCalls[d])'
          BY <2>0, <2>a
        <4>. QED
          BY <2>a DEF SkillCallOK
      <3>. QED
        BY <2>a, <3>1, LenProperties DEF SkillsInv, SkillIds
    \* A call begins, or ends, and nothing is stored.
    <2>b. ASSUME NEW c \in SkillCalls, NEW call \in SkillCallTypes, SkillSet(c, call), SkillCallOK(call)',
                 UNCHANGED <<skills, kept, stressFacts, stressOptIn, approvedSkills>>, agreed \subseteq agreed'
          PROVE  SkillsInv'
      <3>1. skillCalls' \in [SkillCalls -> SkillCallTypes]
        BY <2>0, <2>b DEF SkillSet
      <3>2. \A d \in SkillCalls : skillCalls'[d] = skillCalls[d] \/ skillCalls'[d] = call
        BY <2>0, <2>b DEF SkillSet
      <3>3. StressOK'
        BY <2>0, <2>b DEF StressOK
      <3>. QED
        BY <2>0, <2>a, <2>b, <3>1, <3>2, <3>3
    \* A call ends with what it stores.
    <2>c. ASSUME NEW c \in SkillCalls, SkillDone(c), skills' \in Seq(SkillStatus),
                 Len(skills) <= Len(skills'),
                 \A i \in 1..Len(skills') : skills'[i] \in {"approved", "enabled"} => i \in approvedSkills,
                 kept' \subseteq agreed, StressOK', UNCHANGED <<stressOptIn, approvedSkills, agreed>>
          PROVE  SkillsInv'
      <3>1. skillCalls' \in [SkillCalls -> SkillCallTypes]
        BY <2>0, <2>n, <2>c DEF SkillDone, SkillSet
      <3>2. \A d \in SkillCalls : skillCalls'[d] = skillCalls[d] \/ skillCalls'[d] = NoSkillCall
        BY <2>0, <2>c DEF SkillDone, SkillSet
      <3>3. approvedSkills \subseteq 1..Len(skills')
        BY <2>0, <2>c, LenProperties
      <3>. QED
        BY <2>0, <2>a, <2>c, <2>n, <3>1, <3>2, <3>3
    <2>e. UNCHANGED <<stressFacts, agreed>> => StressOK'
      BY <2>0 DEF StressOK
    \* A proposed skill is appended.
    <2>d. ASSUME skills' = Append(skills, "proposed")
          PROVE  /\ skills' \in Seq(SkillStatus) /\ Len(skills) <= Len(skills')
                 /\ \A i \in 1..Len(skills') : skills'[i] \in {"approved", "enabled"} => i \in approvedSkills
      BY <2>0, <2>d, AppendProperties, LenProperties DEF SkillStatus
    <2>1. ASSUME NEW c \in SkillCalls, DraftSkill(c)
          PROVE  SkillsInv'
      <3>1. [pc |-> "draft"] \in SkillCallTypes /\ SkillCallOK([pc |-> "draft"])'
        BY DEF SkillCallTypes, DraftedSkills, SkillCallOK
      <3>. QED
        BY <2>1, <2>b, <3>1 DEF DraftSkill, SkillStart
    <2>2. ASSUME NEW c \in SkillCalls, InsertLearned(c)
          PROVE  SkillsInv'
      BY <2>0, <2>2, <2>c, <2>d, <2>e DEF InsertLearned
    <2>3. ASSUME NEW c \in SkillCalls, NEW item \in Portable, NEW allow \in BOOLEAN, StartImport(c, item, allow)
          PROVE  SkillsInv'
      <3>1. CASE item \in [skill : {"enabled", "proposed", "dangerous"}]
        <4>. DEFINE new == [pc |-> "skills", status |-> item.skill]
        <4>1. new \in SkillCallTypes /\ SkillCallOK(new)'
          BY <3>1 DEF SkillCallTypes, ImportedSkills, SkillCallOK
        <4>2. SkillSet(c, new) /\ UNCHANGED <<skills, kept, stressFacts, stressOptIn, approvedSkills, agreed>>
          BY <2>3, <3>1 DEF StartImport, SkillStart
        <4>. HIDE DEF new
        <4>. QED
          BY <2>b, <4>1, <4>2
      <3>2. CASE item \in [fact : PrivateFacts]
        <4>. DEFINE new == [pc |-> "facts", fact |-> item.fact]
        <4>1. new \in SkillCallTypes
          BY <3>2 DEF SkillCallTypes, ImportedFacts
        <4>2. /\ SkillSet(c, new) /\ UNCHANGED <<skills, kept, stressFacts, stressOptIn, approvedSkills>>
              /\ ~(IF item.fact = "stress" THEN ~stressOptIn /\ ~allow ELSE ~allow)
              /\ agreed' = IF allow THEN agreed \cup {item.fact} ELSE agreed
          BY <2>3, <3>2 DEF StartImport, SkillStart
        <4>3. agreed \subseteq agreed' /\ item.fact \in agreed'
          BY <2>0, <3>2, <4>2
        <4>4. SkillCallOK(new)'
          BY <4>3 DEF SkillCallOK
        <4>. HIDE DEF new
        <4>. QED
          BY <2>b, <4>1, <4>2, <4>3, <4>4
      <3>. QED
        BY <3>1, <3>2 DEF Portable, Exported
    <2>4. ASSUME NEW c \in SkillCalls, ImportFacts(c)
          PROVE  SkillsInv'
      <3>1. skillCalls[c].fact \in agreed
        BY <2>0, <2>4 DEF ImportFacts, SkillAt, SkillCallOK
      <3>. QED
        BY <2>0, <2>4, <2>c, <2>e, <3>1, LenProperties DEF ImportFacts
    <2>5. ASSUME NEW c \in SkillCalls, ImportSkills(c)
          PROVE  SkillsInv'
      BY <2>0, <2>5, <2>c, <2>d, <2>e, LenProperties DEF ImportSkills
    <2>6. ASSUME NEW i \in SkillIds, ApproveSkillRow(i)
          PROVE  SkillsInv'
      <3>1. /\ skills' = [skills EXCEPT ![i] = "approved"] /\ i \in 1..Len(skills)
            /\ approvedSkills' = approvedSkills \cup {i} /\ UNCHANGED <<kept, stressFacts, stressOptIn, skillCalls, agreed>>
        BY <2>0, <2>6 DEF ApproveSkillRow
      <3>2. /\ skills' \in Seq(SkillStatus) /\ Len(skills') = Len(skills)
            /\ \A j \in 1..Len(skills) : j # i => skills'[j] = skills[j]
        BY <2>0, <3>1, ExceptSeq, LenProperties DEF SkillStatus
      <3>. QED
        BY <2>0, <2>a, <2>e, <3>1, <3>2
    <2>7. ASSUME NEW i \in SkillIds, DisableSkillRow(i)
          PROVE  SkillsInv'
      <3>1. /\ skills' = [skills EXCEPT ![i] = "disabled"] /\ i \in 1..Len(skills)
            /\ UNCHANGED <<kept, stressFacts, stressOptIn, skillCalls, approvedSkills, agreed>>
        BY <2>0, <2>7 DEF DisableSkillRow
      <3>2. /\ skills' \in Seq(SkillStatus) /\ Len(skills') = Len(skills) /\ skills'[i] = "disabled"
            /\ \A j \in 1..Len(skills) : j # i => skills'[j] = skills[j]
        BY <2>0, <3>1, ExceptSeq, LenProperties DEF SkillStatus
      <3>. QED
        BY <2>0, <2>a, <2>e, <3>1, <3>2
    <2>8. ASSUME NEW c \in SkillCalls, NEW i \in SkillIds, ReadSkillRow(c, i)
          PROVE  SkillsInv'
      <3>. DEFINE new == [pc |-> "enable", skill |-> i]
      <3>1. i \in Nat /\ i \in approvedSkills
        BY <2>0, <2>8 DEF ReadSkillRow
      <3>2. SkillSet(c, new) /\ UNCHANGED <<skills, kept, stressFacts, stressOptIn, approvedSkills, agreed>>
        BY <2>8 DEF ReadSkillRow, SkillStart
      <3>3. new \in SkillCallTypes /\ SkillCallOK(new)'
        BY <3>1, <3>2 DEF SkillCallTypes, EnabledSkills, SkillCallOK
      <3>. HIDE DEF new
      <3>. QED
        BY <2>b, <3>2, <3>3
    <2>9. ASSUME NEW c \in SkillCalls, EnableSkill(c)
          PROVE  SkillsInv'
      <3>. SUFFICES ASSUME NEW CONSTANT i, i = skillCalls[c].skill PROVE SkillsInv'
        OBVIOUS
      <3>1. /\ skills' = [skills EXCEPT ![i] = "enabled"] /\ SkillDone(c)
            /\ UNCHANGED <<kept, stressFacts, stressOptIn, approvedSkills, agreed>>
        BY <2>9 DEF EnableSkill
      <3>2. i \in approvedSkills /\ i \in 1..Len(skills)
        BY <2>0, <2>9 DEF EnableSkill, SkillAt, SkillCallOK
      <3>3. /\ skills' \in Seq(SkillStatus) /\ Len(skills') = Len(skills)
            /\ \A j \in 1..Len(skills) : j # i => skills'[j] = skills[j]
        BY <2>0, <3>1, <3>2, ExceptSeq, LenProperties DEF SkillStatus
      <3>. QED
        BY <2>0, <2>c, <2>e, <3>1, <3>2, <3>3, LenProperties
    <2>10. ASSUME NEW optIn \in BOOLEAN, SetStressSupport(optIn)
          PROVE  SkillsInv'
      <3>1. agreed \subseteq agreed' /\ (stressOptIn' => {"stress", "support", "told"} \subseteq agreed')
        BY <2>0, <2>10 DEF SetStressSupport
      <3>2. StressOK'
        BY <2>0, <2>10, <3>1 DEF SetStressSupport, StressOK
      <3>. QED
        BY <2>0, <2>10, <2>a, <3>1, <3>2 DEF SetStressSupport
    <2>11. ASSUME NEW c \in SkillCalls, ReadStressSupport(c)
          PROVE  SkillsInv'
      <3>. SUFFICES ASSUME NEW CONSTANT new, new = [pc |-> "support", optedIn |-> stressOptIn]
                    PROVE  SkillsInv'
        OBVIOUS
      <3>1. SkillSet(c, new) /\ UNCHANGED <<skills, kept, stressFacts, stressOptIn, approvedSkills, agreed>>
        BY <2>11 DEF ReadStressSupport, SkillStart
      <3>2. new \in SkillCallTypes /\ new.pc = "support"
        BY <2>0 DEF SkillCallTypes, SupportCalls
      <3>3. new.optedIn => stressOptIn
        OBVIOUS
      <3>4. agreed' = agreed
        BY <3>1
      <3>5. SkillCallOK(new)'
        <4>. SUFFICES ASSUME new.optedIn PROVE "support" \in agreed
          BY <3>2, <3>4 DEF SkillCallOK
        <4>. QED
          BY <2>0, <3>3
      <3>. QED
        BY <2>b, <3>1, <3>2, <3>4, <3>5
    <2>12. ASSUME NEW c \in SkillCalls, InsertStressEvent(c)
           PROVE  SkillsInv'
      <3>1. skillCalls[c].optedIn => "support" \in agreed
        BY <2>0, <2>12 DEF InsertStressEvent, SkillAt, SkillCallOK
      <3>2. kept' \subseteq agreed
        BY <2>0, <2>12, <3>1 DEF InsertStressEvent
      <3>. QED
        BY <2>0, <2>12, <2>c, <2>e, <3>2, LenProperties DEF InsertStressEvent
    <2>13. ASSUME NEW c \in SkillCalls, SkillCallFails(c)
           PROVE  SkillsInv'
      BY <2>0, <2>13, <2>c, <2>e, LenProperties DEF SkillCallFails
    <2>14. CASE UNCHANGED skillVars
      BY <2>0, <2>14, <2>a, <2>e DEF skillVars
    <2>15. ASSUME NEW c \in SkillCalls, ReadToldStress(c)
           PROVE  SkillsInv'
      <3>. SUFFICES ASSUME NEW CONSTANT new, new = [pc |-> "told", optedIn |-> stressOptIn]
                    PROVE  SkillsInv'
        OBVIOUS
      <3>1. SkillSet(c, new) /\ UNCHANGED <<skills, kept, stressFacts, stressOptIn, approvedSkills, agreed>>
        BY <2>15 DEF ReadToldStress, SkillStart
      <3>2. new \in SkillCallTypes /\ new.pc = "told"
        BY <2>0 DEF SkillCallTypes, ToldCalls
      <3>3. new.optedIn => stressOptIn
        OBVIOUS
      <3>4. agreed' = agreed
        BY <3>1
      <3>5. SkillCallOK(new)'
        <4>. SUFFICES ASSUME new.optedIn PROVE "told" \in agreed
          BY <3>2, <3>4 DEF SkillCallOK
        <4>. QED
          BY <2>0, <3>3
      <3>. QED
        BY <2>b, <3>1, <3>2, <3>4, <3>5
    <2>16. ASSUME NEW c \in SkillCalls, InsertToldStress(c)
           PROVE  SkillsInv'
      <3>1. /\ SkillDone(c) /\ UNCHANGED <<skills, kept, stressOptIn, approvedSkills, agreed>>
            /\ stressFacts' \subseteq stressFacts \cup {"proposed", "confirmed"}
            /\ ~skillCalls[c].optedIn => stressFacts' = stressFacts \cup {"proposed"}
        BY <2>16 DEF InsertToldStress
      <3>2. skillCalls[c].optedIn => "told" \in agreed
        BY <2>0, <2>16 DEF InsertToldStress, SkillAt, SkillCallOK
      <3>3. StressOK'
        BY <2>0, <3>1, <3>2 DEF StressOK
      <3>. QED
        BY <2>0, <2>c, <3>1, <3>3, LenProperties
    <2>17. ASSUME ConfirmToldStress
           PROVE  SkillsInv'
      <3>1. /\ stressFacts' = stressFacts \cup {"confirmed"} /\ agreed' = agreed \cup {"told"}
            /\ UNCHANGED <<skills, kept, stressOptIn, skillCalls, approvedSkills>>
        BY <2>17 DEF ConfirmToldStress
      <3>2. StressOK'
        BY <2>0, <3>1 DEF StressOK
      <3>. QED
        BY <2>0, <2>a, <3>1, <3>2
    <2>18. ASSUME NEW c \in SkillCalls,
                  \/ DraftSkill(c) \/ InsertLearned(c)
                  \/ \E item \in Portable, allow \in BOOLEAN : StartImport(c, item, allow)
                  \/ ImportFacts(c) \/ ImportSkills(c)
                  \/ \E i \in SkillIds : ReadSkillRow(c, i)
                  \/ EnableSkill(c) \/ ReadStressSupport(c) \/ InsertStressEvent(c)
                  \/ ReadToldStress(c) \/ InsertToldStress(c) \/ SkillCallFails(c)
           PROVE  SkillsInv'
      BY <2>18, <2>1, <2>2, <2>3, <2>4, <2>5, <2>8, <2>9, <2>11, <2>12, <2>13, <2>15, <2>16
    <2>. QED
      BY <2>6, <2>7, <2>10, <2>14, <2>17, <2>18 DEF SkillsNext
  <1>. QED
    BY <1>1, <1>2, PTL DEF skillVars

LEMMA SkillsTyped == SkillsInit /\ [][SkillsNext]_skillVars => []SkillsTypeOK
  <1>. DEFINE Agreed == agreed \subseteq PrivateFacts \cup {"support", "told"}
  <1>1. SkillsInit => Agreed
    BY DEF SkillsInit
  <1>2. Agreed /\ [SkillsNext]_skillVars => Agreed'
    <2>. SUFFICES ASSUME Agreed, [SkillsNext]_skillVars PROVE Agreed'
      OBVIOUS
    <2>1. ASSUME NEW c, NEW item \in Portable, NEW allow \in BOOLEAN, StartImport(c, item, allow)
          PROVE  Agreed'
      <3>1. "skill" \notin DOMAIN item => item.fact \in PrivateFacts
        BY DEF Portable, Exported
      <3>. QED
        BY <2>1, <3>1 DEF StartImport
    <2>2. ASSUME NEW optIn, SetStressSupport(optIn) PROVE Agreed'
      BY <2>2 DEF SetStressSupport, PrivateFacts
    <2>3. ASSUME NEW c, \/ DraftSkill(c) \/ InsertLearned(c) \/ ImportFacts(c) \/ ImportSkills(c)
                        \/ \E i : ReadSkillRow(c, i)
                        \/ EnableSkill(c) \/ ReadStressSupport(c) \/ InsertStressEvent(c) \/ SkillCallFails(c)
                        \/ ReadToldStress(c) \/ InsertToldStress(c)
          PROVE  Agreed'
      BY <2>3 DEF DraftSkill, InsertLearned, ImportFacts, ImportSkills, ReadSkillRow, EnableSkill,
                  ReadStressSupport, InsertStressEvent, SkillCallFails, ReadToldStress, InsertToldStress
    <2>4. ASSUME NEW i, ApproveSkillRow(i) \/ DisableSkillRow(i) \/ ConfirmToldStress PROVE Agreed'
      BY <2>4 DEF ApproveSkillRow, DisableSkillRow, ConfirmToldStress
    <2>5. CASE UNCHANGED skillVars
      BY <2>5 DEF skillVars
    <2>. QED
      BY <2>1, <2>2, <2>3, <2>4, <2>5 DEF SkillsNext
  <1>3. SkillsInv /\ Agreed => SkillsTypeOK
    BY DEF SkillsInv, StressOK, SkillsTypeOK, SkillCallTypes, NoSkillCall, DraftedSkills, ImportedFacts,
           ImportedSkills, EnabledSkills, SupportCalls, ToldCalls
  <1>. HIDE DEF Agreed
  <1>. QED
    BY <1>1, <1>2, <1>3, SkillsCorrect, PTL

-----------------------------------------------------------------------------
(* Connected accounts and sessions. *)

BusyCalls == [pc : ConnectorSteps, account : Accounts, token : BOOLEAN]

ConnectShape ==
    /\ vault \subseteq Accounts /\ leftToken \subseteq Accounts
    /\ accounts \in [Accounts -> {"none", "connected", "disconnected"}]
    /\ connectorCalls \in [ConnectorCalls -> {NoConnectorCall} \cup BusyCalls]

\* An account is being connected by one call, and by one that nobody else works on.
Connecting(call) == call.pc \in {"store", "account"}
ConnectOK(call) ==
    /\ Connecting(call) => accounts[call.account] = "none" /\ call.account \notin leftToken
    /\ call.pc = "store" => call.account \notin vault
    /\ call.pc \in ConnectorSteps /\ ~Connecting(call) => accounts[call.account] # "none"
    /\ call.pc = "disconnect" /\ ~call.token => accounts[call.account] = "disconnected"
ConnectAlone(one, other) == Connecting(one) /\ other # NoConnectorCall => other.account # one.account

TokenOK(a) == accounts[a] = "connected" \/ Step(a, "account") \/ Step(a, "forget") \/ a \in leftToken

ConnectInv ==
    /\ \A a \in vault : TokenOK(a)
    /\ \A c \in ConnectorCalls : ConnectOK(connectorCalls[c])
    /\ \A c, d \in ConnectorCalls : c # d => ConnectAlone(connectorCalls[c], connectorCalls[d])

\* A step of one call that keeps the accounts of the others.
LEMMA ConnectMoved ==
    ASSUME ConnectShape, ConnectInv, NEW c \in ConnectorCalls,
           NEW call \in {NoConnectorCall} \cup BusyCalls,
           connectorCalls' = [connectorCalls EXCEPT ![c] = call], ConnectOK(call)',
           vault' \subseteq Accounts, leftToken' \subseteq Accounts,
           accounts' \in [Accounts -> {"none", "connected", "disconnected"}],
           \A a \in vault' : TokenOK(a)',
           \A d \in ConnectorCalls \ {c} :
             /\ ConnectOK(connectorCalls[d])'
             /\ ConnectAlone(connectorCalls[d], call) /\ ConnectAlone(call, connectorCalls[d])
    PROVE  ConnectShape' /\ ConnectInv'
  <1>1. ConnectShape'
    BY DEF ConnectShape
  <1>2. \A d \in ConnectorCalls : ConnectOK(connectorCalls[d])'
    <2>. SUFFICES ASSUME NEW d \in ConnectorCalls, NEW CONSTANT new, new = connectorCalls'[d]
                  PROVE  ConnectOK(new)'
      OBVIOUS
    <2>1. CASE d = c
      BY <2>1 DEF ConnectShape
    <2>2. CASE d # c
      BY <2>2
    <2>. QED
      BY <2>1, <2>2
  <1>3. \A d, e \in ConnectorCalls : d # e => ConnectAlone(connectorCalls'[d], connectorCalls'[e])
    BY DEF ConnectShape, ConnectInv
  <1>. QED
    BY <1>1, <1>2, <1>3 DEF ConnectInv

LEMMA ConnectorStep == ConnectShape /\ ConnectInv /\ [ConnectorNext]_connectorVars => ConnectShape' /\ ConnectInv'
  <1>. SUFFICES ASSUME ConnectShape, ConnectInv, [ConnectorNext]_connectorVars
                PROVE  ConnectShape' /\ ConnectInv'
    OBVIOUS
  <1>0. /\ vault \subseteq Accounts /\ leftToken \subseteq Accounts
        /\ accounts \in [Accounts -> {"none", "connected", "disconnected"}]
        /\ connectorCalls \in [ConnectorCalls -> {NoConnectorCall} \cup BusyCalls]
        /\ \A a \in vault : TokenOK(a)
        /\ \A c \in ConnectorCalls : ConnectOK(connectorCalls[c])
        /\ \A c, d \in ConnectorCalls : c # d => ConnectAlone(connectorCalls[c], connectorCalls[d])
    BY DEF ConnectShape, ConnectInv
  <1>n. /\ NoConnectorCall.pc = "none" /\ NoConnectorCall \notin BusyCalls
        /\ ConnectOK(NoConnectorCall)' /\ ConnectOK(NoConnectorCall)
        /\ \A other : ConnectAlone(NoConnectorCall, other) /\ ConnectAlone(other, NoConnectorCall)
    BY DEF NoConnectorCall, BusyCalls, ConnectorSteps, ConnectOK, ConnectAlone, Connecting
  <1>t. \A c \in ConnectorCalls : connectorCalls[c].pc # "none" => connectorCalls[c] \in BusyCalls
    BY <1>0, <1>n
  \* A step that changes no account, no token and nothing of a call but where it is.
  <1>a. ASSUME NEW c \in ConnectorCalls, NEW call \in {NoConnectorCall} \cup BusyCalls,
               connectorCalls' = [connectorCalls EXCEPT ![c] = call],
               UNCHANGED <<accounts, vault, leftToken>>, ~Connecting(call), ConnectOK(call),
               connectorCalls[c].pc \notin {"account", "forget"},
               call = NoConnectorCall \/ accounts[call.account] # "none"
        PROVE  ConnectShape' /\ ConnectInv'
    <2>1. ASSUME NEW a \in vault' PROVE TokenOK(a)'
      <3>1. TokenOK(a)
        BY <1>0, <1>a
      <3>2. \A pc \in {"account", "forget"} : Step(a, pc) => Step(a, pc)'
        BY <1>0, <1>a DEF Step, Calling, AccountOf
      <3>. QED
        BY <1>a, <3>1, <3>2 DEF TokenOK
    <2>2. ConnectOK(call)'
      BY <1>a DEF ConnectOK
    <2>3. ASSUME NEW d \in ConnectorCalls \ {c}
          PROVE  /\ ConnectOK(connectorCalls[d])'
                 /\ ConnectAlone(connectorCalls[d], call) /\ ConnectAlone(call, connectorCalls[d])
      <3>1. connectorCalls'[d] = connectorCalls[d] /\ ConnectOK(connectorCalls[d])
        BY <1>0, <1>a
      <3>. QED
        BY <1>a, <3>1 DEF ConnectOK, ConnectAlone
    <2>. QED
      BY <1>0, <1>a, <2>1, <2>2, <2>3, ConnectMoved
  <1>1. ASSUME NEW c \in ConnectorCalls, NEW a \in Accounts, StartConnect(c, a)
        PROVE  ConnectShape' /\ ConnectInv'
    <2>. DEFINE new == [pc |-> "store", account |-> a, token |-> FALSE]
    <2>1. /\ connectorCalls' = [connectorCalls EXCEPT ![c] = new] /\ connectorCalls[c] = NoConnectorCall
          /\ accounts[a] = "none" /\ ~InUse(a) /\ a \notin leftToken
          /\ UNCHANGED <<accounts, vault, leftToken>>
      BY <1>1 DEF StartConnect, BeginCall
    <2>2. new \in BusyCalls /\ new.pc = "store" /\ new.account = a
      BY DEF BusyCalls, ConnectorSteps
    <2>3. a \notin vault
      BY <1>0, <1>n, <2>1 DEF TokenOK, InUse, Step, Calling
    <2>. HIDE DEF new
    <2>4. ConnectOK(new)'
      BY <2>1, <2>2, <2>3 DEF ConnectOK, Connecting
    <2>5. ASSUME NEW b \in vault' PROVE TokenOK(b)'
      <3>1. TokenOK(b)
        BY <1>0, <2>1
      <3>2. \A pc \in {"account", "forget"} : Step(b, pc) => Step(b, pc)'
        BY <1>0, <1>n, <2>1 DEF Step, Calling, AccountOf
      <3>. QED
        BY <2>1, <3>1, <3>2 DEF TokenOK
    <2>6. ASSUME NEW d \in ConnectorCalls \ {c}
          PROVE  /\ ConnectOK(connectorCalls[d])'
                 /\ ConnectAlone(connectorCalls[d], new) /\ ConnectAlone(new, connectorCalls[d])
      <3>1. connectorCalls'[d] = connectorCalls[d] /\ ConnectOK(connectorCalls[d])
        BY <1>0, <2>1
      <3>2. connectorCalls[d] = NoConnectorCall \/ connectorCalls[d].account # a
        BY <2>1 DEF InUse, AccountOf
      <3>3. ConnectOK(connectorCalls[d])'
        BY <2>1, <3>1 DEF ConnectOK
      <3>. QED
        BY <1>n, <2>2, <3>2, <3>3 DEF ConnectAlone
    <2>. QED
      BY <1>0, <2>1, <2>2, <2>4, <2>5, <2>6, ConnectMoved
  <1>2. ASSUME NEW c \in ConnectorCalls, NEW a \in Accounts, StartSyncCalendar(c, a)
        PROVE  ConnectShape' /\ ConnectInv'
    <2>. DEFINE new == [pc |-> "token", account |-> a, token |-> TRUE]
    <2>1. new \in BusyCalls /\ new.pc = "token" /\ new.account = a
      BY DEF BusyCalls, ConnectorSteps
    <2>2. /\ connectorCalls' = [connectorCalls EXCEPT ![c] = new] /\ connectorCalls[c] = NoConnectorCall
          /\ accounts[a] # "none" /\ UNCHANGED <<accounts, vault, leftToken>>
      BY <1>2 DEF StartSyncCalendar, BeginCall
    <2>. HIDE DEF new
    <2>. QED
      BY <1>a, <1>n, <2>1, <2>2 DEF ConnectOK, Connecting
  <1>3. ASSUME NEW c \in ConnectorCalls, NEW a \in Accounts, StartDisconnect(c, a)
        PROVE  ConnectShape' /\ ConnectInv'
    <2>. SUFFICES ASSUME NEW CONSTANT new,
                         new = [pc |-> "disconnect", account |-> a, token |-> accounts[a] = "connected"]
                  PROVE  ConnectShape' /\ ConnectInv'
      OBVIOUS
    <2>1. new \in BusyCalls /\ new.pc = "disconnect" /\ new.account = a
      BY DEF BusyCalls, ConnectorSteps
    <2>2. ~new.token => accounts[a] # "connected"
      OBVIOUS
    <2>3. /\ connectorCalls' = [connectorCalls EXCEPT ![c] = new] /\ connectorCalls[c] = NoConnectorCall
          /\ accounts[a] # "none" /\ UNCHANGED <<accounts, vault, leftToken>>
      BY <1>3 DEF StartDisconnect, BeginCall
    <2>4. ~new.token => accounts[a] = "disconnected"
      BY <1>0, <2>2, <2>3
    <2>5. ConnectOK(new) /\ ~Connecting(new)
      BY <2>1, <2>3, <2>4 DEF ConnectOK, Connecting
    <2>. QED
      BY <1>a, <1>n, <2>1, <2>3, <2>5
  <1>4. ASSUME NEW c \in ConnectorCalls, StoreToken(c)
        PROVE  ConnectShape' /\ ConnectInv'
    <2>. SUFFICES ASSUME NEW CONSTANT call, call = connectorCalls[c],
                         NEW CONSTANT new, new = [call EXCEPT !.pc = "account"]
                  PROVE  ConnectShape' /\ ConnectInv'
      OBVIOUS
    <2>1. /\ call \in BusyCalls /\ call.pc = "store" /\ call \in BusyCalls /\ ConnectOK(call)
          /\ connectorCalls' = [connectorCalls EXCEPT ![c] = new]
          /\ vault' = vault \cup {call.account} /\ UNCHANGED <<accounts, leftToken>>
      BY <1>0, <1>4, <1>t DEF StoreToken, Calling, NextStep, AccountOf
    <2>2. new \in BusyCalls /\ new.pc = "account" /\ new.account = call.account /\ call.account \in Accounts
      BY <2>1 DEF BusyCalls, ConnectorSteps
    <2>3. ConnectOK(new)'
      BY <2>1, <2>2 DEF ConnectOK, Connecting
    <2>4. ASSUME NEW b \in vault' PROVE TokenOK(b)'
      <3>1. CASE b = call.account
        <4>1. Step(b, "account")'
          BY <1>0, <2>1, <2>2, <3>1 DEF Step, Calling, AccountOf
        <4>. QED
          BY <4>1 DEF TokenOK
      <3>2. CASE b # call.account
        <4>1. TokenOK(b)
          BY <1>0, <2>1, <3>2
        <4>2. \A pc \in {"account", "forget"} : Step(b, pc) => Step(b, pc)'
          BY <1>0, <2>1, <3>2 DEF Step, Calling, AccountOf
        <4>. QED
          BY <2>1, <4>1, <4>2 DEF TokenOK
      <3>. QED
        BY <3>1, <3>2
    <2>5. ASSUME NEW d \in ConnectorCalls \ {c}
          PROVE  /\ ConnectOK(connectorCalls[d])'
                 /\ ConnectAlone(connectorCalls[d], new) /\ ConnectAlone(new, connectorCalls[d])
      <3>1. connectorCalls'[d] = connectorCalls[d] /\ ConnectOK(connectorCalls[d])
        BY <1>0, <2>1
      <3>2. connectorCalls[d] = NoConnectorCall \/ connectorCalls[d].account # call.account
        BY <1>0, <2>1 DEF ConnectAlone, Connecting
      <3>3. ConnectOK(connectorCalls[d])'
        BY <1>n, <2>1, <3>1, <3>2 DEF ConnectOK
      <3>. QED
        BY <1>n, <2>2, <3>2, <3>3 DEF ConnectAlone
    <2>. QED
      BY <1>0, <2>1, <2>2, <2>3, <2>4, <2>5, ConnectMoved
  <1>5. ASSUME NEW c \in ConnectorCalls, InsertAccount(c)
        PROVE  ConnectShape' /\ ConnectInv'
    <2>. SUFFICES ASSUME NEW CONSTANT call, call = connectorCalls[c]
                  PROVE  ConnectShape' /\ ConnectInv'
      OBVIOUS
    <2>1. /\ call \in BusyCalls /\ call.pc = "account"
          /\ connectorCalls' = [connectorCalls EXCEPT ![c] = NoConnectorCall]
          /\ accounts' = [accounts EXCEPT ![call.account] = "connected"] /\ UNCHANGED <<vault, leftToken>>
      BY <1>0, <1>5, <1>t DEF InsertAccount, Calling, EndCall, AccountOf
    <2>2. call.account \in Accounts
      BY <2>1 DEF BusyCalls
    <2>3. ASSUME NEW b \in vault' PROVE TokenOK(b)'
      <3>1. CASE b = call.account
        BY <1>0, <2>1, <2>2, <3>1 DEF TokenOK
      <3>2. CASE b # call.account
        <4>1. TokenOK(b)
          BY <1>0, <2>1
        <4>2. \A pc \in {"account", "forget"} : Step(b, pc) => Step(b, pc)'
          BY <1>0, <2>1, <3>2 DEF Step, Calling, AccountOf
        <4>. QED
          BY <1>0, <2>1, <3>2, <4>1, <4>2 DEF TokenOK
      <3>. QED
        BY <3>1, <3>2
    <2>4. ASSUME NEW d \in ConnectorCalls \ {c}
          PROVE  ConnectOK(connectorCalls[d])'
      <3>1. connectorCalls'[d] = connectorCalls[d] /\ ConnectOK(connectorCalls[d])
        BY <1>0, <2>1
      <3>2. connectorCalls[d] = NoConnectorCall \/ connectorCalls[d].account # call.account
        BY <1>0, <2>1 DEF ConnectAlone, Connecting
      <3>. QED
        BY <1>n, <1>0, <2>1, <2>2, <3>1, <3>2 DEF ConnectOK, BusyCalls
    <2>. QED
      BY <1>0, <1>n, <2>1, <2>2, <2>3, <2>4, ConnectMoved
  <1>6. ASSUME NEW c \in ConnectorCalls, GetToken(c) \/ UpdateToken(c) \/ Fetch(c) \/ DeleteItems(c) \/ InsertItems(c)
        PROVE  ConnectShape' /\ ConnectInv'
    <2>. SUFFICES ASSUME NEW CONSTANT call, call = connectorCalls[c]
                  PROVE  ConnectShape' /\ ConnectInv'
      OBVIOUS
    <2>1. /\ call.pc \in {"token", "refresh", "fetch", "delete", "insert"}
          /\ UNCHANGED <<accounts, vault, leftToken>>
          /\ \/ connectorCalls' = [connectorCalls EXCEPT ![c] = NoConnectorCall]
             \/ \E pc \in {"refresh", "fetch", "delete", "insert"} :
                  connectorCalls' = [connectorCalls EXCEPT ![c].pc = pc]
      BY <1>6 DEF GetToken, UpdateToken, Fetch, DeleteItems, InsertItems, Calling, NextStep, EndCall
    <2>2. call \in BusyCalls /\ accounts[call.account] # "none"
      BY <1>0, <1>t, <2>1 DEF ConnectOK, Connecting, ConnectorSteps
    <2>3. CASE connectorCalls' = [connectorCalls EXCEPT ![c] = NoConnectorCall]
      BY <1>a, <1>n, <2>1, <2>3 DEF Connecting
    <2>4. ASSUME NEW pc \in {"refresh", "fetch", "delete", "insert"},
                 connectorCalls' = [connectorCalls EXCEPT ![c].pc = pc]
          PROVE  ConnectShape' /\ ConnectInv'
      <3>. SUFFICES ASSUME NEW CONSTANT new, new = [call EXCEPT !.pc = pc] PROVE ConnectShape' /\ ConnectInv'
        OBVIOUS
      <3>1. new \in BusyCalls /\ new.pc = pc /\ new.account = call.account
        BY <2>2 DEF BusyCalls, ConnectorSteps
      <3>2. connectorCalls' = [connectorCalls EXCEPT ![c] = new]
        BY <2>4
      <3>3. ConnectOK(new) /\ ~Connecting(new)
        BY <2>2, <3>1 DEF ConnectOK, Connecting
      <3>. QED
        BY <1>a, <2>1, <2>2, <3>1, <3>2, <3>3
    <2>. QED
      BY <2>1, <2>3, <2>4
  <1>7. ASSUME NEW c \in ConnectorCalls, Disconnect(c)
        PROVE  ConnectShape' /\ ConnectInv'
    <2>. SUFFICES ASSUME NEW CONSTANT call, call = connectorCalls[c],
                         NEW CONSTANT new, new = [call EXCEPT !.pc = "forget"]
                  PROVE  ConnectShape' /\ ConnectInv'
      OBVIOUS
    <2>1. /\ call \in BusyCalls /\ call.pc = "disconnect" /\ ConnectOK(call)
          /\ accounts' = [accounts EXCEPT ![call.account] = "disconnected"] /\ UNCHANGED <<vault, leftToken>>
          /\ \/ connectorCalls' = [connectorCalls EXCEPT ![c] = new]
             \/ connectorCalls' = [connectorCalls EXCEPT ![c] = NoConnectorCall] /\ ~call.token
      BY <1>0, <1>7, <1>t DEF Disconnect, Calling, NextStep, EndCall, AccountOf
    <2>2. new \in BusyCalls /\ new.pc = "forget" /\ new.account = call.account /\ call.account \in Accounts
      BY <2>1 DEF BusyCalls, ConnectorSteps
    <2>3. accounts[call.account] # "none" /\ (~call.token => accounts[call.account] = "disconnected")
      BY <2>1 DEF ConnectOK, Connecting, ConnectorSteps
    <2>4. ASSUME NEW b \in vault' PROVE TokenOK(b)'
      <3>1. TokenOK(b)
        BY <1>0, <2>1
      <3>2. \A pc \in {"account", "forget"} : Step(b, pc) => Step(b, pc)'
        BY <1>0, <2>1 DEF Step, Calling, AccountOf
      <3>3. CASE b # call.account \/ accounts[b] = "disconnected"
        BY <1>0, <2>1, <2>2, <3>1, <3>2, <3>3 DEF TokenOK
      <3>4. CASE b = call.account /\ connectorCalls' = [connectorCalls EXCEPT ![c] = new]
        <4>1. Step(b, "forget")'
          BY <1>0, <2>2, <3>4 DEF Step, Calling, AccountOf
        <4>. QED
          BY <4>1 DEF TokenOK
      <3>. QED
        BY <2>1, <2>3, <3>3, <3>4
    <2>5. ASSUME NEW d \in ConnectorCalls \ {c}
          PROVE  /\ ConnectOK(connectorCalls[d])'
                 /\ ConnectAlone(connectorCalls[d], new) /\ ConnectAlone(new, connectorCalls[d])
      <3>1. connectorCalls'[d] = connectorCalls[d] /\ ConnectOK(connectorCalls[d])
        BY <1>0, <2>1
      <3>2. Connecting(connectorCalls[d]) => connectorCalls[d].account # call.account
        BY <2>3, <3>1 DEF ConnectOK
      <3>3. ConnectOK(connectorCalls[d])'
        BY <1>0, <2>1, <2>2, <3>1, <3>2 DEF ConnectOK
      <3>. QED
        BY <2>2, <3>2, <3>3 DEF ConnectAlone, Connecting
    <2>6. ConnectOK(new)'
      BY <1>0, <2>1, <2>2 DEF ConnectOK, Connecting
    <2>7. accounts' \in [Accounts -> {"none", "connected", "disconnected"}]
      BY <1>0, <2>1
    <2>8. CASE connectorCalls' = [connectorCalls EXCEPT ![c] = new]
      BY <1>0, <2>1, <2>2, <2>4, <2>5, <2>6, <2>7, <2>8, ConnectMoved
    <2>9. CASE connectorCalls' = [connectorCalls EXCEPT ![c] = NoConnectorCall]
      BY <1>0, <1>n, <2>1, <2>4, <2>5, <2>7, <2>9, ConnectMoved
    <2>. QED
      BY <2>1, <2>8, <2>9
  <1>8. ASSUME NEW c \in ConnectorCalls, ForgetToken(c) \/ ConnectorFails(c)
        PROVE  ConnectShape' /\ ConnectInv'
    <2>. SUFFICES ASSUME NEW CONSTANT call, call = connectorCalls[c]
                  PROVE  ConnectShape' /\ ConnectInv'
      OBVIOUS
    <2>1. /\ call \in BusyCalls /\ connectorCalls' = [connectorCalls EXCEPT ![c] = NoConnectorCall]
          /\ UNCHANGED accounts /\ vault' \subseteq vault
          /\ leftToken' = leftToken \/ leftToken' = leftToken \cup {call.account}
          /\ call.pc \in {"account", "forget"} => call.account \notin vault' \/ call.account \in leftToken'
      BY <1>0, <1>8, <1>n DEF ForgetToken, ConnectorFails, Calling, EndCall, AccountOf
    <2>3. call.account \in Accounts
      BY <2>1 DEF BusyCalls
    <2>4. ASSUME NEW b \in vault' PROVE TokenOK(b)'
      <3>1. TokenOK(b)
        BY <1>0, <2>1
      <3>2. \A pc \in {"account", "forget"} : Step(b, pc) => Step(b, pc)' \/ b \in leftToken'
        BY <1>0, <2>1 DEF Step, Calling, AccountOf
      <3>. QED
        BY <2>1, <3>1, <3>2 DEF TokenOK
    <2>5. ASSUME NEW d \in ConnectorCalls \ {c}
          PROVE  ConnectOK(connectorCalls[d])'
      <3>1. connectorCalls'[d] = connectorCalls[d] /\ ConnectOK(connectorCalls[d])
        BY <1>0, <2>1
      <3>2. Connecting(connectorCalls[d]) => connectorCalls[d].account # call.account
        BY <1>0, <1>n, <2>1 DEF ConnectAlone
      <3>. QED
        BY <2>1, <3>1, <3>2, <1>0 DEF ConnectOK, Connecting
    <2>. QED
      BY <1>0, <1>n, <2>1, <2>3, <2>4, <2>5, ConnectMoved, ZenonT(60)
  <1>9. CASE UNCHANGED connectorVars
    BY <1>0, <1>9 DEF connectorVars, ConnectShape, ConnectInv, TokenOK, ConnectOK, Step, Calling, AccountOf
  <1>. QED
    BY <1>1, <1>2, <1>3, <1>4, <1>5, <1>6, <1>7, <1>8, <1>9 DEF ConnectorNext

LEMMA ConnectorBegins == ConnectorInit => ConnectShape /\ ConnectInv
  BY DEF ConnectorInit, ConnectShape, ConnectInv, ConnectOK, ConnectAlone, Connecting,
         NoConnectorCall, ConnectorSteps

LEMMA ConnectorCorrect == ConnectorSpec => []TokensAreOwned
  <1>1. ConnectShape /\ ConnectInv => TokensAreOwned
    BY DEF ConnectInv, TokenOK, TokensAreOwned
  <1>. QED
    BY <1>1, ConnectorBegins, ConnectorStep, PTL DEF ConnectorSpec

LEMMA ConnectorTyped == ConnectorSpec => []ConnectorTypeOK
  <1>. DEFINE Copies == copies \in [Accounts -> 0..MaxCopies]
  <1>1. ConnectorInit => ConnectShape /\ ConnectInv /\ Copies
    BY ConnectorBegins, ConnectorAssumption DEF ConnectorInit
  <1>2. ConnectShape /\ Copies /\ [ConnectorNext]_connectorVars => Copies'
    <2>. SUFFICES ASSUME ConnectShape, Copies, [ConnectorNext]_connectorVars PROVE Copies'
      OBVIOUS
    <2>1. ASSUME NEW c \in ConnectorCalls, DeleteItems(c) PROVE Copies'
      <3>1. 0 \in 0..MaxCopies /\ copies' = [copies EXCEPT ![AccountOf(c)] = 0]
        BY <2>1, ConnectorAssumption DEF DeleteItems
      <3>. QED
        BY <3>1
    <2>2. ASSUME NEW c \in ConnectorCalls, InsertItems(c) PROVE Copies'
      <3>1. AccountOf(c) \in Accounts
        BY <2>2 DEF InsertItems, Calling, AccountOf, ConnectShape, NoConnectorCall, BusyCalls
      <3>2. copies[AccountOf(c)] + 1 \in 0..MaxCopies
        BY <2>2, <3>1, ConnectorAssumption DEF InsertItems
      <3>. QED
        BY <2>2, <3>1, <3>2 DEF InsertItems
    <2>3. ASSUME NEW c \in ConnectorCalls,
                 \/ \E a \in Accounts : StartConnect(c, a) \/ StartSyncCalendar(c, a) \/ StartDisconnect(c, a)
                 \/ StoreToken(c) \/ InsertAccount(c) \/ GetToken(c) \/ UpdateToken(c) \/ Fetch(c)
                 \/ Disconnect(c) \/ ForgetToken(c) \/ ConnectorFails(c)
          PROVE  Copies'
      BY <2>3 DEF StartConnect, StartSyncCalendar, StartDisconnect, StoreToken, InsertAccount, GetToken,
                  UpdateToken, Fetch, Disconnect, ForgetToken, ConnectorFails
    <2>4. CASE UNCHANGED connectorVars
      BY <2>4 DEF connectorVars
    <2>. QED
      BY <2>1, <2>2, <2>3, <2>4 DEF ConnectorNext
  <1>3. ConnectShape /\ Copies => ConnectorTypeOK
    BY DEF ConnectShape, ConnectorTypeOK, BusyCalls
  <1>. HIDE DEF Copies
  <1>. QED
    BY <1>1, <1>2, <1>3, ConnectorStep, PTL DEF ConnectorSpec

SignInSteps == {"account", "user", "link", "plan", "newPlan", "session"}
SignInCallTypes == {NotSigningIn} \cup [pc : SignInSteps, user : Emails, linked : BOOLEAN]

\* A sign-in, or a session, that found the account is of the user it stays linked to.
LinkOK(s) == s.linked => s.user = account /\ account # Nobody

SignInInv ==
    /\ signIns \in [SignInCalls -> SignInCallTypes] /\ account \in Emails \cup {Nobody}
    /\ \A s \in authSessions : LinkOK(s) /\ s.user \in plans
    /\ \A c \in SignInCalls :
         /\ signIns[c].pc # "none" => LinkOK(signIns[c])
         /\ signIns[c].pc = "session" => signIns[c].user \in plans

LEMMA SignInCorrect == SignInInit /\ [][SignInNext]_signInVars => []SignInInv
  <1>1. SignInInit => SignInInv
    BY DEF SignInInit, SignInInv, SignInCallTypes, NotSigningIn
  <1>2. SignInInv /\ [SignInNext]_signInVars => SignInInv'
    <2>. SUFFICES ASSUME SignInInv, [SignInNext]_signInVars PROVE SignInInv'
      OBVIOUS
    <2>0. /\ signIns \in [SignInCalls -> SignInCallTypes] /\ account \in Emails \cup {Nobody}
          /\ \A s \in authSessions : LinkOK(s) /\ s.user \in plans
          /\ \A c \in SignInCalls : signIns[c].pc # "none" => LinkOK(signIns[c])
          /\ \A c \in SignInCalls : signIns[c].pc = "session" => signIns[c].user \in plans
      BY DEF SignInInv
    <2>n. NotSigningIn \in SignInCallTypes /\ NotSigningIn.pc = "none"
      BY DEF SignInCallTypes, NotSigningIn
    <2>t. \A c \in SignInCalls : signIns[c].pc # "none" =>
            signIns[c] \in [pc : SignInSteps, user : Emails, linked : BOOLEAN]
      BY <2>0, <2>n DEF SignInCallTypes
    \* A step of one call, if any, that does not move the account once it is linked.
    <2>a. ASSUME NEW c \in SignInCalls, NEW call \in SignInCallTypes,
                 signIns' = [signIns EXCEPT ![c] = call], call.pc # "none" => LinkOK(call)',
                 call.pc = "session" => call.user \in plans',
                 account' = account \/ (account = Nobody /\ account' \in Emails), plans \subseteq plans',
                 \A s \in authSessions' : s \in authSessions \/ (LinkOK(s)' /\ s.user \in plans')
          PROVE  SignInInv'
      <3>1. \A s : LinkOK(s) => LinkOK(s)'
        BY <2>a DEF LinkOK
      <3>2. \A d \in SignInCalls : signIns'[d].pc # "none" => LinkOK(signIns[d])'
        <4>. SUFFICES ASSUME NEW d \in SignInCalls, NEW CONSTANT new, new = signIns'[d], new.pc # "none"
                      PROVE  LinkOK(new)'
          OBVIOUS
        <4>. QED
          BY <2>0, <2>a, <3>1
      <3>3. \A d \in SignInCalls : signIns'[d].pc = "session" => signIns'[d].user \in plans'
        BY <2>0, <2>a
      <3>4. signIns' \in [SignInCalls -> SignInCallTypes]
        BY <2>0, <2>a
      <3>. QED
        BY <2>0, <2>a, <3>1, <3>2, <3>3, <3>4 DEF SignInInv
    \* A call goes on from where it is, or ends.
    <2>b. ASSUME NEW c \in SignInCalls, NEW pc \in SignInSteps, SignInGoes(c, pc), signIns[c].pc # "none",
                 pc = "session" => signIns[c].user \in plans',
                 account' = account \/ (account = Nobody /\ account' \in Emails),
                 plans \subseteq plans', UNCHANGED authSessions
          PROVE  SignInInv'
      <3>. SUFFICES ASSUME NEW CONSTANT call, call = signIns[c],
                           NEW CONSTANT new, new = [call EXCEPT !.pc = pc]
                    PROVE  SignInInv'
        OBVIOUS
      <3>1. call \in [pc : SignInSteps, user : Emails, linked : BOOLEAN] /\ LinkOK(call)
        BY <2>0, <2>t, <2>b
      <3>2. new \in SignInCallTypes /\ new.pc = pc /\ new.user = call.user
        BY <3>1 DEF SignInCallTypes
      <3>3. LinkOK(call) => LinkOK(new)'
        BY <2>b, <3>1 DEF LinkOK
      <3>4. signIns' = [signIns EXCEPT ![c] = new]
        BY <2>b DEF SignInGoes
      <3>. QED
        BY <2>a, <2>b, <3>1, <3>2, <3>3, <3>4
    <2>1. ASSUME NEW c \in SignInCalls, NEW email \in Emails, StartSignIn(c, email)
          PROVE  SignInInv'
      <3>. DEFINE new == [pc |-> "account", user |-> email, linked |-> FALSE]
      <3>1. new \in SignInCallTypes /\ new.pc = "account" /\ LinkOK(new)'
        BY DEF SignInCallTypes, SignInSteps, LinkOK
      <3>. HIDE DEF new
      <3>2. signIns' = [signIns EXCEPT ![c] = new] /\ UNCHANGED <<account, plans, authSessions>>
        BY <2>1 DEF StartSignIn, SignInSet, new
      <3>. QED
        BY <2>a, <3>1, <3>2
    <2>2. ASSUME NEW c \in SignInCalls, ReadAccount(c)
          PROVE  SignInInv'
      <3>0. UNCHANGED <<account, plans, authSessions>> /\ signIns[c].pc = "account"
        BY <2>2 DEF ReadAccount, SignInAt
      <3>1. CASE account = Nobody
        <4>1. SignInGoes(c, "user")
          BY <2>2, <3>1 DEF ReadAccount
        <4>. QED
          BY <2>b, <3>0, <4>1 DEF SignInSteps
      <3>2. CASE account # Nobody
        <4>. SUFFICES ASSUME NEW CONSTANT new, new = [pc |-> "plan", user |-> account, linked |-> TRUE],
                             account \in Emails
                      PROVE  SignInInv'
          BY <2>0, <3>2
        <4>1. new \in SignInCallTypes /\ new.pc = "plan" /\ LinkOK(new)'
          BY <3>0, <3>2 DEF SignInCallTypes, SignInSteps, LinkOK
        <4>2. signIns' = [signIns EXCEPT ![c] = new]
          BY <2>2, <3>2 DEF ReadAccount, SignInSet
        <4>. QED
          BY <2>a, <3>0, <4>1, <4>2
      <3>. QED
        BY <3>1, <3>2
    <2>3. ASSUME NEW c \in SignInCalls, UpsertUser(c) \/ LinkAccount(c)
          PROVE  SignInInv'
      <3>1. /\ signIns[c].pc # "none" /\ UNCHANGED <<plans, authSessions>>
            /\ account' = account \/ (account = Nobody /\ account' = signIns[c].user)
            /\ SignInGoes(c, "link") \/ SignInGoes(c, "plan")
        BY <2>3 DEF UpsertUser, LinkAccount, SignInAt
      <3>2. signIns[c].user \in Emails
        BY <2>t, <3>1
      <3>. QED
        BY <2>b, <3>1, <3>2 DEF SignInSteps
    <2>4. ASSUME NEW c \in SignInCalls, ReadPlan(c)
          PROVE  SignInInv'
      <3>1. signIns[c].pc # "none" /\ UNCHANGED <<account, plans, authSessions>>
        BY <2>4 DEF ReadPlan, SignInAt
      <3>2. SignInGoes(c, "newPlan") \/ (SignInGoes(c, "session") /\ signIns[c].user \in plans)
        BY <2>4 DEF ReadPlan
      <3>. QED
        BY <2>b, <3>1, <3>2 DEF SignInSteps
    <2>5. ASSUME NEW c \in SignInCalls, InsertPlan(c)
          PROVE  SignInInv'
      <3>1. /\ signIns[c].pc # "none" /\ UNCHANGED <<account, authSessions>>
            /\ plans \subseteq plans' /\ signIns[c].user \in plans'
        BY <2>5 DEF InsertPlan, SignInAt
      <3>2. SignInDone(c) \/ SignInGoes(c, "session")
        BY <2>5 DEF InsertPlan
      <3>. QED
        BY <2>a, <2>b, <2>n, <3>1, <3>2 DEF SignInSteps, SignInDone, SignInSet
    <2>6. ASSUME NEW c \in SignInCalls, InsertSession(c)
          PROVE  SignInInv'
      <3>. SUFFICES ASSUME NEW CONSTANT call, call = signIns[c],
                           NEW CONSTANT s, s = [user |-> call.user, linked |-> call.linked, revoked |-> FALSE]
                    PROVE  SignInInv'
        OBVIOUS
      <3>1. /\ signIns' = [signIns EXCEPT ![c] = NotSigningIn] /\ UNCHANGED <<account, plans>>
            /\ authSessions' = authSessions \cup {s} /\ call.pc = "session"
        BY <2>6 DEF InsertSession, SignInAt, SignInDone, SignInSet
      <3>2. LinkOK(s)' /\ s.user \in plans'
        <4>1. LinkOK(call) /\ call.user \in plans
          BY <2>0, <3>1
        <4>. QED
          BY <3>1, <4>1 DEF LinkOK
      <3>. QED
        BY <2>a, <2>n, <3>1, <3>2
    <2>7. ASSUME NEW c \in SignInCalls, SignInFails(c)
          PROVE  SignInInv'
      BY <2>7, <2>a, <2>n DEF SignInFails, SignInDone, SignInSet
    <2>8. ASSUME NEW s \in authSessions, SignOut(s)
          PROVE  SignInInv'
      <3>. SUFFICES ASSUME NEW CONSTANT t, t = [s EXCEPT !.revoked = TRUE] PROVE SignInInv'
        OBVIOUS
      <3>1. authSessions' = (authSessions \ {s}) \cup {t} /\ UNCHANGED <<account, plans, signIns>>
        BY <2>8 DEF SignOut
      <3>2. LinkOK(t) /\ t.user = s.user
        BY <2>0 DEF LinkOK
      <3>. QED
        BY <2>0, <3>1, <3>2 DEF SignInInv, LinkOK
    <2>9. CASE (\E email \in Emails : MakeTestUser(email)) \/ RequestDeletion \/ CancelDeletion
      BY <2>0, <2>9 DEF MakeTestUser, RequestDeletion, CancelDeletion, SignInInv, LinkOK
    <2>10. CASE UNCHANGED signInVars
      BY <2>0, <2>10 DEF signInVars, SignInInv, LinkOK
    <2>. QED
      BY <2>1, <2>2, <2>3, <2>4, <2>5, <2>6, <2>7, <2>8, <2>9, <2>10 DEF SignInNext
  <1>. QED
    BY <1>1, <1>2, PTL DEF signInVars

\* A user a session may be of once the identity is linked, and a call that may go on.
MaySignIn(u) == account # Nobody /\ (u = account \/ u \in rivals)
GoesOnOK(call) ==
    /\ call.pc \in {"user", "link"} => account = Nobody \/ MaySignIn(call.user)
    /\ call.pc \in {"plan", "newPlan", "session"} => MaySignIn(call.user)

\* A call that goes on as a user the identity is not linked to had found no account when
\* the link was made, and so is among the rivals.
SignInStray ==
    /\ rivals \subseteq Emails
    /\ \A s \in authSessions : MaySignIn(s.user)
    /\ \A c \in SignInCalls : GoesOnOK(signIns[c])

LEMMA SignInStrays == SignInInit /\ [][SignInNext]_signInVars => []SignInStray
  <1>1. SignInInit => SignInStray
    BY DEF SignInInit, SignInStray, GoesOnOK, NotSigningIn
  <1>2. SignInInv /\ SignInStray /\ [SignInNext]_signInVars => SignInStray'
    <2>. SUFFICES ASSUME SignInInv, SignInStray, [SignInNext]_signInVars PROVE SignInStray'
      OBVIOUS
    <2>0. /\ signIns \in [SignInCalls -> SignInCallTypes]
          /\ rivals \subseteq Emails
          /\ \A s \in authSessions : MaySignIn(s.user)
          /\ \A c \in SignInCalls : GoesOnOK(signIns[c])
      BY DEF SignInInv, SignInStray
    <2>t. \A c \in SignInCalls : signIns[c].pc # "none" =>
            signIns[c] \in [pc : SignInSteps, user : Emails, linked : BOOLEAN]
      BY <2>0 DEF SignInCallTypes, NotSigningIn
    \* A step of one call while the link stays as it is.
    <2>a. ASSUME NEW c \in SignInCalls, NEW call, signIns' = [signIns EXCEPT ![c] = call],
                 UNCHANGED <<account, rivals>>, GoesOnOK(call),
                 \A s \in authSessions' : s \in authSessions \/ MaySignIn(s.user)
          PROVE  SignInStray'
      <3>1. \A u : MaySignIn(u) => MaySignIn(u)'
        BY <2>a DEF MaySignIn
      <3>2. \A x : GoesOnOK(x) => GoesOnOK(x)'
        BY <2>a DEF GoesOnOK, MaySignIn
      <3>3. ASSUME NEW d \in SignInCalls PROVE GoesOnOK(signIns[d])'
        <4>. SUFFICES ASSUME NEW CONSTANT new, new = signIns'[d] PROVE GoesOnOK(new)'
          OBVIOUS
        <4>. QED
          BY <2>0, <2>a, <3>2
      <3>4. \A s \in authSessions' : MaySignIn(s.user)'
        BY <2>0, <2>a, <3>1
      <3>5. rivals' \subseteq Emails
        BY <2>0, <2>a
      <3>. QED
        BY <3>3, <3>4, <3>5 DEF SignInStray
    \* A call goes on from where it is, or ends.
    <2>b. ASSUME NEW c \in SignInCalls, NEW pc, SignInGoes(c, pc), signIns[c].pc # "none",
                 UNCHANGED <<account, rivals, authSessions>>,
                 pc \in {"user", "link"} => account = Nobody \/ MaySignIn(signIns[c].user),
                 pc \in {"plan", "newPlan", "session"} => MaySignIn(signIns[c].user)
          PROVE  SignInStray'
      <3>. SUFFICES ASSUME NEW CONSTANT call, call = signIns[c],
                           NEW CONSTANT new, new = [call EXCEPT !.pc = pc]
                    PROVE  SignInStray'
        OBVIOUS
      <3>1. new.pc = pc /\ new.user = call.user
        BY <2>b, <2>t
      <3>2. signIns' = [signIns EXCEPT ![c] = new]
        BY <2>b DEF SignInGoes
      <3>3. GoesOnOK(new)
        BY <2>b, <3>1 DEF GoesOnOK
      <3>. QED
        BY <2>a, <2>b, <3>2, <3>3
    <2>d. ASSUME NEW c \in SignInCalls, SignInDone(c), UNCHANGED <<account, rivals>>,
                 \A s \in authSessions' : s \in authSessions \/ MaySignIn(s.user)
          PROVE  SignInStray'
      BY <2>a, <2>d DEF SignInDone, SignInSet, NotSigningIn, GoesOnOK
    <2>1. ASSUME NEW c \in SignInCalls, NEW email \in Emails, StartSignIn(c, email) PROVE SignInStray'
      <3>. DEFINE new == [pc |-> "account", user |-> email, linked |-> FALSE]
      <3>1. GoesOnOK(new)
        BY DEF GoesOnOK
      <3>. HIDE DEF new
      <3>2. signIns' = [signIns EXCEPT ![c] = new] /\ UNCHANGED <<account, authSessions, rivals>>
        BY <2>1 DEF StartSignIn, SignInSet, new
      <3>. QED
        BY <2>a, <3>1, <3>2
    <2>2. ASSUME NEW c \in SignInCalls, ReadAccount(c) PROVE SignInStray'
      <3>0. UNCHANGED <<account, authSessions, rivals>> /\ signIns[c].pc = "account"
        BY <2>2 DEF ReadAccount, SignInAt
      <3>1. CASE account = Nobody
        BY <2>2, <2>b, <3>0, <3>1 DEF ReadAccount
      <3>2. CASE account # Nobody
        <4>. DEFINE new == [pc |-> "plan", user |-> account, linked |-> TRUE]
        <4>1. GoesOnOK(new) /\ signIns' = [signIns EXCEPT ![c] = new]
          BY <2>2, <3>2 DEF ReadAccount, SignInSet, GoesOnOK, MaySignIn
        <4>. HIDE DEF new
        <4>. QED
          BY <2>a, <3>0, <4>1
      <3>. QED
        BY <3>1, <3>2
    <2>3. ASSUME NEW c \in SignInCalls, UpsertUser(c) PROVE SignInStray'
      <3>1. /\ SignInGoes(c, "link") /\ signIns[c].pc = "user"
            /\ UNCHANGED <<account, authSessions, rivals>>
        BY <2>3 DEF UpsertUser, SignInAt
      <3>2. GoesOnOK(signIns[c])
        BY <2>0
      <3>. QED
        BY <2>b, <3>1, <3>2 DEF GoesOnOK
    <2>4. ASSUME NEW c \in SignInCalls, LinkAccount(c) PROVE SignInStray'
      <3>0. SignInGoes(c, "plan") /\ signIns[c].pc = "link" /\ UNCHANGED authSessions
        BY <2>4 DEF LinkAccount, SignInAt
      <3>1. CASE account # Nobody
        <4>1. UNCHANGED <<account, rivals>>
          BY <2>4, <3>1 DEF LinkAccount, LinkIsSeen
        <4>2. GoesOnOK(signIns[c])
          BY <2>0
        <4>. QED
          BY <2>b, <3>0, <3>1, <4>1, <4>2 DEF GoesOnOK
      <3>2. CASE account = Nobody
        <4>1. /\ account' = signIns[c].user
              /\ rivals' = {signIns[d].user : d \in {x \in SignInCalls \ {c} : signIns[x].pc \in {"user", "link"}}}
          BY <2>4, <3>2 DEF LinkAccount, LinkIsSeen
        <4>2. signIns[c].user \in Emails /\ authSessions = {}
          BY <2>0, <2>t, <3>0, <3>2 DEF MaySignIn
        <4>3. account' # Nobody
          <5>1. Nobody \notin Emails
            BY NobodyHasNoEmail
          <5>. QED
            BY <4>1, <4>2, <5>1
        <4>4. rivals' \subseteq Emails
          BY <2>t, <4>1
        <4>5. ASSUME NEW d \in SignInCalls PROVE GoesOnOK(signIns[d])'
          <5>1. CASE d = c
            <6>1. signIns'[c].user = signIns[c].user
              BY <2>0, <2>t, <3>0 DEF SignInGoes
            <6>. QED
              BY <4>1, <4>3, <5>1, <6>1 DEF GoesOnOK, MaySignIn
          <5>2. CASE d # c
            <6>1. signIns'[d] = signIns[d]
              BY <2>0, <3>0, <5>2 DEF SignInGoes
            <6>2. signIns[d].pc \notin {"plan", "newPlan", "session"}
              BY <2>0, <3>2 DEF GoesOnOK, MaySignIn
            <6>3. signIns[d].pc \in {"user", "link"} => signIns[d].user \in rivals'
              BY <4>1, <5>2
            <6>. QED
              BY <4>3, <6>1, <6>2, <6>3 DEF GoesOnOK, MaySignIn
          <5>. QED
            BY <5>1, <5>2
        <4>. QED
          BY <3>0, <4>2, <4>4, <4>5 DEF SignInStray
      <3>. QED
        BY <3>1, <3>2
    <2>5. ASSUME NEW c \in SignInCalls, ReadPlan(c) \/ InsertPlan(c) PROVE SignInStray'
      <3>1. /\ signIns[c].pc \in {"plan", "newPlan"} /\ UNCHANGED <<account, authSessions, rivals>>
            /\ SignInDone(c) \/ SignInGoes(c, "session") \/ SignInGoes(c, "newPlan")
        BY <2>5 DEF ReadPlan, InsertPlan, SignInAt
      <3>2. MaySignIn(signIns[c].user)
        BY <2>0, <3>1 DEF GoesOnOK
      <3>. QED
        BY <2>b, <2>d, <3>1, <3>2
    <2>6. ASSUME NEW c \in SignInCalls, InsertSession(c) PROVE SignInStray'
      <3>1. /\ SignInDone(c) /\ UNCHANGED <<account, rivals>> /\ signIns[c].pc = "session"
            /\ authSessions' = authSessions \cup
                 {[user |-> signIns[c].user, linked |-> signIns[c].linked, revoked |-> FALSE]}
        BY <2>6 DEF InsertSession, SignInAt
      <3>2. MaySignIn(signIns[c].user)
        BY <2>0, <3>1 DEF GoesOnOK
      <3>. QED
        BY <2>d, <3>1, <3>2
    <2>7. ASSUME NEW c \in SignInCalls, SignInFails(c) PROVE SignInStray'
      BY <2>7, <2>d DEF SignInFails
    <2>8. ASSUME NEW s \in authSessions, SignOut(s) PROVE SignInStray'
      <3>. SUFFICES ASSUME NEW CONSTANT t, t = [s EXCEPT !.revoked = TRUE] PROVE SignInStray'
        OBVIOUS
      <3>1. authSessions' = (authSessions \ {s}) \cup {t} /\ UNCHANGED <<account, signIns, rivals>>
        BY <2>8 DEF SignOut
      <3>2. MaySignIn(s.user)
        BY <2>0
      <3>3. s.user = t.user \/ t = s
        OBVIOUS
      <3>. QED
        BY <2>0, <3>1, <3>2, <3>3 DEF SignInStray, GoesOnOK, MaySignIn
    <2>9. CASE (\E email \in Emails : MakeTestUser(email)) \/ RequestDeletion \/ CancelDeletion
      BY <2>0, <2>9 DEF MakeTestUser, RequestDeletion, CancelDeletion, SignInStray, GoesOnOK, MaySignIn
    <2>10. CASE UNCHANGED signInVars
      BY <2>0, <2>10 DEF signInVars, SignInStray, GoesOnOK, MaySignIn
    <2>. QED
      BY <2>1, <2>2, <2>3, <2>4, <2>5, <2>6, <2>7, <2>8, <2>9, <2>10 DEF SignInNext
  <1>. QED
    BY <1>1, <1>2, SignInCorrect, PTL

\* The rest of the type of sign-in: the user a call works for is there once the call has
\* made or found it, and so is the user of a plan, a session and the identity.
SignInMore ==
    /\ users \subseteq Emails /\ plans \subseteq users /\ account \in users \cup {Nobody}
    /\ authSessions \subseteq [user : users, linked : BOOLEAN, revoked : BOOLEAN]
    /\ deletion \in {"none", "requested", "canceled"}
    /\ \A c \in SignInCalls : signIns[c].pc \in {"link", "plan", "newPlan", "session"} => signIns[c].user \in users

LEMMA SignInTyped == SignInInit /\ [][SignInNext]_signInVars => []SignInTypeOK
  <1>1. SignInInit => SignInMore
    BY DEF SignInInit, SignInMore, NotSigningIn
  <1>2. SignInInv /\ SignInMore /\ [SignInNext]_signInVars => SignInMore'
    <2>. SUFFICES ASSUME SignInInv, SignInMore, [SignInNext]_signInVars PROVE SignInMore'
      OBVIOUS
    <2>0. /\ signIns \in [SignInCalls -> SignInCallTypes]
          /\ users \subseteq Emails /\ plans \subseteq users /\ account \in users \cup {Nobody}
          /\ authSessions \subseteq [user : users, linked : BOOLEAN, revoked : BOOLEAN]
          /\ deletion \in {"none", "requested", "canceled"}
          /\ \A c \in SignInCalls : signIns[c].pc \in {"link", "plan", "newPlan", "session"} => signIns[c].user \in users
      BY DEF SignInInv, SignInMore
    <2>t. \A c \in SignInCalls : signIns[c].pc # "none" =>
            signIns[c] \in [pc : SignInSteps, user : Emails, linked : BOOLEAN]
      BY <2>0 DEF SignInCallTypes, NotSigningIn
    \* A step of one call, for a user that is there when it has to be.
    <2>a. ASSUME NEW c \in SignInCalls, NEW call, signIns' = [signIns EXCEPT ![c] = call],
                 call.pc \in {"link", "plan", "newPlan", "session"} => call.user \in users', users \subseteq users'
          PROVE  \A d \in SignInCalls : signIns'[d].pc \in {"link", "plan", "newPlan", "session"} =>
                     signIns'[d].user \in users'
      BY <2>0, <2>a
    \* A call goes on from where it is.
    <2>b. ASSUME NEW c \in SignInCalls, NEW pc, SignInGoes(c, pc), signIns[c].pc # "none", users \subseteq users',
                 pc \in {"link", "plan", "newPlan", "session"} => signIns[c].user \in users'
          PROVE  \A d \in SignInCalls : signIns'[d].pc \in {"link", "plan", "newPlan", "session"} =>
                     signIns'[d].user \in users'
      <3>. SUFFICES ASSUME NEW CONSTANT call, call = signIns[c], NEW CONSTANT new, new = [call EXCEPT !.pc = pc]
                    PROVE  \A d \in SignInCalls : signIns'[d].pc \in {"link", "plan", "newPlan", "session"} =>
                             signIns'[d].user \in users'
        OBVIOUS
      <3>1. new.pc = pc /\ new.user = call.user
        BY <2>b, <2>t
      <3>2. signIns' = [signIns EXCEPT ![c] = new]
        BY <2>b DEF SignInGoes
      <3>. QED
        BY <2>a, <2>b, <3>1, <3>2
    <2>d. ASSUME NEW c \in SignInCalls, SignInDone(c), users \subseteq users'
          PROVE  \A d \in SignInCalls : signIns'[d].pc \in {"link", "plan", "newPlan", "session"} =>
                     signIns'[d].user \in users'
      BY <2>a, <2>d DEF SignInDone, SignInSet, NotSigningIn
    <2>1. ASSUME NEW c \in SignInCalls, NEW email \in Emails, StartSignIn(c, email)
          PROVE  SignInMore'
      <3>. DEFINE new == [pc |-> "account", user |-> email, linked |-> FALSE]
      <3>1. new.pc \notin {"link", "plan", "newPlan", "session"} /\ signIns' = [signIns EXCEPT ![c] = new]
        BY <2>1 DEF StartSignIn, SignInSet
      <3>. HIDE DEF new
      <3>2. UNCHANGED <<users, account, plans, authSessions, deletion>>
        BY <2>1 DEF StartSignIn
      <3>. QED
        BY <2>0, <2>a, <3>1, <3>2 DEF SignInMore
    <2>2. ASSUME NEW c \in SignInCalls, ReadAccount(c) PROVE SignInMore'
      <3>0. UNCHANGED <<users, account, plans, authSessions, deletion>> /\ signIns[c].pc = "account"
        BY <2>2 DEF ReadAccount, SignInAt
      <3>1. CASE account = Nobody
        BY <2>0, <2>2, <2>b, <3>0, <3>1 DEF ReadAccount, SignInMore
      <3>2. CASE account # Nobody
        <4>. DEFINE new == [pc |-> "plan", user |-> account, linked |-> TRUE]
        <4>1. new.user \in users' /\ signIns' = [signIns EXCEPT ![c] = new]
          BY <2>0, <2>2, <3>0, <3>2 DEF ReadAccount, SignInSet
        <4>. HIDE DEF new
        <4>. QED
          BY <2>0, <2>a, <3>0, <4>1 DEF SignInMore
      <3>. QED
        BY <3>1, <3>2
    <2>3. ASSUME NEW c \in SignInCalls, UpsertUser(c) PROVE SignInMore'
      <3>1. /\ SignInGoes(c, "link") /\ signIns[c].pc = "user" /\ users' = users \cup {signIns[c].user}
            /\ UNCHANGED <<account, plans, authSessions, deletion>>
        BY <2>3 DEF UpsertUser, SignInAt
      <3>2. signIns[c].user \in Emails
        BY <2>t, <3>1
      <3>3. \A d \in SignInCalls : signIns'[d].pc \in {"link", "plan", "newPlan", "session"} =>
                     signIns'[d].user \in users'
        BY <2>b, <3>1
      <3>. QED
        BY <2>0, <3>1, <3>2, <3>3 DEF SignInMore
    <2>4. ASSUME NEW c \in SignInCalls, LinkAccount(c) PROVE SignInMore'
      <3>1. /\ SignInGoes(c, "plan") /\ signIns[c].pc = "link" /\ signIns[c].user \in users
            /\ account' \in {signIns[c].user, account}
            /\ UNCHANGED <<users, plans, authSessions, deletion>>
        BY <2>0, <2>4 DEF LinkAccount, SignInAt
      <3>. QED
        BY <2>0, <2>b, <3>1 DEF SignInMore
    <2>5. ASSUME NEW c \in SignInCalls, ReadPlan(c) \/ InsertPlan(c) PROVE SignInMore'
      <3>1. /\ signIns[c].pc \in {"plan", "newPlan"} /\ signIns[c].user \in users
            /\ SignInDone(c) \/ \E pc : SignInGoes(c, pc)
            /\ plans' \subseteq plans \cup {signIns[c].user}
            /\ UNCHANGED <<users, account, authSessions, deletion>>
        BY <2>0, <2>5 DEF ReadPlan, InsertPlan, SignInAt
      <3>2. \A d \in SignInCalls : signIns'[d].pc \in {"link", "plan", "newPlan", "session"} =>
                     signIns'[d].user \in users'
        BY <2>b, <2>d, <3>1
      <3>. QED
        BY <2>0, <3>1, <3>2 DEF SignInMore
    <2>6. ASSUME NEW c \in SignInCalls, InsertSession(c) PROVE SignInMore'
      <3>1. /\ SignInDone(c) /\ signIns[c].pc = "session" /\ signIns[c].user \in users
            /\ authSessions' = authSessions \cup
                 {[user |-> signIns[c].user, linked |-> signIns[c].linked, revoked |-> FALSE]}
            /\ UNCHANGED <<users, account, plans, deletion>>
        BY <2>0, <2>6 DEF InsertSession, SignInAt
      <3>2. signIns[c].linked \in BOOLEAN
        BY <2>t, <3>1
      <3>3. [user |-> signIns[c].user, linked |-> signIns[c].linked, revoked |-> FALSE]
              \in [user : users, linked : BOOLEAN, revoked : BOOLEAN]
        BY <3>1, <3>2
      <3>4. authSessions' \subseteq [user : users, linked : BOOLEAN, revoked : BOOLEAN]
        BY <2>0, <3>1, <3>3
      <3>. QED
        BY <2>0, <2>d, <3>1, <3>4 DEF SignInMore
    <2>7. ASSUME NEW c \in SignInCalls, SignInFails(c) PROVE SignInMore'
      BY <2>0, <2>7, <2>d DEF SignInFails, SignInMore
    <2>8. ASSUME NEW s \in authSessions, SignOut(s) PROVE SignInMore'
      <3>1. [s EXCEPT !.revoked = TRUE] \in [user : users, linked : BOOLEAN, revoked : BOOLEAN]
        BY <2>0
      <3>. QED
        BY <2>0, <2>8, <3>1 DEF SignOut, SignInMore
    <2>9. CASE (\E email \in Emails : MakeTestUser(email)) \/ RequestDeletion \/ CancelDeletion
      BY <2>0, <2>9 DEF MakeTestUser, RequestDeletion, CancelDeletion, SignInMore
    <2>10. CASE UNCHANGED signInVars
      BY <2>0, <2>10 DEF signInVars, SignInMore
    <2>. QED
      BY <2>1, <2>2, <2>3, <2>4, <2>5, <2>6, <2>7, <2>8, <2>9, <2>10 DEF SignInNext
  <1>3. SignInInv /\ SignInMore /\ SignInStray => SignInTypeOK
    BY DEF SignInInv, SignInMore, SignInStray, SignInTypeOK, SignInCallTypes, SignInSteps, NotSigningIn
  <1>. QED
    BY <1>1, <1>2, <1>3, SignInCorrect, SignInStrays, PTL

-----------------------------------------------------------------------------
(* Mobile feed. *)

\* A bounded, nonempty set of numbers has a greatest one.
LEMMA GreatestExists ==
    ASSUME NEW S \in SUBSET Nat, S # {}, NEW n \in Nat, \A s \in S : s <= n
    PROVE  \E x \in S : \A y \in S : y <= x
  <1>. DEFINE T == {n - s : s \in S}
  <1>1. T \subseteq Nat /\ T # {}
    <2>1. \A s \in S : s \in Nat /\ n - s \in Nat
      OBVIOUS
    <2>2. PICK s \in S : TRUE
      OBVIOUS
    <2>. QED
      BY <2>1, <2>2
  <1>2. PICK x \in T : \A y \in T : ~(<<y, x>> \in OpToRel(<, Nat))
    BY <1>1, NatLessThanWellFounded, WFMin
  <1>3. \A y \in T : ~(y < x)
    BY <1>1, <1>2 DEF OpToRel
  <1>4. PICK s \in S : x = n - s
    BY <1>2
  <1>5. \A y \in S : ~(n - y < n - s)
    BY <1>3, <1>4
  <1>6. ASSUME NEW y \in S PROVE y <= s
    <2>1. y \in Nat /\ s \in Nat /\ n \in Nat /\ ~(n - y < n - s)
      BY <1>5
    <2>. QED
      BY <2>1
  <1>. QED
    BY <1>6

\* The time of the latest item of a page is that of one of its items.
LEMMA NewestOfPage ==
    ASSUME NEW P, P # {}, \A p \in P : p.at \in Nat, NEW n \in Nat, \A p \in P : p.at <= n
    PROVE  /\ \E p \in P : NewestIn(P) = p.at
           /\ \A p \in P : p.at <= NewestIn(P)
  <1>. DEFINE S == {p.at : p \in P}
  <1>1. S \in SUBSET Nat /\ S # {} /\ \A s \in S : s <= n
    OBVIOUS
  <1>2. \E x \in S : \A y \in S : y <= x
    BY <1>1, GreatestExists
  <1>3. \E x \in S : \A p \in P : p.at <= x
    BY <1>2
  <1>4. NewestIn(P) \in S /\ \A p \in P : p.at <= NewestIn(P)
    BY <1>3 DEF NewestIn
  <1>. QED
    BY <1>4

\* A selection of at most n of the items holds all of them or n.
LEMMA Selected ==
    ASSUME NEW S, IsFiniteSet(S), NEW n \in Nat, NEW P \in SUBSET S, Cardinality(P) = LowerOf(n, S)
    PROVE  IsFiniteSet(P) /\ (P = S \/ Cardinality(P) = n)
  BY FS_Subset, FS_CardinalityType DEF LowerOf

LEMMA MillisecondOf ==
    ASSUME NEW t \in Nat
    PROVE  /\ Millisecond(t) \in Nat /\ Millisecond(t) <= t /\ Millisecond(t) % 2 = 0
           /\ \A u \in Nat : u <= t /\ u % 2 = 0 => u <= Millisecond(t)
  BY DEF Millisecond

\* A row is stamped with a time of the clock, of the last tick or the one before.
LEMMA StampsBounded ==
    ASSUME tick \in Nat \ {0}, NEW s, NEW t \in Stamps(s)
    PROVE  t \in Nat /\ t <= tick
  <1>1. PICK u \in {tick, tick - 1} : t = IF s = "changed" THEN Millisecond(u) ELSE u
    BY DEF Stamps
  <1>2. u \in Nat /\ u <= tick
    OBVIOUS
  <1>3. Millisecond(u) \in Nat /\ Millisecond(u) <= u
    BY <1>2, MillisecondOf
  <1>. QED
    BY <1>1, <1>2, <1>3

LEMMA ExistingFinite ==
    ASSUME feedRows \in Seq([source : FeedSources, at : Nat]) PROVE IsFiniteSet(Existing)
  <1>. DEFINE f == [r \in DOMAIN feedRows |-> [row |-> r, at |-> feedRows[r].at]]
  <1>1. DOMAIN feedRows = 1..Len(feedRows) /\ Len(feedRows) \in Nat
    BY LenProperties
  <1>2. IsFiniteSet(DOMAIN feedRows)
    BY <1>1, FS_Interval
  <1>3. f \in Surjection(DOMAIN feedRows, Existing)
    BY DEF Surjection, Existing
  <1>. QED
    BY <1>2, <1>3, FS_Surjection

FeedItems == [row : Nat \ {0}, at : Nat]
SyncRecords == [limit : 1..MaxPage, since : Nat, left : SUBSET FeedSources,
                read : SUBSET FeedItems, known : SUBSET FeedItems]

\* A source that was selected has given each of the rows that were there when the
\* request came, and are as they were, or as many as the limit that are no later.
CoveredOK(s) == \A i \in sync.known \cap Existing : SourceOf(i) = s /\ i.at > sync.since =>
    \/ i \in sync.read
    \/ \E R \in SUBSET sync.read : Cardinality(R) = sync.limit /\ \A p \in R : p.at <= i.at

SyncOK ==
    /\ sync \in SyncRecords /\ sync.since % 2 = 0
    /\ IsFiniteSet(sync.read) /\ \A p \in sync.read : sync.since < p.at /\ p.at <= tick
    /\ \A i \in sync.known : i.row \in DOMAIN feedRows /\ i.at <= feedRows[i.row].at
    /\ \A s \in FeedSources \ (sync.left \cup {"latest"}) : CoveredOK(s)

FeedInv ==
    /\ feedRows \in Seq([source : FeedSources, at : Nat])
    /\ tick \in Nat \ {0} /\ cursor \in Nat /\ cursor % 2 = 0
    /\ \A r \in DOMAIN feedRows : feedRows[r].at <= tick
    /\ sync = NoSync \/ SyncOK

\* The page of an answer, its cursor, and what a page may leave out.
LEMMA EndedSync ==
    ASSUME FeedInv, EndSync
    PROVE  /\ SyncOK /\ page' \in SUBSET Merged /\ page' # {}
           /\ IsFiniteSet(Merged) /\ Cardinality(page') = LowerOf(sync.limit, Merged)
           /\ \A p \in Merged : p.at \in Nat
           /\ \A p \in page', q \in Merged \ page' : Millisecond(p.at) <= Millisecond(q.at)
           /\ cursor' \in Nat /\ cursor' % 2 = 0
           /\ \E p \in page' : cursor' = Millisecond(p.at)
           /\ \A p \in page' : Millisecond(p.at) <= cursor'
  <1>1. SyncOK /\ tick \in Nat /\ sync.limit \in Nat /\ sync.limit > 0
    BY FeedAssumption DEF FeedInv, EndSync, SyncOK, SyncRecords
  <1>2. page' \in SUBSET Merged /\ Cardinality(page') = LowerOf(sync.limit, Merged)
        /\ \A p \in page', q \in Merged \ page' : Millisecond(p.at) <= Millisecond(q.at)
    BY DEF EndSync, PagesOf
  <1>3. IsFiniteSet(Merged) /\ Plan \in Merged
    BY <1>1, FS_AddElement DEF SyncOK, Merged
  <1>4. page' # {}
    <2>. SUFFICES ASSUME page' = {} PROVE FALSE
      OBVIOUS
    <2>1. Cardinality(page') = 0
      BY FS_EmptySet
    <2>2. Cardinality(Merged) # 0 /\ Cardinality(Merged) \in Nat
      BY <1>3, FS_EmptySet, FS_CardinalityType
    <2>. QED
      BY <1>1, <1>2, <2>1, <2>2 DEF LowerOf
  <1>5. \A p \in Merged : p.at \in Nat /\ p.at <= tick + 2
    BY <1>1 DEF SyncOK, SyncRecords, FeedItems, Merged, Plan
  <1>6. /\ \E p \in page' : NewestIn(page') = p.at
        /\ \A p \in page' : p.at <= NewestIn(page')
    <2>. SUFFICES ASSUME NEW CONSTANT P, P = page'
                  PROVE  /\ \E p \in P : NewestIn(P) = p.at
                         /\ \A p \in P : p.at <= NewestIn(P)
      OBVIOUS
    <2>. QED
      BY <1>1, <1>2, <1>4, <1>5, NewestOfPage
  <1>7. cursor' = Millisecond(NewestIn(page'))
    BY <1>4 DEF EndSync, NextCursor
  <1>8. PICK p \in page' : NewestIn(page') = p.at /\ p.at \in Nat
    BY <1>2, <1>5, <1>6
  <1>9. cursor' \in Nat /\ cursor' % 2 = 0 /\ cursor' = Millisecond(p.at)
    BY <1>7, <1>8, MillisecondOf
  <1>10. \A q \in page' : Millisecond(q.at) <= cursor'
    BY <1>2, <1>5, <1>6, <1>7, <1>8 DEF Millisecond
  <1>. QED
    BY <1>1, <1>2, <1>3, <1>4, <1>5, <1>8, <1>9, <1>10

LEMMA FeedStep == FeedInv /\ [FeedNext]_feedVars => FeedInv'
  <1>. SUFFICES ASSUME FeedInv, [FeedNext]_feedVars PROVE FeedInv'
    OBVIOUS
  <1>0. /\ feedRows \in Seq([source : FeedSources, at : Nat])
        /\ tick \in Nat \ {0} /\ cursor \in Nat /\ cursor % 2 = 0
        /\ \A r \in DOMAIN feedRows : feedRows[r].at <= tick
        /\ sync = NoSync \/ SyncOK
        /\ DOMAIN feedRows = 1..Len(feedRows) /\ Len(feedRows) \in Nat
        /\ \A r \in DOMAIN feedRows : feedRows[r] \in [source : FeedSources, at : Nat]
    BY LenProperties, ElementOfSeq DEF FeedInv
  \* The rows grow, or one moves on, and the request stays as it is.
  <1>a. ASSUME feedRows' \in Seq([source : FeedSources, at : Nat]), tick' \in Nat \ {0}, tick <= tick',
               DOMAIN feedRows \subseteq DOMAIN feedRows',
               \A r \in DOMAIN feedRows' : feedRows'[r].at <= tick',
               \A r \in DOMAIN feedRows : feedRows'[r] = feedRows[r] \/ feedRows[r].at < feedRows'[r].at,
               UNCHANGED <<cursor, sync>>
        PROVE  FeedInv'
    <2>0. \A r \in DOMAIN feedRows' : feedRows'[r].at \in Nat
      <3>. SUFFICES ASSUME NEW CONSTANT R, R = feedRows' PROVE \A r \in DOMAIN R : R[r].at \in Nat
        OBVIOUS
      <3>1. R \in Seq([source : FeedSources, at : Nat])
        BY <1>a
      <3>2. \A r \in DOMAIN R : R[r] \in [source : FeedSources, at : Nat]
        BY <3>1, ElementOfSeq, LenProperties
      <3>. QED
        BY <3>2
    <2>1. ASSUME SyncOK PROVE SyncOK'
      <3>1. ASSUME NEW i \in sync.known
            PROVE  i.row \in DOMAIN feedRows' /\ i.at <= feedRows'[i.row].at
        <4>1. i.row \in DOMAIN feedRows /\ i.at <= feedRows[i.row].at /\ i.at \in Nat
          BY <2>1 DEF SyncOK, SyncRecords, FeedItems
        <4>2. feedRows[i.row].at \in Nat /\ feedRows'[i.row].at \in Nat
          BY <1>0, <1>a, <2>0, <4>1
        <4>3. i.row \in DOMAIN feedRows'
          BY <1>a, <4>1
        <4>4. feedRows'[i.row] = feedRows[i.row] \/ feedRows[i.row].at < feedRows'[i.row].at
          BY <1>a, <4>1
        <4>5. feedRows[i.row].at <= feedRows'[i.row].at
          BY <4>2, <4>4
        <4>. QED
          BY <4>1, <4>2, <4>3, <4>5
      <3>2. ASSUME NEW i \in sync.known, i \in Existing' PROVE i \in Existing /\ SourceOf(i)' = SourceOf(i)
        <4>1. i.row \in DOMAIN feedRows /\ i.at <= feedRows[i.row].at /\ i.at = feedRows'[i.row].at
              /\ i = [row |-> i.row, at |-> i.at]
          BY <2>1, <3>2 DEF SyncOK, Existing
        <4>2. feedRows[i.row].at \in Nat /\ feedRows'[i.row].at \in Nat
          BY <1>0, <1>a, <2>0, <4>1
        <4>3. feedRows'[i.row] = feedRows[i.row]
          BY <1>a, <4>1, <4>2
        <4>. QED
          BY <4>1, <4>3 DEF Existing, SourceOf
      <3>3. ASSUME NEW s \in FeedSources \ (sync.left \cup {"latest"}) PROVE CoveredOK(s)'
        <4>1. CoveredOK(s)
          BY <2>1 DEF SyncOK
        <4>. QED
          BY <1>a, <3>2, <4>1 DEF CoveredOK
      <3>4. \A p \in sync.read : sync.since < p.at /\ p.at <= tick'
        BY <1>0, <1>a, <2>1 DEF SyncOK, SyncRecords, FeedItems
      <3>. QED
        BY <1>a, <2>1, <3>1, <3>3, <3>4 DEF SyncOK
    <2>. QED
      BY <1>0, <1>a, <2>1 DEF FeedInv
  <1>1. CASE Tick
    BY <1>0, <1>1, <1>a DEF Tick
  <1>2. ASSUME NEW s \in FeedSources, InsertRow(s)
        PROVE  FeedInv'
    <2>1. PICK t \in Stamps(s) : feedRows' = Append(feedRows, [source |-> s, at |-> t])
      BY <1>2 DEF InsertRow
    <2>2. t \in Nat /\ t <= tick
      BY <1>0, <2>1, StampsBounded
    <2>3. [source |-> s, at |-> t] \in [source : FeedSources, at : Nat]
      BY <2>2
    <2>4. /\ feedRows' \in Seq([source : FeedSources, at : Nat])
          /\ DOMAIN feedRows \subseteq DOMAIN feedRows'
          /\ \A r \in DOMAIN feedRows : feedRows'[r] = feedRows[r]
          /\ \A r \in DOMAIN feedRows' : r \in DOMAIN feedRows \/ feedRows'[r] = [source |-> s, at |-> t]
      BY <1>0, <2>1, <2>3, AppendProperties, LenProperties
    <2>. QED
      BY <1>0, <1>2, <1>a, <2>2, <2>4 DEF InsertRow
  <1>3. ASSUME NEW r \in DOMAIN feedRows, UpdateRow(r)
        PROVE  FeedInv'
    <2>1. PICK t \in Stamps("changed") : t > feedRows[r].at /\ feedRows' = [feedRows EXCEPT ![r].at = t]
      BY <1>3 DEF UpdateRow
    <2>2. t \in Nat /\ t <= tick
      BY <1>0, <2>1, StampsBounded
    <2>. SUFFICES ASSUME NEW CONSTANT e, e = [feedRows[r] EXCEPT !.at = t] PROVE FeedInv'
      OBVIOUS
    <2>3. e \in [source : FeedSources, at : Nat] /\ e.at = t
      BY <1>0, <2>2
    <2>4. feedRows' = [feedRows EXCEPT ![r] = e]
      BY <2>1
    <2>5. /\ feedRows' \in Seq([source : FeedSources, at : Nat])
          /\ DOMAIN feedRows' = DOMAIN feedRows
          /\ \A q \in DOMAIN feedRows : q # r => feedRows'[q] = feedRows[q]
          /\ feedRows'[r] = e
      BY <1>0, <2>3, <2>4, ExceptSeq, LenProperties
    <2>6. feedRows[r].at < feedRows'[r].at
      BY <1>0, <2>1, <2>2, <2>3, <2>5
    <2>. QED
      BY <1>0, <1>3, <1>a, <2>2, <2>3, <2>5, <2>6 DEF UpdateRow
  <1>4. ASSUME NEW n \in 1..MaxPage, StartSync(n)
        PROVE  FeedInv'
    <2>. SUFFICES ASSUME NEW CONSTANT new,
                         new = [limit |-> n, since |-> cursor, left |-> FeedSources,
                                read |-> {}, known |-> Existing]
                  PROVE  FeedInv'
      OBVIOUS
    <2>1. sync' = new /\ UNCHANGED <<feedRows, tick, cursor>>
      BY <1>4 DEF StartSync
    <2>2. \A i \in Existing : i \in FeedItems /\ i.row \in DOMAIN feedRows /\ i.at = feedRows[i.row].at
      BY <1>0 DEF Existing, FeedItems
    <2>3. new \in SyncRecords
      BY <1>0, <2>2 DEF SyncRecords
    <2>4. \A i \in Existing : i.at <= feedRows[i.row].at
      BY <1>0, <2>2
    <2>5. SyncOK'
      BY <1>0, <2>1, <2>2, <2>3, <2>4, FS_EmptySet DEF SyncOK
    <2>. QED
      BY <1>0, <2>1, <2>5 DEF FeedInv
  <1>5. ASSUME NEW s \in FeedSources, ReadSource(s)
        PROVE  FeedInv'
    <2>. DEFINE newer == {i \in Existing : SourceOf(i) = s /\ i.at > sync.since}
    <2>1. /\ sync # NoSync /\ SyncOK /\ UNCHANGED <<feedRows, tick, cursor>>
      BY <1>0, <1>5 DEF ReadSource
    <2>2. PICK rows \in IF s = "latest" THEN NewestOf(sync.limit, newer) ELSE FirstOf(sync.limit, newer) :
            sync' = [sync EXCEPT !.left = @ \ {s}, !.read = @ \cup rows]
      BY <1>5 DEF ReadSource
    <2>3. rows \in SUBSET newer /\ Cardinality(rows) = LowerOf(sync.limit, newer)
      BY <2>2 DEF NewestOf, FirstOf
    <2>4. s # "latest" => \A p \in rows, q \in newer \ rows : p.at <= q.at
      BY <2>2 DEF FirstOf
    <2>5. IsFiniteSet(newer)
      BY <1>0, ExistingFinite, FS_Subset
    <2>6. /\ sync \in SyncRecords /\ sync.limit \in Nat /\ sync.since \in Nat
          /\ sync.read \subseteq FeedItems /\ sync.left \subseteq FeedSources
          /\ sync.since % 2 = 0 /\ IsFiniteSet(sync.read)
      BY <2>1, FeedAssumption DEF SyncOK, SyncRecords
    <2>7. IsFiniteSet(rows) /\ (rows = newer \/ Cardinality(rows) = sync.limit)
      BY <2>3, <2>5, <2>6, Selected
    <2>8. \A i \in newer : i \in FeedItems /\ sync.since < i.at /\ i.at <= tick
      <3>1. \A i \in Existing : i \in FeedItems /\ i.at <= tick
        BY <1>0 DEF Existing, FeedItems
      <3>. QED
        BY <2>6, <3>1 DEF FeedItems
    <2>9. /\ sync' \in SyncRecords /\ sync'.limit = sync.limit /\ sync'.since = sync.since
          /\ sync'.known = sync.known /\ sync'.left = sync.left \ {s} /\ sync'.read = sync.read \cup rows
      <3>1. rows \subseteq FeedItems
        BY <2>3, <2>8
      <3>. HIDE DEF newer
      <3>. QED
        BY <2>2, <2>6, <3>1 DEF SyncRecords
    <2>10. IsFiniteSet(sync'.read)
      <3>1. IsFiniteSet(sync.read \cup rows)
        BY <2>6, <2>7, FS_Union
      <3>. QED
        BY <2>9, <3>1
    <2>11. \A p \in sync'.read : sync'.since < p.at /\ p.at <= tick'
      BY <2>1, <2>3, <2>8, <2>9 DEF SyncOK
    <2>12. ASSUME NEW z \in FeedSources \ (sync'.left \cup {"latest"}) PROVE CoveredOK(z)'
      <3>. SUFFICES ASSUME NEW i \in sync.known \cap Existing, SourceOf(i) = z, i.at > sync.since
                    PROVE  \/ i \in sync'.read
                           \/ \E R \in SUBSET sync'.read : Cardinality(R) = sync'.limit /\ \A p \in R : p.at <= i.at
        BY <2>1, <2>9 DEF CoveredOK, Existing, SourceOf
      <3>1. CASE z = s
        <4>1. i \in newer /\ s # "latest"
          BY <2>12, <3>1
        <4>2. CASE i \in rows
          BY <2>9, <4>2
        <4>3. CASE i \notin rows
          <5>1. Cardinality(rows) = sync.limit /\ \A p \in rows : p.at <= i.at
            BY <2>4, <2>7, <4>1, <4>3
          <5>. QED
            BY <2>9, <5>1
        <4>. QED
          BY <4>2, <4>3
      <3>2. CASE z # s
        <4>1. CoveredOK(z)
          BY <2>1, <2>9, <2>12, <3>2 DEF SyncOK
        <4>. QED
          BY <2>9, <4>1 DEF CoveredOK
      <3>. QED
        BY <3>1, <3>2
    <2>13. \A i \in sync'.known : i.row \in DOMAIN feedRows' /\ i.at <= feedRows'[i.row].at
      BY <2>1, <2>9 DEF SyncOK
    <2>14. SyncOK'
      BY <2>6, <2>9, <2>10, <2>11, <2>12, <2>13 DEF SyncOK
    <2>. QED
      BY <1>0, <2>1, <2>14 DEF FeedInv
  <1>6. CASE EndSync
    <2>1. cursor' \in Nat /\ cursor' % 2 = 0
      BY <1>0, <1>6, EndedSync
    <2>. QED
      BY <1>0, <1>6, <2>1 DEF EndSync, FeedInv
  <1>7. CASE UNCHANGED feedVars
    BY <1>0, <1>7, <1>a DEF feedVars
  <1>. QED
    BY <1>1, <1>2, <1>3, <1>4, <1>5, <1>6, <1>7 DEF FeedNext

\* Where the cursor moves past a row, the page holds it: a row that was not selected
\* has as many earlier ones of its source as the page may hold.
LEMMA FeedPasses ==
    ASSUME FeedInv, EndSync,
           NEW i \in sync.known \cap Existing, i.at > sync.since, i.at < cursor', SourceOf(i) # "latest"
    PROVE  i \in page'
  <1>0. /\ SyncOK /\ page' \in SUBSET Merged /\ page' # {}
        /\ IsFiniteSet(Merged) /\ Cardinality(page') = LowerOf(sync.limit, Merged)
        /\ \A p \in Merged : p.at \in Nat
        /\ \A p \in page', q \in Merged \ page' : Millisecond(p.at) <= Millisecond(q.at)
        /\ cursor' \in Nat
    BY EndedSync
  <1>1. PICK p \in page' : cursor' = Millisecond(p.at)
    BY EndedSync
  <1>2. i.at \in Nat /\ Millisecond(i.at) <= i.at /\ Millisecond(i.at) \in Nat
    BY <1>0, MillisecondOf DEF SyncOK, SyncRecords, FeedItems
  <1>3. SourceOf(i) \in FeedSources /\ sync.left = {}
    <2>1. /\ feedRows \in Seq([source : FeedSources, at : Nat])
          /\ i.row \in DOMAIN feedRows
      BY <1>0 DEF FeedInv, SyncOK
    <2>2. feedRows[i.row] \in [source : FeedSources, at : Nat]
      BY <2>1, ElementOfSeq, LenProperties, ZenonT(60)
    <2>3. sync.left = {}
      BY DEF EndSync
    <2>. QED
      BY <2>2, <2>3 DEF SourceOf
  <1>4. CoveredOK(SourceOf(i))
    BY <1>0, <1>3 DEF SyncOK
  <1>5. ASSUME NEW q \in Merged, q.at <= i.at PROVE q \in page'
    <2>. SUFFICES ASSUME q \notin page' PROVE FALSE
      OBVIOUS
    <2>1. Millisecond(p.at) <= Millisecond(q.at) /\ Millisecond(q.at) <= q.at /\ q.at \in Nat
          /\ Millisecond(q.at) \in Nat
      BY <1>0, <1>1, MillisecondOf
    <2>. QED
      BY <1>0, <1>1, <1>2, <1>5, <2>1
  <1>6. CASE i \in sync.read
    BY <1>2, <1>5, <1>6 DEF Merged
  <1>7. CASE i \notin sync.read
    <2>1. PICK R \in SUBSET sync.read : Cardinality(R) = sync.limit /\ \A q \in R : q.at <= i.at
      BY <1>4, <1>7 DEF CoveredOK
    <2>2. R \subseteq page' /\ p \in page' /\ p \notin R
      <3>1. R \subseteq page'
        BY <1>5, <2>1 DEF Merged
      <3>2. p \notin R
        <4>. SUFFICES ASSUME p.at <= i.at PROVE FALSE
          BY <2>1
        <4>1. p.at \in Nat /\ Millisecond(p.at) <= p.at /\ Millisecond(p.at) \in Nat
          BY <1>0, <1>1, MillisecondOf
        <4>. QED
          BY <1>0, <1>1, <1>2, <4>1
      <3>. QED
        BY <3>1, <3>2
    <2>3. IsFiniteSet(page') /\ IsFiniteSet(R)
      BY <1>0, <2>2, FS_Subset
    <2>4. Cardinality(R) < Cardinality(page')
      BY <2>2, <2>3, FS_Subset, FS_CardinalityType
    <2>5. Cardinality(page') <= sync.limit /\ sync.limit \in Nat
      BY <1>0, FS_CardinalityType, FeedAssumption DEF LowerOf, SyncOK, SyncRecords
    <2>. QED
      BY <2>1, <2>3, <2>4, <2>5, FS_CardinalityType
  <1>. QED
    BY <1>6, <1>7

\* The cursor goes back only on a page that holds nothing but the plan.
LEMMA FeedReturns ==
    ASSUME FeedInv, EndSync, cursor' < sync.since
    PROVE  page' = {Plan}
  <1>0. /\ SyncOK /\ page' \in SUBSET Merged /\ page' # {} /\ cursor' \in Nat
        /\ \A p \in page' : Millisecond(p.at) <= cursor'
        /\ \A p \in Merged : p.at \in Nat
    BY EndedSync
  <1>1. ASSUME NEW p \in page', p \in sync.read PROVE FALSE
    <2>1. p.at \in Nat /\ sync.since < p.at /\ sync.since \in Nat /\ sync.since % 2 = 0
      BY <1>0, <1>1 DEF SyncOK, SyncRecords, FeedItems
    <2>2. sync.since <= Millisecond(p.at) /\ Millisecond(p.at) \in Nat
      BY <2>1, MillisecondOf
    <2>. QED
      BY <1>0, <2>1, <2>2
  <1>. QED
    BY <1>0, <1>1 DEF Merged

LEMMA FeedCorrect == FeedSpec => CursorPassesNothing
  <1>1. FeedInit => FeedInv
    BY EmptySeq DEF FeedInit, FeedInv
  <1>2. FeedInv /\ [FeedNext]_feedVars => [
            EndSync =>
              /\ \A i \in sync.known \cap Existing :
                   (i.at > sync.since /\ i.at < cursor' /\ SourceOf(i) # "latest") => i \in page'
              /\ cursor' < sync.since => page' = {Plan}]_feedVars
    BY FeedPasses, FeedReturns
  <1>. QED
    BY <1>1, <1>2, FeedStep, PTL DEF FeedSpec, CursorPassesNothing

\* The rest of the type of the feed: times are within the clock, and rows within theirs.
FeedMore ==
    /\ Len(feedRows) <= MaxFeedRows /\ tick <= MaxTick /\ cursor <= MaxTick /\ page \subseteq Items
    /\ sync # NoSync => sync.since <= MaxTick /\ sync.read \subseteq Items /\ sync.known \subseteq Items

LEMMA FeedTyped == FeedSpec => []FeedTypeOK
  <1>1. FeedInit => FeedInv /\ FeedMore
    BY EmptySeq, FeedAssumption DEF FeedInit, FeedInv, FeedMore
  <1>2. FeedInv /\ FeedMore /\ [FeedNext]_feedVars => FeedMore'
    <2>. SUFFICES ASSUME FeedInv, FeedMore, [FeedNext]_feedVars PROVE FeedMore'
      OBVIOUS
    <2>0. /\ feedRows \in Seq([source : FeedSources, at : Nat])
          /\ DOMAIN feedRows = 1..Len(feedRows) /\ Len(feedRows) \in Nat
          /\ \A r \in DOMAIN feedRows : feedRows[r] \in [source : FeedSources, at : Nat]
      BY LenProperties, ElementOfSeq DEF FeedInv
    <2>m. /\ \A r \in DOMAIN feedRows : feedRows[r].at <= tick
          /\ tick \in Nat \ {0} /\ cursor \in Nat
          /\ MaxTick \in Nat /\ MaxTick >= 2 /\ MaxFeedRows \in Nat
          /\ Len(feedRows) <= MaxFeedRows /\ tick <= MaxTick /\ cursor <= MaxTick
      BY FeedAssumption DEF FeedInv, FeedMore
    <2>r. \A r \in DOMAIN feedRows : feedRows[r].at \in 0..MaxTick
      BY <2>0, <2>m
    <2>e. Existing \subseteq Items
      BY <2>0, <2>m, <2>r DEF Existing, Items
    <2>s. Silent => page' \subseteq Items
      BY DEF Silent
    <2>1. CASE Tick
      BY <2>0, <2>m, <2>1, <2>s DEF Tick, FeedMore
    <2>2. ASSUME NEW s \in FeedSources, InsertRow(s) PROVE FeedMore'
      <3>1. PICK t \in Stamps(s) : feedRows' = Append(feedRows, [source |-> s, at |-> t])
        BY <2>2 DEF InsertRow
      <3>2. [source |-> s, at |-> t] \in [source : FeedSources, at : Nat]
        BY <2>m, StampsBounded
      <3>3. Len(feedRows') = Len(feedRows) + 1
        BY <2>0, <3>1, <3>2, AppendProperties
      <3>. QED
        BY <2>0, <2>m, <2>2, <2>s, <3>3 DEF InsertRow, FeedMore
    <2>3. ASSUME NEW r \in DOMAIN feedRows, UpdateRow(r) PROVE FeedMore'
      <3>1. Len(feedRows') = Len(feedRows)
        <4>1. PICK t \in Stamps("changed") : feedRows' = [feedRows EXCEPT ![r].at = t]
          BY <2>3 DEF UpdateRow
        <4>. SUFFICES ASSUME NEW CONSTANT row, row = [feedRows[r] EXCEPT !.at = t]
                      PROVE  Len(feedRows') = Len(feedRows)
          OBVIOUS
        <4>2. t \in Nat
          BY <2>m, StampsBounded
        <4>3. row \in [source : FeedSources, at : Nat]
          BY <2>0, <4>2
        <4>4. feedRows' = [feedRows EXCEPT ![r] = row]
          BY <4>1
        <4>. QED
          BY <2>0, <4>3, <4>4, ExceptSeq
      <3>. QED
        BY <2>0, <2>m, <2>3, <2>s, <3>1 DEF UpdateRow, FeedMore
    <2>4. ASSUME NEW n \in 1..MaxPage, StartSync(n) PROVE FeedMore'
      <3>1. sync'.since = cursor /\ sync'.read = {} /\ sync'.known = Existing
        BY <2>4 DEF StartSync
      <3>. QED
        BY <2>0, <2>m, <2>4, <2>e, <2>s, <3>1 DEF StartSync, FeedMore
    <2>5. ASSUME NEW s \in FeedSources, ReadSource(s) PROVE FeedMore'
      <3>1. sync # NoSync /\ sync \in SyncRecords
        BY <2>5 DEF ReadSource, FeedInv, SyncOK
      <3>2. PICK rows \in SUBSET Existing :
              sync' = [sync EXCEPT !.left = @ \ {s}, !.read = @ \cup rows]
        BY <2>5 DEF ReadSource, NewestOf, FirstOf
      <3>3. /\ sync'.since = sync.since /\ sync'.known = sync.known
            /\ sync'.read = sync.read \cup rows
        BY <3>1, <3>2 DEF SyncRecords
      <3>. QED
        BY <2>0, <2>m, <2>5, <2>e, <2>s, <3>1, <3>3 DEF ReadSource, FeedMore
    <2>6. CASE EndSync
      <3>1. Merged \subseteq Items /\ \A p \in Merged : p.at \in Nat /\ p.at <= MaxTick
        <4>1. sync # NoSync /\ Plan \in Items /\ Plan.at = 2
          BY <2>6 DEF EndSync, Items, Plan
        <4>2. \A p \in sync.read : p.at \in Nat /\ p.at <= MaxTick
          <5>1. \A p \in Items : p.at \in Nat /\ p.at <= MaxTick
            BY <2>m, <4>1 DEF Items
          <5>. QED
            BY <4>1, <5>1 DEF FeedMore
        <4>. QED
          BY <2>m, <4>1, <4>2 DEF Merged, FeedMore
      <3>2. PICK p \in page' : cursor' = Millisecond(p.at) /\ p \in Merged
        BY <2>6, EndedSync
      <3>3. cursor' <= MaxTick
        <4>1. p.at \in Nat /\ p.at <= MaxTick
          BY <3>1, <3>2
        <4>2. Millisecond(p.at) \in Nat /\ Millisecond(p.at) <= p.at
          BY <4>1, MillisecondOf
        <4>. QED
          BY <2>m, <3>2, <4>1, <4>2
      <3>4. page' \subseteq Items
        BY <2>6, <3>1, EndedSync
      <3>. QED
        BY <2>m, <2>6, <3>3, <3>4 DEF EndSync, FeedMore
    <2>7. CASE UNCHANGED feedVars
      BY <2>7 DEF feedVars, FeedMore
    <2>. QED
      BY <2>1, <2>2, <2>3, <2>4, <2>5, <2>6, <2>7 DEF FeedNext
  <1>3. FeedInv /\ FeedMore => FeedTypeOK
    <2>. SUFFICES ASSUME FeedInv, FeedMore PROVE FeedTypeOK
      OBVIOUS
    <2>1. feedRows \in Seq([source : FeedSources, at : 0..MaxTick])
      <3>1. feedRows \in Seq([source : FeedSources, at : Nat])
        BY DEF FeedInv
      <3>2. ASSUME NEW r \in DOMAIN feedRows PROVE feedRows[r] \in [source : FeedSources, at : 0..MaxTick]
        <4>1. feedRows[r] \in [source : FeedSources, at : Nat]
          BY <3>1, ElementOfSeq, LenProperties
        <4>2. feedRows[r].at <= MaxTick
          BY <4>1, FeedAssumption DEF FeedInv, FeedMore
        <4>. QED
          BY <4>1, <4>2, FeedAssumption
      <3>. QED
        BY <3>1, <3>2, Narrowed
    <2>2. sync # NoSync => sync \in SyncRecords
      BY DEF FeedInv, SyncOK
    <2>3. sync # NoSync => /\ sync.limit \in 1..MaxPage /\ sync.since \in Nat /\ sync.left \subseteq FeedSources
      BY <2>2 DEF SyncRecords
    <2>4. tick \in 1..MaxTick /\ cursor \in 0..MaxTick /\ (sync # NoSync => sync.since \in 0..MaxTick)
      BY <2>3, FeedAssumption DEF FeedInv, FeedMore
    <2>. QED
      BY <2>1, <2>3, <2>4 DEF FeedMore, FeedTypeOK
  <1>. QED
    BY <1>1, <1>2, <1>3, FeedStep, PTL DEF FeedSpec

-----------------------------------------------------------------------------
(* The services together. *)

\* Lift: what the services do is, for each of them, a step of its own or no step of
\* its variables; no service touches the variables of another.
LEMMA Lift ==
  [ServicesNext]_servicesVars =>
    /\ [RelayNext]_relayVars /\ [ActionNext]_actionVars /\ [VoiceAnswerNext]_voiceAnswerVars
    /\ [BudgetNext]_budgetVars /\ [ProfileNext]_profileVars /\ [RoomNext]_roomVars
    /\ [SkillsNext]_skillVars /\ [ConnectorNext]_connectorVars /\ [SignInNext]_signInVars
    /\ [FeedNext]_feedVars
BY DEF ServicesNext, servicesVars, Relay, Actions, Storage, Feed, Daily, Budget, Rooms, Calendar,
       Profile, Outreach, Migration, Skills, Research, Reports, Stream, Identity, Answers, Redis,
       Digests, Drafts

LEMMA LiftInit ==
  ServicesInit =>
    /\ RelayInit /\ ActionInit /\ VoiceAnswerInit /\ BudgetInit /\ ProfileInit
    /\ RoomInit /\ SkillsInit /\ ConnectorInit /\ SignInInit /\ FeedInit
BY DEF ServicesInit

\* A relay request is answered or decided, and what it asks for shared, only after a send
\* its sender approved; a send that began behind a block does not take place; and a
\* recipient is notified by such a send or by a message. relay/service.ts reads a request,
\* its contact and the blocks in one statement and writes in another, and this holds
\* whatever other calls do in between. A draft can be read, and written on, without it.
THEOREM RelayAgreed == ServicesSpec => []RelayIsAgreed
  BY Lift, LiftInit, RelayCorrect, PTL DEF ServicesSpec, RelaySpec

\* No effect of a proposal without its approval (actions/executor.ts, approval.ts), whatever
\* calls approve, reject and execute it, and a second one only of executions that overlap,
\* of one that died before its mark, or behind an approval that overwrote a rejection or
\* the mark; and the voice agent proposes and sets up nothing in a live conversation
\* (voice/agent.ts).
THEOREM NothingUnasked == ServicesSpec => []NothingActsUnasked
  <1>1. ServicesSpec => []ActionsAreApproved
    BY Lift, LiftInit, ActionCorrect, PTL DEF ServicesSpec, ActionSpec
  <1>2. ServicesSpec => []AnswersKeepPolicy
    BY Lift, LiftInit, AnswerCorrect, PTL DEF ServicesSpec, VoiceAnswerSpec
  <1>3. ActionsAreApproved /\ AnswersKeepPolicy => NothingActsUnasked
    BY DEF NothingActsUnasked
  <1>. QED
    BY <1>1, <1>2, <1>3, PTL

\* The count of governor/budget.ts is read before the provider is asked and written
\* after: n calls take a day's budget past its limit by n - 1 at most.
THEOREM OvershootLimited == ServicesSpec => []OvershootBounded
  <1>1. ServicesSpec => []BudgetInv
    BY Lift, LiftInit, BudgetCorrect, PTL DEF ServicesSpec, BudgetSpec
  <1>2. BudgetInv => OvershootBounded
    <2>. SUFFICES ASSUME BudgetInv, NEW b \in Budgets
                  PROVE  recorded[b] <= DailyLimit - 1 + Cardinality(BudgetCalls)
      BY DEF OvershootBounded
    <2>1. Cardinality(Asking(b)) \in Nat /\ Cardinality(BudgetCalls) \in Nat
      BY AskingFinite
    <2>2. recorded[b] \in Nat
      BY BudgetAssumption DEF BudgetInv, BudgetTypeOK
    <2>. QED
      BY <2>1, <2>2, BudgetAssumption DEF BudgetInv
  <1>. QED
    BY <1>1, <1>2, PTL

\* A segment of a room is stored in spite of a participant who lacks consent only by a
\* call whose check came before the withdrawal or the invitation (rooms/service.ts); no
\* skill is in use without an approval (skills/registry.ts); and no private fact is
\* imported, nothing said for support kept, and no stress a text tells of confirmed,
\* that the user had not agreed to.
THEOREM KeptAgreed == ServicesSpec => []KeptByAgreement
  <1>1. ServicesSpec => []RoomInv
    BY Lift, LiftInit, RoomCorrect, PTL DEF ServicesSpec, RoomSpec
  <1>2. ServicesSpec => []SkillsInv
    BY Lift, LiftInit, SkillsCorrect, PTL DEF ServicesSpec
  <1>3. RoomInv => SegmentsHaveConsent
    BY DEF RoomInv, SegmentsHaveConsent
  <1>4. SkillsInv => SkillsAreApproved
    BY ElementOfSeq DEF SkillsInv, StressOK, SkillsAreApproved, SkillIds, SkillStatus, isSkillSafe
  <1>5. SegmentsHaveConsent /\ SkillsAreApproved => KeptByAgreement
    BY DEF KeptByAgreement
  <1>. QED
    BY <1>1, <1>2, <1>3, <1>4, <1>5, PTL

\* The vault keeps no token of an account that is not connected but for the failures
\* the model names (connectors/), and a session is of the user its identity is linked
\* to, or of one whose sign-in had found no account when another made the link (auth/).
THEOREM CredentialsOwned == ServicesSpec => []CredentialsAreOwned
  <1>1. ServicesSpec => []TokensAreOwned
    BY Lift, LiftInit, ConnectorCorrect, PTL DEF ServicesSpec, ConnectorSpec
  <1>2. ServicesSpec => []SignInInv
    BY Lift, LiftInit, SignInCorrect, PTL DEF ServicesSpec
  <1>3. SignInInv /\ SignInStray => SessionsFollowAccount
    BY DEF SignInInv, SignInStray, MaySignIn, LinkOK, SessionsFollowAccount
  <1>4. TokensAreOwned /\ SessionsFollowAccount => CredentialsAreOwned
    BY DEF CredentialsAreOwned
  <1>5. ServicesSpec => []SignInStray
    BY Lift, LiftInit, SignInStrays, PTL DEF ServicesSpec
  <1>. QED
    BY <1>1, <1>2, <1>3, <1>4, <1>5, PTL

\* The profile row has no fact that was not confirmed and none that is sensitive, it lists
\* every confirmed project but the oldest of a full list, two calls that applied theirs
\* from the same row and one cut short apart; a session that a stop discarded leaves no
\* fact, and of its deleted facts the row has only what it had, or what calls had in
\* hand, at the discard (human/).
THEOREM ProfileFollows == ServicesSpec => []ProfileFollowsFacts
  BY Lift, LiftInit, ProfileCorrect, PTL DEF ServicesSpec, ProfileSpec

\* The cursor that ends a sync passes over no row that was there when the phone asked
\* and is newer than the phone's cursor, a source cut to its newest rows apart, and
\* goes back only on a page that holds nothing but the plan (mobile/sync.ts).
THEOREM CursorSafe == ServicesSpec => CursorPassesNothing
  BY Lift, LiftInit, FeedCorrect, PTL DEF ServicesSpec, FeedSpec
============================================================================
