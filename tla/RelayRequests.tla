--------------------------- MODULE RelayRequests ---------------------------
(***************************************************************************)
(* Agent requests between users: drafts, the sender's approval, the          *)
(* receiver's decision, contacts and blocks (src/relay/service.ts and its    *)
(* policy). Every HTTP call is a process: one step per database statement,   *)
(* because other calls run at each await. A call may die at any step.        *)
(*                                                                         *)
(* Of the notifications, those to the recipient of a request are modelled.   *)
(* The reads (inbox, outbox, a request, its messages) change nothing and show  *)
(* a request to its toUserId from the draft on, whatever its status. Left out: *)
(* audit rows; inputs the policy refuses by their wording, which change nothing; *)
(* the identity row of the first draft. A contact is usable unless it is     *)
(* blocked or removed. "decided" is approved, rejected, ignored or blocked,   *)
(* and "answer" each decision but block. Every recipient has an account: a    *)
(* request to an address without one is staged, and nobody receives it.      *)
(***************************************************************************)
EXTENDS Naturals, Sequences, FiniteSets

CONSTANTS
    Users,
    RelayCalls,    \* calls that run at the same time
    RateLimit,     \* drafts of one user in an hour
    MaxContacts,   \* contacts ever made (bound)
    MaxDrafts,     \* requests ever made (bound)
    MaxDrafting    \* createRelayDraft calls at a time (bound)

ASSUME RelayAssumption ==
    /\ RateLimit \in Nat \ {0} /\ MaxContacts \in Nat /\ MaxDrafts \in Nat
    /\ MaxDrafting \in Nat

VARIABLES
    contacts,      \* trustedContacts in insertion order
    agentRequests, \* agentRequests in insertion order
    answered,      \* requests with a receiver's agentRequestApprovals row
    blocks,        \* agentBlocks: <<user, blocked user or address>>
    relayCalls,    \* what each call does and has read
    messages,      \* requests with an agentRequestMessages row by their sender
    notified,      \* requests whose recipient was notified of them
    sends          \* history: [request, barred] for each send that was made

notices == <<messages, notified>>
relayVars == <<contacts, agentRequests, answered, blocks,
               relayCalls, sends, notices>>

RelayTypes == {"single", "team_update_request"}
Decisions == {"answer", "block"}
RelayStatuses == {"draft", "pending_sender_approval", "sent", "canceled", "decided"}

NoCall == [op |-> "none"]

RelayInit ==
    /\ contacts = <<>> /\ agentRequests = <<>>
    /\ answered = {} /\ blocks = {} /\ sends = {}
    /\ messages = {} /\ notified = {}
    /\ relayCalls = [c \in RelayCalls |-> NoCall]

RelayTypeOK ==
    /\ contacts \in Seq([owner : Users, user : Users, usable : BOOLEAN])
    /\ agentRequests \in Seq([from : Users, to : Users,
                              contact : DOMAIN contacts, type : RelayTypes,
                              status : RelayStatuses])
    /\ answered \subseteq DOMAIN agentRequests
    /\ blocks \subseteq Users \X Users
    /\ messages \subseteq DOMAIN agentRequests /\ notified \subseteq DOMAIN agentRequests
    /\ sends \subseteq [request : DOMAIN agentRequests, barred : BOOLEAN]

-----------------------------------------------------------------------------
(* Pieces of the handlers. A definition marked "mutant" is a faulty variant of *)
(* the one after it; no formula uses it.                                      *)

Begin(c, call) == relayCalls[c] = NoCall /\ relayCalls' = [relayCalls EXCEPT ![c] = call]
At(c, op, pc) == relayCalls[c].op = op /\ relayCalls[c].pc = pc
Go(c, pc) == relayCalls' = [relayCalls EXCEPT ![c].pc = pc]
Finish(c) == relayCalls' = [relayCalls EXCEPT ![c] = NoCall]

RoomForContact == Len(contacts) < MaxContacts
RoomForRequest == Len(agentRequests) < MaxDrafts

NewContact(u, user) == [owner |-> u, user |-> user, usable |-> TRUE]

\* assertContactOwned.
Usable(k, u) == contacts[k].owner = u /\ contacts[k].usable

SetStatus(r, s) == agentRequests' = [agentRequests EXCEPT ![r].status = s]

\* The draft keeps the contact's account: this is toUserId and contactUserId.
Recipient(r) == contacts[agentRequests[r].contact].user

BlockedByRecipient(u, w) == <<w, u>> \in blocks

-----------------------------------------------------------------------------
(* Contacts. *)

\* createRelayContact.
AddContact(u, user) ==
    /\ RoomForContact
    /\ contacts' = Append(contacts, NewContact(u, user))
    /\ UNCHANGED <<agentRequests, answered, blocks, relayCalls, sends, notices>>

\* updateRelayContactStatus to trusted or removed.
SetContactUsable(u, k, usable) ==
    /\ contacts[k].owner = u
    /\ contacts' = [contacts EXCEPT ![k].usable = usable]
    /\ UNCHANGED <<agentRequests, answered, blocks, relayCalls, sends, notices>>

\* To blocked: the row first, the block in a second statement.
StartBlockContact(c, u, k) ==
    /\ contacts[k].owner = u
    /\ contacts' = [contacts EXCEPT ![k].usable = FALSE]
    /\ Begin(c, [op |-> "contact", pc |-> "block", user |-> u, contact |-> k])
    /\ UNCHANGED <<agentRequests, answered, blocks, sends, notices>>

BlockContact(c) ==
    /\ At(c, "contact", "block")
    /\ blocks' = blocks \cup {<<relayCalls[c].user, contacts[relayCalls[c].contact].user>>}
    /\ Finish(c)
    /\ UNCHANGED <<contacts, agentRequests, answered, sends, notices>>

-----------------------------------------------------------------------------
(* createRelayDraft. The recipient is a contact of the sender, or an address   *)
(* (contact 0) for which a contact is made. Bounds: MaxDrafting draft calls  *)
(* at a time, and none beyond MaxDrafts.                                      *)

StartDraft(c, u, type, k, user) ==
    /\ RoomForRequest
    /\ Cardinality({d \in RelayCalls : relayCalls[d].op = "draft"}) < MaxDrafting
    /\ k # 0 => contacts[k].owner = u /\ contacts[k].user = user
    /\ Begin(c, [op |-> "draft", user |-> u, type |-> type, contact |-> k, to |-> user,
                 pc |-> "rate"])
    /\ UNCHANGED <<contacts, agentRequests, answered, blocks, sends, notices>>

RequestsOf(u) == {r \in DOMAIN agentRequests : agentRequests[r].from = u}

AtRateLimit(u) == Cardinality(RequestsOf(u)) >= RateLimit

\* Any of the requests may be older than an hour, and count no more.
CheckRate(c) ==
    /\ At(c, "draft", "rate")
    /\ \/ Go(c, "recipient")
       \/ AtRateLimit(relayCalls[c].user) /\ Finish(c)
    /\ UNCHANGED <<contacts, agentRequests, answered, blocks, sends, notices>>

ResolveContact(c) ==
    LET call == relayCalls[c] IN
    /\ At(c, "draft", "recipient") /\ call.contact # 0
    /\ IF Usable(call.contact, call.user) THEN Go(c, "insert") ELSE Finish(c)
    /\ UNCHANGED <<contacts, agentRequests, answered, blocks, sends, notices>>

ResolveAddressOnly(c) ==                                            \* mutant
    /\ At(c, "draft", "recipient") /\ relayCalls[c].contact = 0 /\ RoomForContact
    /\ Go(c, "insert")
    /\ UNCHANGED <<contacts, agentRequests, answered, blocks, sends, notices>>

ResolveAddress(c) ==
    LET call == relayCalls[c] IN
    /\ At(c, "draft", "recipient") /\ call.contact = 0 /\ RoomForContact
    /\ contacts' = Append(contacts, NewContact(call.user, call.to))
    /\ relayCalls' = [relayCalls EXCEPT ![c].contact = Len(contacts) + 1, ![c].pc = "insert"]
    /\ UNCHANGED <<agentRequests, answered, blocks, sends, notices>>

\* A team update stays a draft.
InsertRequest(c) ==
    LET call == relayCalls[c] IN
    /\ At(c, "draft", "insert") /\ RoomForRequest
    /\ agentRequests' = Append(agentRequests,
         [from |-> call.user, to |-> call.to, contact |-> call.contact, type |-> call.type,
          status |-> IF call.type = "team_update_request" THEN "draft"
                     ELSE "pending_sender_approval"])
    /\ Finish(c)
    /\ UNCHANGED <<contacts, answered, blocks, sends, notices>>

-----------------------------------------------------------------------------
(* approveRelaySend. barred remembers whether the recipient had blocked the    *)
(* sender when the call began.                                                *)

StartSend(c, u, r) ==
    /\ agentRequests[r].from = u
    /\ agentRequests[r].status \in {"pending_sender_approval", "draft"}
    /\ agentRequests[r].type # "team_update_request"
    /\ Begin(c, [op |-> "send", pc |-> "contact", user |-> u, request |-> r,
                 barred |-> BlockedByRecipient(u, Recipient(r))])
    /\ UNCHANGED <<contacts, agentRequests, answered, blocks, sends, notices>>

CheckSendContact(c) ==
    /\ At(c, "send", "contact")
    /\ IF Usable(agentRequests[relayCalls[c].request].contact, relayCalls[c].user)
       THEN Go(c, "blocks") ELSE Finish(c)
    /\ UNCHANGED <<contacts, agentRequests, answered, blocks, sends, notices>>

CheckBlocks(c) ==
    LET call == relayCalls[c] IN
    /\ At(c, "send", "blocks")
    /\ IF BlockedByRecipient(call.user, Recipient(call.request))
       THEN Finish(c) ELSE Go(c, "update")
    /\ UNCHANGED <<contacts, agentRequests, answered, blocks, sends, notices>>

\* The update is by id and sender: it does not look at the status again.
MarkSent(c) ==
    LET call == relayCalls[c] IN
    /\ At(c, "send", "update")
    /\ agentRequests' = [agentRequests EXCEPT ![call.request].status = "sent",
                                              ![call.request].to = Recipient(call.request)]
    /\ sends' = sends \cup {[request |-> call.request, barred |-> call.barred]}
    /\ Go(c, "notify")
    /\ UNCHANGED <<contacts, answered, blocks, notices>>

\* The approval row, then the recipient's notification.
NotifySent(c) ==
    /\ At(c, "send", "notify")
    /\ notified' = notified \cup {relayCalls[c].request}
    /\ Finish(c)
    /\ UNCHANGED <<contacts, agentRequests, answered, blocks, sends, messages>>

\* cancelRelayRequest: one update, from any status.
CancelRequest(u, r) ==
    /\ agentRequests[r].from = u
    /\ SetStatus(r, "canceled")
    /\ UNCHANGED <<contacts, answered, blocks, relayCalls, sends, notices>>

-----------------------------------------------------------------------------
(* decideIncomingRelayRequest. *)

StartDecisionAnyStatus(c, u, r, d) ==                               \* mutant
    /\ agentRequests[r].to = u
    /\ agentRequests[r].status # "canceled"
    /\ Begin(c, [op |-> "decide", pc |-> "update", user |-> u, request |-> r, decision |-> d])
    /\ UNCHANGED <<contacts, agentRequests, answered, blocks, sends, notices>>

StartDecision(c, u, r, d) ==
    /\ agentRequests[r].to = u
    /\ agentRequests[r].status = "sent"
    /\ Begin(c, [op |-> "decide", pc |-> "update", user |-> u, request |-> r, decision |-> d])
    /\ UNCHANGED <<contacts, agentRequests, answered, blocks, sends, notices>>

Decide(c) ==
    /\ At(c, "decide", "update")
    /\ SetStatus(relayCalls[c].request, "decided")
    /\ Go(c, "approval")
    /\ UNCHANGED <<contacts, answered, blocks, sends, notices>>

RecordDecision(c) ==
    LET call == relayCalls[c] IN
    /\ At(c, "decide", "approval")
    /\ answered' = answered \cup {call.request}
    /\ IF call.decision = "block" THEN Go(c, "block") ELSE Finish(c)
    /\ UNCHANGED <<contacts, agentRequests, blocks, sends, notices>>

BlockSender(c) ==
    LET call == relayCalls[c] IN
    /\ At(c, "decide", "block")
    /\ blocks' = blocks \cup {<<call.user, agentRequests[call.request].from>>}
    /\ Finish(c)
    /\ UNCHANGED <<contacts, agentRequests, answered, sends, notices>>

-----------------------------------------------------------------------------
(* addRelayMessage by the sender: it looks at neither status nor blocks. The   *)
(* recipient may write one too, which notifies the sender alone.              *)

\* What the check reads, whose request it is, never changes.
AddMessage(c, u, r) ==
    /\ agentRequests[r].from = u
    /\ messages' = messages \cup {r}
    /\ Begin(c, [op |-> "message", pc |-> "notify", request |-> r])
    /\ UNCHANGED <<contacts, agentRequests, answered, blocks, sends, notified>>

NotifyMessage(c) ==
    /\ At(c, "message", "notify")
    /\ notified' = notified \cup {relayCalls[c].request}
    /\ Finish(c)
    /\ UNCHANGED <<contacts, agentRequests, answered, blocks, sends, messages>>

-----------------------------------------------------------------------------
\* A statement fails, or the process dies: the call ends where it is.
RelayCallDies(c) ==
    /\ relayCalls[c] # NoCall
    /\ Finish(c)
    /\ UNCHANGED <<contacts, agentRequests, answered, blocks, sends, notices>>

RelayNext ==
    \/ \E u \in Users, user \in Users : user # u /\ AddContact(u, user)
    \/ \E u \in Users, r \in DOMAIN agentRequests : CancelRequest(u, r)
    \/ \E u \in Users, k \in DOMAIN contacts, usable \in BOOLEAN :
         SetContactUsable(u, k, usable)
    \/ \E c \in RelayCalls, u \in Users :
         \/ \E k \in DOMAIN contacts : StartBlockContact(c, u, k)
         \/ \E type \in RelayTypes, k \in {0} \cup DOMAIN contacts,
               user \in Users \ {u} : StartDraft(c, u, type, k, user)
         \/ \E r \in DOMAIN agentRequests : StartSend(c, u, r) \/ AddMessage(c, u, r)
         \/ \E r \in DOMAIN agentRequests, d \in Decisions : StartDecision(c, u, r, d)
    \/ \E c \in RelayCalls :
         \/ BlockContact(c) \/ CheckRate(c)
         \/ ResolveContact(c) \/ ResolveAddress(c) \/ InsertRequest(c)
         \/ CheckSendContact(c) \/ CheckBlocks(c) \/ MarkSent(c) \/ NotifySent(c)
         \/ NotifyMessage(c)
         \/ Decide(c) \/ RecordDecision(c) \/ BlockSender(c)
         \/ RelayCallDies(c)

RelaySpec == RelayInit /\ [][RelayNext]_relayVars

-----------------------------------------------------------------------------
(* Properties. *)

\* Whatever a receiver decided or shared answers a request its sender approved
\* for sending, and no team update was ever sent: however the cancels, sends
\* and decisions of several calls overtake one another, nothing is shared on a
\* draft (approveRelaySend, decideIncomingRelayRequest).
ShareFollowsSend ==
    LET wasSent == {s.request : s \in sends}
        decided == {r \in DOMAIN agentRequests : agentRequests[r].status = "decided"}
    IN /\ decided \cup answered \subseteq wasSent
       /\ \A r \in wasSent : agentRequests[r].type # "team_update_request"

\* A send that began after the recipient had blocked the sender does not take
\* place, also through another contact of the same recipient; only a send already
\* under way may overtake the block (isBlockedByRecipient, agentBlocks).
BlockedNeverSends == \A s \in sends : ~s.barred

\* The recipient is notified of a request once it was sent, or by a message its
\* sender wrote on it: a draft, and the calls that make and refuse one, notify
\* nobody else. A message may be written on a draft, which the recipient can read
\* before it is sent, and to a recipient who has blocked its sender.
NoticesHaveReason == notified \subseteq messages \cup {s.request : s \in sends}

\* All three: a decision and what it shares follow an approved send, no send passes a
\* block that was there when it began, and a recipient is notified by such a send, or
\* by a message, which needs neither the approval nor the absence of a block.
RelayIsAgreed == ShareFollowsSend /\ BlockedNeverSends /\ NoticesHaveReason

=============================================================================
