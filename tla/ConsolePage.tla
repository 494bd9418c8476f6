----------------------------- MODULE ConsolePage -----------------------------
(***************************************************************************)
(* The Brain Console (services/voice-gateway/public/brain-console.js): a page     *)
(* where an operator creates test users, looks at what the backend keeps of them    *)
(* and decides on it. Every button awaits a call of its own, sent with the token    *)
(* there is at that moment; the panels, the fields of ids and the token are shared. *)
(*                                                                         *)
(* Panels: the profile review and the dashboard, which are loaded again after a      *)
(* decision and after a change of user, and that of the action proposals, which     *)
(* stands for those that are not, as its field of an id does for theirs. Left out:   *)
(* the skills' buttons, the event stream (NotificationStream), the event log, and     *)
(* calls that are lost, which leave the page as it is. The backend is what a call     *)
(* finds there when it is served.                                             *)
(***************************************************************************)
EXTENDS Naturals, SequencesExt

CONSTANTS
    ConsoleAccounts,     \* users there are, or that the page creates
    FactCount,           \* profile facts of each that are proposed at first
    Renderings,          \* facts a review renders: these, and what was decided before
    MaxProposalRows,     \* proposals the page makes for each (bound)
    MaxConsoleClicks,    \* what the operator does (bound)
    MaxAwaited           \* calls that are awaited when the operator does it (bound)

ASSUME ConsoleAssumption ==
    /\ FactCount \in Nat /\ Renderings \in Nat /\ FactCount <= Renderings
    /\ MaxProposalRows \in Nat /\ MaxConsoleClicks \in Nat /\ MaxAwaited \in Nat
    /\ "none" \notin ConsoleAccounts

VARIABLES
    consoleToken,     \* state.token: the account it is of, or "none"
    shownIn,          \* of each panel what it shows
    proposalField,    \* the proposal in the field of the actions, EmptyRow if empty
    consoleCalls,     \* the calls that are awaited, in the order they were sent
    rowStatus,        \* the backend: the status of each row, "none" for not inserted
    consoleClicks,    \* clicks so far
    decisions,        \* history: <<account, row, status>>, what was clicked for whom
    disturbed         \* history: what may leave a panel behind

consoleVars == <<consoleToken, shownIn, proposalField, consoleCalls, rowStatus,
                 consoleClicks, decisions, disturbed>>

Panels == {"review", "dashboard", "actions"}
FactRow(a, k) == <<"fact", a, k>>
FactRows == {"fact"} \X ConsoleAccounts \X (1..FactCount)
ProposalRows == {"proposal"} \X ConsoleAccounts \X (1..MaxProposalRows)
RowOwner(row) == row[2]
EmptyRow == <<"none", "none", 0>>

\* The answers of GET /human/profile/review and of GET /brain/dashboard hold these.
FactsOf(a) == [k \in 1..FactCount |-> rowStatus[FactRow(a, k)]]
NothingShown == [of |-> "none", facts |-> <<>>]

ConsoleInit ==
    /\ consoleToken = "none" /\ shownIn = [p \in Panels |-> NothingShown]
    /\ proposalField = EmptyRow /\ consoleCalls = <<>>
    /\ rowStatus = [row \in FactRows \cup ProposalRows |->
                      IF row \in FactRows THEN "proposed" ELSE "none"]
    /\ consoleClicks = 0 /\ decisions = {} /\ disturbed = {}

RowStates == {"none", "proposed", "confirmed", "approved", "rejected"}

ConsoleTypeOK ==
    /\ consoleToken \in ConsoleAccounts \cup {"none"}
    /\ \A p \in Panels : /\ shownIn[p].of \in ConsoleAccounts \cup {"none"}
                          /\ shownIn[p].facts \in Seq(RowStates)
    /\ proposalField \in ProposalRows \cup {EmptyRow}
    /\ rowStatus \in [FactRows \cup ProposalRows -> RowStates]
    /\ consoleClicks \in 0..MaxConsoleClicks
    /\ \A i \in DOMAIN consoleCalls : consoleCalls[i].phase \in {"sent", "ok", "refused"}

-----------------------------------------------------------------------------
(* Calls *)

\* fetchJson: the token is the one there is when the call is sent.
CallWith(token, kind, what) ==
    [kind |-> kind, what |-> what, token |-> token, phase |-> "sent", answer |-> <<>>,
     overtaken |-> FALSE]
NewCall(kind, what) == CallWith(consoleToken, kind, what)

At(i, kind, phase) == consoleCalls[i].kind = kind /\ consoleCalls[i].phase = phase

\* A review that is loaded after a decision is of kind "reload".
PanelOf(kind) == IF kind = "reload" THEN "review" ELSE kind
IsRead(i) == PanelOf(consoleCalls[i].kind) \in Panels

\* The backend serves call i, which one without a token or of another's row is not.
Serve(i, ok, answer) ==
    /\ consoleCalls[i].phase = "sent"
    /\ consoleCalls' = [consoleCalls EXCEPT ![i].phase = IF ok THEN "ok" ELSE "refused",
                                            ![i].answer = answer]
    /\ UNCHANGED <<consoleToken, shownIn, proposalField, consoleClicks, decisions, disturbed>>

\* Call i has returned, and its caller sends the calls of next.
Return(i, next) == consoleCalls' = RemoveAt(consoleCalls, i) \o next

\* Whatever becomes of the review, handleAction returns and the dashboard is loaded.
AfterRead(i) ==
    IF consoleCalls[i].kind = "reload" THEN <<NewCall("dashboard", EmptyRow)>> ELSE <<>>

-----------------------------------------------------------------------------
(* What the operator does *)

Click ==
    /\ Len(consoleCalls) <= MaxAwaited          \* bound
    /\ consoleClicks < MaxConsoleClicks /\ consoleClicks' = consoleClicks + 1      \* bound
    /\ UNCHANGED <<shownIn, proposalField, rowStatus>>

\* A token is pasted or cleared; nothing is loaded for it.
TypeToken(a) ==
    /\ Click /\ a # consoleToken /\ consoleToken' = a /\ disturbed' = disturbed \cup {"typed"}
    /\ UNCHANGED <<consoleCalls, decisions>>

ClickSends(calls) ==
    /\ Click /\ consoleCalls' = consoleCalls \o calls
    /\ UNCHANGED <<consoleToken, disturbed>>

\* handleAction of a button that loads a panel
Ask(panel) == ClickSends(<<NewCall(panel, EmptyRow)>>) /\ UNCHANGED decisions

CreateDevUser(a) == ClickSends(<<NewCall("user", a)>>) /\ UNCHANGED decisions

CreateProposal == ClickSends(<<NewCall("create", EmptyRow)>>) /\ UNCHANGED decisions

Decided(row, status) == decisions' = decisions \cup {<<consoleToken, row, status>>}

\* actionApprove and actionReject, of what is in the field
DecideProposal(status) ==
    /\ proposalField # EmptyRow
    /\ ClickSends(<<NewCall("decide", <<proposalField, status>>)>>)
    /\ Decided(proposalField, status)

\* Each fact that is rendered attaches a listener to every button there is, so that
\* a click is handled as many times as facts are rendered.
DecideFact(k, status) ==
    /\ k \in DOMAIN shownIn["review"].facts /\ shownIn["review"].facts[k] = "proposed"
    /\ LET row == FactRow(shownIn["review"].of, k) IN
         /\ ClickSends([n \in 1..Renderings |-> NewCall("decide", <<row, status>>)])
         /\ Decided(row, status)

-----------------------------------------------------------------------------
(* What the backend does *)

ServeRead(i) ==
    /\ IsRead(i) /\ UNCHANGED rowStatus
    /\ LET a == consoleCalls[i].token IN
         Serve(i, a # "none", IF a = "none" \/ consoleCalls[i].kind = "actions"
                              THEN <<>> ELSE FactsOf(a))

ServeCreate(i) ==
    /\ At(i, "create", "sent")
    /\ LET a == consoleCalls[i].token IN
         IF a = "none" THEN Serve(i, FALSE, EmptyRow) /\ UNCHANGED rowStatus
         ELSE \E n \in 1..MaxProposalRows :          \* bound
                LET row == <<"proposal", a, n>> IN
                /\ rowStatus[row] = "none" /\ \A m \in 1..n - 1 : rowStatus[<<"proposal", a, m>>] # "none"
                /\ Serve(i, TRUE, row) /\ rowStatus' = [rowStatus EXCEPT ![row] = "proposed"]

\* confirmProfileFact, rejectProfileFact and decideActionProposal update a row of the
\* token's user; only a proposal that was rejected cannot be approved any more.
ServeDecide(i) ==
    /\ At(i, "decide", "sent")
    /\ LET row == consoleCalls[i].what[1]  status == consoleCalls[i].what[2]
           ok == RowOwner(row) = consoleCalls[i].token
                 /\ ~(status = "approved" /\ rowStatus[row] = "rejected") IN
         /\ Serve(i, ok, row)
         /\ rowStatus' = IF ok THEN [rowStatus EXCEPT ![row] = status] ELSE rowStatus

-----------------------------------------------------------------------------
(* What the page does with the answers *)

\* The earlier reads of the same panel are overtaken.
Overtake(calls, i) == [j \in DOMAIN calls |->
    IF j < i /\ IsRead(j) /\ PanelOf(calls[j].kind) = PanelOf(calls[i].kind)
    THEN [calls[j] EXCEPT !.overtaken = TRUE] ELSE calls[j]]

ReadReturns(i) ==
    /\ IsRead(i) /\ consoleCalls[i].phase = "ok"
    /\ LET call == consoleCalls[i] IN
         /\ shownIn' = [shownIn EXCEPT ![PanelOf(call.kind)] =
                          [of |-> call.token, facts |-> call.answer]]
         /\ disturbed' = disturbed \cup (IF call.overtaken THEN {"overtaken"} ELSE {})
    /\ consoleCalls' = RemoveAt(Overtake(consoleCalls, i), i) \o AfterRead(i)
    /\ UNCHANGED <<consoleToken, proposalField, rowStatus, consoleClicks, decisions>>

\* The user is found or inserted by the email, createDevUser takes the new token, and
\* refreshAll loads the panels with it.
UserReturns(i) ==
    /\ At(i, "user", "sent") /\ consoleToken' = consoleCalls[i].what
    /\ Return(i, [n \in 1..2 |->
         CallWith(consoleToken', <<"dashboard", "review">>[n], EmptyRow)])
    /\ UNCHANGED <<shownIn, proposalField, rowStatus, consoleClicks, decisions, disturbed>>

ShowAction(i) == shownIn' = [shownIn EXCEPT !["actions"] =
                               [of |-> consoleCalls[i].token, facts |-> <<>>]]

\* createActionProposal and its like: the field, then the panel
CreateReturns(i) ==
    /\ At(i, "create", "ok") /\ proposalField' = consoleCalls[i].answer /\ ShowAction(i)
    /\ Return(i, <<>>)
    /\ UNCHANGED <<consoleToken, rowStatus, consoleClicks, decisions, disturbed>>

\* confirmFact and rejectFact load the review when they return, and then the dashboard.
DecideReturns(i) ==
    /\ At(i, "decide", "ok")
    /\ IF consoleCalls[i].what[1] \in FactRows
       THEN Return(i, <<NewCall("reload", EmptyRow)>>) /\ UNCHANGED shownIn
       ELSE Return(i, <<>>) /\ ShowAction(i)
    /\ UNCHANGED <<consoleToken, proposalField, rowStatus, consoleClicks, decisions, disturbed>>

\* A call that is refused throws: what is after its await is not done.
CallThrows(i) ==
    /\ consoleCalls[i].phase = "refused" /\ Return(i, AfterRead(i))
    /\ UNCHANGED <<consoleToken, shownIn, proposalField, rowStatus, consoleClicks, decisions,
                   disturbed>>

ConsoleNext ==
    \/ \E a \in ConsoleAccounts \cup {"none"} : TypeToken(a)
    \/ \E p \in Panels : Ask(p)
    \/ \E a \in ConsoleAccounts : CreateDevUser(a)
    \/ CreateProposal \/ \E s \in {"approved", "rejected"} : DecideProposal(s)
    \/ \E k \in 1..FactCount, s \in {"confirmed", "rejected"} : DecideFact(k, s)
    \/ \E i \in DOMAIN consoleCalls :
         \/ ServeRead(i) \/ ServeCreate(i) \/ ServeDecide(i)
         \/ ReadReturns(i) \/ UserReturns(i) \/ CreateReturns(i) \/ DecideReturns(i)
         \/ CallThrows(i)

ConsoleSpec == ConsoleInit /\ [][ConsoleNext]_consoleVars

-----------------------------------------------------------------------------
(* Properties *)

ConsoleAtRest == consoleCalls = <<>>

\* However many users are created and facts decided meanwhile, and however often each
\* click is handled: once every call has returned, the review and the dashboard show
\* what the backend keeps of the user whose token is loaded, unless an answer came
\* after that of a later call or a token was typed.
PanelsAreCurrent ==
    ConsoleAtRest /\ disturbed = {} => \A p \in {"review", "dashboard"} :
      shownIn[p] = NothingShown \/ shownIn[p] = [of |-> consoleToken, facts |-> FactsOf(consoleToken)]

\* A row has a status that was clicked with the token of its owner, never with what an
\* earlier user left in a panel or a field; and once every call has returned, none
\* that was clicked so is undecided.
DecisionsAreOwn ==
    \A row \in FactRows \cup ProposalRows :
      LET own == {s \in RowStates : <<RowOwner(row), row, s>> \in decisions} IN
        /\ rowStatus[row] \in {"none", "proposed"} \cup own
        /\ ConsoleAtRest /\ own # {} => rowStatus[row] # "proposed"

ConsoleIsConsistent == PanelsAreCurrent /\ DecisionsAreOwn
=============================================================================
