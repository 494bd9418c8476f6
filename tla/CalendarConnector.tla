------------------------- MODULE CalendarConnector -------------------------
(***************************************************************************)
(* The Google Calendar connector of one user (src/connectors/google-calendar): *)
(* an account is connected with a token in the vault, its events are fetched    *)
(* and replace the stored ones, and disconnecting deletes the token. Account,   *)
(* vault and events are three tables that no transaction spans.                 *)
(*                                                                         *)
(* Left out: what an event says, consent events and sync runs, previews (a sync  *)
(* that stores nothing), imported fixtures. Every fetch returns some event; each  *)
(* sync stores one copy of the calendar. "cut" as in the other stores: a call     *)
(* that failed half-way leaves its token behind.                              *)
(***************************************************************************)
EXTENDS Naturals, FiniteSets

CONSTANTS
    Accounts,
    ConnectorCalls,   \* calls that run at the same time
    MaxCopies         \* bound of the copies that are told apart

ASSUME ConnectorAssumption == MaxCopies \in Nat

VARIABLES
    accounts,         \* "none", "connected" or "disconnected"
    vault,            \* accounts whose token row exists
    copies,           \* copies of the calendar among an account's items
    connectorCalls,   \* what each call does
    leftToken         \* history: accounts of a call that failed before its end

connectorVars == <<accounts, vault, copies, connectorCalls, leftToken>>

NoConnectorCall == [pc |-> "none"]
ConnectorSteps == {"store", "account", "token", "refresh", "fetch", "delete", "insert",
                   "disconnect", "forget"}

ConnectorInit ==
    /\ accounts = [a \in Accounts |-> "none"]
    /\ vault = {} /\ leftToken = {}
    /\ copies = [a \in Accounts |-> 0]
    /\ connectorCalls = [c \in ConnectorCalls |-> NoConnectorCall]

ConnectorTypeOK ==
    /\ accounts \in [Accounts -> {"none", "connected", "disconnected"}]
    /\ vault \subseteq Accounts /\ leftToken \subseteq Accounts
    /\ copies \in [Accounts -> 0..MaxCopies]
    /\ connectorCalls \in [ConnectorCalls ->
         {NoConnectorCall} \cup [pc : ConnectorSteps, account : Accounts, token : BOOLEAN]]

-----------------------------------------------------------------------------
(* A definition marked "mutant" is a faulty variant of the one after it; no    *)
(* formula uses it.                                                          *)

Calling(c, pc) == connectorCalls[c].pc = pc
AccountOf(c) == connectorCalls[c].account
BeginCall(c, pc, a, token) ==
    /\ connectorCalls[c] = NoConnectorCall
    /\ connectorCalls' =
         [connectorCalls EXCEPT ![c] = [pc |-> pc, account |-> a, token |-> token]]
NextStep(c, pc) == connectorCalls' = [connectorCalls EXCEPT ![c].pc = pc]
EndCall(c) == connectorCalls' = [connectorCalls EXCEPT ![c] = NoConnectorCall]

InUse(a) == \E c \in ConnectorCalls : connectorCalls[c] # NoConnectorCall /\ AccountOf(c) = a

-----------------------------------------------------------------------------
(* completeGoogleCalendarOAuth: a new account row each time. *)

StartConnect(c, a) ==
    /\ accounts[a] = "none" /\ ~InUse(a) /\ a \notin leftToken
    /\ BeginCall(c, "store", a, FALSE)
    /\ UNCHANGED <<accounts, vault, copies, leftToken>>

StoreToken(c) ==
    /\ Calling(c, "store") /\ NextStep(c, "account")
    /\ vault' = vault \cup {AccountOf(c)}
    /\ UNCHANGED <<accounts, copies, leftToken>>

InsertAccount(c) ==
    /\ Calling(c, "account") /\ EndCall(c)
    /\ accounts' = [accounts EXCEPT ![AccountOf(c)] = "connected"]
    /\ UNCHANGED <<vault, copies, leftToken>>

-----------------------------------------------------------------------------
(* syncGoogleCalendar *)

StartSyncCalendar(c, a) ==
    /\ accounts[a] = "connected"
    /\ BeginCall(c, "token", a, TRUE)
    /\ UNCHANGED <<accounts, vault, copies, leftToken>>

\* A token that was deleted since ends the sync; an expired one is refreshed.
GetToken(c) ==
    /\ Calling(c, "token")
    /\ \/ AccountOf(c) \notin vault /\ EndCall(c)
       \/ AccountOf(c) \in vault /\ \E next \in {"refresh", "fetch"} : NextStep(c, next)
    /\ UNCHANGED <<accounts, vault, copies, leftToken>>

UpdateTokenInserts(c) ==                                         \* mutant
    /\ Calling(c, "refresh") /\ NextStep(c, "fetch")
    /\ vault' = vault \cup {AccountOf(c)}
    /\ UNCHANGED <<accounts, copies, leftToken>>

\* The UPDATE of a token row that is gone changes nothing, and is no error.
UpdateToken(c) ==
    /\ Calling(c, "refresh") /\ NextStep(c, "fetch")
    /\ UNCHANGED <<accounts, vault, copies, leftToken>>

Fetch(c) ==
    /\ Calling(c, "fetch") /\ NextStep(c, "delete")
    /\ UNCHANGED <<accounts, vault, copies, leftToken>>

DeleteItems(c) ==
    /\ Calling(c, "delete") /\ NextStep(c, "insert")
    /\ copies' = [copies EXCEPT ![AccountOf(c)] = 0]
    /\ UNCHANGED <<accounts, vault, leftToken>>

InsertItems(c) ==
    /\ Calling(c, "insert") /\ EndCall(c)
    /\ copies[AccountOf(c)] < MaxCopies
    /\ copies' = [copies EXCEPT ![AccountOf(c)] = @ + 1]
    /\ UNCHANGED <<accounts, vault, leftToken>>

-----------------------------------------------------------------------------
(* POST /connectors/accounts/:id/disconnect: what tokenRef was, the UPDATE that  *)
(* clears it, and the deletion of the token row.                             *)

StartDisconnect(c, a) ==
    /\ accounts[a] # "none"
    /\ BeginCall(c, "disconnect", a, accounts[a] = "connected")
    /\ UNCHANGED <<accounts, vault, copies, leftToken>>

Disconnect(c) ==
    /\ Calling(c, "disconnect")
    /\ accounts' = [accounts EXCEPT ![AccountOf(c)] = "disconnected"]
    /\ IF connectorCalls[c].token THEN NextStep(c, "forget") ELSE EndCall(c)
    /\ UNCHANGED <<vault, copies, leftToken>>

ForgetToken(c) ==
    /\ Calling(c, "forget") /\ EndCall(c)
    /\ vault' = vault \ {AccountOf(c)}
    /\ UNCHANGED <<accounts, copies, leftToken>>

\* A statement or Google fails, or the process dies. The deletion of a token that
\* fails is ignored, and nothing tries it again.
ConnectorFails(c) ==
    /\ connectorCalls[c] # NoConnectorCall /\ EndCall(c)
    /\ leftToken' = IF connectorCalls[c].pc \in {"account", "forget"}
                    THEN leftToken \cup {AccountOf(c)} ELSE leftToken
    /\ UNCHANGED <<accounts, vault, copies>>

ConnectorNext == \E c \in ConnectorCalls :
    \/ \E a \in Accounts : \/ StartConnect(c, a) \/ StartSyncCalendar(c, a)
                           \/ StartDisconnect(c, a)
    \/ StoreToken(c) \/ InsertAccount(c)
    \/ GetToken(c) \/ UpdateToken(c) \/ Fetch(c) \/ DeleteItems(c) \/ InsertItems(c)
    \/ Disconnect(c) \/ ForgetToken(c) \/ ConnectorFails(c)

ConnectorSpec == ConnectorInit /\ [][ConnectorNext]_connectorVars

-----------------------------------------------------------------------------
(* Properties *)

Step(a, pc) == \E c \in ConnectorCalls : Calling(c, pc) /\ AccountOf(c) = a

\* The vault keeps no token of an account that is not connected, but between two
\* steps of a connect or a disconnect, and after one of those that failed there.
\* A sync that refreshes a token while its account is disconnected does not bring
\* the token back.
TokensAreOwned == \A a \in vault :
    accounts[a] = "connected" \/ Step(a, "account") \/ Step(a, "forget") \/ a \in leftToken
=============================================================================
