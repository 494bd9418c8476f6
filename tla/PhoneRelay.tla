----------------------------- MODULE PhoneRelay -----------------------------
(***************************************************************************)
(* The Relay screens of the phone (apps/ios, RelayViewModel): one model holds    *)
(* the list of requests, the messages of the request that is open and one         *)
(* loading flag for all its tasks, which wait for the backend while the user       *)
(* opens another request, pulls to refresh or decides.                         *)
(*                                                                         *)
(* Left out: what a decision is (RelayRequests), texts, contacts, and that the    *)
(* list is made of two answers. Of a request the list shows its version, and the   *)
(* answer to a load has the versions of when the backend read them.             *)
(***************************************************************************)
EXTENDS Naturals, Functions

CONSTANTS
    RelayTasks,     \* tasks, each used once and in their order
    RelayRows,      \* requests
    MaxRowChanges   \* changes of all requests (bound)

ASSUME PhoneRelayAssumption == MaxRowChanges \in Nat /\ RelayTasks \subseteq Nat

VARIABLES
    rowVersion,     \* the requests at the backend; 0: not drafted
    listed,         \* the list: the version of each request
    opened,         \* the request whose view is open, or "none"
    messagesOf,     \* the request whose messages are shown, or "none"
    relayLoading,
    relayTasks,     \* what each task does, and for which request
    overlapped,     \* history: a load began while another one waited
    messagesLate    \* history: the last messages came for a view that was closed

phoneRelayVars == <<rowVersion, listed, opened, messagesOf, relayLoading, relayTasks,
                    overlapped, messagesLate>>

NoRow == "none"
Versions == [RelayRows -> Nat]
Unread == [r \in RelayRows |-> 0]
\* A task keeps the request it changes or opens, the version it changed it to, and
\* the answer to its load until it is shown; what failed is forgotten.
UnusedTask == [pc |-> "unused", row |-> NoRow, version |-> 0, read |-> Unread]

PhoneRelayInit ==
    /\ rowVersion = Unread /\ listed = Unread
    /\ opened = NoRow /\ messagesOf = NoRow /\ relayLoading = FALSE
    /\ relayTasks = [t \in RelayTasks |-> UnusedTask]
    /\ overlapped = FALSE /\ messagesLate = FALSE

PhoneRelayTypeOK ==
    /\ rowVersion \in Versions /\ listed \in Versions
    /\ {opened, messagesOf} \subseteq RelayRows \cup {NoRow}
    /\ {relayLoading, overlapped, messagesLate} \subseteq BOOLEAN
    /\ relayTasks \in [RelayTasks ->
         [pc : {"unused", "load", "loaded", "mutate", "mutated", "select", "done"},
          row : RelayRows \cup {NoRow}, version : Nat, read : Versions]]

-----------------------------------------------------------------------------
(* A definition marked "mutant" is a faulty variant of the one after it; no    *)
(* formula uses it.                                                          *)

TaskAt(t, pc) == relayTasks[t].pc = pc
TaskGo(t, pc) == relayTasks' = [relayTasks EXCEPT ![t].pc = pc, ![t].read = Unread]
TaskEnds(t) == relayTasks' = [relayTasks EXCEPT ![t] = [UnusedTask EXCEPT !.pc = "done"]]
TaskStart(t, pc, r) ==
    /\ TaskAt(t, "unused") /\ \A u \in RelayTasks : u < t => ~TaskAt(u, "unused")
    /\ relayTasks' = [relayTasks EXCEPT ![t].pc = pc, ![t].row = r]
Loading == {t \in RelayTasks : relayTasks[t].pc \in {"load", "loaded"}}
Deciding == {t \in RelayTasks : relayTasks[t].pc \in {"mutate", "mutated"}}

\* No task of the phone is about the request: it may be drafted.
Undrafted(r) == rowVersion[r] = 0 /\ \A t \in RelayTasks : relayTasks[t].row # r

\* The other side, or another device, drafts or changes a request.
RowChanges(r) ==
    /\ rowVersion[r] > 0 \/ Undrafted(r)
    /\ FoldFunction(+, 0, rowVersion) < MaxRowChanges
    /\ rowVersion' = [rowVersion EXCEPT ![r] = @ + 1]
    /\ UNCHANGED <<listed, opened, messagesOf, relayLoading, relayTasks, overlapped, messagesLate>>

\* load, when the list appears or is pulled.
StartLoad(t) ==
    /\ TaskStart(t, "load", NoRow)
    /\ relayLoading' = TRUE /\ overlapped' = (overlapped \/ Loading # {})
    /\ UNCHANGED <<rowVersion, listed, opened, messagesOf, messagesLate>>

LoadRead(t) ==
    /\ TaskAt(t, "load")
    /\ relayTasks' = [relayTasks EXCEPT ![t].pc = "loaded", ![t].read = rowVersion]
    /\ UNCHANGED <<rowVersion, listed, opened, messagesOf, relayLoading, overlapped, messagesLate>>

\* The answer replaces the list, also one that was read later.
LoadReturns(t) ==
    /\ TaskAt(t, "loaded") /\ TaskGo(t, "done")
    /\ listed' = relayTasks[t].read /\ relayLoading' = FALSE
    /\ UNCHANGED <<rowVersion, opened, messagesOf, overlapped, messagesLate>>

\* draft, approveSend, cancel and the decisions: a request is changed, then the list
\* is loaded.
StartMutate(t, r) ==
    /\ listed[r] > 0 \/ Undrafted(r)
    /\ TaskStart(t, "mutate", r)
    /\ relayLoading' = TRUE
    /\ UNCHANGED <<rowVersion, listed, opened, messagesOf, overlapped, messagesLate>>

Mutate(t) ==
    /\ TaskAt(t, "mutate")
    /\ LET r == relayTasks[t].row IN
         /\ FoldFunction(+, 0, rowVersion) < MaxRowChanges
         /\ rowVersion' = [rowVersion EXCEPT ![r] = @ + 1]
         /\ relayTasks' = [relayTasks EXCEPT ![t].pc = "mutated", ![t].version = rowVersion[r] + 1]
    /\ UNCHANGED <<listed, opened, messagesOf, relayLoading, overlapped, messagesLate>>

MutateReturnsAtOnce(t) ==                                        \* mutant
    /\ TaskAt(t, "mutated") /\ TaskGo(t, "done") /\ relayLoading' = FALSE
    /\ UNCHANGED <<rowVersion, listed, opened, messagesOf, overlapped, messagesLate>>

MutateReturns(t) ==
    /\ TaskAt(t, "mutated") /\ TaskGo(t, "load")
    /\ relayLoading' = TRUE /\ overlapped' = (overlapped \/ Loading # {})
    /\ UNCHANGED <<rowVersion, listed, opened, messagesOf, messagesLate>>

\* A call for the list or a decision is refused or lost.
RelayCallFails(t) ==
    /\ t \in Loading \cup Deciding /\ TaskEnds(t)
    /\ relayLoading' = FALSE
    /\ UNCHANGED <<rowVersion, listed, opened, messagesOf, overlapped, messagesLate>>

\* The view of a request appears, and its task selects it; when the view is closed
\* the task is canceled, which it learns when it runs next.
OpenRequest(t, r) ==
    /\ opened = NoRow /\ listed[r] # 0 /\ opened' = r
    /\ TaskStart(t, "select", r)
    /\ UNCHANGED <<rowVersion, listed, messagesOf, relayLoading, overlapped, messagesLate>>

CloseRequest ==
    /\ opened # NoRow /\ opened' = NoRow
    /\ UNCHANGED <<rowVersion, listed, messagesOf, relayLoading, relayTasks, overlapped, messagesLate>>

MessagesReturn(t) ==
    /\ TaskAt(t, "select") /\ TaskEnds(t)
    /\ messagesOf' = relayTasks[t].row
    /\ messagesLate' = (relayTasks[t].row # opened)
    /\ UNCHANGED <<rowVersion, listed, opened, relayLoading, overlapped>>

MessagesFailKept(t) ==                                           \* mutant
    /\ TaskAt(t, "select") /\ TaskEnds(t)
    /\ UNCHANGED <<rowVersion, listed, opened, messagesOf, relayLoading, overlapped, messagesLate>>

\* The request fails, or the task was canceled.
MessagesFail(t) ==
    /\ TaskAt(t, "select") /\ TaskEnds(t)
    /\ messagesOf' = NoRow /\ messagesLate' = FALSE
    /\ UNCHANGED <<rowVersion, listed, opened, relayLoading, overlapped>>

PhoneRelayNext ==
    \/ \E r \in RelayRows : RowChanges(r)
    \/ \E t \in RelayTasks :
         \/ StartLoad(t) \/ LoadRead(t) \/ LoadReturns(t) \/ RelayCallFails(t)
         \/ Mutate(t) \/ MutateReturns(t) \/ MessagesReturn(t) \/ MessagesFail(t)
         \/ \E r \in RelayRows : StartMutate(t, r) \/ OpenRequest(t, r)
    \/ CloseRequest

PhoneRelaySpec == PhoneRelayInit /\ [][PhoneRelayNext]_phoneRelayVars

-----------------------------------------------------------------------------
(* Properties *)

\* The messages below a request are its own, unless its select still waits, whose
\* answer replaces those of the last request, or they came for a view that had been
\* closed; once a decision is done with, the list shows what it made of the request,
\* unless two loads waited together; the spinner shows only while a call waits
\* (select, mutate, load).
RelayShowsItsOwn ==
    /\ opened # NoRow /\ messagesOf \notin {NoRow, opened} =>
         messagesLate \/ \E t \in RelayTasks : TaskAt(t, "select") /\ relayTasks[t].row = opened
    /\ \A t \in RelayTasks : TaskAt(t, "done") /\ relayTasks[t].version > 0 =>
         overlapped \/ listed[relayTasks[t].row] >= relayTasks[t].version
    /\ relayLoading => Loading \cup Deciding # {}
=============================================================================
