----------------------------- MODULE DailyTasks -----------------------------
(***************************************************************************)
(* Commitments of one user and the tasks proposed for them (src/daily): a     *)
(* call inserts a commitment and then looks for a task with its dedupe key,   *)
(* whoever's it is, before it inserts one; a session that is discarded or      *)
(* interrupted deletes its tasks and then its commitments. No key is unique in *)
(* the database.                                                            *)
(*                                                                         *)
(* The search ignores the status of a task, the inbox lists the open ones. All   *)
(* commitments here have one key. Left out: what a task says, follow-ups and      *)
(* meeting packs. "manual" stands for commitments of no session                 *)
(* (POST /daily/commitments/propose).                                         *)
(***************************************************************************)
EXTENDS Naturals

CONSTANTS
    DailySessions,
    DailyCalls     \* calls that run at the same time

Owners == DailySessions \cup {"manual"}

VARIABLES
    commitments,   \* owners with a commitment row
    tasks,         \* of an owner: its task rows in the inbox
    closed,        \* of an owner: its task rows that are done or dismissed
    dailyEnd,      \* of a session: "live", "saved" or "gone"
    dailyCalls,    \* what each call does
    standIn,       \* history: <<o, t>> when an open task of t was found, or made, for o
    unlisted,      \* history: owners for whom a closed task was found
    dailyCut       \* history: owners of a call that failed half-way

dailyVars == <<commitments, tasks, closed, dailyEnd, dailyCalls, standIn, unlisted, dailyCut>>

NoDaily == [pc |-> "none"]

DailyInit ==
    /\ commitments = {} /\ standIn = {} /\ unlisted = {} /\ dailyCut = {}
    /\ tasks = [o \in Owners |-> 0] /\ closed = [o \in Owners |-> 0]
    /\ dailyEnd = [s \in DailySessions |-> "live"]
    /\ dailyCalls = [c \in DailyCalls |-> NoDaily]

DailyTypeOK ==
    /\ commitments \cup unlisted \cup dailyCut \subseteq Owners
    /\ {tasks, closed} \subseteq [Owners -> Nat] /\ standIn \subseteq Owners \X Owners
    /\ dailyEnd \in [DailySessions -> {"live", "saved", "gone"}]
    /\ dailyCalls \in [DailyCalls -> {NoDaily}
         \cup [pc : {"insert", "search", "task", "deleteTasks", "deleteCommitments"},
               owner : Owners]]

-----------------------------------------------------------------------------
(* A definition marked "mutant" is a faulty variant of the one after it; no    *)
(* formula uses it.                                                          *)

DailyAt(c, pc) == dailyCalls[c].pc = pc
DailyStart(c, pc, o) ==
    /\ dailyCalls[c] = NoDaily
    /\ dailyCalls' = [dailyCalls EXCEPT ![c] = [pc |-> pc, owner |-> o]]
DailyGo(c, pc) == dailyCalls' = [dailyCalls EXCEPT ![c].pc = pc]
DailyDone(c) == dailyCalls' = [dailyCalls EXCEPT ![c] = NoDaily]

\* A text of the user, spoken or typed, in a live session or in none.
StartCommitment(c, o) ==
    /\ o \in DailySessions => dailyEnd[o] = "live"
    /\ DailyStart(c, "insert", o)
    /\ UNCHANGED <<commitments, tasks, closed, dailyEnd, standIn, unlisted, dailyCut>>

\* processSavedSessionDailyLife: the keys the session has already are left out.
SaveSession(c, s) ==
    /\ dailyEnd[s] = "live" /\ dailyEnd' = [dailyEnd EXCEPT ![s] = "saved"]
    /\ IF s \in commitments THEN UNCHANGED dailyCalls ELSE DailyStart(c, "insert", s)
    /\ UNCHANGED <<commitments, tasks, closed, standIn, unlisted, dailyCut>>

InsertCommitment(c) ==
    /\ DailyAt(c, "insert")
    /\ commitments' = commitments \cup {dailyCalls[c].owner}
    /\ DailyGo(c, "search")
    /\ UNCHANGED <<tasks, closed, dailyEnd, standIn, unlisted, dailyCut>>

\* createTaskFromCommitment: its SELECT, and then its INSERT.
FindTask(c) ==
    /\ DailyAt(c, "search")
    /\ \E t \in Owners :
         \/ /\ tasks[t] > 0 /\ standIn' = standIn \cup {<<dailyCalls[c].owner, t>>}
            /\ UNCHANGED unlisted
         \/ /\ closed[t] > 0 /\ unlisted' = unlisted \cup {dailyCalls[c].owner}
            /\ UNCHANGED standIn
    /\ DailyDone(c)
    /\ UNCHANGED <<commitments, tasks, closed, dailyEnd, dailyCut>>

FindNoTask(c) ==
    /\ DailyAt(c, "search") /\ \A t \in Owners : tasks[t] = 0 /\ closed[t] = 0
    /\ DailyGo(c, "task")
    /\ UNCHANGED <<commitments, tasks, closed, dailyEnd, standIn, unlisted, dailyCut>>

InsertTask(c) ==
    /\ DailyAt(c, "task")
    /\ LET o == dailyCalls[c].owner IN
         /\ tasks' = [tasks EXCEPT ![o] = tasks[o] + 1]
         /\ standIn' = standIn \cup {<<o, o>>}
    /\ DailyDone(c)
    /\ UNCHANGED <<commitments, closed, dailyEnd, unlisted, dailyCut>>

\* updateTaskStatus: the user is done with a task, or dismisses it, or accepts one.
CloseTask(o) ==
    /\ tasks[o] > 0
    /\ tasks' = [tasks EXCEPT ![o] = tasks[o] - 1]
    /\ closed' = [closed EXCEPT ![o] = closed[o] + 1]
    /\ UNCHANGED <<commitments, dailyEnd, dailyCalls, standIn, unlisted, dailyCut>>

ReopenTask(o) ==
    /\ closed[o] > 0
    /\ closed' = [closed EXCEPT ![o] = closed[o] - 1]
    /\ tasks' = [tasks EXCEPT ![o] = tasks[o] + 1]
    /\ UNCHANGED <<commitments, dailyEnd, dailyCalls, standIn, unlisted, dailyCut>>

-----------------------------------------------------------------------------
(* deleteDailySessionArtifacts *)

\* A session discarded or interrupted, or discarded after a save that failed.
StartDeletion(c, s) ==
    /\ dailyEnd[s] # "gone" /\ dailyEnd' = [dailyEnd EXCEPT ![s] = "gone"]
    /\ DailyStart(c, "deleteTasks", s)
    /\ UNCHANGED <<commitments, tasks, closed, standIn, unlisted, dailyCut>>

DeleteTasksOfKey(c) ==                                           \* mutant
    /\ DailyAt(c, "deleteTasks")
    /\ tasks' = [o \in Owners |-> 0] /\ closed' = [o \in Owners |-> 0]
    /\ DailyGo(c, "deleteCommitments")
    /\ UNCHANGED <<commitments, dailyEnd, standIn, unlisted, dailyCut>>

DeleteTasks(c) ==
    /\ DailyAt(c, "deleteTasks")
    /\ tasks' = [tasks EXCEPT ![dailyCalls[c].owner] = 0]
    /\ closed' = [closed EXCEPT ![dailyCalls[c].owner] = 0]
    /\ DailyGo(c, "deleteCommitments")
    /\ UNCHANGED <<commitments, dailyEnd, standIn, unlisted, dailyCut>>

DeleteCommitments(c) ==
    /\ DailyAt(c, "deleteCommitments")
    /\ commitments' = commitments \ {dailyCalls[c].owner}
    /\ DailyDone(c)
    /\ UNCHANGED <<tasks, closed, dailyEnd, standIn, unlisted, dailyCut>>

\* A statement fails or the process dies, once in a run (bound).
DailyFails(c) ==
    /\ dailyCalls[c] # NoDaily /\ dailyCut = {}
    /\ dailyCut' = {dailyCalls[c].owner}
    /\ DailyDone(c)
    /\ UNCHANGED <<commitments, tasks, closed, dailyEnd, standIn, unlisted>>

DailyNext ==
    \/ \E o \in Owners : CloseTask(o) \/ ReopenTask(o)
    \/ \E c \in DailyCalls :
         \/ \E o \in Owners : StartCommitment(c, o)
         \/ \E s \in DailySessions : SaveSession(c, s) \/ StartDeletion(c, s)
         \/ InsertCommitment(c) \/ FindTask(c) \/ FindNoTask(c) \/ InsertTask(c)
         \/ DeleteTasks(c) \/ DeleteCommitments(c) \/ DailyFails(c)

DailySpec == DailyInit /\ [][DailyNext]_dailyVars

-----------------------------------------------------------------------------
(* Properties *)

DailyBusy(o) == \E c \in DailyCalls : dailyCalls[c] # NoDaily /\ dailyCalls[c].owner = o

\* A commitment whose calls went well is in the inbox by some open task. It leaves with
\* the task found or made for it, and only when the user closed that one or its session,
\* perhaps another one, is gone; it never gets there when the task found was closed.
CommitmentHasTask == \A o \in commitments :
    (/\ ~DailyBusy(o) /\ o \notin dailyCut \cup unlisted
     /\ \A t \in Owners : tasks[t] = 0)
      => \E t \in Owners :
           /\ <<o, t>> \in standIn
           /\ closed[t] > 0 \/ (t \in DailySessions /\ dailyEnd[t] = "gone")
=============================================================================
