---------------------------- MODULE SubagentQueue ----------------------------
(***************************************************************************)
(* The durable subagent queue (src/subagents): task rows in Postgres that  *)
(* several Node processes claim with a lease, execute, retry, expire and   *)
(* finish, while the API process cancels tasks and ends sessions.          *)
(*                                                                         *)
(* One action is one statement of a handler between two awaits.  A claim   *)
(* draws a fresh lease token and increments attempt_count in one UPDATE,   *)
(* so the token of attempt n of a task is written n here, and 0 is NULL.   *)
(***************************************************************************)
EXTENDS Naturals, FiniteSets

CONSTANTS
    Tasks,          \* subagent_tasks rows
    Procs,          \* processes that run the worker loop
    ApiProc,        \* the one that also serves cancel requests and sessions
    Sessions, NoSession,
    MaxAttempts,    \* task.maxAttempts
    \* bounds of the model, not of the code:
    MaxClaims,      \* claims of one task
    MaxStalls,      \* leases that expire under a live worker
    MaxCrashes, MaxFaults, MaxCancels,
    MaxMishaps      \* all four kinds together

ASSUME ConstantsAssumption ==
    /\ ApiProc \in Procs
    /\ NoSession \notin Sessions
    /\ MaxAttempts \in Nat \ {0}
    /\ MaxClaims \in Nat
    /\ {MaxStalls, MaxCrashes, MaxFaults, MaxCancels, MaxMishaps} \subseteq Nat

VARIABLES
    \* columns of a task row; held says that locked_until is in the future,
    \* due that next_run_at is not
    status, lease, held, due, attempts,
    home, denied,   \* its session, and whether evaluateSubagentPolicy refuses it
    \* executeClaimedTask of attempt n of a task: where it waits, in which
    \* process, whether its signal is aborted, whether it is in its catch
    \* block, and the status it is about to write
    pc, proc, aborted, caught, verdict,
    controller,     \* per process: the controllers map, task -> attempt or 0
    reports,        \* subagent_reports rows of a task
    session,        \* sessions.status
    ending,         \* how far the API process is in ending a session
    cancelling,     \* cancel requests that signalled and have not written
    \* history: leases of a task the reclaim script took back, and row writes
    \* by an attempt without the lease or under one about to finish
    reclaims, strays,
    stalls, crashes, faults, cancels

row == <<status, lease, held, due, attempts>>
exec == <<pc, proc, aborted, caught, verdict>>
env == <<home, denied, session, ending, cancelling>>
bounded == <<stalls, crashes, faults, cancels>>
counts == <<reclaims, strays, bounded>>
vars == <<row, exec, controller, reports, env, counts>>

Claims == 1..MaxClaims
Statuses == {"queued", "running", "completed", "failed", "canceled", "expired", "suppressed"}
Settled == {"completed", "failed", "canceled", "expired", "suppressed"}
Steps == {"start", "work", "canWriteTask", "canWriteSession", "leaseCheck", "report",
          "finish", "retry", "requeued", "expireRead", "expireWrite", "cancelWrite", "suppress", "close"}

Live(t, n) == pc[t][n] \in Steps
\* The try block: a controller is registered and the timeout timer runs.
InTry(t, n) == Live(t, n) /\ pc[t][n] # "start"
\* Not past a retry UPDATE, after which only its event, its attempt record and
\* its finally block are left.
Executing(t, n) == Live(t, n) /\ pc[t][n] # "requeued"
TasksOf(s) == {t \in Tasks : status[t] # "absent" /\ home[t] = s}

Init ==
    /\ status = [t \in Tasks |-> "absent"]
    /\ lease = [t \in Tasks |-> 0]
    /\ held = [t \in Tasks |-> FALSE]
    /\ due = [t \in Tasks |-> FALSE]
    /\ attempts = [t \in Tasks |-> 0]
    /\ home = [t \in Tasks |-> NoSession]
    /\ denied = [t \in Tasks |-> FALSE]
    /\ pc = [t \in Tasks |-> [n \in Claims |-> "none"]]
    /\ proc = [t \in Tasks |-> [n \in Claims |-> ApiProc]]
    /\ aborted = [t \in Tasks |-> [n \in Claims |-> FALSE]]
    /\ caught = [t \in Tasks |-> [n \in Claims |-> FALSE]]
    /\ verdict = [t \in Tasks |-> [n \in Claims |-> "failed"]]
    /\ controller = [p \in Procs |-> [t \in Tasks |-> 0]]
    /\ reports = [t \in Tasks |-> 0]
    /\ session = [s \in Sessions |-> "active"]
    /\ ending = [s \in Sessions |-> "no"]
    /\ cancelling = {}
    /\ reclaims = [t \in Tasks |-> 0]
    /\ strays = [t \in Tasks |-> 0]
    /\ stalls = 0 /\ crashes = 0 /\ faults = 0 /\ cancels = 0

-----------------------------------------------------------------------------
(* Row updates every writer shares.  A definition marked "mutant" is a      *)
(* faulty variant of the one after it; no action uses it, and README.md     *)
(* says which property fails with it.                                       *)

\* One more mishap stays within the model's bounds.
MayFail(count, limit) == count < limit /\ stalls + crashes + faults + cancels < MaxMishaps

\* A write to the row by attempt n (0: by no attempt) that is a stray: the
\* attempt has no lease, or another one is between its lease check and its
\* final UPDATE.
Stray(t, n) ==
    \/ n # 0 /\ lease[t] # n
    \/ lease[t] \notin {0, n} /\ pc[t][lease[t]] \in {"report", "finish"}

\* One UPDATE of the rows T: a new status, and lockedBy, lockedUntil and
\* leaseToken set to NULL.  next_run_at is read in queued rows alone, and
\* every UPDATE to queued writes it.
WriteRows(T, n, st, isDue) ==
    /\ status' = [t \in Tasks |-> IF t \in T THEN st ELSE status[t]]
    /\ lease' = [t \in Tasks |-> IF t \in T THEN 0 ELSE lease[t]]
    /\ held' = [t \in Tasks |-> IF t \in T THEN FALSE ELSE held[t]]
    /\ due' = [t \in Tasks |-> IF t \in T THEN isDue ELSE due[t]]
    /\ strays' = [t \in Tasks |-> IF t \in T /\ Stray(t, n) THEN strays[t] + 1 ELSE strays[t]]
    /\ UNCHANGED attempts

GoTo(t, n, step) == pc' = [pc EXCEPT ![t][n] = step]

\* The finally block: timers stop, the controller of the task, whichever
\* attempt registered it, leaves the map, and the attempt's locals are gone.
Done(t, n) ==
    /\ GoTo(t, n, "done")
    /\ proc' = [proc EXCEPT ![t][n] = ApiProc]
    /\ controller' = [controller EXCEPT ![proc[t][n]][t] = 0]
    /\ aborted' = [aborted EXCEPT ![t][n] = FALSE]
    /\ caught' = [caught EXCEPT ![t][n] = FALSE]
    /\ verdict' = [verdict EXCEPT ![t][n] = "failed"]

\* cancelTaskSignal in process p for the tasks T: the registered attempt of
\* each, if there is one, has its signal aborted.
Signal(p, T) ==
    aborted' = [t \in Tasks |-> [n \in Claims |->
                   IF t \in T /\ controller[p][t] = n THEN TRUE ELSE aborted[t][n]]]

RetryAllowedInclusive(n, retryable) == retryable /\ n <= MaxAttempts     \* mutant
RetryAllowed(n, retryable) == retryable /\ n < MaxAttempts

\* The catch block: an aborted attempt expires, a retryable error with
\* attempts left re-queues, any other ends in a failed report.
Catch(t, n, retryable) ==
    /\ caught' = [caught EXCEPT ![t][n] = TRUE]
    /\ verdict' = [verdict EXCEPT ![t][n] = "failed"]
    /\ GoTo(t, n, IF aborted[t][n] THEN "expireRead"
                  ELSE IF RetryAllowed(n, retryable) THEN "retry"
                  ELSE "leaseCheck")

-----------------------------------------------------------------------------
(* Enqueue and claim. *)

\* For any session, ended ones included, with a policy that allows the task's
\* kind or not.
Enqueue(t) ==
    /\ status[t] = "absent"
    /\ status' = [status EXCEPT ![t] = "queued"]
    /\ due' = [due EXCEPT ![t] = TRUE]
    /\ \E s \in Sessions \cup {NoSession}, d \in BOOLEAN :
          /\ home' = [home EXCEPT ![t] = s]
          /\ denied' = [denied EXCEPT ![t] = d]
    /\ UNCHANGED <<lease, held, attempts, exec, controller, reports, session, ending,
                   cancelling, counts>>

ClaimableRunning(t) == status[t] \in {"queued", "running"} /\ due[t] /\ ~held[t]     \* mutant
ClaimableUnexhausted(t) ==                                                         \* mutant
    status[t] = "queued" /\ due[t] /\ ~held[t] /\ attempts[t] < MaxAttempts
Claimable(t) == status[t] = "queued" /\ due[t] /\ ~held[t]

TokenPerTask(t) == 1                                                               \* mutant
FreshToken(t) == attempts[t] + 1

\* One row of claimDueSubagentTasks; a batch of several is several of these.
Claim(p, t) ==
    LET n == attempts[t] + 1 IN
    /\ Claimable(t)
    /\ n <= MaxClaims
    /\ status' = [status EXCEPT ![t] = "running"]
    /\ lease' = [lease EXCEPT ![t] = FreshToken(t)]
    /\ held' = [held EXCEPT ![t] = TRUE]
    /\ attempts' = [attempts EXCEPT ![t] = n]
    /\ pc' = [pc EXCEPT ![t][n] = "start"]
    /\ proc' = [proc EXCEPT ![t][n] = p]
    /\ UNCHANGED <<due, aborted, caught, verdict, controller, reports, env, counts>>

BackoffElapses(t) ==
    /\ status[t] = "queued" /\ ~due[t]
    /\ due' = [due EXCEPT ![t] = TRUE]
    /\ UNCHANGED <<status, lease, held, attempts, exec, controller, reports, env, counts>>

-----------------------------------------------------------------------------
(* Execution of a claimed task. *)

\* recordAttemptStarted has returned: register the controller (over an older
\* one of the task), start the timers, evaluate the policy.
Begin(t, n) ==
    /\ pc[t][n] = "start"
    /\ controller' = [controller EXCEPT ![proc[t][n]][t] = n]
    /\ IF denied[t]
       THEN GoTo(t, n, "leaseCheck") /\ verdict' = [verdict EXCEPT ![t][n] = "suppressed"]
       ELSE GoTo(t, n, "work") /\ UNCHANGED verdict
    /\ UNCHANGED <<row, proc, aborted, caught, reports, env, counts>>

FinalStatusVerbatim(reported) == reported                                          \* mutant
FinalStatus(reported) == IF reported = "completed" THEN "completed" ELSE "failed"

\* The worker function returned a report.
Return(t, n, reported) ==
    /\ pc[t][n] = "work"
    /\ verdict' = [verdict EXCEPT ![t][n] =
                      IF aborted[t][n] THEN "failed" ELSE FinalStatus(reported)]
    /\ GoTo(t, n, IF aborted[t][n] THEN "expireRead" ELSE "canWriteTask")
    /\ UNCHANGED <<row, proc, aborted, caught, controller, reports, env, counts>>

Throw(t, n, retryable) ==
    /\ pc[t][n] = "work"
    /\ Catch(t, n, retryable)
    /\ UNCHANGED <<row, proc, aborted, controller, reports, env, counts>>

\* canSubagentWrite, first SELECT.
CanWriteTask(t, n) ==
    /\ pc[t][n] = "canWriteTask"
    /\ GoTo(t, n, IF status[t] \in {"canceled", "expired", "suppressed"} THEN "suppress"
                  ELSE IF home[t] = NoSession THEN "leaseCheck"
                  ELSE "canWriteSession")
    /\ UNCHANGED <<row, proc, aborted, caught, verdict, controller, reports, env, counts>>

\* canSubagentWrite, second SELECT.
CanWriteSession(t, n) ==
    /\ pc[t][n] = "canWriteSession"
    /\ GoTo(t, n, IF session[home[t]] \in {"active", "saved"} THEN "leaseCheck" ELSE "suppress")
    /\ UNCHANGED <<row, proc, aborted, caught, verdict, controller, reports, env, counts>>

LeaseCanCompleteAnyToken(t, n) == status[t] = "running"                            \* mutant
LeaseCanComplete(t, n) == status[t] = "running" /\ lease[t] = n

LeaseCheck(t, n) ==
    /\ pc[t][n] = "leaseCheck"
    /\ GoTo(t, n, IF LeaseCanComplete(t, n) THEN "report" ELSE "close")
    /\ UNCHANGED <<row, proc, aborted, caught, verdict, controller, reports, env, counts>>

PersistReport(t, n) ==
    /\ pc[t][n] = "report"
    /\ reports' = [reports EXCEPT ![t] = @ + 1]
    /\ GoTo(t, n, "finish")
    /\ UNCHANGED <<row, proc, aborted, caught, verdict, controller, env, counts>>

\* The final UPDATE matches the id alone.
Finish(t, n) ==
    /\ pc[t][n] = "finish"
    /\ WriteRows({t}, n, verdict[t][n], TRUE)
    /\ GoTo(t, n, "close")
    /\ UNCHANGED <<proc, aborted, caught, verdict, controller, reports, env, reclaims, bounded>>

\* The retry UPDATE matches the id alone.  The attempt lives on while the row
\* waits in the queue, and when its backoff is short, while the next one runs.
Retry(t, n) ==
    /\ pc[t][n] = "retry"
    /\ WriteRows({t}, n, "queued", FALSE)
    /\ GoTo(t, n, "requeued")
    /\ UNCHANGED <<proc, aborted, caught, verdict, controller, reports, env, reclaims, bounded>>

ExpireRead(t, n) ==
    /\ pc[t][n] = "expireRead"
    /\ GoTo(t, n, IF status[t] = "canceled" THEN "cancelWrite" ELSE "expireWrite")
    /\ UNCHANGED <<row, proc, aborted, caught, verdict, controller, reports, env, counts>>

ExpireWrite(t, n) ==
    /\ pc[t][n] \in {"expireWrite", "cancelWrite"}
    /\ WriteRows({t}, n, IF pc[t][n] = "cancelWrite" THEN "canceled" ELSE "expired", TRUE)
    /\ GoTo(t, n, "close")
    /\ UNCHANGED <<proc, aborted, caught, verdict, controller, reports, env, reclaims, bounded>>

Suppress(t, n) ==
    /\ pc[t][n] = "suppress"
    /\ Signal(proc[t][n], {t})
    /\ WriteRows({t}, n, "suppressed", TRUE)
    /\ GoTo(t, n, "close")
    /\ UNCHANGED <<proc, caught, verdict, controller, reports, env, reclaims, bounded>>

\* recordAttemptFinished (after a retry the event before it), then the finally
\* block.
Close(t, n) ==
    /\ pc[t][n] \in {"close", "requeued"}
    /\ Done(t, n)
    /\ UNCHANGED <<row, reports, env, counts>>

\* A statement of the attempt is rejected by the database: inside the try
\* block the catch block runs, before or in it the attempt is abandoned.
Fault(t, n) ==
    /\ Live(t, n) /\ pc[t][n] # "work"
    /\ MayFail(faults, MaxFaults)
    /\ faults' = faults + 1
    /\ \/ /\ InTry(t, n) /\ ~caught[t][n]
          /\ Catch(t, n, TRUE)
          /\ UNCHANGED <<proc, aborted, controller>>
       \/ /\ InTry(t, n) /\ caught[t][n]
          /\ Done(t, n)
       \/ /\ ~InTry(t, n)
          /\ GoTo(t, n, "done")
          /\ proc' = [proc EXCEPT ![t][n] = ApiProc]
          /\ UNCHANGED <<aborted, caught, verdict, controller>>
    /\ UNCHANGED <<row, reports, env, reclaims, strays, stalls, crashes, cancels>>

\* The timeout timer fires, while anything still looks at the signal.
Timeout(t, n) ==
    /\ InTry(t, n) /\ Executing(t, n) /\ ~aborted[t][n]
    /\ aborted' = [aborted EXCEPT ![t][n] = TRUE]
    /\ UNCHANGED <<row, pc, proc, caught, verdict, controller, reports, env, counts>>

-----------------------------------------------------------------------------
(* Leases. *)

HeartbeatsAnyToken(t, n) == status[t] = "running"                                  \* mutant
Heartbeats(t, n) == status[t] = "running" /\ lease[t] = n

Heartbeat(t, n) ==
    /\ InTry(t, n)
    /\ Heartbeats(t, n)
    /\ held' = [held EXCEPT ![t] = TRUE]
    /\ UNCHANGED <<status, lease, due, attempts, exec, controller, reports, env, counts>>

HolderAlive(t) == \E n \in Claims : lease[t] = n /\ Live(t, n)

\* locked_until passes: always when nobody heartbeats, within MaxStalls when
\* the holder's process is slow or cut off.
LeaseExpires(t) ==
    /\ held[t]
    /\ \/ ~HolderAlive(t) /\ UNCHANGED stalls
       \/ HolderAlive(t) /\ MayFail(stalls, MaxStalls) /\ stalls' = stalls + 1
    /\ held' = [held EXCEPT ![t] = FALSE]
    /\ UNCHANGED <<status, lease, due, attempts, exec, controller, reports, env,
                   reclaims, strays, crashes, faults, cancels>>

LeaseOverAnyStatus(t) == status[t] # "absent" /\ ~held[t]                          \* mutant
LeaseOver(t) == status[t] = "running" /\ ~held[t]

\* The reclaim script, one UPDATE over every running row with a past lease.
Reclaim ==
    LET T == {t \in Tasks : LeaseOver(t)} IN
    /\ T # {}
    /\ WriteRows(T, 0, "queued", TRUE)
    /\ reclaims' = [t \in Tasks |-> IF t \in T THEN reclaims[t] + 1 ELSE reclaims[t]]
    /\ UNCHANGED <<exec, controller, reports, env, bounded>>

\* Process p dies: its attempts stop where they are, its maps are lost, and
\* with the API process every session in its live map and every request.
Crash(p) ==
    /\ MayFail(crashes, MaxCrashes)
    /\ crashes' = crashes + 1
    /\ LET Lost(t, n) == Live(t, n) /\ proc[t][n] = p IN
       /\ pc' = [t \in Tasks |-> [n \in Claims |-> IF Lost(t, n) THEN "done" ELSE pc[t][n]]]
       /\ aborted' = [t \in Tasks |-> [n \in Claims |-> IF Lost(t, n) THEN FALSE ELSE aborted[t][n]]]
       /\ caught' = [t \in Tasks |-> [n \in Claims |-> IF Lost(t, n) THEN FALSE ELSE caught[t][n]]]
       /\ verdict' = [t \in Tasks |-> [n \in Claims |->
                         IF Lost(t, n) THEN "failed" ELSE verdict[t][n]]]
       /\ proc' = [t \in Tasks |-> [n \in Claims |->
                      IF Lost(t, n) THEN ApiProc ELSE proc[t][n]]]
    /\ controller' = [controller EXCEPT ![p] = [t \in Tasks |-> 0]]
    /\ IF p = ApiProc
       THEN /\ cancelling' = {}
            /\ ending' = [s \in Sessions |-> "lost"]
       ELSE UNCHANGED <<cancelling, ending>>
    /\ UNCHANGED <<row, reports, home, denied, session, reclaims, strays, stalls, faults, cancels>>

-----------------------------------------------------------------------------
(* Cancel requests and the end of sessions, in the API process. *)

\* The row was found; the signal goes out before the UPDATE is sent.
CancelSignal(t) ==
    /\ status[t] # "absent" /\ t \notin cancelling
    /\ MayFail(cancels, MaxCancels)
    /\ cancels' = cancels + 1
    /\ Signal(ApiProc, {t})
    /\ cancelling' = cancelling \cup {t}
    /\ UNCHANGED <<row, pc, proc, caught, verdict, controller, reports, home, denied, session,
                   ending, reclaims, strays, stalls, crashes, faults>>

\* The UPDATE to canceled, whatever the status is by now.
CancelWrite(t) ==
    /\ t \in cancelling
    /\ WriteRows({t}, 0, "canceled", TRUE)
    /\ cancelling' = cancelling \ {t}
    /\ UNCHANGED <<exec, controller, reports, home, denied, session, ending, reclaims, bounded>>

SaveSession(s) ==
    /\ session[s] = "active" /\ ending[s] = "no"
    /\ session' = [session EXCEPT ![s] = "saved"]
    /\ ending' = [ending EXCEPT ![s] = "done"]
    /\ UNCHANGED <<row, exec, controller, reports, home, denied, cancelling, counts>>

\* cancelSubagentsForSession, the signals and the UPDATE; an interrupt with
\* discard_on_stop runs it twice.
SuppressTasks(s) ==
    /\ session[s] = "active" /\ ending[s] \in {"no", "purged"}
    /\ Signal(ApiProc, TasksOf(s))
    /\ WriteRows(TasksOf(s), 0, "suppressed", TRUE)
    /\ ending' = [ending EXCEPT ![s] = "suppressed"]
    /\ UNCHANGED <<pc, proc, caught, verdict, controller, reports, home, denied, session,
                   cancelling, reclaims, bounded>>

PurgeReports(s) ==
    /\ ending[s] = "suppressed"
    /\ reports' = [t \in Tasks |-> IF t \in TasksOf(s) THEN 0 ELSE reports[t]]
    /\ ending' = [ending EXCEPT ![s] = "purged"]
    /\ UNCHANGED <<row, exec, controller, home, denied, session, cancelling, counts>>

\* The transaction of a discarding stop: it suppresses again, leaving the
\* lease columns alone, and deletes the reports again.
CommitDiscard(s) ==
    /\ ending[s] = "purged"
    /\ session' = [session EXCEPT ![s] = "discarded"]
    /\ ending' = [ending EXCEPT ![s] = "done"]
    /\ status' = [t \in Tasks |-> IF t \in TasksOf(s) THEN "suppressed" ELSE status[t]]
    /\ reports' = [t \in Tasks |-> IF t \in TasksOf(s) THEN 0 ELSE reports[t]]
    /\ UNCHANGED <<lease, held, due, attempts, exec, controller, home, denied, cancelling,
                   counts>>

CommitInterrupt(s) ==
    /\ ending[s] = "purged"
    /\ session' = [session EXCEPT ![s] = "interrupted"]
    /\ ending' = [ending EXCEPT ![s] = "done"]
    /\ UNCHANGED <<row, exec, controller, reports, home, denied, cancelling, counts>>

-----------------------------------------------------------------------------
\* What executeClaimedTask does by itself, given time.
Step(t, n) ==
    \/ Begin(t, n)
    \/ \E v \in {"completed", "failed", "canceled", "suppressed"} : Return(t, n, v)
    \/ \E r \in BOOLEAN : Throw(t, n, r)
    \/ CanWriteTask(t, n) \/ CanWriteSession(t, n)
    \/ LeaseCheck(t, n) \/ PersistReport(t, n) \/ Finish(t, n)
    \/ Retry(t, n) \/ ExpireRead(t, n) \/ ExpireWrite(t, n)
    \/ Suppress(t, n) \/ Close(t, n)

EndSession(s) ==
    SaveSession(s) \/ SuppressTasks(s) \/ PurgeReports(s) \/ CommitDiscard(s) \/ CommitInterrupt(s)

Next ==
    \/ \E t \in Tasks : Enqueue(t) \/ BackoffElapses(t) \/ LeaseExpires(t)
                           \/ CancelSignal(t) \/ CancelWrite(t)
    \/ \E p \in Procs, t \in Tasks : Claim(p, t)
    \/ \E t \in Tasks, n \in Claims : Step(t, n) \/ Fault(t, n) \/ Timeout(t, n) \/ Heartbeat(t, n)
    \/ Reclaim
    \/ \E p \in Procs : Crash(p)
    \/ \E s \in Sessions : EndSession(s)

Spec == Init /\ [][Next]_vars

\* Worker loops poll forever, an attempt's awaits and its worker function
\* return, clocks advance.
WorkerFairness ==
    /\ \A t \in Tasks :
          /\ WF_vars(\E p \in Procs : Claim(p, t))
          /\ WF_vars(BackoffElapses(t))
          /\ WF_vars(LeaseExpires(t) /\ ~HolderAlive(t))
          /\ WF_vars(CancelWrite(t))
    /\ \A t \in Tasks, n \in Claims : WF_vars(Step(t, n))

\* No process of the repository runs the reclaim script on a timer.
WorkerSpec == Spec /\ WorkerFairness
\* An operator does.
OperatedSpec == WorkerSpec /\ WF_vars(Reclaim)

-----------------------------------------------------------------------------
(* Properties. *)

RowOK ==
    /\ status \in [Tasks -> Statuses \cup {"absent"}]
    /\ lease \in [Tasks -> Nat]
    /\ held \in [Tasks -> BOOLEAN]
    /\ due \in [Tasks -> BOOLEAN]
    /\ attempts \in [Tasks -> Nat]

ExecOK ==
    /\ pc \in [Tasks -> [Claims -> Steps \cup {"none", "done"}]]
    /\ proc \in [Tasks -> [Claims -> Procs]]
    /\ aborted \in [Tasks -> [Claims -> BOOLEAN]]
    /\ caught \in [Tasks -> [Claims -> BOOLEAN]]
    /\ verdict \in [Tasks -> [Claims -> {"completed", "failed", "suppressed"}]]

StoreOK ==
    /\ controller \in [Procs -> [Tasks -> Nat]]
    /\ reports \in [Tasks -> Nat]

EnvOK ==
    /\ home \in [Tasks -> Sessions \cup {NoSession}]
    /\ denied \in [Tasks -> BOOLEAN]
    /\ session \in [Sessions -> {"active", "saved", "interrupted", "discarded"}]
    /\ ending \in [Sessions -> {"no", "suppressed", "purged", "done", "lost"}]
    /\ cancelling \subseteq Tasks

CountsOK ==
    /\ reclaims \in [Tasks -> Nat] /\ strays \in [Tasks -> Nat]
    /\ stalls \in Nat /\ crashes \in Nat /\ faults \in Nat /\ cancels \in Nat

TypeOK == RowOK /\ ExecOK /\ StoreOK /\ EnvOK /\ CountsOK

\* A running row is leased, and the only token in use is that of the newest
\* attempt: no writer that matches the id alone can leave a row running
\* without an owner, or hand an old attempt its lease back.
RunningIsLeased ==
    \A t \in Tasks :
        /\ status[t] = "running" => lease[t] # 0
        /\ lease[t] # 0 => lease[t] = attempts[t]

\* Until a lease of it is taken back, one attempt of a task at a time may run
\* its worker function, store a report or write the row, and none while the row
\* waits in the queue: cancels, session ends, timeouts, retries and database
\* faults start no second execution.  An attempt that re-queued the row may
\* still live then, but it never comes back to the task: it is below
\* maxAttempts, older than the one that runs, and in its catch block for good.
OneExecutionUntilReclaim ==
    \A t \in Tasks :
        /\ reclaims[t] = 0 =>
              /\ \A m, n \in Claims : Executing(t, m) /\ Executing(t, n) => m = n
              /\ status[t] = "queued" => \A n \in Claims : ~Executing(t, n)
              /\ \A m, n \in Claims : Live(t, m) /\ Executing(t, n) => m <= n
        /\ \A n \in Claims : pc[t][n] = "requeued" => n < MaxAttempts /\ caught[t][n]

\* Each lease taken back allows one attempt above maxAttempts and no more,
\* although reclaiming does not look at attempt_count and retrying does not
\* look at the row.
AttemptsBounded ==
    \A t \in Tasks : attempts[t] <= MaxAttempts + reclaims[t]

\* A task has one report; each further one takes a stray write to its row, a
\* failed statement or a crash.  Taking the lease of a slow attempt back and
\* running the task again does not by itself duplicate the report.
ReportsBounded ==
    \A t \in Tasks : reports[t] <= 1 + strays[t] + faults + crashes

\* A task outside any session is settled as completed or failed only once its
\* report exists, so whoever reads that status can fetch the report, whatever
\* crashed in between.
SettledHasReport ==
    \A t \in Tasks :
        home[t] = NoSession /\ status[t] \in {"completed", "failed"} => reports[t] > 0

\* Both: a settled task has a report, and no more of them than its mishaps explain.
ReportsFit == ReportsBounded /\ SettledHasReport

\* Once every attempt of a settled task is over and no cancel is under way,
\* nothing runs the task again.
SettledStaysSettled ==
    [][\A t \in Tasks :
          status[t] \in Settled /\ (\A n \in Claims : ~Live(t, n))
              => status'[t] \in Settled]_vars

\* An expired lease whose holder is gone is never prolonged: only the holder
\* heartbeats, so an older attempt of the task cannot keep it from reclaim.
DeadLeaseNotProlonged ==
    [][\A t \in Tasks :
          lease[t] # 0 /\ lease'[t] = lease[t] /\ ~held[t] /\ ~HolderAlive(t)
              => ~held'[t]]_vars

\* The lease columns implement the abstract lease.
AbstractLease == INSTANCE TaskLease WITH holder <- lease, granted <- attempts
LeaseSpec == AbstractLease!Spec

\* Every queued task is settled in the end, through stalls, crashes, faults
\* and retries, when an operator runs the reclaim script again and again.
QueuedSettles ==
    \A t \in Tasks : status[t] = "queued" ~> status[t] \in Settled

\* docs/brain/subagent-worker-runbook.md: "Policy denial,
\* provider-not-configured, cancellation, and privacy suppression are
\* non-retryable."
CanceledNotRetried ==
    [][\A t \in Tasks : status[t] = "canceled" => status'[t] # "queued"]_vars
=============================================================================
