------------------------- MODULE SubagentQueueProofs -------------------------
(***************************************************************************)
(* Proofs about SubagentQueue for every set of tasks, processes and        *)
(* sessions, every maxAttempts and every bound on claims and mishaps:      *)
(*   TypeCorrect         the type invariant;                               *)
(*   LeaseCorrect        RunningIsLeased, from LeaseInv;                   *)
(*   LeaseImplemented    the lease columns refine TaskLease;               *)
(*   OneExecution        OneExecutionUntilReclaim, from ExecInv;           *)
(*   AttemptsCorrect     AttemptsBounded, from BudgetInv;                  *)
(*   ReportsCorrect      ReportsFit, from ReportInv;                       *)
(*   SettledForGood      SettledStaysSettled;                              *)
(*   DeadLeaseExpires    DeadLeaseNotProlonged.                            *)
(* Each invariant is proved from what a step does to the part of the state *)
(* it reads: StepRowEffect for the rows, StepQuiet for the attempts,       *)
(* StepReportEffect for the reports.                                       *)
(***************************************************************************)
EXTENDS SubagentQueue, FiniteSetTheorems, TLAPS

-----------------------------------------------------------------------------
(* Type correctness. *)

\* The row update every writer shares, with a status of the enumeration.
LEMMA WriteRowsType ==
    ASSUME TypeOK, NEW T, NEW n, NEW st \in Statuses, NEW isDue \in BOOLEAN,
           WriteRows(T, n, st, isDue)
    PROVE  RowOK' /\ strays' \in [Tasks -> Nat]
  <1>1. RowOK'
    BY DEF WriteRows, TypeOK, RowOK, Statuses
  <1>2. strays' \in [Tasks -> Nat]
    BY DEF WriteRows, TypeOK, CountsOK
  <1>. QED
    BY <1>1, <1>2

\* Aborting signals keeps the types.
LEMMA SignalType ==
    ASSUME TypeOK, NEW p \in Procs, NEW T, Signal(p, T)
    PROVE  aborted' \in [Tasks -> [Claims -> BOOLEAN]]
  BY DEF Signal, TypeOK, ExecOK

\* Moving one attempt keeps the types.
LEMMA GoToType ==
    ASSUME TypeOK, NEW t \in Tasks, NEW n \in Claims, NEW step \in Steps, GoTo(t, n, step)
    PROVE  pc' \in [Tasks -> [Claims -> Steps \cup {"none", "done"}]]
  BY DEF GoTo, TypeOK, ExecOK

\* The finally block keeps the types.
LEMMA DoneType ==
    ASSUME TypeOK, NEW t \in Tasks, NEW n \in Claims, Done(t, n)
    PROVE  ExecOK' /\ controller' \in [Procs -> [Tasks -> Nat]]
  <1>1. ExecOK'
    BY ConstantsAssumption DEF Done, GoTo, TypeOK, ExecOK
  <1>2. controller' \in [Procs -> [Tasks -> Nat]]
    BY DEF Done, TypeOK, ExecOK, StoreOK
  <1>. QED
    BY <1>1, <1>2

\* Every action of the workers, the API process and the script keeps the types.
LEMMA TypeStep == TypeOK /\ [Next]_vars => TypeOK'
  <1>. SUFFICES ASSUME TypeOK, [Next]_vars PROVE TypeOK'
    OBVIOUS
  <1>. USE ConstantsAssumption
           DEF TypeOK, Steps, Statuses, Claims, row, exec, env, bounded, counts
  <1>1. ASSUME NEW t \in Tasks, Enqueue(t) PROVE TypeOK'
    <2>1. RowOK'
      BY <1>1 DEF Enqueue, RowOK
    <2>2. EnvOK'
      <3>. PICK s \in Sessions \cup {NoSession}, d \in BOOLEAN :
              /\ home' = [home EXCEPT ![t] = s]
              /\ denied' = [denied EXCEPT ![t] = d]
        BY <1>1 DEF Enqueue
      <3>. QED
        BY <1>1 DEF Enqueue, EnvOK
    <2>. QED
      BY <1>1, <2>1, <2>2 DEF Enqueue, ExecOK, StoreOK, CountsOK
  <1>2. ASSUME NEW t \in Tasks, BackoffElapses(t) PROVE TypeOK'
    BY <1>2 DEF BackoffElapses, RowOK, ExecOK, StoreOK, EnvOK, CountsOK
  <1>3. ASSUME NEW t \in Tasks, LeaseExpires(t) PROVE TypeOK'
    <2>1. RowOK'
      BY <1>3 DEF LeaseExpires, RowOK
    <2>2. CountsOK'
      BY <1>3 DEF LeaseExpires, MayFail, CountsOK
    <2>. QED
      BY <1>3, <2>1, <2>2 DEF LeaseExpires, ExecOK, StoreOK, EnvOK
  <1>4. ASSUME NEW t \in Tasks, CancelSignal(t) PROVE TypeOK'
    <2>1. ExecOK'
      BY <1>4, SignalType DEF CancelSignal, ExecOK
    <2>2. CountsOK'
      BY <1>4 DEF CancelSignal, CountsOK
    <2>. QED
      BY <1>4, <2>1, <2>2 DEF CancelSignal, RowOK, StoreOK, EnvOK
  <1>5. ASSUME NEW t \in Tasks, CancelWrite(t) PROVE TypeOK'
    <2>1. RowOK'
      BY <1>5, WriteRowsType DEF CancelWrite, RowOK
    <2>2. CountsOK'
      BY <1>5, WriteRowsType DEF CancelWrite, CountsOK
    <2>. QED
      BY <1>5, <2>1, <2>2 DEF CancelWrite, ExecOK, StoreOK, EnvOK
  <1>6. ASSUME NEW p \in Procs, NEW t \in Tasks, Claim(p, t) PROVE TypeOK'
    <2>1. RowOK'
      BY <1>6 DEF Claim, FreshToken, RowOK
    <2>2. ExecOK'
      BY <1>6 DEF Claim, ExecOK
    <2>. QED
      BY <1>6, <2>1, <2>2 DEF Claim, StoreOK, EnvOK, CountsOK
  <1>7. ASSUME NEW t \in Tasks, NEW n \in Claims, Begin(t, n) PROVE TypeOK'
    <2>1. ExecOK'
      <3>1. \E step \in {"leaseCheck", "work"} : GoTo(t, n, step)
        BY <1>7 DEF Begin
      <3>2. \/ verdict' = verdict
            \/ verdict' = [verdict EXCEPT ![t][n] = "suppressed"]
        BY <1>7 DEF Begin
      <3>3. verdict' \in [Tasks -> [Claims -> {"completed", "failed", "suppressed"}]]
        <4>1. CASE verdict' = verdict
          BY <4>1 DEF ExecOK
        <4>2. CASE verdict' = [verdict EXCEPT ![t][n] = "suppressed"]
          BY <4>2 DEF ExecOK
        <4>. QED
          BY <3>2, <4>1, <4>2
      <3>. QED
        BY <1>7, <3>1, <3>3, GoToType DEF Begin, ExecOK
    <2>2. StoreOK'
      BY <1>7 DEF Begin, ExecOK, StoreOK
    <2>. QED
      BY <1>7, <2>1, <2>2 DEF Begin, RowOK, EnvOK, CountsOK
  <1>8. ASSUME NEW t \in Tasks, NEW n \in Claims,
             NEW v \in {"completed", "failed", "canceled", "suppressed"}, Return(t, n, v)
      PROVE  TypeOK'
    BY <1>8 DEF Return, GoTo, FinalStatus, RowOK, ExecOK, StoreOK, EnvOK, CountsOK
  <1>9. ASSUME NEW t \in Tasks, NEW n \in Claims, NEW r \in BOOLEAN, Throw(t, n, r)
        PROVE  TypeOK'
    BY <1>9 DEF Throw, Catch, GoTo, RetryAllowed, RowOK, ExecOK, StoreOK, EnvOK, CountsOK
  <1>10. ASSUME NEW t \in Tasks, NEW n \in Claims, CanWriteTask(t, n) PROVE TypeOK'
    BY <1>10 DEF CanWriteTask, GoTo, RowOK, ExecOK, StoreOK, EnvOK, CountsOK
  <1>11. ASSUME NEW t \in Tasks, NEW n \in Claims, CanWriteSession(t, n) PROVE TypeOK'
    BY <1>11 DEF CanWriteSession, GoTo, RowOK, ExecOK, StoreOK, EnvOK, CountsOK
  <1>12. ASSUME NEW t \in Tasks, NEW n \in Claims, LeaseCheck(t, n) PROVE TypeOK'
    BY <1>12 DEF LeaseCheck, GoTo, LeaseCanComplete, RowOK, ExecOK, StoreOK, EnvOK, CountsOK
  <1>13. ASSUME NEW t \in Tasks, NEW n \in Claims, PersistReport(t, n) PROVE TypeOK'
    <2>1. ExecOK'
      BY <1>13 DEF PersistReport, GoTo, ExecOK
    <2>2. StoreOK'
      BY <1>13 DEF PersistReport, GoTo, StoreOK
    <2>. QED
      BY <1>13, <2>1, <2>2 DEF PersistReport, RowOK, EnvOK, CountsOK
  <1>14. ASSUME NEW t \in Tasks, NEW n \in Claims, Finish(t, n) PROVE TypeOK'
    <2>1. verdict[t][n] \in Statuses
      <3>1. verdict \in [Tasks -> [Claims -> {"completed", "failed", "suppressed"}]]
        BY DEF ExecOK
      <3>2. verdict[t][n] \in {"completed", "failed", "suppressed"}
        BY <3>1
      <3>. QED
        BY <3>2
    <2>2. RowOK' /\ strays' \in [Tasks -> Nat]
      BY <1>14, <2>1, WriteRowsType DEF Finish
    <2>3. ExecOK'
      BY <1>14, GoToType DEF Finish, ExecOK
    <2>. QED
      BY <1>14, <2>2, <2>3 DEF Finish, StoreOK, EnvOK, CountsOK
  <1>15. ASSUME NEW t \in Tasks, NEW n \in Claims, Retry(t, n) PROVE TypeOK'
    <2>1. RowOK'
      BY <1>15, WriteRowsType DEF Retry, RowOK
    <2>2. ExecOK'
      BY <1>15, GoToType DEF Retry, ExecOK
    <2>3. CountsOK'
      BY <1>15, WriteRowsType DEF Retry, CountsOK
    <2>. QED
      BY <1>15, <2>1, <2>2, <2>3 DEF Retry, StoreOK, EnvOK
  <1>16. ASSUME NEW t \in Tasks, NEW n \in Claims, ExpireRead(t, n) PROVE TypeOK'
    BY <1>16 DEF ExpireRead, GoTo, RowOK, ExecOK, StoreOK, EnvOK, CountsOK
  <1>17. ASSUME NEW t \in Tasks, NEW n \in Claims, ExpireWrite(t, n) PROVE TypeOK'
    <2>1. RowOK'
      BY <1>17, WriteRowsType DEF ExpireWrite, RowOK
    <2>2. ExecOK'
      BY <1>17, GoToType DEF ExpireWrite, ExecOK
    <2>3. CountsOK'
      BY <1>17, WriteRowsType DEF ExpireWrite, CountsOK
    <2>. QED
      BY <1>17, <2>1, <2>2, <2>3 DEF ExpireWrite, StoreOK, EnvOK
  <1>18. ASSUME NEW t \in Tasks, NEW n \in Claims, Suppress(t, n) PROVE TypeOK'
    <2>1. RowOK'
      BY <1>18, WriteRowsType DEF Suppress, RowOK
    <2>2. ExecOK'
      BY <1>18, GoToType, SignalType DEF Suppress, ExecOK
    <2>3. CountsOK'
      BY <1>18, WriteRowsType DEF Suppress, CountsOK
    <2>. QED
      BY <1>18, <2>1, <2>2, <2>3 DEF Suppress, StoreOK, EnvOK
  <1>19. ASSUME NEW t \in Tasks, NEW n \in Claims, Close(t, n) PROVE TypeOK'
    BY <1>19 DEF Close, Done, GoTo, RowOK, ExecOK, StoreOK, EnvOK, CountsOK
  <1>20. ASSUME NEW t \in Tasks, NEW n \in Claims, Fault(t, n) PROVE TypeOK'
    <2>1. CASE Catch(t, n, TRUE) /\ UNCHANGED <<proc, aborted, controller>>
      <3>1. ExecOK'
        BY <2>1 DEF Catch, GoTo, RetryAllowed, ExecOK
      <3>. QED
        BY <1>20, <2>1, <3>1 DEF Fault, RowOK, StoreOK, EnvOK, CountsOK
    <2>2. CASE Done(t, n)
      BY <1>20, <2>2, DoneType DEF Fault, RowOK, StoreOK, EnvOK, CountsOK
    <2>3. CASE GoTo(t, n, "done") /\ proc' = [proc EXCEPT ![t][n] = ApiProc]
               /\ UNCHANGED <<aborted, caught, verdict, controller>>
      <3>1. ExecOK'
        BY <2>3 DEF GoTo, ExecOK
      <3>. QED
        BY <1>20, <2>3, <3>1 DEF Fault, RowOK, StoreOK, EnvOK, CountsOK
    <2>. QED
      BY <1>20, <2>1, <2>2, <2>3 DEF Fault
  <1>21. ASSUME NEW t \in Tasks, NEW n \in Claims, Timeout(t, n) PROVE TypeOK'
    BY <1>21 DEF Timeout, InTry, Live, RowOK, ExecOK, StoreOK, EnvOK, CountsOK
  <1>22. ASSUME NEW t \in Tasks, NEW n \in Claims, Heartbeat(t, n) PROVE TypeOK'
    BY <1>22 DEF Heartbeat, Heartbeats, RowOK, ExecOK, StoreOK, EnvOK, CountsOK
  <1>23. ASSUME Reclaim PROVE TypeOK'
    <2>1. RowOK' /\ strays' \in [Tasks -> Nat]
      BY <1>23, WriteRowsType DEF Reclaim
    <2>2. reclaims' \in [Tasks -> Nat]
      BY <1>23 DEF Reclaim, CountsOK
    <2>. QED
      BY <1>23, <2>1, <2>2 DEF Reclaim, ExecOK, StoreOK, EnvOK, CountsOK
  <1>24. ASSUME NEW p \in Procs, Crash(p) PROVE TypeOK'
    <2>1. ExecOK'
      BY <1>24 DEF Crash, ExecOK
    <2>2. StoreOK'
      BY <1>24 DEF Crash, StoreOK
    <2>3. EnvOK'
      BY <1>24 DEF Crash, EnvOK
    <2>4. CountsOK'
      BY <1>24 DEF Crash, CountsOK
    <2>. QED
      BY <1>24, <2>1, <2>2, <2>3, <2>4 DEF Crash, RowOK
  <1>25. ASSUME NEW s \in Sessions, SaveSession(s) PROVE TypeOK'
    BY <1>25 DEF SaveSession, RowOK, ExecOK, StoreOK, EnvOK, CountsOK
  <1>26. ASSUME NEW s \in Sessions, SuppressTasks(s) PROVE TypeOK'
    <2>1. RowOK'
      BY <1>26, WriteRowsType DEF SuppressTasks, RowOK
    <2>2. ExecOK'
      BY <1>26, SignalType DEF SuppressTasks, ExecOK
    <2>3. CountsOK'
      BY <1>26, WriteRowsType DEF SuppressTasks, CountsOK
    <2>. QED
      BY <1>26, <2>1, <2>2, <2>3 DEF SuppressTasks, StoreOK, EnvOK
  <1>27. ASSUME NEW s \in Sessions, PurgeReports(s) PROVE TypeOK'
    BY <1>27 DEF PurgeReports, RowOK, ExecOK, StoreOK, EnvOK, CountsOK
  <1>28. ASSUME NEW s \in Sessions, CommitDiscard(s) PROVE TypeOK'
    BY <1>28 DEF CommitDiscard, RowOK, ExecOK, StoreOK, EnvOK, CountsOK
  <1>29. ASSUME NEW s \in Sessions, CommitInterrupt(s) PROVE TypeOK'
    BY <1>29 DEF CommitInterrupt, RowOK, ExecOK, StoreOK, EnvOK, CountsOK
  <1>30. CASE UNCHANGED vars
    BY <1>30 DEF vars, RowOK, ExecOK, StoreOK, EnvOK, CountsOK
  <1>. QED
    BY <1>1, <1>2, <1>3, <1>4, <1>5, <1>6, <1>7, <1>8, <1>9, <1>10, <1>11, <1>12, <1>13, <1>14,
       <1>15, <1>16, <1>17, <1>18, <1>19, <1>20, <1>21, <1>22, <1>23, <1>24, <1>25, <1>26,
       <1>27, <1>28, <1>29, <1>30
       DEF Next, Step, EndSession

\* TypeOK for every value of the constants: no write of any handler, however
\* late, leaves a column or a local outside its enumeration.
THEOREM TypeCorrect == Spec => []TypeOK
  <1>1. Init => TypeOK
    BY ConstantsAssumption
       DEF Init, TypeOK, RowOK, ExecOK, StoreOK, EnvOK, CountsOK, Claims, Steps, Statuses
  <1>. QED
    BY <1>1, TypeStep, PTL DEF Spec

-----------------------------------------------------------------------------
(* The inductive invariant behind the safety properties. *)

\* RunningIsLeased, with what the statuses outside "running" say of the lease.
LeaseInv ==
    \A t \in Tasks :
        /\ status[t] = "running" => lease[t] # 0
        /\ lease[t] # 0 => lease[t] = attempts[t]
        /\ status[t] \in {"queued", "absent"} => lease[t] = 0
        /\ status[t] = "absent" => attempts[t] = 0

\* Attempts start in the order of their tokens, and one that retries is below
\* maxAttempts and in its catch block; until a reclaim only the newest executes,
\* and none while the row is queued.
ExecInv ==
    \A t \in Tasks, n \in Claims :
        /\ pc[t][n] # "none" => n <= attempts[t]
        /\ pc[t][n] \in {"retry", "requeued"} => n < MaxAttempts /\ caught[t][n]
        /\ reclaims[t] = 0 /\ Executing(t, n) => n = attempts[t] /\ status[t] # "queued"

\* Attempts of a task that may have used their retry.
Retried(t) ==
    {n \in 1..(MaxAttempts - 1) : n \in Claims /\ pc[t][n] \in {"requeued", "done"}}

\* Every entry into the queue is the first one, a retry or a reclaim.
Budget(t) ==
    attempts[t] + (IF status[t] = "queued" THEN 1 ELSE 0)
        <= 1 + reclaims[t] + Cardinality(Retried(t))

Written == Settled \cup {"queued"}

\* What a step may do to the rows.
RowEffect ==
    \/ UNCHANGED <<status, lease, attempts>>
    \/ \E T \in SUBSET Tasks, n \in Nat, st \in Written, isDue \in BOOLEAN :
          WriteRows(T, n, st, isDue)
    \/ \E p \in Procs, t \in Tasks : Claim(p, t)
    \/ \E t \in Tasks : Enqueue(t)
    \/ \E s \in Sessions : CommitDiscard(s)

\* An UPDATE that ends or re-queues rows, with a token or without.
LEMMA WriteEffect ==
    ASSUME NEW T \in SUBSET Tasks, NEW n \in Nat, NEW st \in Written, NEW isDue \in BOOLEAN,
           WriteRows(T, n, st, isDue)
    PROVE  RowEffect
  BY DEF RowEffect

\* Every step does one of five things to the rows.
LEMMA StepRowEffect == TypeOK /\ [Next]_vars => RowEffect
  <1>. SUFFICES ASSUME TypeOK, [Next]_vars PROVE RowEffect
    OBVIOUS
  <1>. USE DEF Written, Settled, row
  <1>0. Claims \subseteq Nat
    BY ConstantsAssumption DEF Claims
  <1>1. ASSUME NEW t \in Tasks, Enqueue(t) PROVE RowEffect
    BY <1>1 DEF RowEffect
  <1>2. ASSUME NEW t \in Tasks, BackoffElapses(t) PROVE RowEffect
    BY <1>2 DEF BackoffElapses, RowEffect
  <1>3. ASSUME NEW t \in Tasks, LeaseExpires(t) PROVE RowEffect
    BY <1>3 DEF LeaseExpires, RowEffect
  <1>4. ASSUME NEW t \in Tasks, CancelSignal(t) PROVE RowEffect
    BY <1>4 DEF CancelSignal, RowEffect
  <1>5. ASSUME NEW t \in Tasks, CancelWrite(t) PROVE RowEffect
    <2>1. WriteRows({t}, 0, "canceled", TRUE)
      BY <1>5 DEF CancelWrite
    <2>. QED
      BY <1>0, <2>1, WriteEffect
  <1>6. ASSUME NEW p \in Procs, NEW t \in Tasks, Claim(p, t) PROVE RowEffect
    BY <1>6 DEF RowEffect
  <1>7. ASSUME NEW t \in Tasks, NEW n \in Claims, Begin(t, n) PROVE RowEffect
    BY <1>7 DEF Begin, RowEffect
  <1>8. ASSUME NEW t \in Tasks, NEW n \in Claims,
             NEW v \in {"completed", "failed", "canceled", "suppressed"}, Return(t, n, v)
      PROVE  RowEffect
    BY <1>8 DEF Return, RowEffect
  <1>9. ASSUME NEW t \in Tasks, NEW n \in Claims, NEW r \in BOOLEAN, Throw(t, n, r)
        PROVE  RowEffect
    BY <1>9 DEF Throw, RowEffect
  <1>10. ASSUME NEW t \in Tasks, NEW n \in Claims, CanWriteTask(t, n) PROVE RowEffect
    BY <1>10 DEF CanWriteTask, RowEffect
  <1>11. ASSUME NEW t \in Tasks, NEW n \in Claims, CanWriteSession(t, n) PROVE RowEffect
    BY <1>11 DEF CanWriteSession, RowEffect
  <1>12. ASSUME NEW t \in Tasks, NEW n \in Claims, LeaseCheck(t, n) PROVE RowEffect
    BY <1>12 DEF LeaseCheck, RowEffect
  <1>13. ASSUME NEW t \in Tasks, NEW n \in Claims, PersistReport(t, n) PROVE RowEffect
    BY <1>13 DEF PersistReport, RowEffect
  <1>14. ASSUME NEW t \in Tasks, NEW n \in Claims, Finish(t, n) PROVE RowEffect
    <2>1. verdict[t][n] \in Written /\ WriteRows({t}, n, verdict[t][n], TRUE)
      BY <1>14 DEF Finish, TypeOK, ExecOK
    <2>. QED
      BY <1>0, <2>1, WriteEffect
  <1>15. ASSUME NEW t \in Tasks, NEW n \in Claims, Retry(t, n) PROVE RowEffect
    <2>1. WriteRows({t}, n, "queued", FALSE)
      BY <1>15 DEF Retry
    <2>. QED
      BY <1>0, <2>1, WriteEffect
  <1>16. ASSUME NEW t \in Tasks, NEW n \in Claims, ExpireRead(t, n) PROVE RowEffect
    BY <1>16 DEF ExpireRead, RowEffect
  <1>17. ASSUME NEW t \in Tasks, NEW n \in Claims, ExpireWrite(t, n) PROVE RowEffect
    <2>1. \E st \in Written : WriteRows({t}, n, st, TRUE)
      BY <1>17 DEF ExpireWrite
    <2>. QED
      BY <1>0, <2>1, WriteEffect
  <1>18. ASSUME NEW t \in Tasks, NEW n \in Claims, Suppress(t, n) PROVE RowEffect
    <2>1. WriteRows({t}, n, "suppressed", TRUE)
      BY <1>18 DEF Suppress
    <2>. QED
      BY <1>0, <2>1, WriteEffect
  <1>19. ASSUME NEW t \in Tasks, NEW n \in Claims, Close(t, n) PROVE RowEffect
    BY <1>19 DEF Close, RowEffect
  <1>20. ASSUME NEW t \in Tasks, NEW n \in Claims, Fault(t, n) PROVE RowEffect
    BY <1>20 DEF Fault, RowEffect
  <1>21. ASSUME NEW t \in Tasks, NEW n \in Claims, Timeout(t, n) PROVE RowEffect
    BY <1>21 DEF Timeout, RowEffect
  <1>22. ASSUME NEW t \in Tasks, NEW n \in Claims, Heartbeat(t, n) PROVE RowEffect
    BY <1>22 DEF Heartbeat, RowEffect
  <1>23. ASSUME Reclaim PROVE RowEffect
    <2>1. WriteRows({t \in Tasks : LeaseOver(t)}, 0, "queued", TRUE)
      BY <1>23 DEF Reclaim
    <2>2. {t \in Tasks : LeaseOver(t)} \in SUBSET Tasks
      OBVIOUS
    <2>. QED
      BY <2>1, <2>2, WriteEffect
  <1>24. ASSUME NEW p \in Procs, Crash(p) PROVE RowEffect
    BY <1>24 DEF Crash, RowEffect
  <1>25. ASSUME NEW s \in Sessions, SaveSession(s) PROVE RowEffect
    BY <1>25 DEF SaveSession, RowEffect
  <1>26. ASSUME NEW s \in Sessions, SuppressTasks(s) PROVE RowEffect
    <2>1. WriteRows(TasksOf(s), 0, "suppressed", TRUE)
      BY <1>26 DEF SuppressTasks
    <2>2. TasksOf(s) \in SUBSET Tasks
      BY DEF TasksOf
    <2>. QED
      BY <2>1, <2>2, WriteEffect
  <1>27. ASSUME NEW s \in Sessions, PurgeReports(s) PROVE RowEffect
    BY <1>27 DEF PurgeReports, RowEffect
  <1>28. ASSUME NEW s \in Sessions, CommitDiscard(s) PROVE RowEffect
    BY <1>28 DEF RowEffect
  <1>29. ASSUME NEW s \in Sessions, CommitInterrupt(s) PROVE RowEffect
    BY <1>29 DEF CommitInterrupt, RowEffect
  <1>30. CASE UNCHANGED vars
    BY <1>30 DEF vars, RowEffect
  <1>. QED
    BY <1>1, <1>2, <1>3, <1>4, <1>5, <1>6, <1>7, <1>8, <1>9, <1>10, <1>11, <1>12, <1>13, <1>14,
       <1>15, <1>16, <1>17, <1>18, <1>19, <1>20, <1>21, <1>22, <1>23, <1>24, <1>25, <1>26,
       <1>27, <1>28, <1>29, <1>30
       DEF Next, Step, EndSession

\* LeaseInv is inductive: it holds at first, and every effect on the rows keeps it.
LEMMA LeaseInvariant == Spec => []LeaseInv
  <1>1. Init => LeaseInv
    BY DEF Init, LeaseInv
  <1>2. TypeOK /\ LeaseInv /\ [Next]_vars => LeaseInv'
    <2>. SUFFICES ASSUME TypeOK, LeaseInv, RowEffect PROVE LeaseInv'
      BY StepRowEffect
    <2>. USE DEF TypeOK, RowOK
    <2>1. CASE UNCHANGED <<status, lease, attempts>>
      BY <2>1 DEF LeaseInv
    <2>2. ASSUME NEW T \in SUBSET Tasks, NEW n \in Nat, NEW st \in Written, NEW isDue \in BOOLEAN,
                 WriteRows(T, n, st, isDue)
          PROVE  LeaseInv'
      BY <2>2 DEF LeaseInv, WriteRows, Written, Settled
    <2>3. ASSUME NEW p \in Procs, NEW t \in Tasks, Claim(p, t) PROVE LeaseInv'
      BY <2>3 DEF LeaseInv, Claim, FreshToken
    <2>4. ASSUME NEW t \in Tasks, Enqueue(t) PROVE LeaseInv'
      BY <2>4 DEF LeaseInv, Enqueue
    <2>5. ASSUME NEW s \in Sessions, CommitDiscard(s) PROVE LeaseInv'
      BY <2>5 DEF LeaseInv, CommitDiscard
    <2>. QED
      BY <2>1, <2>2, <2>3, <2>4, <2>5 DEF RowEffect
  <1>. QED
    BY <1>1, <1>2, TypeCorrect, PTL DEF Spec

\* RunningIsLeased for every number of tasks, processes and sessions and
\* whatever the bounds on claims and mishaps: no UPDATE by id of a stale
\* attempt, cancel or session end leaves a running row without its newest
\* attempt as lease holder.
THEOREM LeaseCorrect == Spec => []RunningIsLeased
  <1>1. LeaseInv => RunningIsLeased
    BY DEF LeaseInv, RunningIsLeased
  <1>. QED
    BY LeaseInvariant, <1>1, PTL

\* The rows implement the abstract lease TaskLease: claims grant it, every
\* other write releases it or leaves it alone.
THEOREM LeaseImplemented == Spec => LeaseSpec
  <1>1. Init => AbstractLease!Init
    BY DEF Init, AbstractLease!Init
  <1>2. TypeOK /\ LeaseInv /\ [Next]_vars => [AbstractLease!Next]_<<lease, attempts>>
    <2>. SUFFICES ASSUME TypeOK, LeaseInv, RowEffect
                  PROVE  AbstractLease!Next \/ UNCHANGED <<lease, attempts>>
      BY StepRowEffect
    <2>1. CASE UNCHANGED <<status, lease, attempts>>
      BY <2>1
    <2>2. ASSUME NEW T \in SUBSET Tasks, NEW n \in Nat, NEW st \in Written, NEW isDue \in BOOLEAN,
                 WriteRows(T, n, st, isDue)
          PROVE  AbstractLease!Next
      BY <2>2 DEF WriteRows, AbstractLease!Next, AbstractLease!Release
    <2>3. ASSUME NEW p \in Procs, NEW t \in Tasks, Claim(p, t) PROVE AbstractLease!Next
      <3>1. lease[t] = 0 /\ attempts' = [attempts EXCEPT ![t] = @ + 1]
                         /\ lease' = [lease EXCEPT ![t] = attempts[t] + 1]
        BY <2>3 DEF Claim, Claimable, FreshToken, LeaseInv
      <3>. QED
        BY <3>1 DEF AbstractLease!Next, AbstractLease!Grant
    <2>4. ASSUME NEW t \in Tasks, Enqueue(t) PROVE UNCHANGED <<lease, attempts>>
      BY <2>4 DEF Enqueue
    <2>5. ASSUME NEW s \in Sessions, CommitDiscard(s) PROVE UNCHANGED <<lease, attempts>>
      BY <2>5 DEF CommitDiscard
    <2>. QED
      BY <2>1, <2>2, <2>3, <2>4, <2>5 DEF RowEffect
  <1>. QED
    BY LeaseInvariant, TypeCorrect, <1>1, <1>2, PTL
       DEF Spec, LeaseSpec, AbstractLease!Spec, AbstractLease!leaseVars

-----------------------------------------------------------------------------
(* The steps seen from the attempts: a claim, a retry or anything else. *)

\* What the other steps leave alone.
Quiet ==
    \A t \in Tasks :
        /\ attempts'[t] = attempts[t]
        /\ reclaims'[t] \in {reclaims[t], reclaims[t] + 1}
        /\ status'[t] = "queued" =>
              \/ status[t] \in {"queued", "absent"}
              \/ reclaims'[t] = reclaims[t] + 1
        /\ \A n \in Claims :
              /\ pc'[t][n] = "none" <=> pc[t][n] = "none"
              /\ pc[t][n] = "done" \/ (pc[t][n] = "requeued" /\ caught[t][n] = TRUE)
                    => pc'[t][n] \in {"requeued", "done"}
              /\ pc'[t][n] = "retry" =>
                    \/ pc[t][n] = "retry" /\ caught'[t][n] = caught[t][n]
                    \/ n < MaxAttempts /\ caught'[t][n] = TRUE
              /\ pc'[t][n] = "requeued" =>
                    pc[t][n] = "requeued" /\ caught'[t][n] = caught[t][n]

QuietStep ==
    \/ Quiet
    \/ \E p \in Procs, t \in Tasks : Claim(p, t)
    \/ \E t \in Tasks, n \in Claims : Retry(t, n)

\* A step is a claim, a retry, or leaves alone what Quiet lists.
LEMMA StepQuiet == TypeOK /\ [Next]_vars => QuietStep
  <1>. SUFFICES ASSUME TypeOK, [Next]_vars PROVE QuietStep
    OBVIOUS
  <1>. USE DEF QuietStep, Quiet, TypeOK, RowOK, ExecOK, CountsOK, Steps, row, exec, counts,
               env, bounded
  <1>1. ASSUME NEW t \in Tasks, Enqueue(t) PROVE QuietStep
    BY <1>1 DEF Enqueue
  <1>2. ASSUME NEW t \in Tasks, BackoffElapses(t) PROVE QuietStep
    BY <1>2 DEF BackoffElapses
  <1>3. ASSUME NEW t \in Tasks, LeaseExpires(t) PROVE QuietStep
    BY <1>3 DEF LeaseExpires
  <1>4. ASSUME NEW t \in Tasks, CancelSignal(t) PROVE QuietStep
    BY <1>4 DEF CancelSignal
  <1>5. ASSUME NEW t \in Tasks, CancelWrite(t) PROVE QuietStep
    BY <1>5 DEF CancelWrite, WriteRows
  <1>6. ASSUME NEW p \in Procs, NEW t \in Tasks, Claim(p, t) PROVE QuietStep
    BY <1>6 DEF QuietStep
  <1>7. ASSUME NEW t \in Tasks, NEW n \in Claims, Begin(t, n) PROVE QuietStep
    <2>1. GoTo(t, n, "leaseCheck") \/ GoTo(t, n, "work")
      BY <1>7 DEF Begin
    <2>2. ASSUME NEW step \in {"leaseCheck", "work"}, GoTo(t, n, step) PROVE QuietStep
      BY <1>7, <2>2 DEF Begin, GoTo
    <2>. QED
      BY <2>1, <2>2
  <1>8. ASSUME NEW t \in Tasks, NEW n \in Claims,
             NEW v \in {"completed", "failed", "canceled", "suppressed"}, Return(t, n, v)
      PROVE  QuietStep
    BY <1>8 DEF Return, GoTo
  <1>9. ASSUME NEW t \in Tasks, NEW n \in Claims, NEW r \in BOOLEAN, Throw(t, n, r)
        PROVE  QuietStep
    BY <1>9 DEF Throw, GoTo, Catch, RetryAllowed
  <1>10. ASSUME NEW t \in Tasks, NEW n \in Claims, CanWriteTask(t, n) PROVE QuietStep
    BY <1>10 DEF CanWriteTask, GoTo
  <1>11. ASSUME NEW t \in Tasks, NEW n \in Claims, CanWriteSession(t, n) PROVE QuietStep
    BY <1>11 DEF CanWriteSession, GoTo
  <1>12. ASSUME NEW t \in Tasks, NEW n \in Claims, LeaseCheck(t, n) PROVE QuietStep
    BY <1>12 DEF LeaseCheck, GoTo
  <1>13. ASSUME NEW t \in Tasks, NEW n \in Claims, PersistReport(t, n) PROVE QuietStep
    BY <1>13 DEF PersistReport, GoTo
  <1>14. ASSUME NEW t \in Tasks, NEW n \in Claims, Finish(t, n) PROVE QuietStep
    <2>1. verdict[t][n] # "queued"
      BY <1>14
    <2>2. UNCHANGED <<attempts, reclaims>>
      BY <1>14 DEF Finish, WriteRows
    <2>3. \A u \in Tasks : status'[u] = status[u] \/ status'[u] # "queued"
      BY <1>14, <2>1 DEF Finish, WriteRows
    <2>4. pc' = [pc EXCEPT ![t][n] = "close"]
      BY <1>14 DEF Finish, GoTo
    <2>. QED
      BY <1>14, <2>2, <2>3, <2>4 DEF Finish
  <1>15. ASSUME NEW t \in Tasks, NEW n \in Claims, Retry(t, n) PROVE QuietStep
    BY <1>15 DEF QuietStep
  <1>16. ASSUME NEW t \in Tasks, NEW n \in Claims, ExpireRead(t, n) PROVE QuietStep
    BY <1>16 DEF ExpireRead, GoTo
  <1>17. ASSUME NEW t \in Tasks, NEW n \in Claims, ExpireWrite(t, n) PROVE QuietStep
    BY <1>17 DEF ExpireWrite, WriteRows, GoTo
  <1>18. ASSUME NEW t \in Tasks, NEW n \in Claims, Suppress(t, n) PROVE QuietStep
    BY <1>18 DEF Suppress, WriteRows, GoTo
  <1>19. ASSUME NEW t \in Tasks, NEW n \in Claims, Close(t, n) PROVE QuietStep
    BY <1>19 DEF Close, GoTo, Done
  <1>20. ASSUME NEW t \in Tasks, NEW n \in Claims, Fault(t, n) PROVE QuietStep
    <2>. DEFINE Moves(step) == pc' = [pc EXCEPT ![t][n] = step]
    <2>0. /\ UNCHANGED <<status, attempts, reclaims>>
          /\ pc[t][n] \notin {"none", "done"}
      BY <1>20 DEF Fault, Live
    <2>1. CASE Catch(t, n, TRUE) /\ ~caught[t][n]
      <3>1. /\ caught' = [caught EXCEPT ![t][n] = TRUE]
            /\ \/ Moves("expireRead") \/ Moves("leaseCheck")
               \/ n < MaxAttempts /\ Moves("retry")
        BY <2>1, Zenon DEF Catch, RetryAllowed, GoTo
      <3>2. ~(pc[t][n] = "requeued" /\ caught[t][n] = TRUE)
        BY <2>1, Zenon
      <3>3. ASSUME NEW step, Moves(step), step \notin {"none", "requeued"},
                   step = "retry" => n < MaxAttempts
            PROVE  QuietStep
        <4>1. ASSUME NEW u \in Tasks, NEW m \in Claims, u # t \/ m # n
              PROVE  pc'[u][m] = pc[u][m] /\ caught'[u][m] = caught[u][m]
          BY <3>1, <3>3, <4>1
        <4>2. pc'[t][n] = step /\ caught'[t][n] = TRUE
          BY <3>1, <3>3
        <4>. QED
          BY <2>0, <3>2, <3>3, <4>1, <4>2
      <3>. HIDE DEF QuietStep, Moves
      <3>4. Moves("expireRead") => QuietStep
        BY <3>3
      <3>5. Moves("leaseCheck") => QuietStep
        BY <3>3
      <3>6. n < MaxAttempts /\ Moves("retry") => QuietStep
        BY <3>3
      <3>. QED
        BY <3>1, <3>4, <3>5, <3>6 DEF Moves
    <2>2. ASSUME Moves("done"), caught' = [caught EXCEPT ![t][n] = FALSE] \/ caught' = caught
          PROVE  QuietStep
      <3>1. CASE caught' = [caught EXCEPT ![t][n] = FALSE]
        BY <2>0, <2>2, <3>1
      <3>2. CASE caught' = caught
        BY <2>0, <2>2, <3>2
      <3>. QED
        BY <2>2, <3>1, <3>2
    <2>3. \/ Catch(t, n, TRUE) /\ ~caught[t][n]
          \/ Moves("done") /\ (caught' = [caught EXCEPT ![t][n] = FALSE] \/ caught' = caught)
      BY <1>20, Zenon DEF Fault, Done, GoTo
    <2>. QED
      BY <2>1, <2>2, <2>3, Zenon
  <1>21. ASSUME NEW t \in Tasks, NEW n \in Claims, Timeout(t, n) PROVE QuietStep
    BY <1>21 DEF Timeout
  <1>22. ASSUME NEW t \in Tasks, NEW n \in Claims, Heartbeat(t, n) PROVE QuietStep
    BY <1>22 DEF Heartbeat
  <1>23. ASSUME Reclaim PROVE QuietStep
    BY <1>23 DEF Reclaim, WriteRows
  <1>24. ASSUME NEW p \in Procs, Crash(p) PROVE QuietStep
    BY <1>24 DEF Crash, Live
  <1>25. ASSUME NEW s \in Sessions, SaveSession(s) PROVE QuietStep
    BY <1>25 DEF SaveSession
  <1>26. ASSUME NEW s \in Sessions, SuppressTasks(s) PROVE QuietStep
    BY <1>26 DEF SuppressTasks, WriteRows
  <1>27. ASSUME NEW s \in Sessions, PurgeReports(s) PROVE QuietStep
    BY <1>27 DEF PurgeReports
  <1>28. ASSUME NEW s \in Sessions, CommitDiscard(s) PROVE QuietStep
    BY <1>28 DEF CommitDiscard
  <1>29. ASSUME NEW s \in Sessions, CommitInterrupt(s) PROVE QuietStep
    BY <1>29 DEF CommitInterrupt
  <1>30. CASE UNCHANGED vars
    BY <1>30 DEF vars
  <1>. HIDE DEF QuietStep
  <1>. QED
    BY <1>1, <1>2, <1>3, <1>4, <1>5, <1>6, <1>7, <1>8, <1>9, <1>10, <1>11, <1>12, <1>13, <1>14,
       <1>15, <1>16, <1>17, <1>18, <1>19, <1>20, <1>21, <1>22, <1>23, <1>24, <1>25, <1>26,
       <1>27, <1>28, <1>29, <1>30
       DEF Next, Step, EndSession

\* What ExecInv says of one attempt.
ExecOf(t, n) ==
    /\ pc[t][n] # "none" => n <= attempts[t]
    /\ pc[t][n] \in {"retry", "requeued"} => n < MaxAttempts /\ caught[t][n] = TRUE
    /\ reclaims[t] = 0 /\ Executing(t, n) => n = attempts[t] /\ status[t] # "queued"

\* ExecInv is inductive, given LeaseInv: a claim, a retry and a quiet step keep it.
LEMMA ExecCorrect == Spec => []ExecInv
  <1>1. Init => ExecInv
    BY DEF Init, ExecInv, Executing, Live, Steps
  <1>2. TypeOK /\ LeaseInv /\ ExecInv /\ [Next]_vars => ExecInv'
    <2>. SUFFICES ASSUME TypeOK, LeaseInv, ExecInv, QuietStep,
                         NEW t \in Tasks, NEW n \in Claims
                  PROVE  ExecOf(t, n)'
      BY StepQuiet DEF ExecInv, ExecOf
    <2>. USE ConstantsAssumption DEF Claims
    <2>0. /\ attempts[t] \in Nat /\ reclaims[t] \in Nat /\ n \in Nat
          /\ status[t] = "absent" => attempts[t] = 0
      BY DEF TypeOK, RowOK, CountsOK, LeaseInv
    <2>01. ExecOf(t, n)
      BY DEF ExecInv, ExecOf, TypeOK, ExecOK
    <2>1. CASE Quiet
      <3>1. /\ attempts'[t] = attempts[t]
            /\ reclaims'[t] \in {reclaims[t], reclaims[t] + 1}
            /\ status'[t] = "queued" =>
                  status[t] \in {"queued", "absent"} \/ reclaims'[t] = reclaims[t] + 1
            /\ pc'[t][n] = "none" <=> pc[t][n] = "none"
        BY <2>1 DEF Quiet
      <3>2. /\ pc[t][n] = "done" \/ (pc[t][n] = "requeued" /\ caught[t][n] = TRUE)
                    => pc'[t][n] \in {"requeued", "done"}
            /\ pc'[t][n] = "retry" =>
                    \/ pc[t][n] = "retry" /\ caught'[t][n] = caught[t][n]
                    \/ n < MaxAttempts /\ caught'[t][n] = TRUE
            /\ pc'[t][n] = "requeued" =>
                    pc[t][n] = "requeued" /\ caught'[t][n] = caught[t][n]
        BY <2>1 DEF Quiet
      <3>3. Executing(t, n)' => Executing(t, n) /\ pc[t][n] # "none"
        BY <2>01, <3>1, <3>2 DEF ExecOf, Executing, Live, Steps, TypeOK, ExecOK
      <3>4. pc'[t][n] \in {"retry", "requeued"} => n < MaxAttempts /\ caught'[t][n] = TRUE
        BY <2>01, <3>2 DEF ExecOf
      <3>5. pc'[t][n] # "none" => n <= attempts'[t]
        BY <2>01, <3>1 DEF ExecOf
      <3>6. reclaims'[t] = 0 => reclaims[t] = 0 /\ reclaims'[t] # reclaims[t] + 1
        BY <2>0, <3>1
      <3>7. reclaims'[t] = 0 /\ Executing(t, n)' => n = attempts'[t] /\ status'[t] # "queued"
        BY <2>0, <2>01, <3>1, <3>3, <3>6 DEF ExecOf
      <3>. QED
        BY <3>4, <3>5, <3>7 DEF ExecOf
    <2>2. ASSUME NEW p \in Procs, NEW u \in Tasks, Claim(p, u) PROVE ExecOf(t, n)'
      <3>1. CASE t # u
        BY <2>0, <2>01, <2>2, <3>1
           DEF ExecOf, Claim, counts, Executing, Live, TypeOK, RowOK, ExecOK
      <3>2. CASE t = u /\ n = attempts[u] + 1
        BY <2>0, <2>01, <2>2, <3>2
           DEF ExecOf, Claim, counts, Executing, Live, TypeOK, RowOK, ExecOK
      <3>3. CASE t = u /\ n # attempts[u] + 1
        BY <2>0, <2>01, <2>2, <3>3
           DEF ExecOf, Claim, Claimable, counts, Executing, Live, TypeOK, RowOK, ExecOK
      <3>. QED
        BY <3>1, <3>2, <3>3
    <2>3. ASSUME NEW u \in Tasks, NEW m \in Claims, Retry(u, m) PROVE ExecOf(t, n)'
      <3>1. /\ UNCHANGED <<attempts, reclaims, caught>>
            /\ pc' = [pc EXCEPT ![u][m] = "requeued"]
            /\ status' = [v \in Tasks |-> IF v \in {u} THEN "queued" ELSE status[v]]
            /\ pc[u][m] = "retry"
        BY <2>3 DEF Retry, WriteRows, GoTo
      <3>2. CASE t # u
        BY <2>0, <2>01, <3>1, <3>2 DEF ExecOf, Executing, Live, TypeOK, ExecOK
      <3>3. CASE t = u /\ n = m
        BY <2>0, <2>01, <3>1, <3>3 DEF ExecOf, Executing, Live, Steps, TypeOK, ExecOK
      <3>4. CASE t = u /\ n # m
        <4>1. reclaims[t] = 0 => m = attempts[t]
          BY <3>1, <3>4 DEF ExecInv, Executing, Live, Steps
        <4>. QED
          BY <2>0, <2>01, <3>1, <3>4, <4>1 DEF ExecOf, Executing, Live, TypeOK, ExecOK
      <3>. QED
        BY <3>2, <3>3, <3>4
    <2>. QED
      BY <2>1, <2>2, <2>3 DEF QuietStep
  <1>. QED
    BY <1>1, <1>2, LeaseInvariant, TypeCorrect, PTL DEF Spec

\* OneExecutionUntilReclaim for every value of the constants: only the
\* reclaim script can start a second execution of a running task, and an
\* attempt that re-queued its task has nothing left to write to it.
THEOREM OneExecution == Spec => []OneExecutionUntilReclaim
  <1>1. ExecInv => OneExecutionUntilReclaim
    <2>. SUFFICES ASSUME ExecInv, NEW t \in Tasks
                  PROVE  /\ reclaims[t] = 0 =>
                               /\ \A m, n \in Claims : Executing(t, m) /\ Executing(t, n) => m = n
                               /\ status[t] = "queued" => \A n \in Claims : ~Executing(t, n)
                               /\ \A m, n \in Claims : Live(t, m) /\ Executing(t, n) => m <= n
                         /\ \A n \in Claims :
                               pc[t][n] = "requeued" => n < MaxAttempts /\ caught[t][n]
      BY DEF OneExecutionUntilReclaim
    <2>1. ASSUME reclaims[t] = 0, NEW m \in Claims, NEW n \in Claims, Live(t, m), Executing(t, n)
          PROVE  m <= n
      <3>1. m <= attempts[t] /\ n = attempts[t]
        BY <2>1 DEF ExecInv, Live, Steps
      <3>. QED
        BY <3>1
    <2>. QED
      BY <2>1 DEF ExecInv
  <1>. QED
    BY ExecCorrect, <1>1, PTL

-----------------------------------------------------------------------------
(* Attempts: each entry into the queue is paid for. *)

\* A set of attempts below maxAttempts has at most maxAttempts - 1 members.
LEMMA AttemptSetFinite ==
    ASSUME NEW S \in SUBSET (1..(MaxAttempts - 1))
    PROVE  IsFiniteSet(S) /\ Cardinality(S) \in 0..(MaxAttempts - 1)
  <1>. DEFINE K == MaxAttempts - 1
  <1>1. K \in Nat
    BY ConstantsAssumption
  <1>. HIDE DEF K
  <1>2. IsFiniteSet(1..K) /\ Cardinality(1..K) = IF 1 > K THEN 0 ELSE K - 1 + 1
    BY <1>1, FS_Interval
  <1>3. IsFiniteSet(1..K) /\ Cardinality(1..K) = K
    BY <1>1, <1>2
  <1>4. S \in SUBSET (1..K)
    BY DEF K
  <1>5. IsFiniteSet(S) /\ Cardinality(S) <= K /\ Cardinality(S) \in Nat
    BY <1>3, <1>4, FS_Subset, FS_CardinalityType
  <1>. QED
    BY <1>1, <1>5 DEF K

\* So have the attempts of a task that used their retry, before and after a step.
LEMMA RetriedFinite ==
    ASSUME NEW t \in Tasks
    PROVE  /\ IsFiniteSet(Retried(t))
           /\ Cardinality(Retried(t)) \in 0..(MaxAttempts - 1)
           /\ IsFiniteSet(Retried(t)')
           /\ Cardinality(Retried(t)') \in 0..(MaxAttempts - 1)
  <1>1. /\ Retried(t) \in SUBSET (1..(MaxAttempts - 1))
        /\ Retried(t)' \in SUBSET (1..(MaxAttempts - 1))
    BY DEF Retried
  <1>. QED
    BY <1>1, AttemptSetFinite

\* Attempts that are done stay done, so the set only grows.
LEMMA RetriedGrows ==
    ASSUME NEW t \in Tasks, Retried(t) \subseteq Retried(t)'
    PROVE  Cardinality(Retried(t)) <= Cardinality(Retried(t)')
  <1>1. IsFiniteSet(Retried(t)')
    BY RetriedFinite
  <1>. QED
    BY <1>1, FS_Subset

\* Budget for every task.
BudgetInv == \A t \in Tasks : Budget(t)

\* A requeued attempt is in its catch block.
LEMMA CaughtRequeued ==
    ASSUME TypeOK, ExecInv, NEW t \in Tasks, NEW n \in Claims, pc[t][n] = "requeued"
    PROVE  caught[t][n] = TRUE
  BY DEF TypeOK, ExecOK, ExecInv

\* BudgetInv is inductive: the first entry into the queue is free, and every
\* other is paid for by a reclaim or by an attempt that may not retry again.
LEMMA BudgetCorrect == Spec => []BudgetInv
  <1>1. Init => BudgetInv
    <2>. SUFFICES ASSUME Init, NEW t \in Tasks PROVE Budget(t)
      BY DEF BudgetInv
    <2>. QED
      BY RetriedFinite, ConstantsAssumption DEF Init, Budget
  <1>2. TypeOK /\ LeaseInv /\ ExecInv /\ BudgetInv /\ [Next]_vars => BudgetInv'
    <2>. SUFFICES ASSUME TypeOK, LeaseInv, ExecInv, BudgetInv, QuietStep, NEW t \in Tasks
                  PROVE  Budget(t)'
      BY StepQuiet DEF BudgetInv
    <2>. DEFINE C == Cardinality(Retried(t))
                CP == Cardinality(Retried(t)')
                q == IF status[t] = "queued" THEN 1 ELSE 0
                qp == IF status'[t] = "queued" THEN 1 ELSE 0
    <2>0. /\ C \in Nat /\ CP \in Nat /\ q \in {0, 1} /\ qp \in {0, 1}
          /\ attempts[t] \in Nat /\ reclaims[t] \in Nat
          /\ attempts[t] + q <= 1 + reclaims[t] + C
      BY RetriedFinite, ConstantsAssumption
         DEF TypeOK, RowOK, CountsOK, BudgetInv, Budget
    <2>1. SUFFICES attempts'[t] + qp <= 1 + reclaims'[t] + CP
      BY DEF Budget
    <2>2. CASE Quiet
      <3>1. Retried(t) \subseteq Retried(t)'
        BY <2>2, CaughtRequeued DEF Quiet, Retried
      <3>2. C <= CP
        BY <3>1, RetriedGrows
      <3>3. /\ attempts'[t] = attempts[t]
            /\ reclaims'[t] \in {reclaims[t], reclaims[t] + 1}
            /\ qp = 0 \/ q = 1 \/ attempts[t] = 0 \/ reclaims'[t] = reclaims[t] + 1
        BY <2>2 DEF Quiet, LeaseInv
      <3>. HIDE DEF C, CP, q, qp
      <3>. QED
        BY <2>0, <3>2, <3>3
    <2>3. ASSUME NEW p \in Procs, NEW u \in Tasks, Claim(p, u)
          PROVE  attempts'[t] + qp <= 1 + reclaims'[t] + CP
      <3>1. ASSUME NEW n \in Claims, pc[t][n] \in {"requeued", "done"} PROVE pc'[t][n] = pc[t][n]
        <4>1. t # u \/ n # attempts[u] + 1
          BY <2>0, <3>1, ConstantsAssumption DEF ExecInv, Claims
        <4>. QED
          BY <2>3, <3>1, <4>1 DEF Claim, TypeOK, ExecOK
      <3>2. Retried(t) \subseteq Retried(t)'
        BY <3>1 DEF Retried
      <3>3. C <= CP
        BY <3>2, RetriedGrows
      <3>4. /\ reclaims'[t] = reclaims[t]
            /\ attempts'[t] + qp = attempts[t] + q
        BY <2>0, <2>3 DEF Claim, Claimable, counts, TypeOK, RowOK
      <3>. HIDE DEF C, CP, q, qp
      <3>. QED
        BY <2>0, <3>3, <3>4, <2>3 DEF Claim
    <2>4. ASSUME NEW u \in Tasks, NEW m \in Claims, Retry(u, m)
          PROVE  attempts'[t] + qp <= 1 + reclaims'[t] + CP
      <3>1. /\ attempts' = attempts /\ reclaims' = reclaims
            /\ pc' = [pc EXCEPT ![u][m] = "requeued"]
            /\ status' = [v \in Tasks |-> IF v \in {u} THEN "queued" ELSE status[v]]
            /\ pc[u][m] = "retry"
        BY <2>4 DEF Retry, WriteRows, GoTo
      <3>2. CASE t # u
        <4>1. Retried(t)' = Retried(t) /\ qp = q
          BY <3>1, <3>2 DEF Retried, TypeOK, ExecOK
        <4>. HIDE DEF q, qp
        <4>. QED
          BY <2>0, <3>1, <4>1
      <3>3. CASE t = u
        <4>1. m \in 1..(MaxAttempts - 1)
          BY <3>1, ConstantsAssumption DEF ExecInv, Claims
        <4>2. m \notin Retried(t) /\ Retried(t)' = Retried(t) \cup {m}
          BY <3>1, <3>3, <4>1 DEF Retried, TypeOK, ExecOK
        <4>3. CP = C + 1
          BY <4>2, FS_AddElement, RetriedFinite
        <4>. HIDE DEF C, CP, q, qp
        <4>. QED
          BY <2>0, <3>1, <4>3
      <3>. QED
        BY <3>2, <3>3
    <2>. QED
      BY <2>2, <2>3, <2>4 DEF QuietStep
  <1>. QED
    BY <1>1, <1>2, ExecCorrect, LeaseInvariant, TypeCorrect, PTL DEF Spec

\* AttemptsBounded for every maxAttempts: a task is claimed at most
\* maxAttempts times, and once more for every lease taken back.
THEOREM AttemptsCorrect == Spec => []AttemptsBounded
  <1>1. TypeOK /\ BudgetInv => AttemptsBounded
    <2>. SUFFICES ASSUME TypeOK, BudgetInv, NEW t \in Tasks
                  PROVE  attempts[t] <= MaxAttempts + reclaims[t]
      BY DEF AttemptsBounded
    <2>1. Cardinality(Retried(t)) \in 0..(MaxAttempts - 1)
      BY RetriedFinite
    <2>. QED
      BY <2>1, ConstantsAssumption DEF BudgetInv, Budget, TypeOK, RowOK, CountsOK
  <1>. QED
    BY TypeCorrect, BudgetCorrect, <1>1, PTL

-----------------------------------------------------------------------------
(* Reports: each one is paid for, and each settled task has one. *)

\* Attempts of a task between their lease check and their report.
AtReport(t) == {n \in Claims : pc[t][n] = "report"}

\* A row that may still lead to a report although nothing more goes wrong:
\* unsettled or leased, and its holder not past its lease check.
OpenRow(t) ==
    /\ status[t] \in {"absent", "queued", "running"} \/ lease[t] # 0
    /\ \A n \in Claims : lease[t] = n => pc[t][n] \notin {"report", "finish"}

Mishaps(t) == strays[t] + faults + crashes

\* What is stored and what is under way fits what went wrong.
ReportBudget(t) ==
    reports[t] + Cardinality(AtReport(t)) + (IF OpenRow(t) THEN 1 ELSE 0) <= 1 + Mishaps(t)

\* Outside a session nothing deletes the report an attempt finishes with.
ReportKept(t) ==
    home[t] = NoSession /\ (status[t] \in {"completed", "failed"} \/ \E n \in Claims : pc[t][n] = "finish")
        => reports[t] > 0

ReportInv == \A t \in Tasks : ReportBudget(t) /\ ReportKept(t)

\* A step stores nothing new, and opens the row only by a mishap; or it is the
\* lease check of the row's holder; or it stores the report of an attempt.
BudgetEffect(t) ==
    /\ Mishaps(t)' >= Mishaps(t)
    /\ \/ /\ reports'[t] <= reports[t] /\ AtReport(t)' \subseteq AtReport(t)
          /\ OpenRow(t)' => OpenRow(t) \/ Mishaps(t)' > Mishaps(t)
       \/ \E n \in Claims :
             /\ n \notin AtReport(t) /\ AtReport(t)' = AtReport(t) \cup {n}
             /\ OpenRow(t) /\ ~OpenRow(t)' /\ reports'[t] = reports[t]
       \/ \E n \in AtReport(t) :
             /\ AtReport(t)' = AtReport(t) \ {n}
             /\ reports'[t] = reports[t] + 1 /\ (OpenRow(t)' => OpenRow(t))

\* A row settled with a report is written by an attempt that finishes, which
\* has stored one.
KeepEffect(t) ==
    home'[t] = NoSession =>
        \/ /\ home[t] = NoSession /\ reports'[t] >= reports[t]
           /\ status'[t] \in {"completed", "failed"} =>
                 status'[t] = status[t] \/ \E n \in Claims : pc[t][n] = "finish"
           /\ \A n \in Claims : pc'[t][n] = "finish" => pc[t][n] = "finish" \/ reports'[t] > 0
        \/ status'[t] = "queued" /\ \A n \in Claims : pc'[t][n] = "none"

\* An UPDATE of rows by an attempt or by none; one that re-queues a row either
\* finds it open or is a stray.
LEMMA WriteReportEffect ==
    ASSUME TypeOK, NEW T \in SUBSET Tasks, NEW k \in Nat, NEW st \in Written, NEW isDue \in BOOLEAN,
           WriteRows(T, k, st, isDue), UNCHANGED <<reports, faults, crashes>>, NEW t \in Tasks,
           \A n \in Claims : pc'[t][n] = pc[t][n] \/ (n = k /\ pc'[t][n] \in {"close", "requeued"}),
           t \in T /\ st = "queued" => Stray(t, k) \/ OpenRow(t),
           t \notin T => pc'[t] = pc[t]
    PROVE  BudgetEffect(t)
  <1>1. Mishaps(t)' >= Mishaps(t) /\ (t \in T /\ Stray(t, k) => Mishaps(t)' > Mishaps(t))
    BY DEF WriteRows, Mishaps, TypeOK, CountsOK
  <1>2. AtReport(t)' \subseteq AtReport(t)
    BY DEF AtReport
  <1>3. reports'[t] <= reports[t]
    BY DEF TypeOK, StoreOK
  <1>4. OpenRow(t)' => OpenRow(t) \/ Mishaps(t)' > Mishaps(t)
    <2>1. CASE t \in T
      <3>1. status'[t] = st /\ lease'[t] = 0
        BY <2>1 DEF WriteRows
      <3>2. OpenRow(t)' => st = "queued"
        BY <3>1 DEF OpenRow, Written, Settled
      <3>. QED
        BY <1>1, <2>1, <3>2
    <2>2. CASE t \notin T
      BY <2>2 DEF WriteRows, OpenRow
    <2>. QED
      BY <2>1, <2>2
  <1>. QED
    BY <1>1, <1>2, <1>3, <1>4 DEF BudgetEffect

\* Every step has both effects on every task.
LEMMA StepReportEffect ==
    ASSUME TypeOK, LeaseInv, ExecInv, [Next]_vars, NEW t \in Tasks
    PROVE  BudgetEffect(t) /\ KeepEffect(t)
  <1>. DEFINE Both == BudgetEffect(t) /\ KeepEffect(t)
  <1>0. /\ Claims \subseteq Nat /\ 0 \notin Claims
        /\ reports[t] \in Nat /\ strays[t] \in Nat /\ faults \in Nat /\ crashes \in Nat
        /\ pc \in [Tasks -> [Claims -> Steps \cup {"none", "done"}]]
        /\ status \in [Tasks -> Statuses \cup {"absent"}]
        /\ status[t] = "absent" => \A n \in Claims : pc[t][n] = "none"
        /\ status[t] = "queued" => lease[t] = 0
        /\ status[t] = "running" => lease[t] # 0
        /\ \A n \in Claims : n = attempts[t] + 1 => pc[t][n] = "none"
    BY ConstantsAssumption, SMTT(40)
       DEF TypeOK, RowOK, StoreOK, CountsOK, ExecOK, Claims, LeaseInv, ExecInv
  <1>1. ASSUME UNCHANGED <<status, lease, reports, strays, faults, crashes, home>>, pc'[t] = pc[t]
        PROVE  Both
    BY <1>0, <1>1 DEF BudgetEffect, KeepEffect, AtReport, OpenRow, Mishaps
  <1>2. ASSUME NEW u \in Tasks, NEW n \in Claims, NEW step \in {"work", "canWriteTask", "canWriteSession",
                   "leaseCheck", "expireRead", "cancelWrite", "expireWrite", "suppress", "retry", "close", "done"},
               UNCHANGED <<status, lease, reports, strays, crashes, home>>,
               faults' >= faults, faults' \in Nat,
               pc[u][n] \notin {"report", "finish"} \/ faults' > faults,
               GoTo(u, n, step)
        PROVE  Both
    <2>1. pc'[t] = pc[t] \/ (u = t /\ pc'[t] = [pc[t] EXCEPT ![n] = step])
      BY <1>0, <1>2 DEF GoTo
    <2>2. \A m \in Claims : pc'[t][m] = pc[t][m] \/ (u = t /\ m = n /\ pc'[t][m] = step)
      BY <1>0, <2>1
    <2>3. AtReport(t)' \subseteq AtReport(t)
      BY <1>2, <2>2 DEF AtReport
    <2>4. Mishaps(t)' >= Mishaps(t) /\ (faults' > faults => Mishaps(t)' > Mishaps(t))
      BY <1>0, <1>2 DEF Mishaps
    <2>5. faults' > faults \/ (OpenRow(t)' => OpenRow(t))
      BY <1>0, <1>2, <2>2 DEF OpenRow
    <2>6. BudgetEffect(t)
      BY <1>0, <1>2, <2>3, <2>4, <2>5 DEF BudgetEffect
    <2>7. KeepEffect(t)
      BY <1>0, <1>2, <2>2 DEF KeepEffect
    <2>. QED
      BY <2>6, <2>7
  <1>. HIDE DEF Both
  <1>3. ASSUME NEW u \in Tasks, Enqueue(u) PROVE Both
    <2>1. CASE u = t
      <3>1. /\ status[t] = "absent" /\ status'[t] = "queued" /\ lease' = lease
            /\ UNCHANGED <<pc, reports, strays, faults, crashes>>
        BY <1>0, <1>3, <2>1 DEF Enqueue, exec, counts, bounded
      <3>2. BudgetEffect(t)
        BY <1>0, <3>1 DEF BudgetEffect, AtReport, OpenRow, Mishaps
      <3>3. KeepEffect(t)
        BY <1>0, <3>1 DEF KeepEffect
      <3>. QED
        BY <3>2, <3>3 DEF Both
    <2>2. CASE u # t
      <3>1. /\ status'[t] = status[t] /\ lease' = lease /\ home'[t] = home[t]
            /\ UNCHANGED <<pc, reports, strays, faults, crashes>>
        BY <1>3, <2>2 DEF Enqueue, exec, counts, bounded, TypeOK, RowOK, EnvOK
      <3>2. BudgetEffect(t)
        BY <1>0, <3>1 DEF BudgetEffect, AtReport, OpenRow, Mishaps
      <3>3. KeepEffect(t)
        BY <1>0, <3>1 DEF KeepEffect
      <3>. QED
        BY <3>2, <3>3 DEF Both
    <2>. QED
      BY <2>1, <2>2
  <1>4. ASSUME NEW u \in Tasks, BackoffElapses(u) \/ LeaseExpires(u) \/ CancelSignal(u) PROVE Both
    BY <1>1, <1>4 DEF BackoffElapses, LeaseExpires, CancelSignal, row, exec, env, counts, bounded
  <1>5. ASSUME NEW p \in Procs, NEW u \in Tasks, Claim(p, u) PROVE Both
    <2>1. CASE u = t
      <3>1. /\ status[t] = "queued" /\ status'[t] = "running" /\ lease'[t] = attempts[t] + 1
            /\ attempts[t] + 1 \in Claims
            /\ pc'[t] = [pc[t] EXCEPT ![attempts[t] + 1] = "start"]
            /\ UNCHANGED <<home, reports, strays, faults, crashes>>
        BY <1>0, <1>5, <2>1, ConstantsAssumption
           DEF Claim, Claimable, FreshToken, Claims, env, counts, bounded, TypeOK, RowOK
      <3>2. \A n \in Claims : IF n = attempts[t] + 1 THEN pc'[t][n] = "start" ELSE pc'[t][n] = pc[t][n]
        BY <1>0, <3>1
      <3>3. BudgetEffect(t)
        BY <1>0, <3>1, <3>2 DEF BudgetEffect, AtReport, OpenRow, Mishaps
      <3>4. KeepEffect(t)
        BY <1>0, <3>1, <3>2 DEF KeepEffect
      <3>. QED
        BY <3>3, <3>4 DEF Both
    <2>2. CASE u # t
      <3>1. /\ status'[t] = status[t] /\ lease'[t] = lease[t] /\ pc'[t] = pc[t]
            /\ UNCHANGED <<home, reports, strays, faults, crashes>>
        BY <1>0, <1>5, <2>2 DEF Claim, env, counts, bounded, TypeOK, RowOK
      <3>2. BudgetEffect(t)
        BY <1>0, <3>1 DEF BudgetEffect, AtReport, OpenRow, Mishaps
      <3>3. KeepEffect(t)
        BY <1>0, <3>1 DEF KeepEffect
      <3>. QED
        BY <3>2, <3>3 DEF Both
    <2>. QED
      BY <2>1, <2>2
  <1>6. ASSUME NEW u \in Tasks, NEW n \in Claims,
               Begin(u, n) \/ CanWriteTask(u, n) \/ CanWriteSession(u, n) \/ ExpireRead(u, n)
        PROVE  Both
    <2>1. \E step \in {"work", "canWriteSession", "leaseCheck", "expireWrite", "cancelWrite", "suppress"} :
             GoTo(u, n, step)
      BY <1>6 DEF Begin, CanWriteTask, CanWriteSession, ExpireRead
    <2>2. UNCHANGED <<status, lease, reports, strays, crashes, faults, home>>
             /\ pc[u][n] \notin {"report", "finish"}
      BY <1>6 DEF Begin, CanWriteTask, CanWriteSession, ExpireRead, row, env, counts, bounded
    <2>. QED
      BY <1>0, <1>2, <2>1, <2>2
  <1>7. ASSUME NEW u \in Tasks, NEW n \in Claims, NEW v, NEW r,
               Return(u, n, v) \/ Throw(u, n, r) \/ Close(u, n)
        PROVE  Both
    <2>1. \E step \in {"canWriteTask", "leaseCheck", "expireRead", "retry", "done"} :
             GoTo(u, n, step)
      BY <1>7 DEF Return, Throw, Catch, Close, Done
    <2>2. UNCHANGED <<status, lease, reports, strays, crashes, faults, home>>
             /\ pc[u][n] \notin {"report", "finish"}
      BY <1>7 DEF Return, Throw, Catch, Close, Done, row, env, counts, bounded
    <2>. QED
      BY <1>0, <1>2, <2>1, <2>2
  <1>8. ASSUME NEW u \in Tasks, NEW n \in Claims, LeaseCheck(u, n) PROVE Both
    <2>1. /\ UNCHANGED <<status, lease, reports, strays, crashes, faults, home>>
          /\ pc[u][n] = "leaseCheck"
      BY <1>8 DEF LeaseCheck, row, env, counts, bounded
    <2>2. CASE GoTo(u, n, "close")
      BY <1>0, <1>2, <2>1, <2>2
    <2>3. CASE u # t
      <3>1. pc'[t] = pc[t]
        BY <1>0, <1>8, <2>3 DEF LeaseCheck, GoTo
      <3>. QED
        BY <1>1, <2>1, <3>1
    <2>4. CASE u = t /\ status[t] = "running" /\ lease[t] = n /\ GoTo(t, n, "report")
      <3>1. \A m \in Claims : pc'[t][m] = IF m = n THEN "report" ELSE pc[t][m]
        BY <1>0, <2>4 DEF GoTo
      <3>2. /\ n \notin AtReport(t) /\ AtReport(t)' = AtReport(t) \cup {n}
            /\ OpenRow(t) /\ ~OpenRow(t)'
        BY <1>0, <2>1, <2>4, <3>1 DEF AtReport, OpenRow
      <3>3. BudgetEffect(t)
        BY <1>0, <2>1, <3>2 DEF BudgetEffect, Mishaps
      <3>4. KeepEffect(t)
        BY <1>0, <2>1, <3>1 DEF KeepEffect
      <3>. QED
        BY <3>3, <3>4 DEF Both
    <2>. QED
      BY <1>8, <2>2, <2>3, <2>4 DEF LeaseCheck, LeaseCanComplete
  <1>9. ASSUME NEW u \in Tasks, NEW n \in Claims, PersistReport(u, n) PROVE Both
    <2>1. /\ UNCHANGED <<status, lease, strays, crashes, faults, home>>
          /\ pc[u][n] = "report"
      BY <1>9 DEF PersistReport, row, env, counts, bounded
    <2>2. CASE u # t
      <3>1. pc'[t] = pc[t] /\ reports'[t] = reports[t]
        BY <1>0, <1>9, <2>2 DEF PersistReport, GoTo, TypeOK, StoreOK
      <3>2. BudgetEffect(t)
        BY <1>0, <2>1, <3>1 DEF BudgetEffect, AtReport, OpenRow, Mishaps
      <3>3. KeepEffect(t)
        BY <1>0, <2>1, <3>1 DEF KeepEffect
      <3>. QED
        BY <3>2, <3>3 DEF Both
    <2>3. CASE u = t
      <3>1. \A m \in Claims : pc'[t][m] = IF m = n THEN "finish" ELSE pc[t][m]
        BY <1>0, <1>9, <2>3 DEF PersistReport, GoTo
      <3>2. reports'[t] = reports[t] + 1
        BY <1>0, <1>9, <2>3 DEF PersistReport, TypeOK, StoreOK
      <3>3. /\ n \in AtReport(t) /\ AtReport(t)' = AtReport(t) \ {n}
            /\ OpenRow(t)' => OpenRow(t)
        BY <2>1, <2>3, <3>1 DEF AtReport, OpenRow
      <3>4. BudgetEffect(t)
        BY <1>0, <2>1, <3>2, <3>3 DEF BudgetEffect, Mishaps
      <3>5. KeepEffect(t)
        BY <1>0, <2>1, <3>1, <3>2 DEF KeepEffect
      <3>. QED
        BY <3>4, <3>5 DEF Both
    <2>. QED
      BY <2>2, <2>3
  <1>10. ASSUME NEW T \in SUBSET Tasks, NEW k \in Nat, NEW st \in Written, NEW isDue \in BOOLEAN,
                WriteRows(T, k, st, isDue), UNCHANGED <<reports, home, faults, crashes>>,
                \A n \in Claims : pc'[t][n] = pc[t][n] \/ (n = k /\ pc'[t][n] \in {"close", "requeued"}),
                t \in T /\ st = "queued" => Stray(t, k) \/ OpenRow(t),
                t \in T /\ st \in {"completed", "failed"} => \E n \in Claims : pc[t][n] = "finish",
                t \notin T => pc'[t] = pc[t]
         PROVE  Both
    <2>1. BudgetEffect(t)
      BY <1>10, WriteReportEffect
    <2>2. status'[t] = st \/ status'[t] = status[t]
      BY <1>10 DEF WriteRows
    <2>3. KeepEffect(t)
      BY <1>0, <1>10, <2>2 DEF KeepEffect, WriteRows
    <2>. QED
      BY <2>1, <2>3 DEF Both
  <1>11. ASSUME NEW u \in Tasks, NEW n \in Claims, Finish(u, n) PROVE Both
    <2>1. /\ WriteRows({u}, n, verdict[u][n], TRUE) /\ UNCHANGED <<reports, home, faults, crashes>>
          /\ pc[u][n] = "finish" /\ pc' = [pc EXCEPT ![u][n] = "close"]
      BY <1>11 DEF Finish, GoTo, env, bounded
    <2>2. verdict[u][n] \in Written \ {"queued"}
      BY DEF TypeOK, ExecOK, Written, Settled
    <2>3. /\ \A m \in Claims : pc'[t][m] = pc[t][m] \/ (m = n /\ pc'[t][m] \in {"close", "requeued"})
          /\ t \notin {u} => pc'[t] = pc[t]
      BY <1>0, <2>1
    <2>4. t \in {u} => \E m \in Claims : pc[t][m] = "finish"
      BY <2>1
    <2>5. {u} \in SUBSET Tasks /\ n \in Nat
      BY <1>0
    <2>. QED
      BY <1>10, <2>1, <2>2, <2>3, <2>4, <2>5
  <1>12. ASSUME NEW u \in Tasks, NEW n \in Claims, Retry(u, n) PROVE Both
    <2>1. /\ WriteRows({u}, n, "queued", FALSE) /\ UNCHANGED <<reports, home, faults, crashes>>
          /\ pc[u][n] = "retry" /\ pc' = [pc EXCEPT ![u][n] = "requeued"]
      BY <1>12 DEF Retry, GoTo, env, bounded
    <2>2. Stray(u, n) \/ OpenRow(u)
      BY <1>0, <2>1 DEF Stray, OpenRow
    <2>3. /\ \A m \in Claims : pc'[t][m] = pc[t][m] \/ (m = n /\ pc'[t][m] \in {"close", "requeued"})
          /\ t \notin {u} => pc'[t] = pc[t]
      BY <1>0, <2>1
    <2>4. "queued" \in Written /\ {u} \in SUBSET Tasks /\ n \in Nat
      BY <1>0 DEF Written
    <2>. QED
      BY <1>10, <2>1, <2>2, <2>3, <2>4
  <1>13. ASSUME NEW u \in Tasks, NEW n \in Claims, ExpireWrite(u, n) \/ Suppress(u, n) PROVE Both
    <2>1. \E st \in {"canceled", "expired", "suppressed"} : WriteRows({u}, n, st, TRUE)
      BY <1>13 DEF ExpireWrite, Suppress
    <2>2. UNCHANGED <<reports, home, faults, crashes>> /\ pc' = [pc EXCEPT ![u][n] = "close"]
      BY <1>13 DEF ExpireWrite, Suppress, GoTo, env, bounded
    <2>3. /\ \A m \in Claims : pc'[t][m] = pc[t][m] \/ (m = n /\ pc'[t][m] \in {"close", "requeued"})
          /\ t \notin {u} => pc'[t] = pc[t]
      BY <1>0, <2>2
    <2>. QED
      BY <1>0, <1>10, <2>1, <2>2, <2>3 DEF Written, Settled
  <1>14. ASSUME NEW u \in Tasks, NEW n \in Claims, Fault(u, n) PROVE Both
    <2>1. \E step \in {"leaseCheck", "expireRead", "retry", "done"} : GoTo(u, n, step)
      BY <1>14 DEF Fault, Catch, Done
    <2>2. /\ UNCHANGED <<status, lease, reports, strays, crashes, home>>
          /\ faults' = faults + 1
      BY <1>14 DEF Fault, row, env
    <2>. QED
      BY <1>0, <1>2, <2>1, <2>2
  <1>15. ASSUME NEW u \in Tasks, NEW n \in Claims, Timeout(u, n) \/ Heartbeat(u, n) PROVE Both
    BY <1>1, <1>15 DEF Timeout, Heartbeat, row, exec, env, counts, bounded
  <1>16. ASSUME Reclaim PROVE Both
    <2>. DEFINE T == {u \in Tasks : LeaseOver(u)}
    <2>1. /\ WriteRows(T, 0, "queued", TRUE) /\ UNCHANGED <<reports, home, faults, crashes, pc>>
      BY <1>16 DEF Reclaim, exec, env, bounded
    <2>2. t \in T => Stray(t, 0) \/ OpenRow(t)
      BY <1>0 DEF LeaseOver, Stray, OpenRow
    <2>. HIDE DEF T
    <2>. QED
      BY <1>0, <1>10, <2>1, <2>2 DEF Written, Settled, T
  <1>17. ASSUME NEW u \in Tasks, CancelWrite(u) PROVE Both
    <2>1. /\ WriteRows({u}, 0, "canceled", TRUE) /\ UNCHANGED <<reports, home, faults, crashes, pc>>
      BY <1>17 DEF CancelWrite, exec, bounded
    <2>. QED
      BY <1>0, <1>10, <2>1 DEF Written, Settled
  <1>18. ASSUME NEW p \in Procs, Crash(p) PROVE Both
    <2>1. /\ UNCHANGED <<status, lease, reports, strays, faults, home>> /\ crashes' = crashes + 1
      BY <1>18 DEF Crash, row
    <2>2. \A n \in Claims : pc'[t][n] = pc[t][n] \/ pc'[t][n] = "done"
      BY <1>18 DEF Crash
    <2>3. AtReport(t)' \subseteq AtReport(t) /\ Mishaps(t)' > Mishaps(t)
      BY <1>0, <2>1, <2>2 DEF AtReport, Mishaps
    <2>4. BudgetEffect(t)
      BY <1>0, <2>1, <2>3 DEF BudgetEffect, Mishaps
    <2>5. KeepEffect(t)
      BY <1>0, <2>1, <2>2 DEF KeepEffect
    <2>. QED
      BY <2>4, <2>5 DEF Both
  <1>19. ASSUME NEW s \in Sessions, SaveSession(s) \/ CommitInterrupt(s) PROVE Both
    BY <1>1, <1>19 DEF SaveSession, CommitInterrupt, row, exec, counts, bounded
  <1>20. ASSUME NEW s \in Sessions, SuppressTasks(s) PROVE Both
    <2>1. /\ WriteRows(TasksOf(s), 0, "suppressed", TRUE)
          /\ UNCHANGED <<reports, home, faults, crashes, pc>>
      BY <1>20 DEF SuppressTasks, bounded
    <2>2. TasksOf(s) \subseteq Tasks
      BY DEF TasksOf
    <2>. QED
      BY <1>0, <1>10, <2>1, <2>2 DEF Written, Settled
  <1>21. ASSUME NEW s \in Sessions, PurgeReports(s) \/ CommitDiscard(s) PROVE Both
    <2>1. /\ UNCHANGED <<lease, home, strays, faults, crashes, pc>>
          /\ status'[t] \in {status[t], "suppressed"}
          /\ reports'[t] = IF t \in TasksOf(s) THEN 0 ELSE reports[t]
      BY <1>21 DEF PurgeReports, CommitDiscard, row, exec, counts, bounded
    <2>2. BudgetEffect(t)
      BY <1>0, <2>1 DEF BudgetEffect, AtReport, OpenRow, Mishaps
    <2>3. home[t] = NoSession => t \notin TasksOf(s)
      BY ConstantsAssumption DEF TasksOf
    <2>4. KeepEffect(t)
      BY <1>0, <2>1, <2>3 DEF KeepEffect
    <2>. QED
      BY <2>2, <2>4 DEF Both
  <1>22. ASSUME UNCHANGED vars PROVE Both
    <2>1. UNCHANGED <<status, lease, reports, strays, faults, crashes, home, pc>>
      BY <1>22 DEF vars, row, exec, env, counts, bounded
    <2>. QED
      BY <1>1, <2>1
  <1>23. ASSUME NEW u \in Tasks, NEW n \in Claims, Step(u, n) PROVE Both
    BY <1>6, <1>7, <1>8, <1>9, <1>11, <1>12, <1>13, <1>23 DEF Step
  <1>24. ASSUME NEW s \in Sessions, EndSession(s) PROVE Both
    BY <1>19, <1>20, <1>21, <1>24 DEF EndSession
  <1>25. ASSUME Next PROVE Both
    BY <1>3, <1>4, <1>5, <1>14, <1>15, <1>16, <1>17, <1>18, <1>23, <1>24, <1>25 DEF Next
  <1>. QED
    BY <1>22, <1>25 DEF Both

\* ReportsFit for every number of tasks, attempts, sessions and mishaps: a
\* settled task without a session has its report, and a report beyond the first
\* is paid for by a stray write, a rejected statement or a crash, so slow
\* attempts, reclaims and retries alone store none.
THEOREM ReportsCorrect == Spec => []ReportsFit
  <1>1. ASSUME NEW t \in Tasks
        PROVE  /\ IsFiniteSet(AtReport(t)) /\ Cardinality(AtReport(t)) \in Nat
               /\ IsFiniteSet(AtReport(t)')
    <2>1. IsFiniteSet(Claims)
      BY FS_Interval, ConstantsAssumption DEF Claims
    <2>2. AtReport(t) \in SUBSET Claims /\ AtReport(t)' \in SUBSET Claims
      BY DEF AtReport
    <2>. QED
      BY <2>1, <2>2, FS_Subset, FS_CardinalityType
  <1>2. Init => ReportInv
    <2>. SUFFICES ASSUME Init, NEW t \in Tasks PROVE ReportBudget(t) /\ ReportKept(t)
      BY DEF ReportInv
    <2>1. AtReport(t) = {}
      BY DEF Init, AtReport
    <2>. QED
      BY <2>1, FS_EmptySet DEF Init, ReportBudget, ReportKept, Mishaps
  <1>3. TypeOK /\ LeaseInv /\ ExecInv /\ ReportInv /\ [Next]_vars => ReportInv'
    <2>. SUFFICES ASSUME TypeOK, LeaseInv, ExecInv, ReportInv, [Next]_vars, NEW t \in Tasks
                  PROVE  ReportBudget(t)' /\ ReportKept(t)'
      BY DEF ReportInv
    <2>1. BudgetEffect(t) /\ KeepEffect(t) /\ ReportBudget(t) /\ ReportKept(t) /\ TypeOK'
      BY StepReportEffect, TypeStep DEF ReportInv
    <2>. DEFINE C == Cardinality(AtReport(t))
                CP == Cardinality(AtReport(t)')
                o == IF OpenRow(t) THEN 1 ELSE 0
                op == IF OpenRow(t)' THEN 1 ELSE 0
    <2>2. /\ C \in Nat /\ CP \in Nat /\ o \in {0, 1} /\ op \in {0, 1}
          /\ reports[t] \in Nat /\ reports'[t] \in Nat
          /\ Mishaps(t) \in Nat /\ Mishaps(t)' \in Nat
      <3>1. C \in Nat /\ CP \in Nat
        BY <1>1, FS_CardinalityType
      <3>2. reports[t] \in Nat /\ Mishaps(t) \in Nat
        BY DEF TypeOK, StoreOK, CountsOK, Mishaps
      <3>3. reports'[t] \in Nat /\ Mishaps(t)' \in Nat
        BY <2>1 DEF TypeOK, StoreOK, CountsOK, Mishaps
      <3>. QED
        BY <3>1, <3>2, <3>3
    <2>3. reports[t] + C + o <= 1 + Mishaps(t)
      BY <2>1 DEF ReportBudget
    <2>4. reports'[t] + CP + op <= 1 + Mishaps(t)'
      <3>1. CASE /\ reports'[t] <= reports[t] /\ AtReport(t)' \subseteq AtReport(t)
                 /\ OpenRow(t)' => OpenRow(t) \/ Mishaps(t)' > Mishaps(t)
        <4>1. CP <= C
          BY <1>1, <3>1, FS_Subset
        <4>2. op <= o \/ Mishaps(t)' > Mishaps(t)
          BY <3>1
        <4>. HIDE DEF C, CP, o, op
        <4>. QED
          BY <2>1, <2>2, <2>3, <3>1, <4>1, <4>2 DEF BudgetEffect
      <3>2. ASSUME NEW n \in Claims, n \notin AtReport(t), AtReport(t)' = AtReport(t) \cup {n},
                   OpenRow(t), ~OpenRow(t)', reports'[t] = reports[t]
            PROVE  reports'[t] + CP + op <= 1 + Mishaps(t)'
        <4>1. CP = C + 1
          BY <1>1, <3>2, FS_AddElement
        <4>2. op = 0 /\ o = 1
          BY <3>2
        <4>. HIDE DEF C, CP, o, op
        <4>. QED
          BY <2>1, <2>2, <2>3, <3>2, <4>1, <4>2 DEF BudgetEffect
      <3>3. ASSUME NEW n \in AtReport(t), AtReport(t)' = AtReport(t) \ {n},
                   reports'[t] = reports[t] + 1, OpenRow(t)' => OpenRow(t)
            PROVE  reports'[t] + CP + op <= 1 + Mishaps(t)'
        <4>1. CP = C - 1
          BY <1>1, <3>3, FS_RemoveElement
        <4>2. op <= o
          BY <3>3
        <4>. HIDE DEF C, CP, o, op
        <4>. QED
          BY <2>1, <2>2, <2>3, <3>3, <4>1, <4>2 DEF BudgetEffect
      <3>. QED
        BY <2>1, <3>1, <3>2, <3>3 DEF BudgetEffect
    <2>5. ReportBudget(t)'
      BY <2>4 DEF ReportBudget
    <2>6. ReportKept(t)'
      BY <2>1, <2>2 DEF KeepEffect, ReportKept, Steps
    <2>. QED
      BY <2>5, <2>6
  <1>4. TypeOK /\ ReportInv => ReportsFit
    <2>. SUFFICES ASSUME TypeOK, ReportInv, NEW t \in Tasks
                  PROVE  /\ reports[t] <= 1 + strays[t] + faults + crashes
                         /\ home[t] = NoSession /\ status[t] \in {"completed", "failed"}
                               => reports[t] > 0
      BY DEF ReportsFit, ReportsBounded, SettledHasReport
    <2>1. reports[t] \in Nat /\ strays[t] \in Nat /\ faults \in Nat /\ crashes \in Nat
      BY DEF TypeOK, StoreOK, CountsOK
    <2>. QED
      BY <1>1, <2>1 DEF ReportInv, ReportBudget, ReportKept, Mishaps
  <1>. QED
    BY <1>2, <1>3, <1>4, TypeCorrect, LeaseInvariant, ExecCorrect, PTL DEF Spec

-----------------------------------------------------------------------------
(* Action properties. *)

\* SettledStaysSettled for every number of tasks, processes and sessions: no
\* statement re-queues or restarts a settled task whose attempts are over.
THEOREM SettledForGood == Spec => SettledStaysSettled
  <1>1. TypeOK /\ [Next]_vars =>
           \A t \in Tasks : status[t] \in Settled /\ (\A n \in Claims : ~Live(t, n))
                               => status'[t] \in Settled
    <2>. SUFFICES ASSUME TypeOK, [Next]_vars, NEW t \in Tasks, status[t] \in Settled,
                         \A n \in Claims : ~Live(t, n)
                  PROVE  status'[t] \in Settled
      OBVIOUS
    <2>1. ASSUME NEW T \in SUBSET Tasks, NEW k, NEW st, NEW isDue, WriteRows(T, k, st, isDue),
                 t \in T => st \in Settled
          PROVE  status'[t] \in Settled
      BY <2>1 DEF WriteRows
    <2>2. ASSUME NEW u \in Tasks, NEW n \in Claims, Step(u, n) \/ Fault(u, n)
          PROVE  status'[t] \in Settled
      <3>1. Live(u, n) /\ u # t
        BY <2>2 DEF Step, Fault, Begin, Return, Throw, CanWriteTask, CanWriteSession, LeaseCheck,
                    PersistReport, Finish, Retry, ExpireRead, ExpireWrite, Suppress, Close, Live, Steps
      <3>2. \/ status' = status
            \/ \E k, st, isDue : WriteRows({u}, k, st, isDue)
        BY <2>2 DEF Step, Fault, Begin, Return, Throw, CanWriteTask, CanWriteSession, LeaseCheck,
                    PersistReport, Finish, Retry, ExpireRead, ExpireWrite, Suppress, Close, row
      <3>. QED
        BY <2>1, <3>1, <3>2
    <2>3. ASSUME NEW u \in Tasks, CancelWrite(u) PROVE status'[t] \in Settled
      BY <2>1, <2>3 DEF CancelWrite, Settled
    <2>4. ASSUME Reclaim PROVE status'[t] \in Settled
      <3>1. t \notin {u \in Tasks : LeaseOver(u)}
        BY DEF LeaseOver, Settled
      <3>. QED
        BY <2>1, <2>4, <3>1 DEF Reclaim
    <2>5. ASSUME NEW s \in Sessions, EndSession(s) PROVE status'[t] \in Settled
      <3>1. CASE SuppressTasks(s)
        BY <2>1, <3>1 DEF SuppressTasks, TasksOf, Settled
      <3>2. CASE CommitDiscard(s)
        BY <3>2 DEF CommitDiscard, Settled
      <3>3. CASE SaveSession(s) \/ PurgeReports(s) \/ CommitInterrupt(s)
        BY <3>3 DEF SaveSession, PurgeReports, CommitInterrupt, row
      <3>. QED
        BY <2>5, <3>1, <3>2, <3>3 DEF EndSession
    <2>6. ASSUME NEW u \in Tasks, Enqueue(u) \/ \E p \in Procs : Claim(p, u)
          PROVE  status'[t] \in Settled
      BY <2>6 DEF Enqueue, Claim, Claimable, Settled, TypeOK, RowOK
    <2>7. ASSUME NEW u \in Tasks, BackoffElapses(u) \/ LeaseExpires(u) \/ CancelSignal(u)
          PROVE  status'[t] \in Settled
      BY <2>7 DEF BackoffElapses, LeaseExpires, CancelSignal, row
    <2>8. ASSUME NEW u \in Tasks, NEW n \in Claims, Timeout(u, n) \/ Heartbeat(u, n)
          PROVE  status'[t] \in Settled
      BY <2>8 DEF Timeout, Heartbeat, row
    <2>9. ASSUME NEW p \in Procs, Crash(p) PROVE status'[t] \in Settled
      BY <2>9 DEF Crash, row
    <2>10. CASE UNCHANGED vars
      BY <2>10 DEF vars, row
    <2>. QED
      BY <2>2, <2>3, <2>4, <2>5, <2>6, <2>7, <2>8, <2>9, <2>10 DEF Next
  <1>. QED
    BY <1>1, TypeCorrect, PTL DEF Spec, SettledStaysSettled

\* DeadLeaseNotProlonged for every number of tasks and attempts: a lease is
\* prolonged by a heartbeat of its own holder and by nothing else.
THEOREM DeadLeaseExpires == Spec => DeadLeaseNotProlonged
  <1>1. TypeOK /\ LeaseInv /\ [Next]_vars =>
           \A t \in Tasks : lease[t] # 0 /\ lease'[t] = lease[t] /\ ~held[t] /\ ~HolderAlive(t)
                               => ~held'[t]
    <2>. SUFFICES ASSUME TypeOK, LeaseInv, [Next]_vars, NEW t \in Tasks, lease[t] # 0,
                         lease'[t] = lease[t], ~held[t], ~HolderAlive(t)
                  PROVE  ~held'[t]
      OBVIOUS
    <2>1. ASSUME NEW T, NEW k, NEW st, NEW isDue, WriteRows(T, k, st, isDue) PROVE ~held'[t]
      BY <2>1 DEF WriteRows
    <2>2. ASSUME NEW u \in Tasks, NEW n \in Claims, Step(u, n) \/ Fault(u, n) PROVE ~held'[t]
      <3>1. \/ held' = held
            \/ \E T, k, st, isDue : WriteRows(T, k, st, isDue)
        BY <2>2 DEF Step, Fault, Begin, Return, Throw, CanWriteTask, CanWriteSession, LeaseCheck,
                    PersistReport, Finish, Retry, ExpireRead, ExpireWrite, Suppress, Close, row
      <3>. QED
        BY <2>1, <3>1
    <2>3. ASSUME NEW u \in Tasks, CancelWrite(u) PROVE ~held'[t]
      BY <2>1, <2>3 DEF CancelWrite
    <2>4. ASSUME Reclaim PROVE ~held'[t]
      BY <2>1, <2>4 DEF Reclaim
    <2>5. ASSUME NEW s \in Sessions, EndSession(s) PROVE ~held'[t]
      <3>1. CASE SuppressTasks(s)
        BY <2>1, <3>1 DEF SuppressTasks
      <3>2. CASE SaveSession(s) \/ PurgeReports(s) \/ CommitDiscard(s) \/ CommitInterrupt(s)
        BY <3>2 DEF SaveSession, PurgeReports, CommitDiscard, CommitInterrupt, row
      <3>. QED
        BY <2>5, <3>1, <3>2 DEF EndSession
    <2>6. ASSUME NEW u \in Tasks, NEW p \in Procs, Claim(p, u) PROVE ~held'[t]
      <3>1. u # t
        BY <2>6 DEF Claim, Claimable, LeaseInv
      <3>. QED
        BY <2>6, <3>1 DEF Claim, TypeOK, RowOK
    <2>7. ASSUME NEW u \in Tasks, Enqueue(u) \/ BackoffElapses(u) \/ LeaseExpires(u) \/ CancelSignal(u)
          PROVE  ~held'[t]
      BY <2>7 DEF Enqueue, BackoffElapses, LeaseExpires, CancelSignal, row, TypeOK, RowOK
    <2>8. ASSUME NEW u \in Tasks, NEW n \in Claims, Heartbeat(u, n) PROVE ~held'[t]
      <3>1. u # t
        BY <2>8 DEF Heartbeat, Heartbeats, InTry, HolderAlive
      <3>. QED
        BY <2>8, <3>1 DEF Heartbeat, TypeOK, RowOK
    <2>9. ASSUME NEW u \in Tasks, NEW n \in Claims, Timeout(u, n) PROVE ~held'[t]
      BY <2>9 DEF Timeout, row
    <2>10. ASSUME NEW p \in Procs, Crash(p) PROVE ~held'[t]
      BY <2>10 DEF Crash, row
    <2>11. CASE UNCHANGED vars
      BY <2>11 DEF vars, row
    <2>. QED
      BY <2>2, <2>3, <2>4, <2>5, <2>6, <2>7, <2>8, <2>9, <2>10, <2>11 DEF Next
  <1>. QED
    BY <1>1, TypeCorrect, LeaseInvariant, PTL DEF Spec, DeadLeaseNotProlonged
=============================================================================
