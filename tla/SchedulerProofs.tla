-------------------------- MODULE SchedulerProofs ---------------------------
(***************************************************************************)
(* What Scheduler keeps for any instances, jobs, pool and fan-out: proofs  *)
(* of its type correctness, of the exclusion of jobs, and that no lock is  *)
(* left behind.                                                            *)
(***************************************************************************)
EXTENDS Scheduler, TLAPS

\* The converse of LocksAreBacked: a run at work on a living connection holds
\* the lock of its job.
WorkIsLocked ==
  \A r \in Runs : run[r] \in Holding /\ link[r] = "open" => lock[r[2]] = r[1]

\* gather() has no fetch outlive its run.
FetchesAreInRuns ==
  \A r \in Runs : (\E t \in Types : task[r][t] \in Under) => run[r] = "working"

\* The inductive invariant.
IInv == TypeOK /\ LocksAreBacked /\ WorkIsLocked /\ FetchesAreInRuns

\* A run is a pair of an instance and a job.
LEMMA RunPair ==
  /\ \A r \in Runs : r[1] \in Instances /\ r[2] \in Jobs /\ r = <<r[1], r[2]>>
  /\ \A i \in Instances, j \in Jobs : <<i, j>> \in Runs /\ <<i, j>>[1] = i /\ <<i, j>>[2] = j
BY DEF Runs

LEMMA InitIInv == Init => IInv
BY SchedulerAssumption, RunPair
DEF Init, IInv, TypeOK, LocksAreBacked, WorkIsLocked, FetchesAreInRuns, Labels, Holding,
    TaskLabels, Under, NoTasks

\* The steps that begin a run, up to its lock, leave locks and fetches alone.
LEMMA AskKeeps ==
  ASSUME IInv, NEW r \in Runs, Fire(r) \/ GiveUp(r) \/ Skip(r)
  PROVE  IInv'
<1> USE DEF IInv
<1>1. /\ run' = [run EXCEPT ![r] = run'[r]]
      /\ run[r] \in {"idle", "connecting"} /\ run'[r] \in {"idle", "connecting"}
      /\ UNCHANGED <<link, lock, task>>
  BY DEF Fire, GiveUp, Skip, Goto, TypeOK
<1>2. TypeOK'
  BY <1>1 DEF TypeOK, Labels
<1>3. LocksAreBacked'
  <2> SUFFICES ASSUME NEW j \in Jobs, lock[j] \in Instances
               PROVE  run'[<<lock[j], j>>] \in Holding /\ link'[<<lock[j], j>>] = "open"
    BY <1>1 DEF LocksAreBacked
  <2>1. run[<<lock[j], j>>] \in Holding /\ link[<<lock[j], j>>] = "open"
    BY DEF LocksAreBacked
  <2>2. <<lock[j], j>> \in Runs /\ <<lock[j], j>> # r
    BY <1>1, <2>1, RunPair DEF Holding
  <2> QED BY <1>1, <2>1, <2>2 DEF TypeOK
<1>4. WorkIsLocked'
  BY <1>1 DEF TypeOK, WorkIsLocked, Holding
<1>5. FetchesAreInRuns'
  BY <1>1 DEF TypeOK, FetchesAreInRuns
<1> QED BY <1>2, <1>3, <1>4, <1>5

LEMMA LockKeeps ==
  ASSUME IInv, NEW r \in Runs, Lock(r)
  PROVE  IInv'
<1> USE DEF IInv
<1>1. run' = [run EXCEPT ![r] = run'[r]] /\ run'[r] \in {"discovering", "working"}
  BY DEF Lock, Start, Goto, TypeOK
<1>2. task' \in [Runs -> [Types -> TaskLabels]]
      /\ \A s \in Runs : s # r => task'[s] = task[s]
  <2>1. 1 \in Types
    BY SchedulerAssumption DEF Types
  <2>2. task' = task \/ task' = [task EXCEPT ![r][1] = "fetching"]
    BY DEF Lock, Start, SetTask
  <2>3. "fetching" \in TaskLabels
    BY DEF TaskLabels, Under
  <2> QED BY <2>1, <2>2, <2>3 DEF TypeOK
<1>3. run[r] = "connecting" /\ link' = [link EXCEPT ![r] = "open"] /\ lock[r[2]] = NoOne
      /\ lock' = [lock EXCEPT ![r[2]] = r[1]]
  BY DEF Lock
<1>4. TypeOK'
  <2>1. run' \in [Runs -> Labels] /\ link' \in [Runs -> {"none", "open", "dead"}]
    BY <1>1, <1>3 DEF TypeOK, Labels, Holding
  <2>2. \A s \in Runs : link'[s] = "none" <=> run'[s] \in {"idle", "connecting"}
    BY <1>1, <1>3 DEF TypeOK
  <2>3. lock' \in [Jobs -> Instances \cup {NoOne, Ghost}]
    BY <1>3, RunPair DEF TypeOK
  <2> QED BY <2>1, <2>2, <2>3, <1>2 DEF TypeOK
<1>5. LocksAreBacked'
  <2> SUFFICES ASSUME NEW j \in Jobs, lock'[j] \in Instances
               PROVE  run'[<<lock'[j], j>>] \in Holding /\ link'[<<lock'[j], j>>] = "open"
    BY DEF LocksAreBacked
  <2>1. CASE j = r[2]
    <3>1. <<lock'[j], j>> = r
      BY <2>1, <1>3, RunPair DEF TypeOK
    <3> QED BY <3>1, <1>1, <1>3 DEF TypeOK, Holding
  <2>2. CASE j # r[2]
    <3>1. lock'[j] = lock[j]
      BY <2>2, <1>3 DEF TypeOK
    <3>2. <<lock[j], j>> \in Runs /\ <<lock[j], j>> # r
      BY <2>2, <3>1, RunPair
    <3>3. run'[<<lock[j], j>>] = run[<<lock[j], j>>]
      BY <3>2, <1>1 DEF TypeOK
    <3> QED BY <3>1, <3>3, <1>3 DEF LocksAreBacked
  <2> QED BY <2>1, <2>2
<1>6. WorkIsLocked'
  BY <1>1, <1>3, RunPair, SchedulerAssumption DEF TypeOK, WorkIsLocked, Holding
<1>7. FetchesAreInRuns'
  <2>1. CASE run'[r] = "working"
    BY <2>1, <1>1, <1>2 DEF FetchesAreInRuns, TypeOK
  <2>2. CASE run'[r] # "working"
    <3>1. task' = task
      BY <2>2, <1>1 DEF Lock, Start, Goto, TypeOK
    <3> QED BY <3>1, <1>1, <1>3 DEF FetchesAreInRuns, TypeOK
  <2> QED BY <2>1, <2>2
<1> QED BY <1>4, <1>5, <1>6, <1>7

LEMMA UnlockKeeps ==
  ASSUME IInv, NEW r \in Runs, Unlock(r)
  PROVE  IInv'
<1> USE DEF IInv
<1>1. run' = [run EXCEPT ![r] = "idle"] /\ link' = [link EXCEPT ![r] = "none"]
      /\ run[r] = "working"
  BY DEF Unlock, Close, Goto
<1>2. Leftover(r) = [t \in Types |-> "none"]
  BY DEF Unlock, Gathered, Leftover
<1>3. task' = [task EXCEPT ![r] = Leftover(r)]
  BY DEF Unlock
<1>4. /\ link[r] = "open" => lock[r[2]] = r[1] /\ lock' = [lock EXCEPT ![r[2]] = NoOne]
      /\ link[r] # "open" => lock' = lock
  BY DEF Unlock, WorkIsLocked, Holding
<1>5. TypeOK'
  BY <1>1, <1>2, <1>3, <1>4, RunPair DEF TypeOK, Labels, TaskLabels
<1>6. LocksAreBacked'
  BY <1>1, <1>4, RunPair, SchedulerAssumption DEF TypeOK, LocksAreBacked
<1>7. WorkIsLocked'
  BY <1>1, <1>4, RunPair DEF TypeOK, WorkIsLocked, Holding
<1>8. FetchesAreInRuns'
  BY <1>1, <1>2, <1>3 DEF TypeOK, FetchesAreInRuns, Under
<1> QED BY <1>5, <1>6, <1>7, <1>8

LEMMA FanOutKeeps ==
  ASSUME IInv, NEW r \in Runs, Read(r) \/ FanOut(r)
  PROVE  IInv'
<1> USE DEF IInv
<1>1. /\ run' = [run EXCEPT ![r] = run'[r]]
      /\ run[r] \in {"discovering", "reading"} /\ run'[r] \in {"reading", "working"}
      /\ UNCHANGED <<link, lock>>
  BY DEF Read, FanOut, Goto, TypeOK
<1>2. /\ task' \in [Runs -> [Types -> TaskLabels]]
      /\ \A s \in Runs : s # r => task'[s] = task[s]
      /\ task'[r] = task[r] \/ run'[r] = "working"
  BY DEF Read, FanOut, Goto, TypeOK, TaskLabels, Under
<1>3. TypeOK'
  BY <1>1, <1>2 DEF TypeOK, Labels, Holding
<1>4. LocksAreBacked'
  <2> SUFFICES ASSUME NEW j \in Jobs, lock[j] \in Instances
               PROVE  run'[<<lock[j], j>>] \in Holding /\ link[<<lock[j], j>>] = "open"
    BY <1>1 DEF LocksAreBacked
  <2>1. <<lock[j], j>> \in Runs
        /\ run[<<lock[j], j>>] \in Holding /\ link[<<lock[j], j>>] = "open"
    BY RunPair DEF LocksAreBacked
  <2> QED BY <1>1, <2>1 DEF TypeOK, Holding
<1>5. WorkIsLocked'
  BY <1>1 DEF TypeOK, WorkIsLocked, Holding
<1>6. FetchesAreInRuns'
  <2> SUFFICES ASSUME NEW s \in Runs, NEW t \in Types, task'[s][t] \in Under
               PROVE  run'[s] = "working"
    BY DEF FetchesAreInRuns
  <2>1. task'[s] = task[s] => run[s] = "working"
    BY DEF FetchesAreInRuns
  <2>2. s # r => run'[s] = run[s]
    BY <1>1 DEF TypeOK
  <2> QED BY <2>1, <2>2, <1>1, <1>2
<1> QED BY <1>3, <1>4, <1>5, <1>6

LEMMA FetchKeeps ==
  ASSUME IInv, NEW r \in Runs, NEW t \in Types,
         Acquire(r, t) \/ Fetched(r, t) \/ TakeConnection(r, t) \/ Archived(r, t)
  PROVE  IInv'
<1> USE DEF IInv
<1>1. /\ UNCHANGED <<run, link, lock>>
      /\ task[r][t] \in Under
      /\ \E label \in TaskLabels : task' = [task EXCEPT ![r][t] = label]
  BY DEF Acquire, Fetched, TakeConnection, Archived, SetTask, Under, TaskLabels
<1>2. TypeOK'
  BY <1>1 DEF TypeOK
<1>3. FetchesAreInRuns'
  BY <1>1 DEF TypeOK, FetchesAreInRuns
<1> QED BY <1>1, <1>2, <1>3 DEF LocksAreBacked, WorkIsLocked

LEMMA DeathKeeps ==
  ASSUME IInv, NEW r \in Runs, LinkDies(r)
  PROVE  IInv'
<1> USE DEF IInv
<1>1. /\ UNCHANGED <<run, task>>
      /\ link' = [link EXCEPT ![r] = "dead"] /\ link[r] = "open"
      /\ lock' = Forsaken({r})
  BY DEF LinkDies
<1>2. \A j \in Jobs :
        /\ lock[j] \in Instances /\ <<lock[j], j>> = r => lock'[j] = Ghost
        /\ ~(lock[j] \in Instances /\ <<lock[j], j>> = r) => lock'[j] = lock[j]
  BY <1>1 DEF Forsaken
<1>3. TypeOK'
  BY <1>1 DEF TypeOK, Forsaken
<1>4. LocksAreBacked'
  <2> SUFFICES ASSUME NEW j \in Jobs, lock'[j] \in Instances
               PROVE  run[<<lock'[j], j>>] \in Holding /\ link'[<<lock'[j], j>>] = "open"
    BY <1>1 DEF LocksAreBacked
  <2>1. lock'[j] = lock[j] /\ <<lock[j], j>> # r
    BY <1>2, SchedulerAssumption
  <2>2. link'[<<lock[j], j>>] = link[<<lock[j], j>>]
    BY <1>1, <2>1, RunPair DEF TypeOK
  <2> QED BY <2>1, <2>2 DEF LocksAreBacked
<1>5. WorkIsLocked'
  <2> SUFFICES ASSUME NEW s \in Runs, run[s] \in Holding, link'[s] = "open"
               PROVE  lock'[s[2]] = s[1]
    BY <1>1 DEF WorkIsLocked
  <2>1. s # r /\ link[s] = "open"
    BY <1>1 DEF TypeOK
  <2>2. lock[s[2]] = s[1] /\ s = <<lock[s[2]], s[2]>> /\ s[2] \in Jobs
    BY <2>1, RunPair DEF WorkIsLocked
  <2> QED BY <2>1, <2>2, <1>2
<1> QED BY <1>1, <1>3, <1>4, <1>5 DEF FetchesAreInRuns

LEMMA ReapKeeps ==
  ASSUME IInv, NEW j \in Jobs, Reap(j)
  PROVE  IInv'
BY RunPair, SchedulerAssumption
DEF IInv, Reap, TypeOK, LocksAreBacked, WorkIsLocked, FetchesAreInRuns

LEMMA CrashKeeps ==
  ASSUME IInv, NEW i \in Instances, Crash(i)
  PROVE  IInv'
<1> USE DEF IInv
<1>1. \A r \in Runs :
        /\ r[1] = i  => run'[r] = "idle" /\ link'[r] = "none" /\ task'[r] = NoTasks
        /\ r[1] # i => run'[r] = run[r] /\ link'[r] = link[r] /\ task'[r] = task[r]
  BY RunPair DEF Crash
<1>2. \A j \in Jobs :
        /\ lock[j] = i  => lock'[j] = Ghost
        /\ lock[j] # i => lock'[j] = lock[j]
  BY RunPair DEF Crash, Forsaken
<1>3. TypeOK'
  <2>1. run' \in [Runs -> Labels]
    BY DEF Crash, TypeOK, Labels
  <2>2. link' \in [Runs -> {"none", "open", "dead"}]
    BY DEF Crash, TypeOK
  <2>3. task' \in [Runs -> [Types -> TaskLabels]]
    BY DEF Crash, TypeOK, NoTasks, TaskLabels
  <2>4. lock' \in [Jobs -> Instances \cup {NoOne, Ghost}]
    BY DEF Crash, Forsaken, TypeOK
  <2> QED BY <2>1, <2>2, <2>3, <2>4, <1>1 DEF TypeOK
<1>4. LocksAreBacked'
  BY <1>1, <1>2, RunPair, SchedulerAssumption DEF LocksAreBacked, TypeOK
<1>5. WorkIsLocked'
  BY <1>1, <1>2, RunPair DEF WorkIsLocked, TypeOK, Holding
<1>6. FetchesAreInRuns'
  BY <1>1 DEF FetchesAreInRuns, NoTasks, Under
<1> QED BY <1>3, <1>4, <1>5, <1>6

LEMMA StepIInv == IInv /\ [Next]_vars => IInv'
<1> SUFFICES ASSUME IInv, [Next]_vars PROVE IInv'
  OBVIOUS
<1>1. CASE UNCHANGED vars
  BY <1>1 DEF vars, IInv, TypeOK, LocksAreBacked, WorkIsLocked, FetchesAreInRuns
<1>2. CASE Next
  <2>1. ASSUME NEW r \in Runs, Fire(r) \/ LinkDies(r)
        PROVE  IInv'
    BY <2>1, AskKeeps, DeathKeeps
  <2>2. ASSUME NEW r \in Runs, Proceed(r)
        PROVE  IInv'
    BY <2>2, AskKeeps, LockKeeps, UnlockKeeps, FanOutKeeps, FetchKeeps DEF Proceed
  <2> QED BY <1>2, <2>1, <2>2, CrashKeeps, ReapKeeps DEF Next
<1> QED BY <1>1, <1>2

\* The inductive invariant of _run_singleton_job in any number of instances.
THEOREM Invariance == Spec => []IInv
<1>1. Init => IInv
  BY InitIInv
<1>2. IInv /\ [Next]_vars => IInv'
  BY StepIInv
<1> QED BY <1>1, <1>2, PTL DEF Spec

\* Every variable holds a value of its kind, and a run has a connection exactly
\* while its session lasts.
THEOREM TypeCorrect == Spec => []TypeOK
<1>1. IInv => TypeOK
  BY DEF IInv
<1> QED BY <1>1, Invariance, PTL

\* No two instances are at work on a job while the connections of both, and so
\* their locks, are alive: pg_try_advisory_lock lets one in, gather() keeps its
\* fetches inside, and the finally block lets the next one in.
THEOREM Exclusion == Spec => []JobsAreExclusive
<1>1. ASSUME IInv
      PROVE  JobsAreExclusive
  <2> SUFFICES ASSUME NEW r \in Runs, NEW s \in Runs, r # s, r[2] = s[2],
                      AtWork(r), AtWork(s), link[r] # "dead", link[s] # "dead"
               PROVE  FALSE
    BY DEF JobsAreExclusive
  <2>1. run[r] \in Holding /\ run[s] \in Holding
    BY <1>1 DEF IInv, AtWork, FetchesAreInRuns, Holding
  <2>2. link[r] = "open" /\ link[s] = "open"
    BY <1>1, <2>1 DEF IInv, TypeOK, Holding
  <2>3. lock[r[2]] = r[1] /\ lock[s[2]] = s[1]
    BY <1>1, <2>1, <2>2 DEF IInv, WorkIsLocked
  <2> QED BY <2>3, RunPair
<1> QED BY <1>1, Invariance, PTL

\* A held lock belongs to a run in progress, on the connection that took it.
THEOREM NoLockIsLeft == Spec => []LocksAreBacked
<1>1. IInv => LocksAreBacked
  BY DEF IInv
<1> QED BY <1>1, Invariance, PTL
=============================================================================
