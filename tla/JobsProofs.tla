----------------------------- MODULE JobsProofs -----------------------------
(***************************************************************************)
(* Theorems about module Jobs, for any number of jobs, processes, attempts *)
(* and operators, with crashes and with replays that overlap.              *)
(***************************************************************************)
EXTENDS Jobs, TLAPS

LEMMA InitIInv == Init => IInv
<1> SUFFICES ASSUME Init PROVE IInv
  OBVIOUS
<1>1. NoRow \in Job /\ Idle \in Worker
  BY DEF NoRow, Idle, Job, Worker, JobStatus
<1>2. TypeOK
  BY <1>1 DEF Init, TypeOK
<1>3. WorkersAreCurrent /\ OneWorkerPerJob /\ AttemptsCounted /\ CompletedIsSettled
  BY DEF Init, WorkersAreCurrent, OneWorkerPerJob, AttemptsCounted, CompletedIsSettled,
     Holds, NoRow, Idle
<1> QED
  BY <1>2, <1>3 DEF IInv

LEMMA StepTyped == ASSUME IInv, [Next]_vars PROVE TypeOK'
<1>0. /\ TypeOK
      /\ \A w \in Workers : worker[w] \in Worker
      /\ \A w \in Workers : worker[w].at # "idle" => worker[w].job \in JobIds
      /\ Idle \in Worker /\ NoRow \in Job
  BY DEF IInv, TypeOK, WorkersAreCurrent, Idle, Worker, NoRow, Job, JobStatus
<1>1. ASSUME NEW w \in Workers, NEW j \in JobIds, FindCandidate(w, j) PROVE TypeOK'
  BY <1>0, <1>1 DEF FindCandidate, TypeOK, Worker
<1>2. ASSUME NEW w \in Workers, Claim(w) PROVE TypeOK'
  <2>1. worker[w].job \in JobIds /\ worker[w].at = "found"
    BY <1>0, <1>2 DEF Claim
  <2>2. job' \in [JobIds -> Job]
    BY <1>0, <1>2, <2>1 DEF Claim, TypeOK, Job, JobStatus
  <2>3. worker' \in [Workers -> Worker]
    BY <1>0, <1>2 DEF Claim, Goes, TypeOK, Worker
  <2> QED
    BY <1>0, <1>2, <2>2, <2>3 DEF Claim, TypeOK
<1>3. ASSUME NEW w \in Workers, ClaimLost(w) \/ Crash(w) PROVE TypeOK'
  BY <1>0, <1>3 DEF ClaimLost, Crash, Rests, TypeOK
<1>4. ASSUME NEW w \in Workers, Load(w) PROVE TypeOK'
  <2>1. worker[w].job \in JobIds
    BY <1>0, <1>4 DEF Load
  <2>2. worker' \in [Workers -> Worker]
    BY <1>0, <1>4, <2>1 DEF Load, TypeOK, Worker
  <2> QED
    BY <1>0, <1>4, <2>2 DEF Load, TypeOK
<1>5. ASSUME NEW w \in Workers, Run(w) \/ Throw(w) PROVE TypeOK'
  BY <1>0, <1>5 DEF Run, Throw, Goes, TypeOK, Worker
<1>6. ASSUME NEW w \in Workers, Complete(w) PROVE TypeOK'
  BY <1>0, <1>6 DEF Complete, Rests, TypeOK, Job, JobStatus
<1>7. ASSUME NEW w \in Workers, Fail(w) PROVE TypeOK'
  BY <1>0, <1>7 DEF Fail, Rests, TypeOK, Job, JobStatus
<1>8. ASSUME NEW p \in Operators, NEW j \in JobIds, ReplayRead(p, j) PROVE TypeOK'
  BY <1>0, <1>8 DEF ReplayRead, TypeOK
<1>9. ASSUME NEW p \in Operators, ReplayWrite(p) PROVE TypeOK'
  BY <1>0, <1>9 DEF ReplayWrite, TypeOK, Job, JobStatus
<1>10. ASSUME NEW j \in JobIds, TimePasses(j) \/ SettledByOthers(j) PROVE TypeOK'
  BY <1>0, <1>10 DEF TimePasses, SettledByOthers, TypeOK
<1>11. CASE UNCHANGED vars
  BY <1>0, <1>11 DEF vars, TypeOK
<1> QED
  BY <1>1, <1>2, <1>3, <1>4, <1>5, <1>6, <1>7, <1>8, <1>9, <1>10, <1>11
     DEF Next, Claiming, Processing
-----------------------------------------------------------------------------
Current ==
    /\ WorkersAreCurrent
    /\ OneWorkerPerJob
    /\ AttemptsCounted
    /\ CompletedIsSettled

LEMMA StillCurrent ==
    ASSUME IInv, UNCHANGED <<job, worker, reset>>, settled \subseteq settled'
    PROVE  Current'
<1>1. WorkersAreCurrent'
  BY DEF IInv, WorkersAreCurrent
<1>2. OneWorkerPerJob'
  <2>1. \A v \in Workers, j \in JobIds : Holds(v, j)' <=> Holds(v, j)
    BY DEF Holds
  <2> QED
    BY <2>1 DEF IInv, OneWorkerPerJob
<1>3. AttemptsCounted' /\ CompletedIsSettled'
  BY DEF IInv, AttemptsCounted, CompletedIsSettled
<1> QED
  BY <1>1, <1>2, <1>3 DEF Current

(* A worker moves and writes no job: he rests, or goes on with the same    *)
(* job, or has just found one.                                             *)
LEMMA WorkerMoves ==
    ASSUME IInv, job' = job, settled \subseteq settled', reset' = reset,
           NEW w \in Workers, \A v \in Workers \ {w} : worker'[v] = worker[v],
           \/ worker'[w] = Idle
           \/ /\ worker'[w].at = "found" /\ worker'[w].job \in JobIds
              /\ worker'[w].row.status \in {"PENDING", "RETRY"}
           \/ /\ worker[w].at \notin {"idle", "found"}
              /\ worker'[w].at \notin {"idle", "found", "claimed"}
              /\ worker'[w].job = worker[w].job
              /\ \/ worker'[w].row = job[worker[w].job]
                 \/ worker'[w].row = worker[w].row /\ worker[w].at # "claimed"
              /\ worker'[w].at = "ran" => worker[w].job \in settled'
    PROVE  Current'
<1>1. \A v \in Workers, j \in JobIds : Holds(v, j)' => Holds(v, j)
  BY DEF Holds, Idle
<1>2. OneWorkerPerJob'
  <2> SUFFICES ASSUME NEW v \in Workers, NEW j \in JobIds \ reset, Holds(v, j)'
               PROVE  /\ \A u \in Workers : Holds(u, j)' => u = v
                      /\ job'[j].status = "RUNNING"
                      /\ worker'[v].at # "claimed" => worker'[v].row = job'[j]
    BY DEF OneWorkerPerJob
  <2>1. Holds(v, j)
    BY <1>1
  <2>2. /\ \A u \in Workers : Holds(u, j) => u = v
        /\ job[j].status = "RUNNING"
        /\ worker[v].at # "claimed" => worker[v].row = job[j]
    BY <2>1 DEF IInv, OneWorkerPerJob
  <2>3. worker'[v].at # "claimed" => worker'[v].row = job'[j]
    BY <2>1, <2>2 DEF Holds, Idle
  <2> QED
    BY <1>1, <2>2, <2>3
<1>3. WorkersAreCurrent'
  <2> SUFFICES ASSUME NEW v \in Workers
               PROVE  /\ worker'[v].at # "idle" => worker'[v].job \in JobIds
                      /\ worker'[v].at = "found" => worker'[v].row.status \in {"PENDING", "RETRY"}
                      /\ worker'[v].at = "ran" => worker'[v].job \in settled'
    BY DEF WorkersAreCurrent
  <2>1. CASE v # w
    BY <2>1 DEF IInv, WorkersAreCurrent
  <2>2. CASE v = w
    BY <2>2 DEF IInv, WorkersAreCurrent, Idle
  <2> QED
    BY <2>1, <2>2
<1>4. AttemptsCounted' /\ CompletedIsSettled'
  BY DEF IInv, AttemptsCounted, CompletedIsSettled
<1> QED
  BY <1>2, <1>3, <1>4 DEF Current

(* A job is written and its worker moves; what is said of the other jobs   *)
(* and workers stays.                                                      *)
LEMMA JobWritten ==
    ASSUME IInv, NEW w \in Workers, NEW j \in JobIds,
           worker[w].job = j, \A v \in Workers \ {w} : worker'[v] = worker[v],
           \A i \in JobIds \ {j} : job'[i] = job[i],
           worker'[w] = Idle \/ (worker'[w].at = "claimed" /\ worker'[w].job = j),
           settled' = settled, reset' = reset,
           job'[j].status = "COMPLETED" => j \in settled,
           j \notin reset =>
             /\ \A v \in Workers : Holds(v, j) => v = w
             /\ worker'[w].at = "claimed" => job'[j].status = "RUNNING"
             /\ CASE job'[j].status = "PENDING"     -> job'[j].attempts = 0
                  [] job'[j].status = "RETRY"       -> job'[j].attempts \in 1..(MaxAttempts - 1)
                  [] job'[j].status = "DEAD_LETTER" -> job'[j].attempts = MaxAttempts
                  [] OTHER                         -> job'[j].attempts \in 1..MaxAttempts
    PROVE  Current'
<1>1. OneWorkerPerJob'
  <2> SUFFICES ASSUME NEW v \in Workers, NEW i \in JobIds \ reset, Holds(v, i)'
               PROVE  /\ \A u \in Workers : Holds(u, i)' => u = v
                      /\ job'[i].status = "RUNNING"
                      /\ worker'[v].at # "claimed" => worker'[v].row = job'[i]
    BY DEF OneWorkerPerJob
  <2>1. CASE i = j
    <3>1. \A u \in Workers : Holds(u, j)' => u = w
      BY <2>1 DEF Holds
    <3>2. worker'[w].at = "claimed"
      BY <2>1, <3>1 DEF Holds, Idle
    <3> QED
      BY <2>1, <3>1, <3>2
  <2>2. CASE i # j
    <3>1. \A u \in Workers : Holds(u, i)' => u # w /\ Holds(u, i)
      BY <2>2 DEF Holds, Idle
    <3> QED
      BY <2>2, <3>1 DEF IInv, OneWorkerPerJob
  <2> QED
    BY <2>1, <2>2
<1>2. WorkersAreCurrent'
  <2> SUFFICES ASSUME NEW v \in Workers
               PROVE  /\ worker'[v].at # "idle" => worker'[v].job \in JobIds
                      /\ worker'[v].at = "found" => worker'[v].row.status \in {"PENDING", "RETRY"}
                      /\ worker'[v].at = "ran" => worker'[v].job \in settled'
    BY DEF WorkersAreCurrent
  <2>1. CASE v # w
    BY <2>1 DEF IInv, WorkersAreCurrent
  <2>2. CASE v = w
    BY <2>2 DEF Idle
  <2> QED
    BY <2>1, <2>2
<1>3. AttemptsCounted'
  <2> SUFFICES ASSUME NEW i \in JobIds \ reset
               PROVE  CASE job'[i].status = "PENDING"     -> job'[i].attempts = 0
                        [] job'[i].status = "RETRY"       -> job'[i].attempts \in 1..(MaxAttempts - 1)
                        [] job'[i].status = "DEAD_LETTER" -> job'[i].attempts = MaxAttempts
                        [] OTHER                         -> job'[i].attempts \in 1..MaxAttempts
    BY DEF AttemptsCounted
  <2>1. CASE i = j
    BY <2>1
  <2>2. CASE i # j
    BY <2>2 DEF IInv, AttemptsCounted
  <2> QED
    BY <2>1, <2>2
<1>4. CompletedIsSettled'
  BY DEF IInv, CompletedIsSettled
<1> QED
  BY <1>1, <1>2, <1>3, <1>4 DEF Current

(* A worker claims the job he found: its row is waiting, so nobody holds   *)
(* it.                                                                     *)
LEMMA ClaimCurrent ==
    ASSUME IInv, NEW w \in Workers, Claim(w)
    PROVE  Current'
<1>1. PICK j \in JobIds : j = worker[w].job
  BY DEF IInv, Claim, WorkersAreCurrent
<1>2. /\ worker[w].at = "found" /\ job[j] = worker[w].row
      /\ job[j].status \in {"PENDING", "RETRY"} /\ job[j] \in Job
  BY <1>1 DEF IInv, Claim, Matches, WorkersAreCurrent, TypeOK
<1>3. /\ job'[j] = [status |-> "RUNNING", attempts |-> job[j].attempts + 1]
      /\ \A i \in JobIds \ {j} : job'[i] = job[i]
      /\ worker'[w].at = "claimed" /\ worker'[w].job = j
      /\ \A v \in Workers \ {w} : worker'[v] = worker[v]
      /\ settled' = settled /\ reset' = reset
  BY <1>1 DEF IInv, Claim, Goes, TypeOK, Worker
<1>4. j \notin reset => \A v \in Workers : ~Holds(v, j)
  BY <1>2 DEF IInv, OneWorkerPerJob
<1>5. j \notin reset => job'[j].attempts \in 1..MaxAttempts
  BY <1>2, <1>3, AttemptsAssumption DEF IInv, AttemptsCounted, Job
<1> QED
  BY <1>1, <1>3, <1>4, <1>5, JobWritten

(* A worker ends the job he holds: completed, to retry, or dead.           *)
LEMMA EndCurrent ==
    ASSUME IInv, NEW w \in Workers, Complete(w) \/ Fail(w)
    PROVE  Current'
<1>1. PICK j \in JobIds : j = worker[w].job
  BY DEF IInv, Complete, Fail, WorkersAreCurrent
<1>2. /\ Holds(w, j) /\ job[j] \in Job /\ worker[w].at \in {"ran", "failed"}
      /\ worker[w].at = "ran" => j \in settled
  BY <1>1 DEF IInv, Complete, Fail, WorkersAreCurrent, Holds, TypeOK
<1>3. /\ job'[j].attempts = job[j].attempts
      /\ \/ job'[j].status = "COMPLETED" /\ j \in settled
         \/ job'[j].status = "DEAD_LETTER" /\ worker[w].row.attempts >= MaxAttempts
         \/ job'[j].status = "RETRY" /\ ~(worker[w].row.attempts >= MaxAttempts)
      /\ \A i \in JobIds \ {j} : job'[i] = job[i]
      /\ worker'[w] = Idle
      /\ \A v \in Workers \ {w} : worker'[v] = worker[v]
      /\ settled' = settled /\ reset' = reset
  <2>1. CASE Complete(w)
    BY <1>1, <1>2, <2>1 DEF IInv, Complete, Rests, TypeOK, Job
  <2>2. CASE Fail(w)
    BY <1>1, <1>2, <2>2 DEF IInv, Fail, Rests, TypeOK, Job, resolveJobFailure
  <2> QED
    BY <2>1, <2>2
<1>4. j \notin reset =>
        /\ \A v \in Workers : Holds(v, j) => v = w
        /\ worker[w].row = job[j] /\ job[j].attempts \in 1..MaxAttempts
  BY <1>2 DEF IInv, OneWorkerPerJob, AttemptsCounted
<1>5. j \notin reset =>
        CASE job'[j].status = "PENDING"     -> job'[j].attempts = 0
          [] job'[j].status = "RETRY"       -> job'[j].attempts \in 1..(MaxAttempts - 1)
          [] job'[j].status = "DEAD_LETTER" -> job'[j].attempts = MaxAttempts
          [] OTHER                         -> job'[j].attempts \in 1..MaxAttempts
  BY <1>3, <1>4, AttemptsAssumption
<1>6. worker'[w].at # "claimed"
  BY <1>3 DEF Idle
<1> QED
  BY <1>1, <1>3, <1>4, <1>5, <1>6, JobWritten

(* A replay writes: over a dead letter, over a job that another replay has *)
(* started again and nobody holds, or over one that runs, which is reset   *)
(* from then on.                                                           *)
LEMMA ReplayCurrent ==
    ASSUME IInv, NEW p \in Operators, ReplayWrite(p)
    PROVE  Current'
<1>1. PICK j \in JobIds : j = replaying[p]
  BY DEF IInv, ReplayWrite, TypeOK
<1>2. /\ job'[j] = [status |-> "PENDING", attempts |-> 0]
      /\ \A i \in JobIds \ {j} : job'[i] = job[i]
      /\ worker' = worker /\ settled' = settled
      /\ reset \subseteq reset' /\ (j \notin reset' => job[j].status # "RUNNING")
  BY <1>1 DEF IInv, ReplayWrite, TypeOK
<1>3. \A v \in Workers, i \in JobIds : Holds(v, i)' <=> Holds(v, i)
  BY <1>2 DEF Holds
<1>4. OneWorkerPerJob'
  <2> SUFFICES ASSUME NEW v \in Workers, NEW i \in JobIds \ reset', Holds(v, i)'
               PROVE  /\ \A u \in Workers : Holds(u, i)' => u = v
                      /\ job'[i].status = "RUNNING"
                      /\ worker'[v].at # "claimed" => worker'[v].row = job'[i]
    BY DEF OneWorkerPerJob
  <2>1. i \in JobIds \ reset /\ Holds(v, i)
    BY <1>2, <1>3
  <2>2. /\ \A u \in Workers : Holds(u, i) => u = v
        /\ job[i].status = "RUNNING"
        /\ worker[v].at # "claimed" => worker[v].row = job[i]
    BY <2>1 DEF IInv, OneWorkerPerJob
  <2>3. i # j
    BY <1>2, <2>2
  <2> QED
    BY <1>2, <1>3, <2>2, <2>3
<1>5. WorkersAreCurrent'
  BY <1>2 DEF IInv, WorkersAreCurrent
<1>6. AttemptsCounted' /\ CompletedIsSettled'
  BY <1>2 DEF IInv, AttemptsCounted, CompletedIsSettled
<1> QED
  BY <1>4, <1>5, <1>6 DEF Current

LEMMA StepIInv ==
    ASSUME IInv, [Next]_vars
    PROVE  IInv'
<1>0. TypeOK /\ \A v \in Workers : worker[v] \in Worker
  BY DEF IInv, TypeOK
<1>1. ASSUME NEW w \in Workers, NEW j \in JobIds, FindCandidate(w, j) PROVE Current'
  <2>1. /\ job' = job /\ settled' = settled /\ reset' = reset
        /\ \A v \in Workers \ {w} : worker'[v] = worker[v]
        /\ worker'[w].at = "found" /\ worker'[w].job \in JobIds
        /\ worker'[w].row.status \in {"PENDING", "RETRY"}
    BY <1>0, <1>1 DEF FindCandidate, IsDue, TypeOK
  <2> QED
    BY <2>1, WorkerMoves
<1>2. ASSUME NEW w \in Workers, ClaimLost(w) \/ Crash(w) PROVE Current'
  <2>1. /\ job' = job /\ settled' = settled /\ reset' = reset
        /\ \A v \in Workers \ {w} : worker'[v] = worker[v]
        /\ worker'[w] = Idle
    BY <1>0, <1>2 DEF ClaimLost, Crash, Rests, TypeOK
  <2> QED
    BY <2>1, WorkerMoves
<1>3. ASSUME NEW w \in Workers, Load(w) \/ Run(w) \/ Throw(w) PROVE Current'
  <2>1. /\ worker[w].at \in {"claimed", "running", "ran"} /\ worker[w].job \in JobIds
    BY <1>3 DEF IInv, WorkersAreCurrent, Load, Run, Throw
  <2>2. /\ job' = job /\ settled \subseteq settled' /\ reset' = reset
        /\ \A v \in Workers \ {w} : worker'[v] = worker[v]
        /\ worker'[w].at \in {"running", "ran", "failed"}
        /\ worker'[w].job = worker[w].job
        /\ \/ worker'[w].row = job[worker[w].job]
           \/ worker'[w].row = worker[w].row /\ worker[w].at # "claimed"
        /\ worker'[w].at = "ran" => worker[w].job \in settled'
    <3>1. CASE Load(w)
      BY <1>0, <2>1, <3>1 DEF Load, TypeOK, Worker
    <3>2. CASE Run(w)
      BY <1>0, <2>1, <3>2 DEF Run, Goes, TypeOK, Worker
    <3>3. CASE Throw(w)
      BY <1>0, <2>1, <3>3 DEF Throw, Goes, TypeOK, Worker
    <3> QED
      BY <1>3, <3>1, <3>2, <3>3
  <2> QED
    BY <2>1, <2>2, WorkerMoves
<1>4. ASSUME NEW p \in Operators, NEW j \in JobIds, ReplayRead(p, j) PROVE Current'
  BY <1>4, StillCurrent DEF ReplayRead
<1>5. ASSUME NEW j \in JobIds, TimePasses(j) \/ SettledByOthers(j) PROVE Current'
  BY <1>5, StillCurrent DEF TimePasses, SettledByOthers
<1>6. ASSUME UNCHANGED vars PROVE Current'
  BY <1>6, StillCurrent DEF vars
<1>7. ASSUME NEW w \in Workers, Claim(w) PROVE Current'
  BY <1>7, ClaimCurrent
<1>8. ASSUME NEW w \in Workers, Complete(w) \/ Fail(w) PROVE Current'
  BY <1>8, EndCurrent
<1>9. ASSUME NEW p \in Operators, ReplayWrite(p) PROVE Current'
  BY <1>9, ReplayCurrent
<1>10. Current'
  BY <1>1, <1>2, <1>3, <1>4, <1>5, <1>6, <1>7, <1>8, <1>9 DEF Next, Claiming, Processing
<1> QED
  BY <1>10, StepTyped DEF IInv, Current

-----------------------------------------------------------------------------
(* Claimed jobs, their attempts and their orders agree at every step, with *)
(* any number of processes that die anywhere and of replays that overlap;  *)
(* only of a job that was reset while it ran nothing is said but that its  *)
(* order is settled when it completes.                                     *)
THEOREM Invariant ==
    Spec => []IInv
<1>1. IInv /\ [Next]_vars => IInv'
  BY StepIInv
<1> QED
  BY <1>1, InitIInv, PTL DEF Spec

(* The conditional update of claim is a lock: no job is run twice at a     *)
(* time, unless a replay has reset it while it ran.                        *)
THEOREM OneWorker ==
    Spec => []OneWorkerPerJob
<1>1. IInv => OneWorkerPerJob
  BY DEF IInv
<1> QED
  BY <1>1, Invariant, PTL

(* Dead letters have had MaxAttempts attempts, jobs that wait for a retry  *)
(* fewer, unless a replay has reset the job while it ran.                  *)
THEOREM Attempts ==
    Spec => []AttemptsCounted
<1>1. IInv => AttemptsCounted
  BY DEF IInv
<1> QED
  BY <1>1, Invariant, PTL

(* No order is forgotten by a job that says it is done, reset or not.      *)
THEOREM CompletedSettled ==
    Spec => []CompletedIsSettled
<1>1. IInv => CompletedIsSettled
  BY DEF IInv
<1> QED
  BY <1>1, Invariant, PTL

\* What FinishedStaysFinished says of a step.
Stays(j) ==
    /\ job[j].status = "COMPLETED" =>
         job'[j] = job[j] \/ (job'[j] = NoRow /\ \E p \in Operators : replaying[p] = j)
    /\ job[j].status = "DEAD_LETTER" => job'[j] \in {job[j], NoRow}

\* The steps that write a job.
LEMMA Writers ==
    ASSUME [Next]_vars
    PROVE  \/ job' = job
           \/ \E w \in Workers : Claim(w) \/ Complete(w) \/ Fail(w)
           \/ \E p \in Operators : ReplayWrite(p)
BY DEF Next, vars, Claiming, Processing, FindCandidate, ClaimLost, Load, Run, Throw,
       Crash, ReplayRead, TimePasses, SettledByOthers

LEMMA StepFinished ==
    ASSUME IInv, [Next]_vars, NEW j \in JobIds \ reset
    PROVE  Stays(j)
<1>0. job \in [JobIds -> Job]
  BY DEF IInv, TypeOK
<1>1. ASSUME NEW w \in Workers, Claim(w)
      PROVE  job'[j] = job[j] \/ job[j].status \in {"PENDING", "RETRY"}
  <2>1. worker[w].row.status \in {"PENDING", "RETRY"}
    BY <1>1 DEF IInv, WorkersAreCurrent, Claim
  <2> QED
    BY <1>0, <1>1, <2>1 DEF Claim, Matches
<1>2. ASSUME NEW w \in Workers, Complete(w) \/ Fail(w)
      PROVE  job'[j] = job[j] \/ job[j].status = "RUNNING"
  <2>1. worker[w].at \in {"ran", "failed"}
    BY <1>2 DEF Complete, Fail
  <2>2. CASE worker[w].job = j
    BY <2>1, <2>2 DEF IInv, OneWorkerPerJob, Holds
  <2>3. CASE worker[w].job # j
    BY <1>0, <1>2, <2>3 DEF Complete, Fail
  <2> QED
    BY <2>2, <2>3
<1>3. ASSUME NEW p \in Operators, ReplayWrite(p)
      PROVE  job'[j] = job[j] \/ (job'[j] = NoRow /\ replaying[p] = j)
  BY <1>0, <1>3 DEF ReplayWrite, NoRow
<1> QED
  BY <1>1, <1>2, <1>3, Writers DEF Stays

(* What is finished is finished: only a replay starts a dead letter again, *)
(* and only one that had read it as a dead letter before, a completed job. *)
THEOREM Finished ==
    Spec => FinishedStaysFinished
<1>1. IInv /\ [Next]_vars => [\A j \in JobIds \ reset : Stays(j)]_vars
  BY StepFinished
<1>2. FinishedStaysFinished <=> [][\A j \in JobIds \ reset : Stays(j)]_vars
  BY PTL DEF FinishedStaysFinished, Stays
<1> QED
  BY <1>1, <1>2, Invariant, PTL DEF Spec

-----------------------------------------------------------------------------
(* Replays that do not overlap *)

LEMMA StepReplays ==
    ASSUME IInv, NoOverlap, ReplaysAreCurrent, [Next]_vars
    PROVE  ReplaysAreCurrent'
<1>0. /\ job \in [JobIds -> Job] /\ NoJob \notin JobIds
      /\ replaying \in [Operators -> JobIds \cup {NoJob}]
  BY NoJobAssumption DEF IInv, TypeOK
<1>1. ASSUME NEW w \in Workers, Claim(w) PROVE ReplaysAreCurrent'
  <2>1. job[worker[w].job].status \in {"PENDING", "RETRY"}
    BY <1>1 DEF IInv, WorkersAreCurrent, Claim, Matches
  <2>2. \A p \in Operators : replaying[p] # NoJob => job'[replaying[p]] = job[replaying[p]]
    BY <1>0, <1>1, <2>1 DEF Claim, ReplaysAreCurrent
  <2> QED
    BY <1>1, <2>2 DEF Claim, ReplaysAreCurrent
<1>2. ASSUME NEW w \in Workers, Complete(w) \/ Fail(w) PROVE ReplaysAreCurrent'
  <2>1. worker[w].job \in JobIds /\ Holds(w, worker[w].job)
    BY <1>2 DEF IInv, WorkersAreCurrent, Complete, Fail, Holds
  <2>2. job[worker[w].job].status = "RUNNING"
    BY <2>1 DEF IInv, OneWorkerPerJob, ReplaysAreCurrent
  <2>3. \A p \in Operators : replaying[p] # NoJob => job'[replaying[p]] = job[replaying[p]]
    BY <1>0, <1>2, <2>2 DEF Complete, Fail, ReplaysAreCurrent
  <2> QED
    BY <1>2, <2>3 DEF Complete, Fail, ReplaysAreCurrent
<1>3. ASSUME NEW p \in Operators, ReplayWrite(p) PROVE ReplaysAreCurrent'
  <2>1. job[replaying[p]].status = "DEAD_LETTER" /\ replaying[p] # NoJob
    BY <1>3 DEF ReplayWrite, ReplaysAreCurrent
  <2>2. reset' = {}
    BY <1>3, <2>1 DEF ReplayWrite, ReplaysAreCurrent
  <2>3. \A q \in Operators \ {p} :
          replaying'[q] = replaying[q] /\ (replaying[q] # NoJob => replaying[q] # replaying[p])
    BY <1>0, <1>3 DEF ReplayWrite, NoOverlap
  <2>4. replaying'[p] = NoJob
    BY <1>0, <1>3 DEF ReplayWrite
  <2>5. \A q \in Operators : replaying'[q] # NoJob => job'[replaying'[q]] = job[replaying[q]]
    BY <1>0, <1>3, <2>3, <2>4 DEF ReplayWrite
  <2> QED
    BY <2>2, <2>3, <2>4, <2>5 DEF ReplaysAreCurrent
<1>4. ASSUME NEW p \in Operators, NEW j \in JobIds, ReplayRead(p, j) PROVE ReplaysAreCurrent'
  BY <1>0, <1>4 DEF ReplayRead, ReplaysAreCurrent
<1>5. CASE UNCHANGED <<job, replaying, reset>>
  BY <1>5 DEF ReplaysAreCurrent
<1> QED
  BY <1>1, <1>2, <1>3, <1>4, <1>5
     DEF Next, vars, Claiming, Processing, FindCandidate, ClaimLost, Load, Run, Throw, Crash,
         TimePasses, SettledByOthers

(* Only replays that overlap can reset a job that runs or has completed:   *)
(* without them every replay writes over the dead letter it has read, and  *)
(* no job is excused from the theorems above.                              *)
THEOREM ReplaysApart ==
    Spec /\ []NoOverlap => []ReplaysAreCurrent
<1>1. Init => ReplaysAreCurrent
  BY DEF Init, ReplaysAreCurrent
<1>2. IInv /\ NoOverlap /\ ReplaysAreCurrent /\ [Next]_vars => ReplaysAreCurrent'
  BY StepReplays
<1> QED
  BY <1>1, <1>2, Invariant, PTL DEF Spec
-----------------------------------------------------------------------------
(* Retries and their time *)

NoReplay == \A p \in Operators : ~ReplayWrite(p)

(* What a process found is due and unchanged, or was claimed since: an     *)
(* attempt that was made is never unmade but by a replay.                  *)
FoundIsDue ==
  /\ reset = {}
  /\ \A w \in Workers : worker[w].at = "found" =>
        LET j == worker[w].job
        IN  \/ job[j] = worker[w].row /\ j \in ready
            \/ job[j].attempts > worker[w].row.attempts

(* What may become of a job while nobody replays.                          *)
JobMoves(j) ==
    \/ job'[j] = job[j] /\ (j \in ready => j \in ready')
    \/ \E w \in Workers : Claim(w) /\ worker[w].job = j
    \/ job[j].status = "RUNNING" /\ job'[j].attempts = job[j].attempts

LEMMA StepJob ==
    ASSUME IInv, reset = {}, [Next]_vars, NoReplay \/ UNCHANGED vars, NEW j \in JobIds
    PROVE  JobMoves(j)
<1>0. /\ job \in [JobIds -> Job] /\ \A i \in JobIds : job[i] \in Job
      /\ \A w \in Workers : worker[w].at # "idle" => worker[w].job \in JobIds
  BY DEF IInv, TypeOK, WorkersAreCurrent
<1> DEFINE Moves == JobMoves(j)
<1>1. ASSUME job' = job, ready \subseteq ready' PROVE Moves
  BY <1>1 DEF JobMoves
<1>2. ASSUME NEW w \in Workers, Claim(w) PROVE Moves
  <2>1. CASE worker[w].job = j
    BY <1>2, <2>1 DEF JobMoves
  <2>2. CASE worker[w].job # j
    BY <1>0, <1>2, <2>2 DEF Claim, JobMoves
  <2> QED
    BY <2>1, <2>2
<1>3. ASSUME NEW w \in Workers, Complete(w) \/ Fail(w) PROVE Moves
  <2>1. Holds(w, worker[w].job) /\ worker[w].job \in JobIds
    BY <1>0, <1>3 DEF Complete, Fail, Holds
  <2>2. job[worker[w].job].status = "RUNNING"
    BY <2>1 DEF IInv, OneWorkerPerJob
  <2>3. CASE worker[w].job = j
    <3>1. job'[j].attempts = job[j].attempts
      BY <1>0, <1>3, <2>3 DEF Complete, Fail, Job
    <3> QED
      BY <2>2, <2>3, <3>1 DEF JobMoves
  <2>4. CASE worker[w].job # j
    <3>1. job'[j] = job[j] /\ (j \in ready => j \in ready')
      BY <1>0, <1>3, <2>4 DEF Complete, Fail
    <3> QED
      BY <3>1 DEF JobMoves
  <2> QED
    BY <2>3, <2>4
<1> HIDE DEF Moves
<1>4. ASSUME NEW w \in Workers, Claiming(w) \/ Processing(w) \/ Crash(w) PROVE Moves
  BY <1>1, <1>2, <1>3, <1>4 DEF Claiming, Processing, FindCandidate, ClaimLost, Load, Run,
     Throw, Crash
<1>5. ASSUME NEW p \in Operators, NEW i \in JobIds, ReplayRead(p, i) PROVE Moves
  BY <1>1, <1>5 DEF ReplayRead
<1>6. ASSUME NEW i \in JobIds, TimePasses(i) \/ SettledByOthers(i) PROVE Moves
  BY <1>1, <1>6 DEF TimePasses, SettledByOthers
<1>7. ASSUME UNCHANGED vars PROVE Moves
  BY <1>1, <1>7 DEF vars
<1>8. Moves
  BY <1>4, <1>5, <1>6, <1>7 DEF Next, NoReplay
<1> QED
  BY <1>8 DEF Moves

LEMMA StepFound ==
    ASSUME IInv, FoundIsDue, [Next]_vars, NoReplay \/ UNCHANGED vars
    PROVE  FoundIsDue'
<1>reset. reset' = {}
  BY DEF FoundIsDue, NoReplay, Next, vars, Claiming, Processing, FindCandidate, Claim, ClaimLost,
     Load, Run, Throw, Complete, Fail, Crash, ReplayRead, TimePasses, SettledByOthers
<1> SUFFICES ASSUME NEW w \in Workers, worker'[w].at = "found"
             PROVE  LET j == worker'[w].job
                    IN  \/ job'[j] = worker'[w].row /\ j \in ready'
                        \/ job'[j].attempts > worker'[w].row.attempts
  BY <1>reset DEF FoundIsDue
<1>0. /\ \A i \in JobIds : job[i] \in Job
      /\ \A v \in Workers : worker[v] \in Worker
      /\ worker \in [Workers -> Worker]
  BY DEF IInv, TypeOK
<1>1. \/ worker'[w] = worker[w]
      \/ \E j \in JobIds : FindCandidate(w, j)
  <2>1. ASSUME NEW v \in Workers, Claim(v) \/ Load(v) \/ Processing(v) \/ ClaimLost(v) \/ Crash(v)
        PROVE  worker'[w] = worker[w]
    BY <1>0, <2>1 DEF Claim, Load, Processing, Run, Throw, Complete, Fail, ClaimLost, Crash,
       Goes, Rests, Idle, Worker
  <2>2. ASSUME NEW v \in Workers, NEW j \in JobIds, FindCandidate(v, j)
        PROVE  worker'[w] = worker[w] \/ FindCandidate(w, j)
    BY <1>0, <2>2 DEF FindCandidate
  <2> QED
    BY <2>1, <2>2 DEF Next, vars, Claiming, ReplayRead, ReplayWrite, TimePasses,
       SettledByOthers
<1>2. ASSUME NEW j \in JobIds, FindCandidate(w, j)
      PROVE  worker'[w].job = j /\ job'[j] = worker'[w].row /\ j \in ready'
  BY <1>0, <1>2 DEF FindCandidate, IsDue
<1>3. CASE worker'[w] = worker[w]
  <2>1. PICK j \in JobIds, row \in Job : j = worker[w].job /\ row = worker[w].row
    BY <1>0, <1>3 DEF IInv, WorkersAreCurrent, Worker
  <2>2. /\ row.status \in {"PENDING", "RETRY"}
        /\ (job[j] = row /\ j \in ready) \/ job[j].attempts > row.attempts
    BY <1>3, <2>1 DEF IInv, WorkersAreCurrent, FoundIsDue
  <2>3. row.attempts \in Nat /\ job[j].attempts \in Nat
    BY <1>0 DEF Job
  <2>4. CASE job'[j] = job[j] /\ (j \in ready => j \in ready')
    BY <1>3, <2>1, <2>2, <2>4
  <2>5. CASE \E v \in Workers : Claim(v) /\ worker[v].job = j
    <3>1. job'[j].attempts = job[j].attempts + 1
      BY <2>5 DEF Claim, IInv, TypeOK
    <3>2. job'[j].attempts > row.attempts
      BY <2>2, <2>3, <3>1
    <3> QED
      BY <1>3, <2>1, <3>2
  <2>6. CASE job[j].status = "RUNNING" /\ job'[j].attempts = job[j].attempts
    BY <1>3, <2>1, <2>2, <2>6
  <2> QED
    BY <2>4, <2>5, <2>6, StepJob DEF JobMoves, FoundIsDue
<1> QED
  BY <1>1, <1>2, <1>3

LEMMA StepOnTime ==
    ASSUME IInv, FoundIsDue, [Next]_vars, NoReplay \/ UNCHANGED vars, NEW j \in JobIds,
           job'[j].status = "RUNNING", job'[j] # job[j]
    PROVE  j \in ready
<1>1. CASE \E w \in Workers : Claim(w) /\ worker[w].job = j
  <2>1. PICK w \in Workers : Claim(w) /\ worker[w].job = j
    BY <1>1
  <2>2. worker[w].at = "found" /\ job[j] = worker[w].row
    BY <2>1 DEF Claim, Matches
  <2>3. job[j].attempts \in Nat
    BY DEF IInv, TypeOK, Job
  <2> QED
    BY <2>1, <2>2, <2>3 DEF FoundIsDue
<1>2. CASE job[j].status = "RUNNING" /\ job'[j].attempts = job[j].attempts
  <2>1. job[j] \in Job /\ job'[j] \in Job
    BY StepTyped DEF IInv, TypeOK
  <2> QED
    BY <1>2, <2>1 DEF Job
<1> QED
  BY <1>1, <1>2, StepJob DEF JobMoves, FoundIsDue

(* However old the row is that a process found, it starts no retry before  *)
(* the retry's time, as long as nobody replays; crashes do not matter.     *)
THEOREM RetriesWait ==
    Spec /\ [][NoReplay]_vars => NoEarlyRetry
<1>1. Init => FoundIsDue
  BY DEF Init, FoundIsDue, Idle
<1>2. IInv /\ FoundIsDue /\ [Next]_vars /\ [NoReplay]_vars => FoundIsDue'
  BY StepFound
<1>3. IInv /\ FoundIsDue /\ [Next]_vars /\ [NoReplay]_vars =>
        [\A j \in JobIds : job'[j].status = "RUNNING" /\ job'[j] # job[j] => j \in ready]_vars
  BY StepOnTime
<1> QED
  BY <1>1, <1>2, <1>3, Invariant, PTL DEF Spec, NoEarlyRetry
=============================================================================
