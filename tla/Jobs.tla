-------------------------------- MODULE Jobs --------------------------------
(***************************************************************************)
(* The durable jobs of jobs/job.service.ts: rows of the Job table that any *)
(* API process claims by a conditional update, runs, and completes or      *)
(* fails; retries, dead letters and their replay by an administrator.      *)
(*                                                                         *)
(* No statement of the service shares a transaction with another, so each  *)
(* is a step.  A process polls one job at a time (job.worker.ts, running), *)
(* so a worker is a process.  Which of the due jobs is found first is left *)
(* open; the code takes the one that is due longest.                       *)
(***************************************************************************)
EXTENDS Naturals

CONSTANTS
    JobIds,
    Workers,      \* API processes
    Operators,    \* replay requests of platform administrators
    MaxAttempts,  \* Job.maxAttempts
    MayCrash,     \* whether processes die, or lose the database, on the way
    NoJob

ASSUME AttemptsAssumption == MaxAttempts \in Nat \ {0}
ASSUME NoJobAssumption == NoJob \notin JobIds

VARIABLES
    job,       \* job[j]: status and attempts of the Job row
    ready,     \* jobs whose runAt has passed
    settled,   \* jobs whose order no longer waits for them
    worker,    \* worker[w]: where processDue is, and what it read
    replaying, \* replaying[p]: the dead letter operator p has read
    reset      \* history: jobs that a replay has reset while they ran

vars == <<job, ready, settled, worker, replaying, reset>>

-----------------------------------------------------------------------------
JobStatus == {"PENDING", "RUNNING", "RETRY", "COMPLETED", "DEAD_LETTER"}
Job == [status : JobStatus, attempts : Nat]

(* found: a candidate was read.  claimed: the update matched.  running,    *)
(* ran, failed: the handler is to run, returned, threw.                    *)
Worker == [at : {"idle", "found", "claimed", "running", "ran", "failed"},
           job : JobIds \cup {NoJob}, row : Job]

NoRow == [status |-> "PENDING", attempts |-> 0]
Idle == [at |-> "idle", job |-> NoJob, row |-> NoRow]

Goes(w, at) == worker' = [worker EXCEPT ![w].at = at]
Rests(w) == worker' = [worker EXCEPT ![w] = Idle]

(* Mutant: one attempt too many.                                           *)
resolveJobFailureLate(attempts) == attempts > MaxAttempts

(* job-domain.ts: attempts counts the attempt that has just failed.        *)
resolveJobFailure(attempts) == attempts >= MaxAttempts

-----------------------------------------------------------------------------
(* claim *)

(* Mutant: the poller forgets the retries.                                 *)
IsDueFirstTime(j) == job[j].status = "PENDING" /\ j \in ready

IsDue(j) == job[j].status \in {"PENDING", "RETRY"} /\ j \in ready

FindCandidate(w, j) ==
    /\ worker[w].at = "idle"
    /\ IsDue(j)
    /\ worker' = [worker EXCEPT ![w] = [at |-> "found", job |-> j, row |-> job[j]]]
    /\ UNCHANGED <<job, ready, settled, replaying, reset>>

(* Mutants: an update by id alone, and by id and status.                   *)
MatchesAlways(j, row) == TRUE
MatchesStatus(j, row) == job[j].status = row.status

(* The update matches the row by the status and the attempts that were     *)
(* read.  When it matches none, claim starts over.                         *)
Matches(j, row) == job[j] = row

Claim(w) ==
    LET j == worker[w].job
    IN  /\ worker[w].at = "found"
        /\ Matches(j, worker[w].row)
        /\ job' = [job EXCEPT ![j] = [status |-> "RUNNING", attempts |-> @.attempts + 1]]
        /\ Goes(w, "claimed")
        /\ UNCHANGED <<ready, settled, replaying, reset>>

ClaimLost(w) ==
    /\ worker[w].at = "found"
    /\ ~Matches(worker[w].job, worker[w].row)
    /\ Rests(w)
    /\ UNCHANGED <<job, ready, settled, replaying, reset>>

(* The claimed row is read again; what fail will judge by.                 *)
Load(w) ==
    /\ worker[w].at = "claimed"
    /\ worker' = [worker EXCEPT ![w].at = "running", ![w].row = job[worker[w].job]]
    /\ UNCHANGED <<job, ready, settled, replaying, reset>>

-----------------------------------------------------------------------------
(* processDue *)

(* closeExpiredOrder and autoConfirmReceipt: one transaction that moves    *)
(* the order on if it still waits, and returns quietly if it does not.     *)
Run(w) ==
    /\ worker[w].at = "running"
    /\ settled' = settled \cup {worker[w].job}
    /\ Goes(w, "ran")
    /\ UNCHANGED <<job, ready, replaying, reset>>

(* Mutant: the error of a handler is swallowed.                            *)
ThrowSwallowed(w) ==
    /\ worker[w].at = "running"
    /\ Goes(w, "ran")
    /\ UNCHANGED <<job, ready, settled, replaying, reset>>

(* The provider is down, the transaction conflicts or is rolled back, or   *)
(* the completing update fails after the handler has done its work.        *)
Throw(w) ==
    /\ worker[w].at \in {"running", "ran"}
    /\ Goes(w, "failed")
    /\ UNCHANGED <<job, ready, settled, replaying, reset>>

Complete(w) ==
    /\ worker[w].at = "ran"
    /\ job' = [job EXCEPT ![worker[w].job].status = "COMPLETED"]
    /\ Rests(w)
    /\ UNCHANGED <<ready, settled, replaying, reset>>

(* fail: a dead letter after the last attempt, else a retry later on.      *)
Fail(w) ==
    LET j == worker[w].job
        deadLetter == resolveJobFailure(worker[w].row.attempts)
    IN  /\ worker[w].at = "failed"
        /\ job' = [job EXCEPT ![j].status = IF deadLetter THEN "DEAD_LETTER" ELSE "RETRY"]
        /\ ready' = IF deadLetter THEN ready ELSE ready \ {j}
        /\ Rests(w)
        /\ UNCHANGED <<settled, replaying, reset>>

(* The process dies, or an error leaves processDue between the claim and   *)
(* the end of fail: nothing but its own memory knows of the job.           *)
Crash(w) ==
    /\ MayCrash
    /\ worker[w].at # "idle"
    /\ Rests(w)
    /\ UNCHANGED <<job, ready, settled, replaying, reset>>

-----------------------------------------------------------------------------
(* replay: reads, then writes without a condition.  Nothing keeps two      *)
(* replays of a job apart: the second may write long after the first one   *)
(* has started the job again.                                              *)

ReplayRead(p, j) ==
    /\ replaying[p] = NoJob
    /\ job[j].status = "DEAD_LETTER"
    /\ replaying' = [replaying EXCEPT ![p] = j]
    /\ UNCHANGED <<job, ready, settled, worker, reset>>

ReplayWrite(p) ==
    LET j == replaying[p]
    IN  /\ j # NoJob
        /\ job' = [job EXCEPT ![j] = [status |-> "PENDING", attempts |-> 0]]
        /\ ready' = ready \cup {j}
        /\ replaying' = [replaying EXCEPT ![p] = NoJob]
        /\ reset' = IF job[j].status = "RUNNING" THEN reset \cup {j} ELSE reset
        /\ UNCHANGED <<settled, worker>>

-----------------------------------------------------------------------------
(* runAt passes; somebody else pays, cancels or confirms the order.        *)
TimePasses(j) ==
    /\ j \notin ready
    /\ ready' = ready \cup {j}
    /\ UNCHANGED <<job, settled, worker, replaying, reset>>

SettledByOthers(j) ==
    /\ j \notin settled
    /\ settled' = settled \cup {j}
    /\ UNCHANGED <<job, ready, worker, replaying, reset>>

-----------------------------------------------------------------------------
Init ==
    /\ job = [j \in JobIds |-> NoRow]
    /\ ready = {}
    /\ settled = {}
    /\ worker = [w \in Workers |-> Idle]
    /\ replaying = [p \in Operators |-> NoJob]
    /\ reset = {}

Claiming(w) ==
    \/ \E j \in JobIds : FindCandidate(w, j)
    \/ Claim(w) \/ ClaimLost(w) \/ Load(w)

Processing(w) == Run(w) \/ Throw(w) \/ Complete(w) \/ Fail(w)

Next ==
    \/ \E w \in Workers : Claiming(w) \/ Processing(w) \/ Crash(w)
    \/ \E p \in Operators : ReplayWrite(p) \/ \E j \in JobIds : ReplayRead(p, j)
    \/ \E j \in JobIds : TimePasses(j) \/ SettledByOthers(j)

Spec == Init /\ [][Next]_vars

(* A process polls every 15 seconds and its event loop goes on; the clock  *)
(* goes on.  Nothing makes a handler succeed, an operator replay or a      *)
(* buyer settle an order.                                                  *)
Fairness ==
    /\ \A w \in Workers : WF_vars(Claiming(w) \/ Processing(w))
    /\ \A j \in JobIds : WF_vars(TimePasses(j))

FairSpec == Spec /\ Fairness
-----------------------------------------------------------------------------
(* Properties *)

TypeOK ==
    /\ job \in [JobIds -> Job]
    /\ ready \subseteq JobIds
    /\ settled \subseteq JobIds
    /\ worker \in [Workers -> Worker]
    /\ replaying \in [Operators -> JobIds \cup {NoJob}]
    /\ reset \subseteq JobIds

Holds(w, j) == worker[w].job = j /\ worker[w].at \notin {"idle", "found"}

(* A job is run by one process at a time, whatever the others have read:   *)
(* the row of a job somebody holds is RUNNING, in the attempt he knows of. *)
(* Excused is a job that a late replay has reset while it ran, which only  *)
(* overlapping replays can.                                                *)
OneWorkerPerJob ==
    \A w \in Workers, j \in JobIds \ reset : Holds(w, j) =>
        /\ \A v \in Workers : Holds(v, j) => v = w
        /\ job[j].status = "RUNNING"
        /\ worker[w].at # "claimed" => worker[w].row = job[j]

(* The attempts of a job are counted: MaxAttempts of them make a dead      *)
(* letter, neither fewer nor more, unless a late replay has reset the job  *)
(* while it ran.                                                           *)
AttemptsCounted ==
    \A j \in JobIds \ reset :
        CASE job[j].status = "PENDING"     -> job[j].attempts = 0
          [] job[j].status = "RETRY"       -> job[j].attempts \in 1..(MaxAttempts - 1)
          [] job[j].status = "DEAD_LETTER" -> job[j].attempts = MaxAttempts
          [] OTHER                         -> job[j].attempts \in 1..MaxAttempts

(* A job is completed only when its order no longer waits for it, whatever *)
(* replays do meanwhile.                                                   *)
CompletedIsSettled ==
    \A j \in JobIds : job[j].status = "COMPLETED" => j \in settled

(* What the processes have in hand.                                        *)
WorkersAreCurrent ==
    \A w \in Workers :
      /\ worker[w].at # "idle" => worker[w].job \in JobIds
      /\ worker[w].at = "found" => worker[w].row.status \in {"PENDING", "RETRY"}
      /\ worker[w].at = "ran" => worker[w].job \in settled

(* The inductive invariant of the proofs.                                  *)
IInv ==
    /\ TypeOK
    /\ WorkersAreCurrent
    /\ OneWorkerPerJob
    /\ AttemptsCounted
    /\ CompletedIsSettled

(* What is finished starts again only by a replay: a dead letter, and by   *)
(* one that had read it as a dead letter before, a completed job.  No      *)
(* process with an old row in hand does it.  A job that was reset while it *)
(* ran is excused: two processes may end it then.                          *)
FinishedStaysFinished ==
    [][\A j \in JobIds \ reset :
         /\ job[j].status = "COMPLETED" =>
              job'[j] = job[j] \/ (job'[j] = NoRow /\ \E p \in Operators : replaying[p] = j)
         /\ job[j].status = "DEAD_LETTER" => job'[j] \in {job[j], NoRow}]_vars

(* No process starts a retry before its time, however old the row is that  *)
(* it found: as long as nobody replays, a row never looks the same twice.  *)
NoEarlyRetry ==
    [][\A j \in JobIds : job'[j].status = "RUNNING" /\ job'[j] # job[j] => j \in ready]_vars

(* Every order is settled in the end, or its job is a dead letter for the  *)
(* operators to see.                                                       *)
SettledOrDead ==
    \A j \in JobIds : <>(j \in settled \/ job[j].status = "DEAD_LETTER")

(* No job stays claimed for ever.                                          *)
ClaimsEnd == \A j \in JobIds : job[j].status = "RUNNING" ~> job[j].status # "RUNNING"

(* When no two replays of a job overlap, a replay finds the dead letter it *)
(* has read: no job is reset while it runs, or when it has completed.      *)
NoOverlap ==
    \A p, q \in Operators : replaying[p] = replaying[q] /\ replaying[p] # NoJob => p = q
ReplaysAreCurrent ==
    /\ reset = {}
    /\ \A p \in Operators : replaying[p] # NoJob => job[replaying[p]].status = "DEAD_LETTER"

-----------------------------------------------------------------------------
(* What is said and not so; README.md tells which instances refute it.     *)

(* The design of G25 gives a job a lease, and makes exhausted jobs dead    *)
(* letters: a process that dies does not keep its job for ever.            *)
LeaseEnds == \A j \in JobIds : []<>(job[j].status # "RUNNING")

(* replay throws JOB_NOT_DEAD_LETTER for anything else: it never resets a  *)
(* job that runs or has completed.                                         *)
OnlyDeadLettersReplay ==
    [][\A j \in JobIds : job[j].status \in {"RUNNING", "COMPLETED"}
                            => job'[j].status # "PENDING"]_vars
=============================================================================
