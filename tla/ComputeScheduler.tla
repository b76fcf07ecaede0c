-------------------------- MODULE ComputeScheduler --------------------------
(***************************************************************************)
(* LocalComputeScheduler.run with the job store and the runner             *)
(* (platform/compute/scheduler): batches of jobs whose dependencies have   *)
(* succeeded, one worker thread per job, retries up to max_retries, runs   *)
(* that are killed, raise, or stop at the first failure (fail_fast), and   *)
(* later runs on the same state directory, with or without resume.         *)
(*                                                                         *)
(* A store operation is one step (the store's lock, and a state file that  *)
(* is replaced whole).  The cancel-job command runs in a process of its    *)
(* own, where the lock does not reach: it reads the state in one step and  *)
(* writes it back in another.  GPU leases are counted; GpuLease has the    *)
(* lock files.                                                             *)
(***************************************************************************)
EXTENDS Naturals, FiniteSetsExt

CONSTANTS
    Jobs,           \* numbered as runnable_jobs sorts them (priority, job_id)
    Deps,           \* dependencies of each job
    GpusOf,         \* gpu_count of each job, 0 for a CPU job
    MaxRetries,     \* max_retries of each job
    Gpus,           \* devices of the machine
    MaxCpu, MaxGpu, FailFast,   \* the scheduler's configuration
    MaxLines,       \* bound on the lines of one job in compute_jobs.jsonl
    MaxRuns, MaxCrashes, MaxFaults, MaxCancels, MaxTorn \* bounds on events

ASSUME JobsAssumption == Jobs \subseteq Nat /\ IsFiniteSet(Jobs)
ASSUME SpecAssumption ==
    /\ Deps \in [Jobs -> SUBSET Jobs]
    /\ GpusOf \in [Jobs -> Nat]
    /\ MaxRetries \in [Jobs -> Nat]
ASSUME ConfigAssumption ==
    Gpus \in Nat /\ MaxCpu \in Nat /\ MaxGpu \in Nat /\ FailFast \in BOOLEAN
ASSUME BoundsAssumption ==
    /\ MaxLines \in Nat /\ MaxRuns \in Nat /\ MaxCrashes \in Nat
    /\ MaxFaults \in Nat /\ MaxCancels \in Nat /\ MaxTorn \in Nat

VARIABLES
    lines,      \* compute_jobs.jsonl: <<job, n>> for the job's nth line
    known,      \* jobs with a row in compute_job_state.json
    status, attempts,   \* the rows (a job without one reads as pending, 0)
    main,       \* where run() is
    resume,     \* this run resumes
    queue,      \* runnable lines the batch has still to consider
    batch,      \* scheduled lines whose future has not been collected
    job,        \* the line run() is working on
    worker, result,     \* the thread of each line, the outcome of its run
    leases,     \* GPUs leased to each line
    leaked,     \* GPUs whose lock file no process will release
    snapshot,   \* the state cancel-job has read
    lastRun, launches,  \* history: latest row of compute_job_runs.jsonl, Popens
    runs, crashes, faults, cancels, torn

store == <<lines, known, status, attempts>>
threads == <<worker, result>>
loop == <<main, resume, queue, batch, job>>
devices == <<leases, leaked>>
history == <<lastRun, launches>>
events == <<runs, crashes, faults, cancels, torn>>
vars == <<store, threads, loop, devices, snapshot, history, events>>

Lines == Jobs \X (1..MaxLines)
NoLine == <<>>
JobOf(l) == l[1]

Failures == {"failed", "timed_out"}
Statuses == {"pending", "leased", "running", "success", "cancelled", "resumed"}
            \cup Failures

Rows == [known: SUBSET Jobs, status: [Jobs -> Statuses], attempts: [Jobs -> Nat]]
NoSnapshot == [job |-> 0]

TypeOK ==
    /\ lines \subseteq Lines
    /\ [known |-> known, status |-> status, attempts |-> attempts] \in Rows
    /\ main \in {"down", "plan", "schedule", "lease", "collect", "judge",
                 "drain", "raise", "report"}
    /\ resume \in BOOLEAN
    /\ queue \subseteq lines /\ batch \subseteq lines
    /\ job \in lines \cup {NoLine}
    /\ worker \in [Lines -> {"none", "count", "mark", "launch", "run",
                             "record", "finish", "done", "raised"}]
    /\ result \in [Lines -> {"none", "success"} \cup Failures]
    /\ leases \in [Lines -> Nat] /\ leaked \in Nat
    /\ snapshot = NoSnapshot \/ snapshot.job \in Jobs
    /\ lastRun \in [Jobs -> {"none", "success"} \cup Failures]
    /\ launches \in [Jobs -> Nat]

Init ==
    /\ lines = {} /\ known = {}
    /\ status = [j \in Jobs |-> "pending"]
    /\ attempts = [j \in Jobs |-> 0]
    /\ main = "down" /\ resume = FALSE
    /\ queue = {} /\ batch = {} /\ job = NoLine
    /\ worker = [l \in Lines |-> "none"]
    /\ result = [l \in Lines |-> "none"]
    /\ leases = [l \in Lines |-> 0] /\ leaked = 0
    /\ snapshot = NoSnapshot
    /\ lastRun = [j \in Jobs |-> "none"]
    /\ launches = [j \in Jobs |-> 0]
    /\ runs = 0 /\ crashes = 0 /\ faults = 0 /\ cancels = 0 /\ torn = 0

\* The lines in queue order: by job, then by position in the file.
First(ls) ==
    CHOOSE l \in ls: \A m \in ls: l[1] < m[1] \/ (l[1] = m[1] /\ l[2] <= m[2])

\* update_status makes the row when it is missing.
UpdateStatus(j, to) ==
    /\ status' = [status EXCEPT ![j] = to]
    /\ known' = known \cup {j}

-----------------------------------------------------------------------------
(***************************************************************************)
(* submit_jobs                                                             *)
(***************************************************************************)
\* The next line of a job that has no row.
NewLines(js) ==
    {<<j, Cardinality({l \in lines: JobOf(l) = j}) + 1>>: j \in js \ known}

Submit ==
    /\ main = "down"
    /\ NewLines(Jobs) # {} /\ NewLines(Jobs) \subseteq Lines
    /\ lines' = lines \cup NewLines(Jobs)
    /\ known' = Jobs
    /\ UNCHANGED <<status, attempts, threads, loop, devices, snapshot,
                   history, events>>

\* Killed before save_state: some of the lines are in the file.
SubmitTorn ==
    /\ main = "down" /\ torn < MaxTorn
    /\ \E n \in Jobs:
         LET written == NewLines({j \in Jobs: j <= n})
         IN /\ written # {} /\ written \subseteq Lines
            /\ lines' = lines \cup written
    /\ torn' = torn + 1
    /\ UNCHANGED <<known, status, attempts, threads, loop, devices,
                   snapshot, history, runs, crashes, faults, cancels>>

-----------------------------------------------------------------------------
(***************************************************************************)
(* run: the loop                                                           *)
(***************************************************************************)
\* Mutant: whatever is not pending is resumed.
ResumedAll(j) == IF j \in known /\ status[j] # "pending" THEN "resumed" ELSE status[j]

\* Mutant: jobs that were running when their scheduler died are left out.
ResumedFailed(j) ==
    IF j \in known /\ status[j] \in Failures THEN "resumed" ELSE status[j]

\* resume_pending_or_failed
Resumed(j) ==
    IF j \in known /\ status[j] \in Failures \cup {"running", "leased"}
    THEN "resumed" ELSE status[j]

Start(r) ==
    /\ main = "down" /\ runs < MaxRuns
    /\ runs' = runs + 1
    /\ resume' = r
    /\ status' = IF r THEN [j \in Jobs |-> Resumed(j)] ELSE status
    /\ main' = "plan"
    /\ UNCHANGED <<lines, known, attempts, threads, queue, batch, job, devices,
                   snapshot, history, crashes, faults, cancels, torn>>

DependenciesSatisfied(j) == \A d \in Deps[j]: status[d] = "success"

\* Mutant: one attempt too many.
RetriesLeftAndOne(j) == attempts[j] <= MaxRetries[j] + 1

RetriesLeft(j) == attempts[j] <= MaxRetries[j]

Runnable(j) ==
    /\ \/ status[j] \in {"pending", "resumed"}
       \/ resume /\ status[j] \in Failures
    /\ DependenciesSatisfied(j)
    /\ RetriesLeft(j)

Plan ==
    /\ main = "plan"
    /\ queue' = {l \in lines: Runnable(JobOf(l))}
    /\ main' = IF queue' = {} THEN "report" ELSE "schedule"
    /\ UNCHANGED <<store, threads, resume, batch, job, devices,
                   snapshot, history, events>>

(***************************************************************************)
(* _schedule_batch                                                         *)
(***************************************************************************)
OnGpu(l) == GpusOf[JobOf(l)] > 0

Scheduled(gpu) == Cardinality({l \in batch: OnGpu(l) = gpu})

\* A line the batch has no room for, or whose job has succeeded meanwhile.
PassedOver(l) ==
    \/ status[JobOf(l)] = "success"
    \/ OnGpu(l) /\ Scheduled(TRUE) >= MaxGpu
    \/ ~OnGpu(l) /\ Scheduled(FALSE) >= Max({1, MaxCpu})

\* The line the batch considers next.
Candidate == First(queue)

Consider ==
    /\ main = "schedule" /\ queue # {}
    /\ queue' = queue \ {Candidate}
    /\ PassedOver(Candidate) \/ ~OnGpu(Candidate)
    /\ batch' = IF PassedOver(Candidate) THEN batch ELSE batch \cup {Candidate}
    /\ UNCHANGED <<store, threads, main, resume, job, devices,
                   snapshot, history, events>>

Leased == MapThenSumSet(LAMBDA l: leases[l], Lines)

\* acquire_gpu_lease; the sweep frees those leaked GPUs whose heartbeat is old.
Lease ==
    /\ main = "schedule" /\ queue # {}
    /\ ~PassedOver(Candidate) /\ OnGpu(Candidate)
    /\ queue' = queue \ {Candidate}
    /\ leaked' \in 0..leaked
    /\ Leased + leaked' + GpusOf[JobOf(Candidate)] <= Gpus
    /\ leases' = [leases EXCEPT ![Candidate] = GpusOf[JobOf(Candidate)]]
    /\ job' = Candidate
    /\ main' = "lease"
    /\ UNCHANGED <<store, threads, resume, batch, snapshot, history,
                   events>>

MarkLeased ==
    /\ main = "lease"
    /\ UpdateStatus(JobOf(job), "leased")
    /\ batch' = batch \cup {job}
    /\ job' = NoLine
    /\ main' = "schedule"
    /\ UNCHANGED <<lines, attempts, threads, resume, queue, devices,
                   snapshot, history, events>>

\* No lease: too few devices are free or visible.
NoLease ==
    /\ main = "schedule" /\ queue # {}
    /\ ~PassedOver(Candidate) /\ OnGpu(Candidate)
    /\ leaked' \in 0..leaked
    /\ queue' = queue \ {Candidate}
    /\ IF FailFast THEN UpdateStatus(JobOf(Candidate), "failed")
       ELSE UNCHANGED <<known, status>>
    /\ UNCHANGED <<lines, attempts, threads, main, resume, batch, job, leases,
                   snapshot, history, events>>

\* Mutant: without capacity the loop tries again.
DispatchOrRetry ==
    /\ main = "schedule" /\ queue = {}
    /\ main' = IF batch = {} THEN "plan" ELSE "collect"
    /\ worker' = [l \in Lines |-> IF l \in batch THEN "count" ELSE "none"]
    /\ result' = [l \in Lines |-> "none"]
    /\ UNCHANGED <<store, resume, queue, batch, job, devices, snapshot,
                   history, events>>

\* The batch goes to the thread pool, or there is no capacity and the run ends.
Dispatch ==
    /\ main = "schedule" /\ queue = {}
    /\ main' = IF batch = {} THEN "report" ELSE "collect"
    /\ worker' = [l \in Lines |-> IF l \in batch THEN "count" ELSE "none"]
    /\ result' = [l \in Lines |-> "none"]
    /\ UNCHANGED <<store, resume, queue, batch, job, devices, snapshot,
                   history, events>>

-----------------------------------------------------------------------------
(***************************************************************************)
(* run_job, in a thread                                                    *)
(***************************************************************************)
Goto(l, from, to) ==
    /\ worker[l] = from
    /\ worker' = [worker EXCEPT ![l] = to]
    /\ UNCHANGED <<lines, loop, devices, snapshot, events>>

\* increment_attempt
CountAttempt(l) ==
    /\ Goto(l, "count", "mark")
    /\ attempts' = [attempts EXCEPT ![JobOf(l)] = @ + 1]
    /\ known' = known \cup {JobOf(l)}
    /\ UNCHANGED <<status, result, history>>

MarkRunning(l) ==
    /\ Goto(l, "mark", "launch")
    /\ UpdateStatus(JobOf(l), "running")
    /\ UNCHANGED <<attempts, result, history>>

Launch(l) ==
    /\ Goto(l, "launch", "run")
    /\ launches' = [launches EXCEPT ![JobOf(l)] = @ + 1]
    /\ UNCHANGED <<known, status, attempts, result, lastRun>>

\* The command is empty or cannot be started.
LaunchFails(l) ==
    /\ Goto(l, "launch", "record")
    /\ result' = [result EXCEPT ![l] = "failed"]
    /\ UNCHANGED <<known, status, attempts, history>>

\* The process exits, or is killed after max_duration_seconds.
Exit(l) ==
    /\ Goto(l, "run", "record")
    /\ \E r \in {"success"} \cup Failures: result' = [result EXCEPT ![l] = r]
    /\ UNCHANGED <<known, status, attempts, history>>

\* append_run
Record(l) ==
    /\ Goto(l, "record", "finish")
    /\ lastRun' = [lastRun EXCEPT ![JobOf(l)] = result[l]]
    /\ UNCHANGED <<known, status, attempts, result, launches>>

Finish(l) ==
    /\ Goto(l, "finish", "done")
    /\ UpdateStatus(JobOf(l), result[l])
    /\ UNCHANGED <<attempts, result, history>>

\* A read or write of the runner itself raises OSError.
WorkerRaises(l) ==
    /\ faults < MaxFaults
    /\ worker[l] \in {"count", "mark", "launch", "record", "finish"}
    /\ worker' = [worker EXCEPT ![l] = "raised"]
    /\ faults' = faults + 1
    /\ UNCHANGED <<store, result, loop, devices, snapshot, history,
                   runs, crashes, cancels, torn>>

Work(l) ==
    \/ CountAttempt(l) \/ MarkRunning(l) \/ Launch(l) \/ LaunchFails(l)
    \/ Exit(l) \/ Record(l) \/ Finish(l)

-----------------------------------------------------------------------------
(***************************************************************************)
(* run: as_completed, and the ways out                                     *)
(***************************************************************************)
\* The batch is over with its last future.
Collected(l) ==
    /\ batch' = batch \ {l}
    /\ job' = NoLine
    /\ main' = IF batch' = {} THEN "plan" ELSE "collect"

\* The future of l gives a run to judge, or an exception, or a success.
Taken(l) ==
    IF worker[l] = "done" /\ result[l] \notin Failures
    THEN Collected(l)
    ELSE /\ job' = l
         /\ main' = IF worker[l] = "raised" THEN "raise" ELSE "judge"
         /\ UNCHANGED batch

\* Its lease is released, whatever future.result() gives.
Collect(l) ==
    /\ main = "collect" /\ l \in batch /\ worker[l] \in {"done", "raised"}
    /\ leases' = [leases EXCEPT ![l] = 0]
    /\ Taken(l)
    /\ UNCHANGED <<store, threads, resume, queue, leaked, snapshot,
                   history, events>>

\* A failed job waits for another attempt, or ends the run, or is left alone.
Judge ==
    /\ main = "judge"
    /\ IF RetriesLeft(JobOf(job))
       THEN UpdateStatus(JobOf(job), "pending") /\ Collected(job)
       ELSE /\ UNCHANGED <<known, status>>
            /\ IF FailFast THEN main' = "drain" /\ UNCHANGED <<batch, job>>
               ELSE Collected(job)
    /\ UNCHANGED <<lines, attempts, threads, resume, queue, devices,
                   snapshot, history, events>>

\* run() is over; leases it did not release stay on disk.
Over ==
    /\ batch' = {} /\ queue' = {} /\ job' = NoLine
    /\ worker' = [l \in Lines |-> "none"]
    /\ result' = [l \in Lines |-> "none"]
    /\ leases' = [l \in Lines |-> 0]
    /\ leaked' = leaked + Leased

\* return, or the exception, leaves the with-block of the thread pool, which
\* waits for every thread.
LeavePool ==
    /\ main \in {"drain", "raise"}
    /\ \A l \in batch: worker[l] \in {"done", "raised"}
    /\ main' = IF main = "drain" THEN "report" ELSE "down"
    /\ Over
    /\ UNCHANGED <<store, resume, snapshot, history, events>>

\* write_compute_report: the status it gives the run.
ReportStatus ==
    IF \E j \in known: status[j] \in Failures THEN "failed" ELSE "success"

Report ==
    /\ main = "report"
    /\ main' = "down"
    /\ UNCHANGED <<store, threads, resume, queue, batch, job, devices, snapshot,
                   history, events>>

Crash ==
    /\ main # "down" /\ crashes < MaxCrashes
    /\ crashes' = crashes + 1
    /\ main' = "down"
    /\ Over
    /\ UNCHANGED <<store, resume, snapshot, history, runs, faults,
                   cancels, torn>>

(***************************************************************************)
(* cancel-job, in a process of its own                                     *)
(***************************************************************************)
CancelRead(j) ==
    /\ snapshot = NoSnapshot /\ cancels < MaxCancels
    /\ snapshot' = [job |-> j, known |-> known, status |-> status,
                    attempts |-> attempts]
    /\ cancels' = cancels + 1
    /\ UNCHANGED <<store, threads, loop, devices, history, runs,
                   crashes, faults, torn>>

CancelWrite ==
    /\ snapshot # NoSnapshot
    /\ known' = snapshot.known \cup {snapshot.job}
    /\ status' = [snapshot.status EXCEPT ![snapshot.job] = "cancelled"]
    /\ attempts' = snapshot.attempts
    /\ snapshot' = NoSnapshot
    /\ UNCHANGED <<lines, threads, loop, devices, history, events>>

-----------------------------------------------------------------------------
Loop ==
    \/ Plan \/ Consider \/ Lease \/ MarkLeased \/ NoLease \/ Dispatch
    \/ (\E l \in Lines: Collect(l)) \/ Judge \/ LeavePool \/ Report

Next ==
    \/ Submit \/ SubmitTorn
    \/ \E r \in BOOLEAN: Start(r)
    \/ Loop
    \/ \E l \in Lines: Work(l) \/ WorkerRaises(l)
    \/ Crash
    \/ \E j \in Jobs: CancelRead(j)
    \/ CancelWrite

Spec == Init /\ [][Next]_vars

\* The loop goes on, and so does every thread; a job's process ends (by itself,
\* or killed when it has a max_duration_seconds).
FairSpec == Spec /\ WF_vars(Loop) /\ \A l \in Lines: WF_vars(Work(l))

-----------------------------------------------------------------------------
(***************************************************************************)
(* Properties                                                              *)
(***************************************************************************)
Busy(l) == worker[l] \notin {"none", "done", "raised"}

\* A job is worked on only while every job it depends on has succeeded, in the
\* store and by the record of its latest run.
DependenciesFirst ==
    \A l \in Lines: Busy(l) =>
        \A d \in Deps[JobOf(l)]: status[d] = "success" /\ lastRun[d] = "success"

\* No job is started more often than its retries allow, over all runs, resumes,
\* crashes and errors of the scheduler.
LaunchesBounded == \A j \in Jobs: launches[j] <= MaxRetries[j] + 1

\* A job starts only when its dependencies and its retries allow it.
StartsAreDue == DependenciesFirst /\ LaunchesBounded

\* A job that has succeeded stays so and is never started again.
SuccessIsFinal ==
    [][\A j \in Jobs: status[j] = "success" =>
           status'[j] = "success" /\ launches'[j] = launches[j]]_vars

\* A run that neither dies, raises nor stops early gives back every GPU.
DevicesGivenBack ==
    (crashes = 0 /\ faults = 0 /\ ~FailFast /\ main \in {"down", "plan"}) =>
        leaked = 0 /\ Leased = 0

\* When a run that resumes ends by itself, a job that is neither done nor
\* cancelled waits for a dependency or for a device, or has no attempt left: no
\* crash, error or timeout before or during the run makes it forget one.
JobsAccountedFor ==
    (main = "report" /\ resume /\ ~FailFast) =>
        \A l \in lines:
            \/ status[JobOf(l)] \in {"success", "cancelled"}
            \/ ~DependenciesSatisfied(JobOf(l)) \/ ~RetriesLeft(JobOf(l))
            \/ OnGpu(l)

\* When nothing was killed, a run that reports success hides no job whose
\* latest run failed, but those that resume has named "resumed" and those that
\* wait for a device to be tried again.
FailuresReported ==
    (main = "report" /\ ReportStatus = "success" /\ crashes = 0 /\ faults = 0) =>
        \A l \in lines: lastRun[JobOf(l)] \in Failures =>
            \/ status[JobOf(l)] = "resumed"
            \/ status[JobOf(l)] = "pending" /\ OnGpu(l)

\* A run that ends by itself forgets neither a job, nor a device, nor a failure.
NothingForgotten ==
    TypeOK /\ JobsAccountedFor /\ DevicesGivenBack /\ FailuresReported

\* Every run ends.
RunEnds == (main # "down") ~> (main = "down")
=============================================================================
