------------------------------ MODULE JobFlow ------------------------------
(***************************************************************************)
(* The life of a conversion batch: POST /convert, the worker goroutine it  *)
(* starts, POST /jobs/{id}/retry with its own worker, and the sweeper, all *)
(* of them over the job directories.  internal/server/convert_flow.go,     *)
(* internal/jobs/jobs.go and zip_sweep.go, internal/convert/runner.go.     *)
(*                                                                         *)
(* A job is identified with the POST /convert that makes it, an upload     *)
(* with its position in the batch.  A task is a request together with the  *)
(* worker it launches.                                                     *)
(***************************************************************************)
EXTENDS Integers, FiniteSets

CONSTANTS
    Jobs,           \* POST /convert requests
    Retries,        \* POST /jobs/{id}/retry requests
    None,           \* no task, no job
    MaxFiles,       \* bound: the most uploads in a batch
    MaxConcurrent,  \* MAX_CONCURRENT, of any sign
    FaultyWrites,   \* the disk writes that may fail
    MaxCrashes      \* bound: the times the server process may die

Tasks == Jobs \cup Retries
Inputs == 1..MaxFiles
Writes == {"mkdir", "create", "inputs", "seed", "update", "retryConfig", "retrySave"}

ASSUME TasksAssumption == Jobs \cap Retries = {} /\ None \notin Tasks
ASSUME FilesAssumption == MaxFiles \in Nat \ {0}
ASSUME ConcurrencyAssumption == MaxConcurrent \in Int
ASSUME FaultsAssumption == FaultyWrites \subseteq Writes /\ MaxCrashes \in Nat

\* Mutant: the cap taken as configured.
UnclampedSlots == MaxConcurrent

\* server.New: a non-positive cap becomes one.
Slots == IF MaxConcurrent < 1 THEN 1 ELSE MaxConcurrent

VARIABLES
    \* ---- the disk ----
    dir,        \* job directories that exist
    expired,    \* those whose mtime is older than the TTL
    saved,      \* those with a readable status.json
    status,     \* what status.json says, for the jobs in saved
    stored,     \* uploads under <job>/in
    out,        \* uploads with some file under <job>/out/<input>
    \* ---- the process ----
    hpc,        \* where each request handler is
    wpc,        \* where each worker goroutine is
    target,     \* the job a retry is about
    todo,       \* the uploads a worker still has to settle
    result,     \* the row a worker is about to record
    snap,       \* the status read by the holder of s.mu
    mu,         \* the holder of s.mu
    sem,        \* the workers holding a token of s.sem
    sweepPc, sweepJob,
    \* ---- history ----
    raced,      \* jobs removed under a task that was using them
    crashes

disk == <<dir, expired, saved, status, stored, out>>
vars == <<disk, hpc, wpc, target, todo, result, snap, mu, sem, sweepPc, sweepJob,
          raced, crashes>>

States == {"absent", "pending", "done", "failed"}
Row == [state : States, outs : BOOLEAN]
Status == [rows : [Inputs -> Row], done : BOOLEAN]

NoRow == [state |-> "absent", outs |-> FALSE]
\* Mutant: rows seeded with a state no handler knows.
RunningRow == [state |-> "running", outs |-> FALSE]
Pending == [state |-> "pending", outs |-> FALSE]
NoRows == [rows |-> [i \in Inputs |-> NoRow], done |-> FALSE]

Present(rows) == {i \in Inputs : rows[i].state # "absent"}
FailedOf(rows) == {i \in Inputs : rows[i].state = "failed"}

\* allTerminal
AllTerminal(rows) ==
    /\ Present(rows) # {}
    /\ \A i \in Present(rows) : rows[i].state \in {"done", "failed"}

\* seedPending: a pending row for each persisted input.
Seeded(st, inputs) ==
    [st EXCEPT !.rows = [i \in Inputs |-> IF i \in inputs THEN Pending ELSE st.rows[i]]]

\* Mutant: updateFile does not recompute Done.
MergeKeepsDone(st, i, row) == [st EXCEPT !.rows[i] = row]

\* updateFile: the row's place in the list stays, Done is recomputed.
Merge(st, i, row) ==
    LET rows == [st.rows EXCEPT ![i] = row]
    IN  [rows |-> rows, done |-> AllTerminal(rows)]

\* Mutants: the flip to pending is forgotten, or takes every row.
ResetFlagOnly(st) == [st EXCEPT !.done = FALSE]
ResetEveryRow(st) ==
    [rows |-> [i \in Inputs |-> IF st.rows[i].state # "absent" THEN Pending ELSE NoRow],
     done |-> FALSE]

\* handleRetry: failed rows become pending again and keep their outputs.
Reset(st) ==
    [rows |-> [i \in Inputs |-> IF st.rows[i].state = "failed"
                                THEN [st.rows[i] EXCEPT !.state = "pending"]
                                ELSE st.rows[i]],
     done |-> FALSE]

JobOf(t) == IF t \in Jobs THEN t ELSE target[t]
MayFail(write) == write \in FaultyWrites
Open(t) == hpc[t] \notin {"new", "answered", "refused", "aborted"}

\* Mutant: Load and Save without s.mu.
NoLock == TRUE
LockFree == mu = None

\* A task that would miss the job's directory.
Using(t) == hpc[t] \in {"seeded", "launched"} \/ wpc[t] # "off"

\* processFiles takes the inputs in upload order.
IsNext(t, i) == i \in todo[t] /\ \A k \in todo[t] : i <= k

Init ==
    /\ dir = {} /\ expired = {} /\ saved = {} /\ raced = {}
    /\ status = [j \in Jobs |-> NoRows]
    /\ stored = [j \in Jobs |-> {}]
    /\ out = [j \in Jobs |-> {}]
    /\ hpc = [t \in Tasks |-> "new"]
    /\ wpc = [t \in Tasks |-> "off"]
    /\ target = [r \in Retries |-> None]
    /\ todo = [t \in Tasks |-> {}]
    /\ result = [t \in Tasks |-> NoRow]
    /\ snap = NoRows
    /\ mu = None /\ sem = {}
    /\ sweepPc = "idle" /\ sweepJob = None
    /\ crashes = 0

-----------------------------------------------------------------------------
(* POST /convert                                                           *)

Goto(t, pc) == hpc' = [hpc EXCEPT ![t] = pc]
Workers == <<wpc, result, sem>>
Sweeper == <<sweepPc, sweepJob>>

\* Mutant: a return that leaves s.mu locked.
KeepsLock == UNCHANGED mu /\ snap' = NoRows
Unlock == mu' = None /\ snap' = NoRows

\* A bad form, format, preset or extension, before anything is written.
Refuse(j) ==
    /\ hpc[j] = "new"
    /\ Goto(j, "refused")
    /\ UNCHANGED <<disk, target, todo, snap, mu, Workers, Sweeper, raced, crashes>>

\* Create, first half: MkdirAll of in and out.  The job's root may remain.
MakeTree(j) ==
    /\ hpc[j] = "new"
    /\ \/ dir' = dir \cup {j} /\ Goto(j, "made")
       \/ /\ MayFail("mkdir")
          /\ dir' \in {dir, dir \cup {j}} /\ Goto(j, "refused")
    /\ UNCHANGED <<expired, saved, status, stored, out, target, todo, snap, mu,
                   Workers, Sweeper, raced, crashes>>

\* Create, second half: the first status.json, with no file yet.
InitStatus(j) ==
    /\ hpc[j] = "made"
    /\ \/ /\ saved' = saved \cup {j} /\ status' = [status EXCEPT ![j] = NoRows]
          /\ Goto(j, "created")
       \/ /\ MayFail("create")
          /\ Goto(j, "refused") /\ UNCHANGED <<saved, status>>
    /\ UNCHANGED <<dir, expired, stored, out, target, todo, snap, mu, Workers,
                   Sweeper, raced, crashes>>

\* config.yaml and persistInputs.  On an error the uploads already copied stay.
StoreInputs(j) ==
    /\ hpc[j] = "created"
    /\ \E n \in 0..MaxFiles :
         /\ stored' = [stored EXCEPT ![j] = 1..n]
         /\ \/ n > 0 /\ Goto(j, "stored")
            \/ n < MaxFiles /\ MayFail("inputs") /\ Goto(j, "refused")
    /\ UNCHANGED <<dir, expired, saved, status, out, target, todo, snap, mu, Workers,
                   Sweeper, raced, crashes>>

\* seedPending: Load, append a pending row for each input, Save, without s.mu.
Seed(j) ==
    /\ hpc[j] = "stored"
    /\ \/ /\ j \in saved
          /\ status' = [status EXCEPT ![j] = Seeded(@, stored[j])]
          /\ todo' = [todo EXCEPT ![j] = stored[j]]
          /\ Goto(j, "seeded")
       \/ /\ j \notin saved \/ MayFail("seed")
          /\ Goto(j, "refused") /\ UNCHANGED <<status, todo>>
    /\ UNCHANGED <<dir, expired, saved, stored, out, target, snap, mu, Workers,
                   Sweeper, raced, crashes>>

\* go s.processFiles(...), in both handlers.
Launch(t) ==
    /\ hpc[t] = "seeded"
    /\ Goto(t, "launched")
    /\ wpc' = [wpc EXCEPT ![t] = "queued"]
    /\ UNCHANGED <<disk, target, todo, result, snap, mu, sem, Sweeper, raced, crashes>>

\* The last Load and the card.  cardFor(nil) panics when the status is gone.
Answer(t) ==
    /\ hpc[t] = "launched"
    /\ Goto(t, IF JobOf(t) \in saved THEN "answered" ELSE "aborted")
    /\ UNCHANGED <<disk, target, todo, snap, mu, Workers, Sweeper, raced, crashes>>

-----------------------------------------------------------------------------
(* POST /jobs/{id}/retry, for a job whose card the browser has             *)

RetryOpen(r) ==
    /\ hpc[r] = "new"
    /\ \E j \in Jobs :
         /\ hpc[j] = "answered"
         /\ target' = [target EXCEPT ![r] = j]
         /\ Goto(r, IF j \in saved THEN "found" ELSE "refused")
    /\ UNCHANGED <<disk, todo, snap, mu, Workers, Sweeper, raced, crashes>>

\* A directory's mtime moves when a file is created in it, not when one that is
\* there already is truncated.
Touch(j) == expired' \in {expired, expired \ {j}}

\* retry-config.yaml, before any row is touched.
RetryConfig(r) ==
    /\ hpc[r] = "found"
    /\ \/ target[r] \in dir /\ Goto(r, "configured") /\ Touch(target[r])
       \/ /\ target[r] \notin dir \/ MayFail("retryConfig")
          /\ Goto(r, "refused") /\ UNCHANGED expired
    /\ UNCHANGED <<dir, saved, status, stored, out, target, todo, snap, mu, Workers,
                   Sweeper, raced, crashes>>

\* mu.Lock, Load, and the reset of the failed rows in memory.
RetryReset(r) ==
    /\ hpc[r] = "configured" /\ LockFree
    /\ LET j == target[r]
           failed == FailedOf(status[j].rows)
       IN  \/ /\ j \notin saved
              /\ Goto(r, "refused") /\ UNCHANGED <<mu, snap, todo>>
           \/ /\ j \in saved /\ failed = {}
              /\ Goto(r, "answered") /\ UNCHANGED <<mu, snap, todo>>
           \/ /\ j \in saved /\ failed # {}
              /\ Goto(r, "locked")
              /\ mu' = r
              /\ snap' = Reset(status[j])
              /\ todo' = [todo EXCEPT ![r] = failed]
    /\ UNCHANGED <<disk, target, Workers, Sweeper, raced, crashes>>

\* Store.Save: it needs the job's directory, and touches it.
SaveSnap(j) ==
    /\ j \in dir
    /\ saved' = saved \cup {j}
    /\ status' = [status EXCEPT ![j] = snap]
    /\ expired' = expired \ {j}

\* Save and mu.Unlock.
RetrySave(r) ==
    /\ hpc[r] = "locked"
    /\ Unlock
    /\ \/ /\ SaveSnap(target[r])
          /\ Goto(r, "seeded") /\ UNCHANGED todo
       \/ /\ target[r] \notin dir \/ MayFail("retrySave")
          /\ Goto(r, "refused")
          /\ todo' = [todo EXCEPT ![r] = {}]
          /\ UNCHANGED <<saved, status, expired>>
    /\ UNCHANGED <<dir, stored, out, target, Workers, Sweeper, raced, crashes>>

-----------------------------------------------------------------------------
(* processFiles, one upload after the other                                *)

\* Mutant: one converter too many.
OneTooMany == Cardinality(sem) <= Slots

\* s.sem <- struct{}{} goes through.
HasSlot == Cardinality(sem) < Slots

\* s.sem <- struct{}{}, then MkdirAll of the output directory and the log.
\* MkdirAll makes the job's directory again if the sweeper has taken it.
Acquire(t) ==
    /\ wpc[t] = "queued" /\ HasSlot
    /\ wpc' = [wpc EXCEPT ![t] = "fbc"]
    /\ sem' = sem \cup {t}
    /\ dir' = dir \cup {JobOf(t)}
    /\ Touch(JobOf(t))
    /\ UNCHANGED <<saved, status, stored, out, hpc, target, todo, result, snap, mu,
                   Sweeper, raced, crashes>>

\* fbc ends with the given verdict, and the token goes back.
Release(t, row) ==
    /\ wpc' = [wpc EXCEPT ![t] = "finished"]
    /\ result' = [result EXCEPT ![t] = row]
    /\ sem' = sem \ {t}

\* Mutant: the exit status alone decides.
TrustExitStatus(some) == [state |-> "done", outs |-> some]
ExitZero(some) == [state |-> IF some THEN "done" ELSE "failed", outs |-> some]

\* Exit status 0.  What decides is that the output directory holds something,
\* an earlier attempt's output included.
FbcSucceeds(t) ==
    /\ wpc[t] = "fbc"
    /\ \E i \in todo[t], wrote \in BOOLEAN :
         LET j == JobOf(t)
             some == wrote \/ i \in out[j]
         IN  /\ IsNext(t, i)
             /\ i \in stored[j] \/ j \in raced
             /\ out' = [out EXCEPT ![j] = IF some THEN @ \cup {i} ELSE @]
             /\ dir' = IF wrote THEN dir \cup {j} ELSE dir
             /\ Release(t, ExitZero(some))
    /\ UNCHANGED <<expired, saved, status, stored, hpc, target, todo, snap, mu, Sweeper,
                   raced, crashes>>

\* A directory or log that cannot be made, a non-zero exit, or FBC_TIMEOUT;
\* fbc may have left part of an output, which is listed all the same.
FbcFails(t) ==
    /\ wpc[t] = "fbc"
    /\ \E i \in todo[t], wrote, listed \in BOOLEAN :
         LET j == JobOf(t)
             some == wrote \/ i \in out[j]
         IN  /\ IsNext(t, i)
             /\ wrote => j \in dir
             /\ listed => some
             /\ out' = [out EXCEPT ![j] = IF some THEN @ \cup {i} ELSE @]
             /\ Release(t, [state |-> "failed", outs |-> listed])
    /\ UNCHANGED <<dir, expired, saved, status, stored, hpc, target, todo, snap, mu,
                   Sweeper, raced, crashes>>

\* One upload is over for worker t, whether or not its row was written.
Advance(t, i) ==
    /\ todo' = [todo EXCEPT ![t] = @ \ {i}]
    /\ wpc' = [wpc EXCEPT ![t] = IF todo[t] = {i} THEN "off" ELSE "queued"]
    /\ result' = [result EXCEPT ![t] = NoRow]

\* updateFile: mu.Lock, Load, merge.  It gives up when there is no status.
Record(t) ==
    /\ wpc[t] = "finished" /\ LockFree
    /\ \E i \in todo[t] :
         LET j == JobOf(t)
         IN  /\ IsNext(t, i)
             /\ \/ /\ j \notin saved
                   /\ Advance(t, i) /\ UNCHANGED <<mu, snap>>
                \/ /\ j \in saved
                   /\ mu' = t
                   /\ snap' = Merge(status[j], i, result[t])
                   /\ wpc' = [wpc EXCEPT ![t] = "merging"]
                   /\ UNCHANGED <<todo, result>>
    /\ UNCHANGED <<disk, hpc, target, sem, Sweeper, raced, crashes>>

\* updateFile: Save, whose error is dropped, and mu.Unlock.
RecordSaves(t) ==
    /\ wpc[t] = "merging"
    /\ Unlock
    /\ \E i \in todo[t] :
         LET j == JobOf(t)
         IN  /\ IsNext(t, i)
             /\ Advance(t, i)
             /\ \/ SaveSnap(j)
                \/ /\ j \notin dir \/ MayFail("update")
                   /\ UNCHANGED <<saved, status, expired>>
    /\ UNCHANGED <<dir, stored, out, hpc, target, sem, Sweeper, raced, crashes>>

-----------------------------------------------------------------------------
(* The sweeper goroutine of main, which takes neither lock                 *)

\* Time passes.  JOBS_TTL is longer than a request takes.
Age(j) ==
    /\ j \in dir \ expired
    /\ \A t \in Tasks : JobOf(t) = j => ~Open(t)
    /\ expired' = expired \cup {j}
    /\ UNCHANGED <<dir, saved, status, stored, out, hpc, target, todo, snap, mu, Workers,
                   Sweeper, raced, crashes>>

\* Sweep: the mtime of the next directory.
SweepAge(j) ==
    /\ sweepPc = "idle" /\ j \in expired
    /\ sweepPc' = "aged" /\ sweepJob' = j
    /\ UNCHANGED <<disk, hpc, target, todo, snap, mu, Workers, raced, crashes>>

\* Mutants: age decides alone, or an unreadable status protects too.
CondemnByAge(j) == TRUE
CondemnIfDone(j) == j \in saved /\ status[j].done
Condemned(j) == j \in saved => status[j].done

\* Sweep: its status.json.  Unreadable or done, it is condemned.
SweepLoad ==
    /\ sweepPc = "aged"
    /\ IF Condemned(sweepJob)
       THEN sweepPc' = "condemned" /\ UNCHANGED sweepJob
       ELSE sweepPc' = "idle" /\ sweepJob' = None
    /\ UNCHANGED <<disk, hpc, target, todo, snap, mu, Workers, raced, crashes>>

\* Sweep: RemoveAll.
SweepRemove ==
    /\ sweepPc = "condemned"
    /\ LET j == sweepJob
       IN  /\ dir' = dir \ {j} /\ saved' = saved \ {j} /\ expired' = expired \ {j}
           /\ status' = [status EXCEPT ![j] = NoRows]
           /\ stored' = [stored EXCEPT ![j] = {}]
           /\ out' = [out EXCEPT ![j] = {}]
           /\ raced' = IF \E t \in Tasks : JobOf(t) = j /\ Using(t)
                       THEN raced \cup {j} ELSE raced
    /\ sweepPc' = "idle" /\ sweepJob' = None
    /\ UNCHANGED <<hpc, target, todo, snap, mu, Workers, crashes>>

-----------------------------------------------------------------------------
\* The process dies and starts again: main recovers nothing from the disk.
Crash ==
    /\ crashes < MaxCrashes
    /\ crashes' = crashes + 1
    /\ hpc' = [t \in Tasks |-> IF Open(t) THEN "aborted" ELSE hpc[t]]
    /\ wpc' = [t \in Tasks |-> "off"]
    /\ todo' = [t \in Tasks |-> {}]
    /\ result' = [t \in Tasks |-> NoRow]
    /\ snap' = NoRows /\ mu' = None /\ sem' = {}
    /\ sweepPc' = "idle" /\ sweepJob' = None
    /\ UNCHANGED <<disk, target, raced>>

ConvertStep(j) ==
    MakeTree(j) \/ InitStatus(j) \/ StoreInputs(j) \/ Seed(j) \/ Refuse(j)

RetryStep(r) == RetryOpen(r) \/ RetryConfig(r) \/ RetryReset(r) \/ RetrySave(r)

TaskStep(t) ==
    \/ Launch(t) \/ Answer(t) \/ Acquire(t) \/ FbcSucceeds(t) \/ FbcFails(t)
    \/ Record(t) \/ RecordSaves(t)

SweeperStep == SweepLoad \/ SweepRemove \/ \E j \in Jobs : Age(j) \/ SweepAge(j)

\* Every request is over and every directory swept.
Quiescent ==
    /\ dir = {} /\ sweepPc = "idle"
    /\ \A t \in Tasks : ~Open(t) /\ wpc[t] = "off"
    /\ UNCHANGED vars

Next ==
    \/ \E j \in Jobs : ConvertStep(j)
    \/ \E r \in Retries : RetryStep(r)
    \/ \E t \in Tasks : TaskStep(t)
    \/ SweeperStep
    \/ Crash
    \/ Quiescent

Spec == Init /\ [][Next]_vars

(***************************************************************************)
(* Fairness.  A request that has begun goes on, a worker too, and fbc ends *)
(* because FBC_TIMEOUT kills it; sync.Mutex and channel sends are served   *)
(* first come, first served, so that a waiter that finds the lock or a     *)
(* token free again and again gets it; the ticker of main walks every      *)
(* directory, so that none is passed over for ever.  The browser is not    *)
(* fair: no request has to be made.                                        *)
(***************************************************************************)
ConvertProgress(j) == InitStatus(j) \/ StoreInputs(j) \/ Seed(j)
RetryProgress(r) == RetryConfig(r) \/ RetrySave(r)
TaskProgress(t) == Launch(t) \/ FbcFails(t) \/ RecordSaves(t)

Fairness ==
    /\ \A j \in Jobs : WF_vars(ConvertProgress(j))
    /\ \A r \in Retries : WF_vars(RetryProgress(r)) /\ SF_vars(RetryReset(r))
    /\ \A t \in Tasks : /\ WF_vars(Answer(t)) /\ WF_vars(TaskProgress(t))
                        /\ SF_vars(Acquire(t)) /\ SF_vars(Record(t))
    /\ \A j \in Jobs : WF_vars(Age(j)) /\ SF_vars(SweepAge(j))
    /\ WF_vars(SweepLoad) /\ WF_vars(SweepRemove)

FairSpec == Spec /\ Fairness

-----------------------------------------------------------------------------
\* Every variable has its type.
TypeOK ==
    /\ dir \subseteq Jobs /\ expired \subseteq Jobs /\ saved \subseteq Jobs
    /\ raced \subseteq Jobs
    /\ status \in [Jobs -> Status]
    /\ stored \in [Jobs -> SUBSET Inputs]
    /\ out \in [Jobs -> SUBSET Inputs]
    /\ hpc \in [Tasks -> {"new", "made", "created", "stored", "found", "configured",
                          "locked", "seeded", "launched", "answered", "refused",
                          "aborted"}]
    /\ wpc \in [Tasks -> {"off", "queued", "fbc", "finished", "merging"}]
    /\ target \in [Retries -> Jobs \cup {None}]
    /\ todo \in [Tasks -> SUBSET Inputs]
    /\ result \in [Tasks -> Row]
    /\ snap \in Status
    /\ mu \in Tasks \cup {None}
    /\ sem \subseteq Tasks
    /\ sweepPc \in {"idle", "aged", "condemned"}
    /\ sweepJob \in Jobs \cup {None}
    /\ crashes \in 0..MaxCrashes

\* No two workers of one job ever hold the same upload: a second retry that
\* enters before the first has finished launches nothing for those rows
\* (convert_flow.go:462-467).
OneConverterPerInput ==
    \A t, u \in Tasks :
        t # u /\ JobOf(t) = JobOf(u) => todo[t] \cap todo[u] = {}

\* While the process lives a pending row has a task that will settle it, so that
\* no card polls for ever (convert_flow.go:85-90, 446-450).
PendingHasWorker ==
    crashes = 0 => \A j \in saved, i \in Inputs :
        status[j].rows[i].state = "pending" =>
            \E t \in Tasks : JobOf(t) = j /\ Using(t) /\ i \in todo[t]

\* The flag that stops the browser's polling and lets the sweeper in is up
\* exactly when every row is settled, across updateFile and handleRetry.
DoneIffTerminal ==
    \A j \in saved : status[j].done <=> AllTerminal(status[j].rows)

\* The tokens of s.sem belong to the workers that run fbc, MAX_CONCURRENT at most.
SlotDiscipline ==
    /\ sem = {t \in Tasks : wpc[t] = "fbc"}
    /\ Cardinality(sem) <= Slots

\* The sweeper never takes a job under its first worker.
FirstRunKeepsJob ==
    \A j \in Jobs :
        Using(j) /\ (\A r \in Retries : target[r] # j) => j \in saved

\* A row that says done has a file to download, until the job is removed.
DoneHasDownload ==
    \A j \in saved \ raced, i \in Inputs :
        status[j].rows[i].state = "done" => status[j].rows[i].outs /\ i \in out[j]

\* A settled success is never reopened, lost or overwritten while its job lasts,
\* whatever worker and retries write to the same status.json.
DoneIsFinal ==
    [][\A j \in saved \cap saved', i \in Inputs :
          status[j].rows[i].state = "done" => status'[j].rows[i] = status[j].rows[i]]_vars

\* Sweep's comment at zip_sweep.go:112: "still running: never delete a live job".
NeverDeletesLiveJob ==
    [][\A j \in Jobs : (\E t \in Tasks : JobOf(t) = j /\ Using(t)) =>
          (j \in dir => j \in dir')]_vars

\* A job nobody works on and no sweep will take: what is left behind when the
\* process dies, an upload fails after Create, or updateFile's Save does.
Orphan(j) ==
    /\ j \in saved /\ ~status[j].done
    /\ \A t \in Tasks : JobOf(t) = j => ~Open(t) /\ wpc[t] = "off"

\* A retry never strands a job, whichever of its writes fail and whoever it races:
\* orphans come from a crash or from an upload that was refused after Create
\* (convert_flow.go:446-450, 486-491), not counting updateFile's dropped error.
OrphansHaveACause ==
    \A j \in Jobs : Orphan(j) => crashes > 0 \/ hpc[j] = "refused" \/ MayFail("update")

\* A batch whose rows are seeded is done in the end, or gone, or an orphan.
JobCompletes ==
    \A j \in Jobs : (j \in saved /\ Present(status[j].rows) # {})
                      ~> (j \notin saved \/ status[j].done \/ Orphan(j))

\* A job directory is swept in the end (design document, line 154: "Job dirs
\* always swept on TTL"), unless it is left an orphan.
EveryDirSwept == \A j \in Jobs : j \in dir ~> j \notin dir \/ Orphan(j)

\* Every request is answered: none waits for ever for s.mu.
EveryRequestEnds == \A t \in Tasks : Open(t) ~> ~Open(t)

-----------------------------------------------------------------------------
(* The inductive invariant: why the properties above hold                  *)

\* A retry that has left "new" knows its job, and a busy sweeper its own.
TargetOK ==
    \A r \in Retries : target[r] = None => hpc[r] = "new" /\ wpc[r] = "off"
SweepOK == sweepPc # "idle" => sweepJob \in Jobs
TypeInv == TypeOK /\ TargetOK /\ SweepOK

\* Requests and workers are in step, and a job is seeded before it is retried.
PhaseOK ==
    /\ \A t \in Tasks : wpc[t] # "off" => hpc[t] \in {"launched", "answered", "aborted"}
    /\ \A t \in Tasks : todo[t] # {} => hpc[t] \in {"locked", "seeded"} \/ wpc[t] # "off"
    /\ \A r \in Retries : target[r] # None => hpc[target[r]] = "answered"
    /\ \A j \in Jobs : hpc[j] # "locked"
    /\ \A j \in Jobs : hpc[j] \in {"new", "made"} => j \notin saved
    /\ \A j \in saved : hpc[j] \in {"created", "stored"} => status[j] = NoRows
    /\ \A j \in saved : hpc[j] = "stored" => stored[j] # {}

\* s.mu is held by a retry between Load and Save, or by a worker there.
LockOK ==
    \A t \in Tasks :
        hpc[t] = "locked" \/ wpc[t] = "merging" <=> mu = t

\* Rows somebody is going to settle are pending on the disk ...
OwnedPending ==
    \A t \in Tasks : hpc[t] # "locked" /\ JobOf(t) \in saved =>
        \A i \in todo[t] : status[JobOf(t)].rows[i].state = "pending"

\* ... and in the status the lock holder is about to save, but for the row it
\* settles itself; and no success on the disk is about to be overwritten.
SnapOK ==
    mu # None =>
        /\ snap.done <=> AllTerminal(snap.rows)
        /\ \A t \in Tasks, i \in Inputs :
              /\ JobOf(t) = JobOf(mu) /\ i \in todo[t]
              /\ ~(t = mu /\ wpc[t] = "merging" /\ IsNext(t, i))
              => snap.rows[i].state = "pending"
        /\ JobOf(mu) \in saved =>
              \A i \in Inputs : status[JobOf(mu)].rows[i].state = "done" =>
                  snap.rows[i] = status[JobOf(mu)].rows[i]

IInv ==
    /\ TypeInv /\ PhaseOK /\ LockOK /\ OwnedPending /\ SnapOK
    /\ OneConverterPerInput /\ DoneIffTerminal /\ SlotDiscipline /\ IsFiniteSet(sem)

\* The rest of the argument: what becomes of a job.  While its first request is
\* on its way its directory is there, and no sweep is near it ...
HoldOK ==
    /\ expired \subseteq dir /\ saved \subseteq dir
    /\ \A j \in Jobs :
         /\ j \in dir => hpc[j] # "new"
         /\ Open(j) => j \in dir
         /\ Open(j) \/ hpc[j] = "new" => j \notin expired /\ (sweepPc # "idle" => sweepJob # j)
         /\ hpc[j] \in {"created", "stored", "seeded", "launched"} => j \in saved
         /\ crashes = 0 => hpc[j] # "aborted"

\* ... a worker has something to do, and until a retry comes its job is safe ...
WorkOK ==
    /\ \A t \in Tasks : wpc[t] # "off" \/ hpc[t] \in {"locked", "seeded"} => todo[t] # {}
    /\ \A t \in Tasks : wpc[t] = "finished" => result[t].state \in {"done", "failed"}
    /\ \A r \in Retries : hpc[r] = "new" => target[r] = None
    /\ \A j \in Jobs : wpc[j] # "off" /\ (\A r \in Retries : target[r] # j) =>
                         j \in saved /\ ~(sweepPc = "condemned" /\ sweepJob = j)

\* ... a seeded job has rows, and its pending rows have an owner, on the disk and
\* in the status about to be saved ...
RowsOK ==
    /\ \A j \in saved : hpc[j] \in {"seeded", "launched", "answered"} =>
                           Present(status[j].rows) # {}
    /\ mu # None => Present(snap.rows) # {}
OwnersOK ==
    /\ \A j \in saved, i \in Inputs : status[j].rows[i].state = "pending" =>
          \E t \in Tasks : JobOf(t) = j /\ i \in todo[t] /\ hpc[t] # "locked"
    /\ mu # None => \A i \in Inputs : snap.rows[i].state = "pending" =>
          \E t \in Tasks : /\ JobOf(t) = JobOf(mu) /\ i \in todo[t]
                            /\ ~(t = mu /\ wpc[t] = "merging" /\ IsNext(t, i))

\* ... and what says done, on the disk, in that status or in a worker's hands,
\* has its output, unless the job was removed under a task.
OutputsOK ==
    /\ \A t \in Tasks : Using(t) /\ JobOf(t) \notin raced => JobOf(t) \in dir
    /\ \A t \in Tasks, i \in Inputs :
          wpc[t] = "finished" /\ result[t].state = "done" /\ IsNext(t, i) =>
              JobOf(t) \in raced \/ (result[t].outs /\ i \in out[JobOf(t)])
    /\ mu # None /\ JobOf(mu) \in dir \ raced => \A i \in Inputs :
          snap.rows[i].state = "done" => snap.rows[i].outs /\ i \in out[JobOf(mu)]

FateInv ==
    /\ HoldOK /\ WorkOK /\ RowsOK /\ OutputsOK /\ DoneHasDownload
    /\ MayFail("update") \/ crashes > 0 \/ OwnersOK

-----------------------------------------------------------------------------
\* The card a browser is shown, for as long as there is a status to read.
Card(j) ==
    LET st == IF j \in saved THEN status[j] ELSE NoRows
    IN  [files |-> [i \in Inputs |-> st.rows[i].state], done |-> st.done]

Ledger == INSTANCE JobLedger WITH ledger <- [j \in Jobs |-> Card(j)], lost <- raced

\* What browsers are shown follows the ledger: uploads are settled one at a time,
\* a retry reopens the failed ones together, and no poll ever sees half a change,
\* whatever interleaves, fails or dies (convert_flow.go:290-311, 462-496).
ImplementsLedger == Ledger!Spec
=============================================================================
