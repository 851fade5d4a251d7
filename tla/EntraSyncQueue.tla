---------------------------- MODULE EntraSyncQueue -----------------------------
(***************************************************************************)
(* The Windows API's queue of synchronization requests and its worker      *)
(* (windows-api/EntraSyncQueue.cs, EntraSyncWorker.cs).  After a change in *)
(* the directory the API notes a request under a key: one key for all      *)
(* account creations, one for the password of each account.  One worker    *)
(* runs the oldest request that is due, account creations first, and       *)
(* removes it or puts it off.                                              *)
(*                                                                         *)
(* Every change of the queue is saved to disk before it shows in memory.   *)
(* The service can stop at any time: memory and the requests being handled *)
(* are gone, the file stays.  Time is abstracted: due is the set of keys   *)
(* whose NextAttempt has passed and older the order in which it passed.    *)
(***************************************************************************)
EXTENDS Integers, FiniteSets

CONSTANTS Key,         \* queue keys
          Directory,   \* the key of directory requests; the others are UserHash
          Request,     \* API requests handled at a time
          Capacity,    \* jobs the queue holds (10,000)
          AttemptCap,  \* attempts are counted up to this (1000)
          MaxChanges,  \* MaxChanges[k]: bound on the directory changes under k
          MaxFaults,   \* bound on crashes and failed saves
          Healthy,     \* keys whose synchronization keeps succeeding
          None         \* no job; no notification to make

VARIABLES jobs,     \* jobs[k]: the queue in memory
          disk,     \* disk[k]: queue.json
          due,      \* keys whose NextAttempt has passed
          older,    \* pairs <<j, k>> of due keys, j due before k
          pc, run,  \* the worker's step, and the job it took
          api,      \* api[r]: the key r has yet to notify
          changed,  \* changed[k]: directory changes made under k
          noted,    \* noted[k]: the newest of them a saved request stands for
          synced,   \* synced[k]: the newest of them that was synchronized
          ids,      \* ids[k]: requests saved under k so far
          faults

vars == <<jobs, disk, due, older, pc, run, api, changed, noted, synced, ids,
          faults>>

\* The id tells a request from a later one under the same key.
Job == [id : Nat, attempts : 0 .. AttemptCap]

Run == [key : Key, job : Job, covers : Nat, ok : BOOLEAN]

ASSUME QueueAssumption == /\ Directory \in Key
                          /\ Healthy \subseteq Key
                          /\ IsFiniteSet(Key)
                          /\ Capacity \in Nat /\ AttemptCap \in Nat
                          /\ MaxChanges \in [Key -> Nat] /\ MaxFaults \in Nat
                          /\ None \notin Key \cup Job \cup Run

NoJobs == [k \in Key |-> None]

Up == pc # "down"

TypeOK ==
  /\ jobs \in [Key -> Job \cup {None}]
  /\ disk \in [Key -> Job \cup {None}]
  /\ due \in SUBSET Key
  /\ older \in SUBSET (Key \X Key)
  /\ pc \in {"down", "idle", "running", "finish", "paused"}
  /\ run \in Run \cup {None}
  /\ pc \in {"running", "finish"} <=> run # None
  /\ api \in [Request -> Key \cup {None}]
  /\ changed \in [Key -> Nat]
  /\ noted \in [Key -> Nat]
  /\ synced \in [Key -> Nat]
  /\ ids \in [Key -> Nat]
  /\ faults \in 0 .. MaxFaults

Init ==
  /\ jobs = NoJobs
  /\ disk = NoJobs
  /\ due = {}
  /\ older = {}
  /\ pc = "idle"
  /\ run = None
  /\ api = [r \in Request |-> None]
  /\ changed = [k \in Key |-> 0]
  /\ noted = [k \in Key |-> 0]
  /\ synced = [k \in Key |-> 0]
  /\ ids = [k \in Key |-> 0]
  /\ faults = 0
-------------------------------------------------------------------------------
Fault == faults < MaxFaults /\ faults' = faults + 1

Size(q) == Cardinality({k \in Key : q[k] # None})

\* An atomic snapshot: the temporary file is flushed, then renamed.
Save(q) == disk' = q /\ jobs' = q

\* k is due from now on, after everything that already is; or no longer.
DueNow(k) == /\ due' = due \cup {k}
             /\ older' = {p \in older : k \notin {p[1], p[2]}}
                           \cup ((due \ {k}) \X {k})

NotDue(k) == /\ due' = due \ {k}
             /\ older' = {p \in older : k \notin {p[1], p[2]}}
-------------------------------------------------------------------------------
(***************************************************************************)
(* AdSyncNotifications: the change in the directory comes first, the       *)
(* request is noted next.                                                  *)
(***************************************************************************)
ChangeDirectory(r, k) ==
  /\ Up
  /\ api[r] = None
  /\ changed[k] < MaxChanges[k]
  /\ changed' = [changed EXCEPT ![k] = @ + 1]
  /\ api' = [api EXCEPT ![r] = k]
  /\ UNCHANGED <<jobs, disk, due, older, pc, run, noted, synced, ids, faults>>

\* Mutant: one job too many.
Mut_Full(k) == jobs[k] = None /\ Size(jobs) > Capacity

Full(k) == jobs[k] = None /\ Size(jobs) >= Capacity

\* Mutant: requests under one key are combined by keeping the first.
Mut_Requested(k) ==
  IF jobs[k] = None THEN [id |-> ids[k] + 1, attempts |-> 0]
  ELSE [jobs[k] EXCEPT !.attempts = 0]

Requested(k) == [id |-> ids[k] + 1, attempts |-> 0]

Enqueue(r) ==
  LET k == api[r] IN
  /\ Up
  /\ k # None
  /\ ~Full(k)
  /\ Save([jobs EXCEPT ![k] = Requested(k)])
  /\ ids' = [ids EXCEPT ![k] = @ + 1]
  /\ noted' = [noted EXCEPT ![k] = changed[k]]
  /\ DueNow(k)
  /\ api' = [api EXCEPT ![r] = None]
  /\ UNCHANGED <<pc, run, changed, synced, faults>>

\* Notify swallows the exception: the change stands without a request.
NotificationLost(r) ==
  /\ Up
  /\ api[r] # None
  /\ \/ Full(api[r]) /\ UNCHANGED faults
     \/ Fault
  /\ api' = [api EXCEPT ![r] = None]
  /\ UNCHANGED <<jobs, disk, due, older, pc, run, changed, noted, synced, ids>>
-------------------------------------------------------------------------------
(***************************************************************************)
(* EntraSyncWorker.                                                        *)
(***************************************************************************)

\* Directory requests first, then by NextAttempt.
Precedes(j, k) == \/ j = Directory /\ k # Directory
                  \/ j # Directory /\ k # Directory /\ <<j, k>> \in older

Due(k) == k \in due /\ \A j \in due \ {k} : ~Precedes(j, k)

Take(k) ==
  /\ pc = "idle"
  /\ Due(k)
  /\ pc' = "running"
  /\ run' = [key |-> k, job |-> jobs[k], covers |-> changed[k], ok |-> FALSE]
  /\ UNCHANGED <<jobs, disk, due, older, api, changed, noted, synced, ids, faults>>

\* What was in the directory when the run began is synchronized.
Covered == IF run.covers > synced[run.key]
           THEN [synced EXCEPT ![run.key] = run.covers] ELSE synced

RunSucceeds(k) ==
  /\ pc = "running"
  /\ run.key = k
  /\ synced' = Covered
  /\ run' = [run EXCEPT !.ok = TRUE]
  /\ pc' = "finish"
  /\ UNCHANGED <<jobs, disk, due, older, api, changed, noted, ids, faults>>

\* PowerShell reports an error or runs into the timeout, with or without
\* having done its work.
RunFails(k) ==
  /\ pc = "running"
  /\ run.key = k
  /\ synced' \in {synced, Covered}
  /\ pc' = "finish"
  /\ UNCHANGED <<jobs, disk, due, older, run, api, changed, noted, ids, faults>>

\* Mutant: the attempts are counted on for ever.
Mut_PutOff(job) == [job EXCEPT !.attempts = @ + 1]

PutOff(job) == [job EXCEPT !.attempts = IF @ < AttemptCap THEN @ + 1 ELSE @]

\* The job under the key is the one that ran.
IsCurrent(k) == jobs[k] # None /\ jobs[k].id = run.job.id

\* Mutant: a failed job is due again at once.
Mut_AfterFailure(k) == UNCHANGED <<due, older>>

\* At least 15 seconds pass before a failed job is due again.
AfterFailure(k) == NotDue(k)

Finish ==
  LET k == run.key IN
  /\ pc = "finish"
  /\ \/ ~IsCurrent(k) /\ UNCHANGED <<jobs, disk, due, older>>
     \/ IsCurrent(k) /\ run.ok /\ Save([jobs EXCEPT ![k] = None]) /\ NotDue(k)
     \/ /\ IsCurrent(k) /\ ~run.ok
        /\ Save([jobs EXCEPT ![k] = PutOff(run.job)])
        /\ AfterFailure(k)
  /\ pc' = "idle"
  /\ run' = None
  /\ UNCHANGED <<api, changed, noted, synced, ids, faults>>

\* The save fails: the job stays as it is, and the worker pauses.
FinishFails ==
  /\ pc = "finish"
  /\ IsCurrent(run.key)
  /\ Fault
  /\ pc' = "paused"
  /\ run' = None
  /\ UNCHANGED <<jobs, disk, due, older, api, changed, noted, synced, ids>>

Resume ==
  /\ pc = "paused"
  /\ pc' = "idle"
  /\ UNCHANGED <<jobs, disk, due, older, run, api, changed, noted, synced, ids,
                 faults>>

(***************************************************************************)
(* A job's NextAttempt passes.  The worker looks for its next job at once  *)
(* when it has finished one, so no backoff can pass in between.            *)
(***************************************************************************)
Elapse(k) ==
  /\ disk[k] # None
  /\ k \notin due
  /\ pc = "idle" => due = {}
  /\ DueNow(k)
  /\ UNCHANGED <<jobs, disk, pc, run, api, changed, noted, synced, ids, faults>>
-------------------------------------------------------------------------------
\* The service stops, in the middle of a run or of requests or not.
Stop ==
  /\ Up
  /\ Fault
  /\ pc' = "down"
  /\ run' = None
  /\ jobs' = NoJobs
  /\ api' = [r \in Request |-> None]
  /\ \/ UNCHANGED synced
     \/ pc = "running" /\ synced' = Covered
  /\ UNCHANGED <<disk, due, older, changed, noted, ids>>

\* What the constructor accepts.
Loadable(q) == /\ Size(q) <= Capacity
               /\ \A k \in Key : q[k] # None => q[k].attempts \in 0 .. AttemptCap

Start ==
  /\ pc = "down"
  /\ Loadable(disk)
  /\ jobs' = disk
  /\ pc' = "idle"
  /\ UNCHANGED <<disk, due, older, run, api, changed, noted, synced, ids, faults>>
-------------------------------------------------------------------------------
Next ==
  \/ \E r \in Request : \/ \E k \in Key : ChangeDirectory(r, k)
                        \/ Enqueue(r)
                        \/ NotificationLost(r)
  \/ \E k \in Key : Take(k) \/ RunSucceeds(k) \/ RunFails(k) \/ Elapse(k)
  \/ Finish \/ FinishFails \/ Resume \/ Stop \/ Start

Spec == Init /\ [][Next]_vars

(***************************************************************************)
(* The worker is a loop whose waits are bounded by a timeout, the service  *)
(* is restarted, and synchronization of a healthy key does not fail for    *)
(* ever; nothing is assumed of the other keys.  Every NextAttempt passes:  *)
(* strong fairness, because Elapse is not enabled in the instant between   *)
(* Finish and Take.                                                        *)
(***************************************************************************)
Fairness ==
  /\ WF_vars(\E k \in Key : Take(k))
  /\ WF_vars(\E k \in Key : RunSucceeds(k) \/ RunFails(k))
  /\ WF_vars(Finish) /\ WF_vars(Resume) /\ WF_vars(Start)
  /\ \A k \in Key : SF_vars(Elapse(k))
  /\ \A k \in Healthy : SF_vars(RunSucceeds(k))

FairSpec == Spec /\ Fairness
-------------------------------------------------------------------------------
(***************************************************************************)
(* Properties.                                                             *)
(***************************************************************************)

\* "Requests added while a sync runs are retained", and "already-persisted
\* jobs resume on service restart": a change that was noted stays in the
\* file, and in the running queue, until a run that began after it succeeds.
NoChangeForgotten ==
  \A k \in Key : noted[k] > synced[k] =>
    disk[k] # None /\ (Up => jobs[k] # None)

\* The service never saves a file it would refuse to start with.
RestartSucceeds == Loadable(disk)

\* A request of a healthy key is not starved: not by a directory request
\* that fails again and again and always goes first, nor by other accounts.
NotedIsSynced ==
  \A k \in Healthy : \A n \in 1 .. MaxChanges[k] :
    noted[k] >= n ~> synced[k] >= n
-------------------------------------------------------------------------------
(***************************************************************************)
(* The inductive invariant behind the safety properties, part by part.     *)
(***************************************************************************)

\* Nothing is in memory that is not in the file.
MemoryIsSaved == Up => jobs = disk

\* Only jobs are due, and their ids were given out.
JobsAreKnown == \A k \in Key : /\ k \in due => disk[k] # None
                               /\ disk[k] # None => disk[k].id <= ids[k]
                               /\ noted[k] <= changed[k]

\* A run whose job is still the one in the file covers all that was noted.
RunCoversItsJob ==
  run # None =>
    LET k == run.key IN
    /\ run.job.id <= ids[k]
    /\ disk[k] # None /\ disk[k].id = run.job.id => run.covers >= noted[k]
    /\ run.ok => synced[k] >= run.covers

IInv == /\ TypeOK
        /\ MemoryIsSaved
        /\ JobsAreKnown
        /\ RunCoversItsJob
        /\ NoChangeForgotten
        /\ RestartSucceeds
===============================================================================
