------------------------- MODULE EntraSyncQueueProofs --------------------------
(***************************************************************************)
(* No noted change is forgotten and the file always loads, for any keys,   *)
(* capacity and bounds.                                                    *)
(***************************************************************************)
EXTENDS EntraSyncQueue, FiniteSetTheorems, TLAPS

LEMMA SizeType ==
  ASSUME NEW q
  PROVE  /\ IsFiniteSet({x \in Key : q[x] # None})
         /\ Size(q) \in Nat
<1>1. IsFiniteSet({x \in Key : q[x] # None})
  BY QueueAssumption, FS_Subset
<1> QED
  BY <1>1, FS_CardinalityType DEF Size

\* One more job under a key of the queue, or room for a new one.
LEMMA SizeAdd ==
  ASSUME NEW q \in [Key -> Job \cup {None}], NEW k \in Key, NEW j,
         q[k] # None \/ Size(q) < Capacity, Size(q) <= Capacity
  PROVE  Size([q EXCEPT ![k] = j]) <= Capacity
<1> DEFINE S == {x \in Key : q[x] # None}
           T == {x \in Key : [q EXCEPT ![k] = j][x] # None}
<1>1. IsFiniteSet(S) /\ Cardinality(S) = Size(q) /\ Size(q) \in Nat
  BY SizeType DEF Size
<1>2. /\ IsFiniteSet(S \cup {k})
      /\ Cardinality(S \cup {k}) = IF k \in S THEN Size(q) ELSE Size(q) + 1
  BY <1>1, FS_AddElement
<1>3. T \in SUBSET (S \cup {k})
  OBVIOUS
<1>4. Cardinality(T) <= Cardinality(S \cup {k})
  BY <1>2, <1>3, FS_Subset
<1>5. Cardinality(S \cup {k}) <= Capacity /\ Cardinality(S \cup {k}) \in Nat
  BY <1>1, <1>2, QueueAssumption
<1>6. Cardinality(T) \in Nat
  BY <1>2, <1>3, FS_Subset, FS_CardinalityType
<1>7. Cardinality(T) <= Capacity
  BY <1>4, <1>5, <1>6, QueueAssumption
<1> QED
  BY <1>7 DEF Size

LEMMA SizeRemove ==
  ASSUME NEW q \in [Key -> Job \cup {None}], NEW k \in Key, Size(q) <= Capacity
  PROVE  Size([q EXCEPT ![k] = None]) <= Capacity
<1> DEFINE S == {x \in Key : q[x] # None}
           T == {x \in Key : [q EXCEPT ![k] = None][x] # None}
<1>1. IsFiniteSet(S) /\ Cardinality(S) = Size(q) /\ Size(q) \in Nat
  BY SizeType DEF Size
<1>2. T \in SUBSET S
  OBVIOUS
<1>3. Cardinality(T) <= Cardinality(S) /\ Cardinality(T) \in Nat
  BY <1>1, <1>2, FS_Subset, FS_CardinalityType
<1>4. Cardinality(T) <= Capacity
  BY <1>1, <1>3, QueueAssumption
<1> QED
  BY <1>4 DEF Size
-------------------------------------------------------------------------------
\* Jobs do not change their meaning: every one in a queue is a Job.
LEMMA QueueOfJobs ==
  ASSUME TypeOK
  PROVE  /\ \A k \in Key : disk[k] # None => disk[k] \in Job
         /\ \A k \in Key : jobs[k] # None => jobs[k] \in Job
BY DEF TypeOK

\* The run in progress.
LEMMA RunIsTyped ==
  ASSUME TypeOK, run # None
  PROVE  /\ run.key \in Key /\ run.job \in Job
         /\ run.covers \in Nat /\ run.ok \in BOOLEAN
BY DEF TypeOK, Run

LEMMA InitInv == Init => IInv
<1> SUFFICES ASSUME Init PROVE IInv
  OBVIOUS
<1>1. TypeOK
  BY QueueAssumption DEF Init, TypeOK, NoJobs
<1>2. Size(NoJobs) <= Capacity
  <2>1. {x \in Key : NoJobs[x] # None} = {}
    BY DEF NoJobs
  <2> QED
    BY <2>1, FS_EmptySet, QueueAssumption DEF Size
<1>3. RestartSucceeds
  BY <1>2 DEF Init, RestartSucceeds, Loadable, NoJobs
<1> QED
  BY <1>1, <1>3
     DEF Init, IInv, MemoryIsSaved, JobsAreKnown, RunCoversItsJob,
         NoChangeForgotten, NoJobs

LEMMA TypeNext ==
  ASSUME IInv, [Next]_vars
  PROVE  TypeOK'
<1> USE QueueAssumption DEF IInv
<1>1. ASSUME NEW r \in Request, NEW k \in Key, ChangeDirectory(r, k)
      PROVE  TypeOK'
  BY <1>1 DEF ChangeDirectory, TypeOK
<1>2. ASSUME NEW r \in Request, Enqueue(r)
      PROVE  TypeOK'
  <2>1. api[r] \in Key
    BY <1>2 DEF Enqueue, TypeOK
  <2>2. Requested(api[r]) \in Job
    BY <2>1 DEF Requested, Job, TypeOK
  <2> QED
    BY <1>2, <2>1, <2>2 DEF Enqueue, Save, DueNow, TypeOK
<1>3. ASSUME NEW r \in Request, NotificationLost(r)
      PROVE  TypeOK'
  BY <1>3 DEF NotificationLost, Fault, TypeOK
<1>4. ASSUME NEW k \in Key, Take(k)
      PROVE  TypeOK'
  <2>1. jobs[k] \in Job
    BY <1>4 DEF Take, Due, JobsAreKnown, MemoryIsSaved, Up, TypeOK
  <2>2. run' \in Run
    BY <1>4, <2>1 DEF Take, Run, TypeOK
  <2> QED
    BY <1>4, <2>2 DEF Take, TypeOK
<1>5. ASSUME NEW k \in Key, RunSucceeds(k) \/ RunFails(k)
      PROVE  TypeOK'
  <2>1. Covered \in [Key -> Nat]
    BY <1>5, RunIsTyped DEF RunSucceeds, RunFails, Covered, TypeOK
  <2>2. run \in Run /\ run' \in Run
    BY <1>5 DEF RunSucceeds, RunFails, Run, TypeOK
  <2> QED
    BY <1>5, <2>1, <2>2 DEF RunSucceeds, RunFails, TypeOK
<1>6. ASSUME NEW k \in Key, Elapse(k)
      PROVE  TypeOK'
  BY <1>6 DEF Elapse, DueNow, TypeOK
<1>7. CASE Finish
  <2>1. run # None /\ run.key \in Key /\ run.job \in Job
    BY <1>7, RunIsTyped DEF Finish, TypeOK
  <2>2. PutOff(run.job) \in Job
    BY <2>1 DEF PutOff, Job
  <2> QED
    BY <1>7, <2>1, <2>2 DEF Finish, Save, NotDue, AfterFailure, TypeOK
<1>8. CASE FinishFails \/ Resume
  BY <1>8 DEF FinishFails, Resume, Fault, TypeOK
<1>9. CASE Stop
  <2>1. pc = "running" => Covered \in [Key -> Nat]
    BY <1>9, RunIsTyped DEF Covered, TypeOK
  <2> QED
    BY <1>9, <2>1 DEF Stop, Fault, NoJobs, TypeOK
<1>10. CASE Start
  BY <1>10 DEF Start, TypeOK
<1>11. CASE UNCHANGED vars
  BY <1>11 DEF vars, TypeOK
<1> QED
  BY <1>1, <1>2, <1>3, <1>4, <1>5, <1>6, <1>7, <1>8, <1>9, <1>10, <1>11 DEF Next
-------------------------------------------------------------------------------
(***************************************************************************)
(* The parts of the invariant that speak of data, action by action.        *)
(***************************************************************************)
Data == JobsAreKnown /\ RunCoversItsJob /\ NoChangeForgotten /\ RestartSucceeds

\* A new request has an id that no run has, and stands for every change.
LEMMA EnqueueKeeps ==
  ASSUME IInv, TypeOK', NEW r \in Request, Enqueue(r)
  PROVE  Data'
<1> DEFINE k == api[r]
<1>1. /\ k \in Key /\ Up /\ jobs = disk /\ ~Full(k)
      /\ disk' = [disk EXCEPT ![k] = Requested(k)] /\ jobs' = disk'
      /\ ids' = [ids EXCEPT ![k] = ids[k] + 1]
      /\ noted' = [noted EXCEPT ![k] = changed[k]]
      /\ due' = due \cup {k}
      /\ UNCHANGED <<pc, run, changed, synced>>
  BY DEF Enqueue, Save, DueNow, IInv, TypeOK, MemoryIsSaved
<1>2. /\ Requested(k).id = ids[k] + 1 /\ Requested(k).attempts = 0
      /\ Requested(k) # None
  BY <1>1, QueueAssumption DEF Requested, Job, IInv, TypeOK
<1>3. JobsAreKnown'
  BY <1>1, <1>2 DEF IInv, TypeOK, JobsAreKnown
<1>4. RunCoversItsJob'
  <2> SUFFICES ASSUME run # None PROVE RunCoversItsJob'
    BY <1>1 DEF RunCoversItsJob
  <2>1. run.key \in Key /\ run.job.id \in Nat /\ run.covers \in Nat
    BY RunIsTyped DEF IInv, Job
  <2>2. run.job.id <= ids[run.key]
    BY DEF IInv, RunCoversItsJob
  <2>3. CASE run.key = k
    <3>1. ids'[k] = ids[k] + 1 /\ disk'[k].id = ids[k] + 1
      BY <1>1, <1>2 DEF IInv, TypeOK
    <3>2. disk'[k].id # run.job.id /\ run.job.id <= ids'[k]
      BY <1>1, <2>1, <2>2, <2>3, <3>1 DEF IInv, TypeOK
    <3> QED
      BY <1>1, <2>3, <3>2 DEF IInv, RunCoversItsJob
  <2>4. CASE run.key # k
    BY <1>1, <2>1, <2>4 DEF IInv, TypeOK, RunCoversItsJob
  <2> QED
    BY <2>3, <2>4
<1>5. NoChangeForgotten'
  BY <1>1, <1>2 DEF IInv, TypeOK, NoChangeForgotten, Up
<1>6. RestartSucceeds'
  <2>0. Size(disk) \in Nat /\ Size(jobs) = Size(disk)
    <3>1. Size(disk) \in Nat
      BY SizeType
    <3> QED
      BY <1>1, <3>1
  <2>1. disk[k] # None \/ Size(disk) < Capacity
    BY <1>1, <2>0, QueueAssumption DEF Full
  <2>2. Size(disk') <= Capacity
    BY <1>1, <2>1, SizeAdd DEF IInv, TypeOK, RestartSucceeds, Loadable
  <2>3. \A x \in Key : disk'[x] # None => disk'[x].attempts \in 0 .. AttemptCap
    BY <1>1, <1>2, QueueAssumption
       DEF IInv, TypeOK, RestartSucceeds, Loadable
  <2> QED
    BY <2>2, <2>3 DEF RestartSucceeds, Loadable
<1> QED
  BY <1>3, <1>4, <1>5, <1>6 DEF Data

\* The run starts from a job in the file and covers every change so far.
LEMMA TakeKeeps ==
  ASSUME IInv, TypeOK', NEW k \in Key, Take(k)
  PROVE  Data'
<1>1. /\ jobs = disk /\ jobs[k] # None /\ jobs[k] \in Job
      /\ run' = [key |-> k, job |-> jobs[k], covers |-> changed[k], ok |-> FALSE]
      /\ Up /\ Up'
      /\ UNCHANGED <<jobs, disk, due, changed, noted, synced, ids>>
  BY DEF Take, Due, IInv, TypeOK, MemoryIsSaved, JobsAreKnown, Up
<1>2. RunCoversItsJob'
  BY <1>1 DEF RunCoversItsJob, IInv, JobsAreKnown
<1> QED
  BY <1>1, <1>2 DEF Data, IInv, JobsAreKnown, NoChangeForgotten, RestartSucceeds

\* A run only raises what is synchronized.
LEMMA RunKeeps ==
  ASSUME IInv, TypeOK', NEW k \in Key, RunSucceeds(k) \/ RunFails(k)
  PROVE  Data'
<1>1. /\ run # None /\ run \in Run /\ Up /\ Up'
      /\ UNCHANGED <<jobs, disk, due, changed, noted, ids>>
      /\ synced' \in {synced, Covered}
      /\ \/ run' = run
         \/ run' = [run EXCEPT !.ok = TRUE] /\ synced' = Covered
  <2>1. pc = "running" /\ run # None
    BY DEF RunSucceeds, RunFails, IInv, TypeOK
  <2>2. run \in Run
    BY <2>1 DEF IInv, TypeOK
  <2>3. CASE RunSucceeds(k)
    BY <2>1, <2>2, <2>3 DEF RunSucceeds, Up
  <2>4. CASE RunFails(k)
    BY <2>1, <2>2, <2>4 DEF RunFails, Up
  <2> QED
    BY <2>3, <2>4
<1>2. /\ run'.key = run.key /\ run'.job = run.job /\ run'.covers = run.covers
      /\ run'.ok => run.ok \/ synced' = Covered
  BY <1>1 DEF Run
<1>3. /\ run.key \in Key /\ run.covers \in Nat
      /\ Covered[run.key] >= run.covers
      /\ \A x \in Key : Covered[x] >= synced[x]
  BY <1>1, RunIsTyped DEF Covered, IInv, TypeOK
<1>4. \A x \in Key : synced'[x] >= synced[x]
  BY <1>1, <1>3 DEF IInv, TypeOK
<1>5. RunCoversItsJob'
  BY <1>1, <1>2, <1>3, <1>4 DEF IInv, TypeOK, RunCoversItsJob
<1>6. NoChangeForgotten'
  BY <1>1, <1>4 DEF IInv, TypeOK, NoChangeForgotten
<1> QED
  BY <1>1, <1>5, <1>6 DEF Data, IInv, JobsAreKnown, RestartSucceeds

\* Only a job that ran, and covers all that was noted, leaves the queue.
LEMMA FinishKeeps ==
  ASSUME IInv, TypeOK', Finish
  PROVE  Data'
<1> DEFINE k == run.key
<1>1. /\ run # None /\ k \in Key /\ run.job \in Job /\ run.covers \in Nat
      /\ Up /\ Up' /\ jobs = disk /\ run' = None
      /\ UNCHANGED <<changed, noted, synced, ids>>
  BY RunIsTyped DEF Finish, Up, IInv, TypeOK, MemoryIsSaved
<1>2. CASE ~IsCurrent(k)
  BY <1>1, <1>2
     DEF Finish, Data, IInv, JobsAreKnown, RunCoversItsJob, NoChangeForgotten,
         RestartSucceeds
<1>3. CASE IsCurrent(k) /\ run.ok
  <2>1. /\ disk' = [disk EXCEPT ![k] = None] /\ jobs' = disk'
        /\ due' = due \ {k}
    BY <1>1, <1>3 DEF Finish, Save, NotDue
  <2>2. synced[k] >= noted[k]
    BY <1>1, <1>3 DEF IsCurrent, IInv, TypeOK, RunCoversItsJob
  <2>3. Size(disk') <= Capacity
    BY <1>1, <2>1, SizeRemove DEF IInv, TypeOK, RestartSucceeds, Loadable
  <2>4. RestartSucceeds'
    BY <1>1, <2>1, <2>3 DEF IInv, TypeOK, RestartSucceeds, Loadable
  <2>5. NoChangeForgotten'
    BY <1>1, <2>1, <2>2 DEF IInv, TypeOK, NoChangeForgotten
  <2> QED
    BY <1>1, <2>1, <2>4, <2>5 DEF Data, IInv, TypeOK, JobsAreKnown, RunCoversItsJob
<1>4. CASE IsCurrent(k) /\ ~run.ok
  <2>1. /\ disk' = [disk EXCEPT ![k] = PutOff(run.job)] /\ jobs' = disk'
        /\ due' = due \ {k}
    BY <1>1, <1>4 DEF Finish, Save, NotDue, AfterFailure
  <2>2. /\ PutOff(run.job) \in Job /\ PutOff(run.job) # None
        /\ PutOff(run.job).id = run.job.id
        /\ PutOff(run.job).attempts \in 0 .. AttemptCap
    BY <1>1, QueueAssumption DEF PutOff, Job
  <2>3. disk[k] # None /\ disk[k].id = run.job.id
    BY <1>1, <1>4 DEF IsCurrent
  <2>4. Size(disk') <= Capacity
    BY <1>1, <2>1, <2>3, SizeAdd DEF IInv, TypeOK, RestartSucceeds, Loadable
  <2>5. RestartSucceeds'
    BY <1>1, <2>1, <2>2, <2>4 DEF IInv, TypeOK, RestartSucceeds, Loadable
  <2>6. NoChangeForgotten'
    BY <1>1, <2>1, <2>2, <2>3 DEF IInv, TypeOK, NoChangeForgotten
  <2>7. JobsAreKnown'
    BY <1>1, <2>1, <2>2, <2>3 DEF IInv, TypeOK, JobsAreKnown
  <2> QED
    BY <1>1, <2>5, <2>6, <2>7 DEF Data, RunCoversItsJob
<1> QED
  BY <1>1, <1>2, <1>3, <1>4 DEF IInv, TypeOK

\* A stopped service has nothing in memory; what was noted is in the file.
LEMMA StopKeeps ==
  ASSUME IInv, TypeOK', Stop
  PROVE  Data'
<1>1. /\ ~Up' /\ run' = None
      /\ UNCHANGED <<disk, due, changed, noted, ids>>
      /\ \/ synced' = synced
         \/ pc = "running" /\ synced' = Covered
  BY DEF Stop, Up
<1>2. \A x \in Key : synced'[x] >= synced[x]
  BY <1>1, RunIsTyped DEF Covered, IInv, TypeOK
<1> QED
  BY <1>1, <1>2
     DEF Data, IInv, TypeOK, JobsAreKnown, RunCoversItsJob, NoChangeForgotten,
         RestartSucceeds

LEMMA NextInv ==
  ASSUME IInv, [Next]_vars
  PROVE  IInv'
<1>1. TypeOK'
  BY TypeNext
<1>2. MemoryIsSaved'
  BY DEF IInv, MemoryIsSaved, Next, vars, Up, Save, ChangeDirectory, Enqueue,
         NotificationLost, Take, RunSucceeds, RunFails, Finish, FinishFails,
         Resume, Elapse, Stop, Start
<1>3. Data'
  <2>1. ASSUME NEW r \in Request, NEW k \in Key, ChangeDirectory(r, k)
        PROVE  Data'
    BY <2>1
       DEF ChangeDirectory, Data, IInv, TypeOK, JobsAreKnown, RunCoversItsJob,
           NoChangeForgotten, RestartSucceeds, Up
  <2>2. ASSUME NEW r \in Request, Enqueue(r) PROVE Data'
    BY <1>1, <2>2, EnqueueKeeps
  <2>3. ASSUME NEW r \in Request, NotificationLost(r) PROVE Data'
    BY <2>3
       DEF NotificationLost, Data, IInv, JobsAreKnown, RunCoversItsJob,
           NoChangeForgotten, RestartSucceeds, Up
  <2>4. ASSUME NEW k \in Key, Take(k) PROVE Data'
    BY <1>1, <2>4, TakeKeeps
  <2>5. ASSUME NEW k \in Key, RunSucceeds(k) \/ RunFails(k) PROVE Data'
    BY <1>1, <2>5, RunKeeps
  <2>6. ASSUME NEW k \in Key, Elapse(k) PROVE Data'
    BY <2>6
       DEF Elapse, DueNow, Data, IInv, JobsAreKnown, RunCoversItsJob,
           NoChangeForgotten, RestartSucceeds, Up
  <2>7. CASE Finish
    BY <1>1, <2>7, FinishKeeps
  <2>8. CASE FinishFails \/ Resume
    BY <2>8
       DEF FinishFails, Resume, Data, IInv, JobsAreKnown, RunCoversItsJob,
           NoChangeForgotten, RestartSucceeds, Up
  <2>9. CASE Stop
    BY <1>1, <2>9, StopKeeps
  <2>10. CASE Start
    BY <2>10
       DEF Start, Data, IInv, JobsAreKnown, RunCoversItsJob, NoChangeForgotten,
           RestartSucceeds, Up
  <2>11. CASE UNCHANGED vars
    BY <2>11
       DEF vars, Data, IInv, JobsAreKnown, RunCoversItsJob, NoChangeForgotten,
           RestartSucceeds, Up
  <2> QED
    BY <2>1, <2>2, <2>3, <2>4, <2>5, <2>6, <2>7, <2>8, <2>9, <2>10, <2>11
       DEF Next
<1> QED
  BY <1>1, <1>2, <1>3 DEF IInv, Data
-------------------------------------------------------------------------------
\* The inductive invariant, for any keys, requests, capacity and bounds.
THEOREM QueueInvariant == Spec => []IInv
BY InitInv, NextInv, PTL DEF Spec

\* The type invariant.
THEOREM QueueTypeCorrect == Spec => []TypeOK
<1>1. IInv => TypeOK
  BY DEF IInv
<1> QED
  BY <1>1, QueueInvariant, PTL

\* A change that was noted stays in the file, and in the running queue,
\* until a run that began after it succeeds.
THEOREM NothingIsForgotten == Spec => []NoChangeForgotten
<1>1. IInv => NoChangeForgotten
  BY DEF IInv
<1> QED
  BY <1>1, QueueInvariant, PTL

\* The service can always start again with the file it saved.
THEOREM FileLoads == Spec => []RestartSucceeds
<1>1. IInv => RestartSucceeds
  BY DEF IInv
<1> QED
  BY <1>1, QueueInvariant, PTL
===============================================================================
