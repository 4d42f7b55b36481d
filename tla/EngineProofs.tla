---------------------------- MODULE EngineProofs ----------------------------
(***************************************************************************)
(* The engine for any number of threads, inputs and jobs, any recursion    *)
(* strategy and any console commands, restart included.                    *)
(***************************************************************************)
EXTENDS Engine, Integers, SequenceTheorems, FiniteSetTheorems,
        WellFoundedInduction, TLAPS

-----------------------------------------------------------------------------
(* The job queue: what its methods preserve. It stays well formed, and the
   jobs up to the position stay where they are. *)
Queues(S) == {q \in [jobs : Seq(S), pos : Nat] : q.pos <= Len(q.jobs)}

\* q2 has the position of q and agrees with it up to there.
SamePrefix(q2, q) ==
  /\ q2.pos = q.pos
  /\ SubSeq(q2.jobs, 1, q.pos) = SubSeq(q.jobs, 1, q.pos)

(* Two sequences that agree up to n have the same first n elements. *)
LEMMA EqualPrefixes ==
  ASSUME NEW S, NEW s \in Seq(S), NEW t \in Seq(S), NEW n \in Nat,
         n <= Len(s), n <= Len(t), \A i \in 1..n : s[i] = t[i]
  PROVE  SubSeq(s, 1, n) = SubSeq(t, 1, n)
OBVIOUS

(* Cutting out element n keeps the ones before it and moves the others up. *)
LEMMA WithoutElements ==
  ASSUME NEW S, NEW s \in Seq(S), NEW n \in 1 .. Len(s)
  PROVE  /\ without(s, n) \in Seq(S)
         /\ Len(without(s, n)) = Len(s) - 1
         /\ \A i \in 1 .. n - 1 : without(s, n)[i] = s[i]
         /\ \A i \in n .. Len(s) - 1 : without(s, n)[i] = s[i + 1]
<1> DEFINE a == SubSeq(s, 1, n - 1)
           b == SubSeq(s, n + 1, Len(s))
<1>0. Len(s) \in Nat /\ n \in Int /\ \A i \in 1 .. Len(s) : s[i] \in S
  OBVIOUS
<1>1. /\ a \in Seq(S) /\ Len(a) = n - 1
      /\ \A i \in 1 .. n - 1 : a[i] = s[i]
  <2>1. 1 \in Int /\ n - 1 \in Int /\ \A i \in 1 .. n - 1 : s[i] \in S
    BY <1>0
  <2> QED
    BY <2>1, SubSeqProperties
<1>2. /\ b \in Seq(S) /\ Len(b) = Len(s) - n
      /\ \A i \in 1 .. Len(s) - n : b[i] = s[n + i]
  <2>1. n + 1 \in Int /\ Len(s) \in Int /\ \A i \in n + 1 .. Len(s) : s[i] \in S
    BY <1>0
  <2>2. /\ b \in Seq(S)
        /\ Len(b) = IF n + 1 <= Len(s) THEN Len(s) - (n + 1) + 1 ELSE 0
        /\ \A i \in 1 .. Len(s) - (n + 1) + 1 : b[i] = s[n + 1 + i - 1]
    BY <2>1, SubSeqProperties
  <2> HIDE DEF b
  <2>3. Len(s) - (n + 1) + 1 = Len(s) - n
    BY <1>0
  <2>4. ASSUME NEW i \in 1 .. Len(s) - n PROVE b[i] = s[n + i]
    <3>1. n + 1 + i - 1 = n + i
      BY <1>0
    <3> QED
      BY <2>2, <2>3, <3>1
  <2>5. Len(b) = Len(s) - n
    BY <1>0, <2>2
  <2> QED
    BY <2>2, <2>4, <2>5
<1> HIDE DEF a, b
<1>3. /\ a \o b \in Seq(S)
      /\ Len(a \o b) = Len(a) + Len(b)
      /\ \A i \in 1 .. Len(a) + Len(b) :
           (a \o b)[i] = IF i <= Len(a) THEN a[i] ELSE b[i - Len(a)]
  BY <1>1, <1>2, ConcatProperties
<1>4. Len(a \o b) = Len(s) - 1
  BY <1>0, <1>1, <1>2, <1>3
<1>5. ASSUME NEW i \in 1 .. n - 1 PROVE (a \o b)[i] = s[i]
  BY <1>0, <1>1, <1>2, <1>3, <1>5
<1>6. ASSUME NEW i \in n .. Len(s) - 1 PROVE (a \o b)[i] = s[i + 1]
  <2>1. /\ i \in 1 .. Len(a) + Len(b) /\ ~(i <= Len(a))
        /\ i - Len(a) \in 1 .. Len(s) - n /\ n + (i - Len(a)) = i + 1
    BY <1>0, <1>1, <1>2
  <2> QED
    BY <1>2, <1>3, <2>1
<1> QED
  BY <1>3, <1>4, <1>5, <1>6 DEF without, a, b

LEMMA PushKeeps ==
  ASSUME NEW S, NEW q \in Queues(S), NEW job \in S
  PROVE  /\ push(q, job) \in Queues(S)
         /\ SamePrefix(push(q, job), q)
         /\ \A i \in 1 .. q.pos : push(q, job).jobs[i] = q.jobs[i]
         /\ \A i \in DOMAIN push(q, job).jobs :
              \/ push(q, job).jobs[i] = job
              \/ i \in DOMAIN q.jobs /\ push(q, job).jobs[i] = q.jobs[i]
<1> DEFINE q2 == push(q, job)
<1>1. q2 = [jobs |-> Append(q.jobs, job), pos |-> q.pos]
  BY DEF push, Queues
<1>2. q2 \in Queues(S)
  BY <1>1 DEF Queues
<1>3. \A i \in 1 .. q.pos : q2.jobs[i] = q.jobs[i]
  BY <1>1 DEF Queues
<1>4. SamePrefix(q2, q)
  BY <1>1, <1>2, <1>3, EqualPrefixes DEF SamePrefix, Queues
<1>5. \A i \in DOMAIN q2.jobs :
         \/ q2.jobs[i] = job
         \/ i \in DOMAIN q.jobs /\ q2.jobs[i] = q.jobs[i]
  BY <1>1 DEF Queues
<1> QED
  BY <1>2, <1>3, <1>4, <1>5

(* Deleting behind the active job leaves it and everything before it alone. *)
LEMMA RemoveKeeps ==
  ASSUME NEW S, NEW q \in Queues(S), NEW offset \in Nat \ {0}
  PROVE  /\ removeAt(q, offset) \in Queues(S)
         /\ SamePrefix(removeAt(q, offset), q)
         /\ \A i \in 1 .. q.pos : removeAt(q, offset).jobs[i] = q.jobs[i]
         /\ \A i \in DOMAIN removeAt(q, offset).jobs :
              \E k \in DOMAIN q.jobs : removeAt(q, offset).jobs[i] = q.jobs[k]
<1> DEFINE q2 == removeAt(q, offset)
<1>1. CASE ~removable(q, offset)
  BY <1>1 DEF removeAt, SamePrefix, Queues
<1>2. CASE removable(q, offset)
  <2> DEFINE n == q.pos + offset
  <2>1. /\ n \in 1 .. Len(q.jobs) /\ n > q.pos
        /\ q.jobs \in Seq(S) /\ Len(q.jobs) \in Nat /\ q.pos \in Nat
    BY <1>2 DEF removable, Queues
  <2>2. q2 = [jobs |-> without(q.jobs, n), pos |-> q.pos]
    BY <1>2 DEF removeAt, Queues
  <2>3. /\ without(q.jobs, n) \in Seq(S)
        /\ Len(without(q.jobs, n)) = Len(q.jobs) - 1
        /\ \A i \in 1 .. n - 1 : without(q.jobs, n)[i] = q.jobs[i]
        /\ \A i \in n .. Len(q.jobs) - 1 : without(q.jobs, n)[i] = q.jobs[i + 1]
    BY <2>1, WithoutElements
  <2> HIDE DEF n, q2
  <2>4. q2 \in Queues(S)
    BY <2>1, <2>2, <2>3 DEF Queues
  <2>5. \A i \in 1 .. q.pos : q2.jobs[i] = q.jobs[i]
    BY <2>1, <2>2, <2>3
  <2>6. SamePrefix(q2, q)
    BY <2>1, <2>2, <2>3, <2>4, <2>5, EqualPrefixes DEF SamePrefix, Queues
  <2>7. \A i \in DOMAIN q2.jobs : \E k \in DOMAIN q.jobs : q2.jobs[i] = q.jobs[k]
    <3> SUFFICES ASSUME NEW i \in DOMAIN q2.jobs
                 PROVE  \E k \in DOMAIN q.jobs : q2.jobs[i] = q.jobs[k]
      OBVIOUS
    <3>1. i \in 1 .. Len(q.jobs) - 1
      BY <2>1, <2>2, <2>3
    <3>2. CASE i < n
      <4>1. i \in DOMAIN q.jobs /\ q2.jobs[i] = q.jobs[i]
        BY <3>1, <3>2, <2>1, <2>2, <2>3
      <4> QED
        BY <4>1
    <3>3. CASE i >= n
      <4>1. i + 1 \in DOMAIN q.jobs /\ q2.jobs[i] = q.jobs[i + 1]
        BY <3>1, <3>3, <2>1, <2>2, <2>3
      <4> QED
        BY <4>1
    <3> QED
      BY <3>1, <3>2, <3>3, <2>1
  <2> QED
    BY <2>4, <2>5, <2>6, <2>7 DEF q2
<1> QED
  BY <1>1, <1>2

(* A job behind the position that is kept moves up by one place, or not. *)
LEMMA RemoveMovesUp ==
  ASSUME NEW S, NEW q \in Queues(S), NEW offset \in Nat \ {0},
         NEW i \in DOMAIN removeAt(q, offset).jobs
  PROVE  \/ i \in DOMAIN q.jobs /\ removeAt(q, offset).jobs[i] = q.jobs[i]
         \/ /\ i > q.pos /\ i + 1 \in DOMAIN q.jobs
            /\ removeAt(q, offset).jobs[i] = q.jobs[i + 1]
<1> DEFINE n == q.pos + offset
<1>0. q.jobs \in Seq(S) /\ q.pos \in Nat /\ DOMAIN q.jobs = 1 .. Len(q.jobs)
  BY DEF Queues
<1>1. CASE ~removable(q, offset)
  BY <1>1 DEF removeAt
<1>2. CASE removable(q, offset)
  <2>1. n \in 1 .. Len(q.jobs) /\ n > q.pos
    BY <1>0, <1>2 DEF removable
  <2>2. removeAt(q, offset).jobs = without(q.jobs, n)
    BY <1>0, <1>2 DEF removeAt, Queues
  <2>3. /\ without(q.jobs, n) \in Seq(S)
        /\ Len(without(q.jobs, n)) = Len(q.jobs) - 1
        /\ \A k \in 1 .. n - 1 : without(q.jobs, n)[k] = q.jobs[k]
        /\ \A k \in n .. Len(q.jobs) - 1 : without(q.jobs, n)[k] = q.jobs[k + 1]
    BY <1>0, <2>1, WithoutElements
  <2>4. i \in 1 .. Len(q.jobs) - 1
    BY <2>2, <2>3
  <2> HIDE DEF n
  <2>5. CASE i <= n - 1
    BY <1>0, <2>1, <2>2, <2>3, <2>4, <2>5
  <2>6. CASE i > n - 1
    <3>1. i \in n .. Len(q.jobs) - 1 /\ i > q.pos /\ i + 1 \in DOMAIN q.jobs
      BY <1>0, <2>1, <2>4, <2>6
    <3> QED
      BY <2>2, <2>3, <3>1
  <2> QED
    BY <1>0, <2>1, <2>4, <2>5, <2>6
<1> QED
  BY <1>1, <1>2

-----------------------------------------------------------------------------
LEMMA DrainedStep == DrainedBetweenJobs /\ [Next]_vars => DrainedBetweenJobs'
<1> USE DEF DrainedBetweenJobs, Live, At, mainRest, jobs, flags, inputs, others, hist
<1> SUFFICES ASSUME DrainedBetweenJobs, [Next]_vars PROVE DrainedBetweenJobs'
  OBVIOUS
<1>1. CASE Main
  BY <1>1 DEF Main, Start, JobsInQueue, PrepareQueueJob, JobReset, Begin,
     NextInput, CheckSkip, CheckStop, CheckRunning, MainPassesGate,
     AcquireSlot, TakeValue, Spawn, Drain, Finalize
<1>2. CASE Progress
  BY <1>2 DEF Progress, ProgressTop, ProgressPassesGate, ProgressLooks,
     progressRest
<1>3. CASE Console
  BY <1>3 DEF Console, PauseCommand, ResumeCommand, SkipCommand,
     DeleteCommand, RestartCommand, ConsoleWork, DeleteQueueItem,
     RestartContinues, consoleRest
<1>4. CASE Interrupt
  BY <1>4 DEF Interrupt
<1>5. CASE Exited
  BY <1>5 DEF Exited, vars
<1>6. ASSUME NEW s \in Slots, Task(s) PROVE DrainedBetweenJobs'
  BY <1>6 DEF Task, Prepare, Execute, TaskPassesGate, Decide, taskRest
<1>7. CASE UNCHANGED vars
  BY <1>7 DEF vars
<1> QED
  BY <1>1, <1>2, <1>3, <1>4, <1>5, <1>6, <1>7 DEF Next

LEMMA LateStep == LateInv /\ [Next]_vars => LateInv'
<1> USE DEF LateInv, Halted, At, mainRest, jobs, flags, inputs, others, hist
<1> SUFFICES ASSUME LateInv, [Next]_vars PROVE LateInv'
  OBVIOUS
<1>1. CASE Main
  <2>1. CASE CheckStop
    BY <2>1 DEF CheckStop
  <2>2. ASSUME NEW s \in Slots, Spawn(s) PROVE LateInv'
    BY <2>2 DEF Spawn
  <2>3. CASE JobReset
    BY <2>3 DEF JobReset, ResetInput, ResetCounters
  <2>4. CASE CheckSkip \/ CheckRunning \/ NextInput
    BY <2>4 DEF CheckSkip, CheckRunning, NextInput
  <2>5. CASE \/ Start \/ JobsInQueue \/ PrepareQueueJob \/ Begin
             \/ MainPassesGate \/ AcquireSlot \/ TakeValue \/ Drain \/ Finalize
    BY <2>5 DEF Start, JobsInQueue, PrepareQueueJob, Begin, MainPassesGate,
       AcquireSlot, TakeValue, Drain, Finalize
  <2> QED
    BY <1>1, <2>1, <2>2, <2>3, <2>4, <2>5 DEF Main
<1>2. CASE Progress
  BY <1>2 DEF Progress, ProgressTop, ProgressPassesGate, ProgressLooks,
     progressRest
<1>3. CASE Console
  BY <1>3 DEF Console, PauseCommand, ResumeCommand, SkipCommand,
     DeleteCommand, RestartCommand, ConsoleWork, DeleteQueueItem,
     RestartContinues, consoleRest, ResetInput, ResetCounters
<1>4. CASE Interrupt
  BY <1>4 DEF Interrupt
<1>5. CASE Exited
  BY <1>5 DEF Exited, vars
<1>6. ASSUME NEW s \in Slots, Task(s) PROVE LateInv'
  BY <1>6 DEF Task, Prepare, Execute, TaskPassesGate, Decide, taskRest
<1>7. CASE UNCHANGED vars
  BY <1>7 DEF vars
<1> QED
  BY <1>1, <1>2, <1>3, <1>4, <1>5, <1>6, <1>7 DEF Next

(* At most one request leaves after the run is stopped, the job is out of
   time, or queueskip is typed. *)
THEOREM Overshoot == Spec => []BoundedOvershoot
<1>1. Init => LateInv
  BY DEF Init, LateInv
<1>2. LateInv => BoundedOvershoot
  BY DEF LateInv, BoundedOvershoot
<1> QED
  BY <1>1, <1>2, LateStep, PTL DEF Spec

-----------------------------------------------------------------------------
(* Types, and the work of the active job. *)

LEMMA BaseIsJob == Base(1) \in Job /\ \A i \in 1..BaseJobs : Base(i) \in Job
BY EngineAssumption DEF Base, Job

LEMMA QueueInit == Init => QueueInv
<1> SUFFICES ASSUME Init PROVE QueueInv
  OBVIOUS
<1>1. TypeOK
  <2>1. queue \in [jobs : Seq(Job), pos : Nat] /\ queue.pos <= Len(queue.jobs)
    BY DEF Init, newJobQueue
  <2>2. Free \in TaskRecord
    BY EngineAssumption, BaseIsJob DEF Free, TaskRecord, TaskStates
  <2>3. tasks \in [Slots -> TaskRecord]
    BY <2>2 DEF Init
  <2>4. /\ ctx \in Job
        /\ console \in [at : {"idle", "delete", "resetCounters", "resume"},
                        index : Nat]
    BY <2>2, BaseIsJob DEF Init, Idle
  <2>5. sent \in Seq([word : 0..N, pos : 0..N]) /\ input \in [word : 0..N, pos : 0..N]
    BY EngineAssumption DEF Init
  <2> QED
    BY EngineAssumption, <2>1, <2>3, <2>4, <2>5 DEF Init, TypeOK, MainStates
<1> QED
  BY <1>1 DEF Init, QueueInv, Loop, Live, Free, Idle, DrainedBetweenJobs

LEMMA FirstJobs ==
  ASSUME NEW f PROVE [newJobQueue EXCEPT !.jobs = f] = [jobs |-> f, pos |-> 0]
BY DEF newJobQueue

LEMMA ResetTypes == ASSUME TypeOK, JobReset PROVE TypeOK'
<1> USE EngineAssumption DEF At, jobs, flags, inputs, others, hist, MainStates
<1>1. CASE main = "resetInput"
  <2>1. sent' = <<>> /\ position' = 0 /\ cursor' = 0 /\ main' = "resetCounters"
    BY <1>1 DEF JobReset, ResetInput
  <2>2. UNCHANGED <<ctx, queue, running, runningJob, skipQueue, counter,
                    closed, input, tasks, progress, console, typed, late>>
    BY <1>1 DEF JobReset
  <2>3. sent' \in Seq([word : 0..N, pos : 0..N])
    BY <2>1
  <2>4. position' \in 0..N /\ cursor' \in 0..N
    BY <2>1
  <2> QED
    BY <2>1, <2>2, <2>3, <2>4 DEF TypeOK
<1>2. CASE main = "resetCounters"
  <2>1. /\ main' = "begin" /\ counter' = 0 /\ skipQueue' = FALSE
        /\ late' = 0 \/ late' = late
    BY <1>2 DEF JobReset, ResetCounters
  <2>2. UNCHANGED <<ctx, queue, running, runningJob, position, cursor, sent,
                    closed, input, tasks, progress, console, typed>>
    BY <1>2 DEF JobReset
  <2>5. late \in Nat
    BY DEF TypeOK
  <2>3. counter' \in Nat
    BY <2>1
  <2>6. late' \in Nat
    BY <2>1, <2>5
  <2>7. skipQueue' \in BOOLEAN
    BY <2>1
  <2>4. main' = "begin"
    BY <2>1
  <2> QED
    BY <2>4, <2>2, <2>3, <2>6, <2>7 DEF TypeOK
<1> QED
  BY <1>1, <1>2 DEF JobReset

(* The steps of the main goroutine. *)
LEMMA QueueMain == QueueInv /\ Main => QueueInv'
<1> USE EngineAssumption
    DEF QueueInv, TypeOK, Loop, Live, DrainedBetweenJobs, MainStates, At,
        mainRest, jobs, flags, inputs, others, hist
<1> SUFFICES ASSUME QueueInv, Main PROVE QueueInv'
  OBVIOUS
<1>1. CASE Start
  <2>1. /\ queue'.jobs = [i \in 1..BaseJobs |-> Base(i)]
        /\ queue'.pos = 0 /\ queue' \in [jobs : Seq(Job), pos : Nat]
        /\ Len(queue'.jobs) = BaseJobs
    <3> DEFINE f == [i \in 1..BaseJobs |-> Base(i)]
    <3>1. f \in Seq(Job) /\ Len(f) = BaseJobs
      BY BaseIsJob
    <3>2. queue' = [jobs |-> f, pos |-> 0]
      <4>1. queue = newJobQueue /\ queue' = [queue EXCEPT !.jobs = f]
        BY <1>1 DEF Start
      <4> QED
        BY <4>1, FirstJobs
    <3> HIDE DEF f
    <3>3. queue' \in [jobs : Seq(Job), pos : Nat] /\ queue'.jobs = f /\ queue'.pos = 0
      BY <3>1, <3>2
    <3> QED
      BY <3>1, <3>3 DEF f
  <2>2. TypeOK'
    BY <1>1, <2>1 DEF Start
  <2> QED
    BY <1>1, <2>2 DEF Start
<1>2. CASE JobsInQueue
  BY <1>2 DEF JobsInQueue
<1>3. CASE PrepareQueueJob
  <2>1. CASE advanceInRange(queue)
    <3>1. /\ queue' = [jobs |-> queue.jobs, pos |-> queue.pos + 1]
          /\ ctx' = queue.jobs[queue.pos + 1] /\ main' = "resetInput"
      BY <1>3, <2>1 DEF PrepareQueueJob, advance, active
    <3>2. queue.pos + 1 \in 1 .. Len(queue.jobs) /\ ctx' \in Job
      BY <2>1, <3>1 DEF advanceInRange
    <3>3. TypeOK'
      BY <1>3, <3>1, <3>2 DEF PrepareQueueJob
    <3> QED
      BY <1>3, <3>1, <3>2, <3>3 DEF PrepareQueueJob, active
  <2>2. CASE ~advanceInRange(queue)
    BY <1>3, <2>2 DEF PrepareQueueJob
  <2> QED
    BY <2>1, <2>2
<1>4. CASE JobReset
  <2>1. TypeOK'
    BY <1>4, ResetTypes
  <2> QED
    BY <1>4, <2>1 DEF JobReset, ResetInput, ResetCounters, active
<1>5. CASE Begin
  BY <1>5 DEF Begin, active
<1>6. CASE NextInput
  BY <1>6 DEF NextInput, active
<1>7. CASE CheckSkip
  BY <1>7 DEF CheckSkip, active
<1>14. CASE CheckRunning
  BY <1>14 DEF CheckRunning, active
<1>13. CASE MainPassesGate \/ AcquireSlot
  BY <1>13 DEF MainPassesGate, AcquireSlot, active
<1>8. CASE CheckStop
  BY <1>8 DEF CheckStop, active
<1>9. CASE TakeValue
  BY <1>9 DEF TakeValue, active
<1>10. ASSUME NEW s \in Slots, Spawn(s) PROVE QueueInv'
  BY <1>10 DEF Spawn, active, TaskRecord, TaskStates
<1>11. CASE Drain
  BY <1>11 DEF Drain, active
<1>12. CASE Finalize
  BY <1>12 DEF Finalize, active
<1> QED
  BY <1>1, <1>2, <1>3, <1>4, <1>5, <1>6, <1>7, <1>8, <1>9, <1>10, <1>11, <1>12,
     <1>13, <1>14 DEF Main

(* A job that is pushed or deleted behind the position leaves the active job
   and the type of the queue as they were. *)
LEMMA QueueKept ==
  ASSUME QueueInv, NEW q2 \in Queues(Job), SamePrefix(q2, queue),
         \A i \in 1 .. queue.pos : q2.jobs[i] = queue.jobs[i],
         queue' = q2,
         UNCHANGED <<main, ctx, running, runningJob, skipQueue, counter,
                     position, cursor, closed, input, progress, sent, late>>,
         tasks' \in [Slots -> TaskRecord], typed' \in Nat,
         \A s \in Slots : tasks'[s].at # "free" =>
            tasks[s].at # "free" /\ tasks'[s].job = tasks[s].job,
         console' \in [at : {"idle", "delete", "resetCounters", "resume"},
                       index : Nat],
         console'.at = "delete" => console'.index > 0,
         main # "start"
  PROVE  QueueInv'
<1>1. queue' \in [jobs : Seq(Job), pos : Nat] /\ queue'.pos <= Len(queue'.jobs)
  BY DEF Queues
<1>2. TypeOK'
  BY <1>1 DEF QueueInv, TypeOK
<1>3. main \in Loop => queue'.pos > 0 /\ active(queue') = active(queue)
  <2>1. queue'.pos = queue.pos
    BY DEF SamePrefix
  <2>2. main \in Loop => queue.pos > 0 /\ queue.pos \in Nat
    BY DEF QueueInv, TypeOK
  <2>3. main \in Loop => queue'.jobs[queue.pos] = queue.jobs[queue.pos]
    BY <2>2
  <2> QED
    BY <2>1, <2>2, <2>3 DEF active
<1>4. Live' \subseteq Live /\ \A s \in Live' : tasks'[s].job = tasks[s].job
  BY DEF Live
<1>5. main' \in Loop => queue'.pos > 0 /\ ctx' = active(queue')
  BY <1>3 DEF QueueInv
<1>6. \A s \in Live' : main' \in Loop /\ tasks'[s].job = ctx'
  BY <1>4 DEF QueueInv
<1>7. DrainedBetweenJobs'
  BY <1>4 DEF QueueInv, DrainedBetweenJobs
<1> QED
  BY <1>2, <1>5, <1>6, <1>7 DEF QueueInv

(* The steps of the request goroutines. *)
LEMMA QueueTask == ASSUME QueueInv, NEW s \in Slots, Task(s) PROVE QueueInv'
<1> USE EngineAssumption
<1>1. main \in Loop /\ main # "start"
  BY DEF Task, Prepare, Execute, TaskPassesGate, Decide, QueueInv, Live, Loop
<1> DEFINE TaskOK == /\ tasks' \in [Slots -> TaskRecord]
                     /\ \A r \in Slots : tasks'[r].at # "free" =>
                          tasks[r].at # "free" /\ tasks'[r].job = tasks[r].job
           QueueOK == \E q2 \in Queues(Job) :
                        /\ queue' = q2 /\ SamePrefix(q2, queue)
                        /\ \A i \in 1 .. queue.pos :
                             q2.jobs[i] = queue.jobs[i]
<1>2. TaskOK
  <2>1. /\ tasks \in [Slots -> TaskRecord] /\ tasks[s].at # "free"
        /\ Free \in TaskRecord /\ Free.at = "free"
    BY BaseIsJob DEF QueueInv, TypeOK, Task, Prepare, Execute, TaskPassesGate,
       Decide, Free, TaskRecord, TaskStates
  <2>2. CASE End(s)
    BY <2>1, <2>2 DEF End
  <2>3. ASSUME NEW to \in {"execute", "gate", "decide"}, Go(s, to) PROVE TaskOK
    BY <2>1, <2>3 DEF Go, TaskRecord, TaskStates
  <2>4. CASE tasks' = [tasks EXCEPT ![s].at = "prepare", ![s].retried = TRUE]
    BY <2>1, <2>4 DEF TaskRecord, TaskStates
  <2> QED
    BY <2>2, <2>3, <2>4 DEF Task, Prepare, Execute, TaskPassesGate, Decide
<1>3. queue \in Queues(Job)
  BY DEF QueueInv, TypeOK, Queues
<1>4. QueueOK
  <2>1. CASE queue' = queue
    BY <2>1, <1>3 DEF SamePrefix
  <2>2. ASSUME queue' = push(queue, Deeper(tasks[s])) PROVE QueueOK
    <3>1. Deeper(tasks[s]) \in Job
      <4>1. tasks[s].job \in Job /\ tasks[s].word \in 0..N
        BY DEF QueueInv, TypeOK, TaskRecord
      <4> QED
        BY <4>1 DEF Deeper, Job
    <3> QED
      BY <2>2, <3>1, <1>3, PushKeeps
  <2> QED
    BY <2>1, <2>2 DEF Task, Prepare, Execute, TaskPassesGate, Decide, handle
<1>5. /\ UNCHANGED <<main, ctx, running, runningJob, skipQueue, counter,
                     position, cursor, closed, input, progress, sent, late>>
      /\ UNCHANGED <<typed, console>>
  BY DEF Task, Prepare, Execute, TaskPassesGate, Decide, taskRest, flags,
     inputs, hist
<1>6. /\ typed' \in Nat
      /\ console'.at = "delete" => console'.index > 0
      /\ console' \in [at : {"idle", "delete", "resetCounters", "resume"},
                       index : Nat]
  BY <1>5 DEF QueueInv, TypeOK
<1> QED
  BY <1>1, <1>2, <1>4, <1>5, <1>6, QueueKept, Zenon

(* The steps of the console. *)
LEMMA QueueConsole == QueueInv /\ Console => QueueInv'
<1> USE EngineAssumption
    DEF Loop, Live, DrainedBetweenJobs, flags, inputs, jobs, others, hist,
        consoleRest
<1> SUFFICES ASSUME QueueInv, Console PROVE QueueInv'
  OBVIOUS
<1>1. CASE PauseCommand
  BY <1>1 DEF PauseCommand, Type, QueueInv, TypeOK, active
<1>2. CASE ResumeCommand
  BY <1>2 DEF ResumeCommand, QueueInv, TypeOK, active
<1>3. CASE SkipCommand
  BY <1>3 DEF SkipCommand, Type, QueueInv, TypeOK, active
<1>4. CASE DeleteCommand
  <2>1. PICK index \in 1 .. Len(remaining(queue)) - 1 :
          console' = [at |-> "delete", index |-> index]
    BY <1>4 DEF DeleteCommand
  <2>2. index \in Nat /\ index > 0 /\ queue.pos > 0
    <3>1. queue.jobs \in Seq(Job) /\ queue.pos \in Nat /\ queue.pos <= Len(queue.jobs)
      BY DEF QueueInv, TypeOK
    <3>2. CASE queue.pos = 0
      BY <3>2 DEF remaining
    <3>3. CASE queue.pos > 0
      <4>1. remaining(queue) = SubSeq(queue.jobs, queue.pos, Len(queue.jobs))
        BY <3>1, <3>3 DEF remaining
      <4>2. \A i \in queue.pos .. Len(queue.jobs) : queue.jobs[i] \in Job
        BY <3>1, <3>3
      <4>3. remaining(queue) \in Seq(Job)
        BY <4>1, <4>2, <3>1, SubSeqProperties
      <4>4. index \in Nat /\ index > 0
        BY <4>3
      <4> QED
        BY <3>3, <4>3, <4>4
    <3> QED
      BY <3>1, <3>2, <3>3
  <2>3. console' \in [at : {"idle", "delete", "resetCounters", "resume"},
                      index : Nat]
    BY <2>1, <2>2
  <2>4. main # "start"
    BY <2>2 DEF QueueInv, newJobQueue
  <2>5. typed' \in Nat
    BY <1>4 DEF DeleteCommand, Type, QueueInv, TypeOK
  <2>6. UNCHANGED <<main, ctx, queue, running, runningJob, skipQueue, counter,
                    position, cursor, closed, input, tasks, progress, sent, late>>
    BY <1>4 DEF DeleteCommand
  <2>7. console'.index > 0
    BY <2>1, <2>2
  <2>8. TypeOK'
    BY <2>3, <2>5, <2>6 DEF QueueInv, TypeOK
  <2> QED
    BY <2>4, <2>6, <2>7, <2>8 DEF QueueInv, active
<1>5. CASE RestartCommand
  <2>1. /\ console' = [Idle EXCEPT !.at = "resetCounters"]
        /\ sent' = <<>> /\ position' = 0 /\ cursor' = 0
        /\ UNCHANGED <<main, ctx, queue, running, runningJob, skipQueue,
                       counter, closed, input, tasks, progress, late>>
    BY <1>5 DEF RestartCommand, ResetInput
  <2>2. typed' \in Nat
    BY <1>5 DEF RestartCommand, Type, QueueInv, TypeOK
  <2>3. /\ console' \in [at : {"idle", "delete", "resetCounters", "resume"},
                         index : Nat]
        /\ console'.at # "delete"
    BY <2>1, BaseIsJob DEF Idle
  <2>4. sent' \in Seq([word : 0..N, pos : 0..N])
    BY <2>1
  <2>5. position' \in 0..N /\ cursor' \in 0..N
    BY <2>1
  <2>6. TypeOK'
    BY <2>1, <2>2, <2>3, <2>4, <2>5 DEF QueueInv, TypeOK
  <2> QED
    BY <2>1, <2>3, <2>6 DEF QueueInv, active
<1>6. CASE DeleteQueueItem
  <2>1. /\ queue \in Queues(Job) /\ console.index \in Nat \ {0} /\ main # "start"
    BY <1>6 DEF DeleteQueueItem, QueueInv, TypeOK, Queues
  <2>2. /\ queue' = removeAt(queue, console.index) /\ console' = Idle
        /\ UNCHANGED <<main, ctx, running, runningJob, skipQueue, counter,
                       position, cursor, closed, input, progress, sent, late>>
        /\ UNCHANGED <<typed, tasks>>
    BY <1>6 DEF DeleteQueueItem
  <2>3. /\ typed' \in Nat /\ tasks' \in [Slots -> TaskRecord]
        /\ console' \in [at : {"idle", "delete", "resetCounters", "resume"},
                         index : Nat]
    BY <2>2, BaseIsJob DEF QueueInv, TypeOK, Idle
  <2>4. /\ \A s \in Slots : tasks'[s].at # "free" =>
             tasks[s].at # "free" /\ tasks'[s].job = tasks[s].job
        /\ console'.at # "delete"
    BY <2>2 DEF Idle
  <2>5. /\ removeAt(queue, console.index) \in Queues(Job)
        /\ SamePrefix(removeAt(queue, console.index), queue)
        /\ \A i \in 1 .. queue.pos :
             removeAt(queue, console.index).jobs[i] = queue.jobs[i]
    BY <2>1, RemoveKeeps
  <2> QED
    BY <2>1, <2>2, <2>3, <2>4, <2>5, QueueKept
<1>7. CASE RestartContinues
  <2>1. CASE console.at = "resetCounters"
    <3>1. /\ console' = [console EXCEPT !.at = "resume"]
          /\ UNCHANGED <<main, ctx, queue, running, runningJob, position,
                         cursor, closed, input, tasks, progress, typed, sent>>
      BY <1>7, <2>1 DEF RestartContinues
    <3>2. counter' = 0
      BY <1>7, <2>1 DEF RestartContinues, ResetCounters
    <3>3. skipQueue' = FALSE
      BY <1>7, <2>1 DEF RestartContinues, ResetCounters
    <3>4. late' = 0 \/ late' = late
      BY <1>7, <2>1 DEF RestartContinues, ResetCounters
    <3>5. /\ console' \in [at : {"idle", "delete", "resetCounters", "resume"},
                           index : Nat]
          /\ console'.at # "delete"
      BY <3>1 DEF QueueInv, TypeOK
    <3>6. late \in Nat
      BY DEF QueueInv, TypeOK
    <3>7. late' \in Nat
      BY <3>4, <3>6
    <3>8. counter' \in Nat
      BY <3>2
    <3>9. skipQueue' \in BOOLEAN
      BY <3>3
    <3>10. TypeOK'
      BY <3>1, <3>5, <3>7, <3>8, <3>9 DEF QueueInv, TypeOK
    <3> QED
      BY <3>1, <3>5, <3>10 DEF QueueInv, active
  <2>2. CASE console.at = "resume"
    <3>1. /\ console' = Idle
          /\ UNCHANGED <<main, ctx, queue, running, runningJob, skipQueue,
                         counter, position, cursor, input, tasks, progress,
                         typed, sent, late>>
      BY <1>7, <2>2 DEF RestartContinues
    <3>2. /\ console' \in [at : {"idle", "delete", "resetCounters", "resume"},
                           index : Nat]
          /\ console'.at # "delete"
      BY <3>1, BaseIsJob DEF Idle
    <3>3. closed' = FALSE
      BY <1>7, <2>2 DEF RestartContinues
    <3>4. closed' \in BOOLEAN
      BY <3>3
    <3>5. TypeOK'
      BY <3>1, <3>2, <3>4 DEF QueueInv, TypeOK
    <3> QED
      BY <3>1, <3>2, <3>5 DEF QueueInv, active
  <2> QED
    BY <1>7, <2>1, <2>2 DEF RestartContinues
<1> QED
  BY <1>1, <1>2, <1>3, <1>4, <1>5, <1>6, <1>7 DEF Console, ConsoleWork

LEMMA QueueStep == QueueInv /\ [Next]_vars => QueueInv'
<1> SUFFICES ASSUME QueueInv, [Next]_vars PROVE QueueInv'
  OBVIOUS
<1>1. CASE Progress
  BY <1>1 DEF Progress, ProgressTop, ProgressPassesGate, ProgressLooks,
     progressRest, jobs, flags, inputs, hist, QueueInv, TypeOK, Loop, Live,
     DrainedBetweenJobs, active
<1>2. CASE Interrupt
  BY <1>2 DEF Interrupt, jobs, inputs, others, hist, QueueInv, TypeOK, Loop,
     Live, DrainedBetweenJobs, active
<1>3. CASE UNCHANGED vars
  BY <1>3 DEF vars, jobs, flags, inputs, others, hist, QueueInv, TypeOK, Loop,
     Live, DrainedBetweenJobs, active
<1> QED
  BY <1>1, <1>2, <1>3, QueueMain, QueueConsole, QueueTask DEF Next, Exited

(* The type of the state. *)
THEOREM TypeCorrect == Spec => []TypeOK
<1>1. QueueInv => TypeOK
  BY DEF QueueInv
<1> QED
  BY <1>1, QueueInit, QueueStep, PTL DEF Spec

-----------------------------------------------------------------------------
(* The queue as history, and the depth of its jobs. *)

(* How a step after Start changes the queue. *)
LEMMA QueueMoves ==
  ASSUME QueueInv, [Next]_vars, main # "start"
  PROVE  \/ queue' = queue
         \/ main = "prepare" /\ advanceInRange(queue) /\ queue' = advance(queue)
         \/ console.at = "delete" /\ queue' = removeAt(queue, console.index)
         \/ \E s \in Live :
              /\ tasks[s].job.depth < RecursionDepth
              /\ queue' = push(queue, Deeper(tasks[s]))
<1> USE DEF jobs, flags, inputs, others, hist
<1>1. CASE Main
  BY <1>1 DEF Main, Start, JobsInQueue, PrepareQueueJob, JobReset, Begin,
     NextInput, CheckSkip, CheckStop, CheckRunning, MainPassesGate,
     AcquireSlot, TakeValue, Spawn, Drain, Finalize, mainRest, At
<1>2. CASE Progress
  BY <1>2 DEF Progress, ProgressTop, ProgressPassesGate, ProgressLooks,
     progressRest
<1>3. CASE Console
  BY <1>3 DEF Console, PauseCommand, ResumeCommand, SkipCommand,
     DeleteCommand, RestartCommand, ConsoleWork, DeleteQueueItem,
     RestartContinues, consoleRest
<1>4. CASE Interrupt
  BY <1>4 DEF Interrupt
<1>5. CASE UNCHANGED vars
  BY <1>5 DEF vars
<1>6. ASSUME NEW s \in Slots, Task(s)
      PROVE  \/ queue' = queue
             \/ /\ tasks[s].job.depth < RecursionDepth
                /\ queue' = push(queue, Deeper(tasks[s]))
  BY <1>6 DEF Task, Prepare, Execute, TaskPassesGate, Decide, handle
<1>7. ASSUME NEW s \in Slots, Task(s) PROVE s \in Live
  BY <1>7 DEF Task, Prepare, Execute, TaskPassesGate, Decide, Live
<1> QED
  BY <1>1, <1>2, <1>3, <1>4, <1>5, <1>6, <1>7 DEF Next, Exited

(* Nobody is left to push, and nothing to delete, once the main loop has found
   the queue empty. *)
LEMMA LeftStep ==
  ASSUME QueueInv, NothingLeftBehind, [Next]_vars PROVE NothingLeftBehind'
<1> SUFFICES ASSUME main' \in {"finalize", "done"}
             PROVE  queue'.pos = Len(queue'.jobs)
  BY DEF NothingLeftBehind
<1>0. queue.pos \in Nat /\ queue.jobs \in Seq(Job) /\ queue.pos <= Len(queue.jobs)
  BY DEF QueueInv, TypeOK
<1>1. CASE main = "jobs"
  <2>1. JobsInQueue
    BY <1>1 DEF Next, Main, Start, PrepareQueueJob, JobReset, Begin, NextInput,
       CheckSkip, CheckStop, CheckRunning, MainPassesGate, AcquireSlot,
       TakeValue, Spawn, Drain, Finalize, At, Task, Prepare, Execute,
       TaskPassesGate, Decide, taskRest, Progress, ProgressTop,
       ProgressPassesGate, ProgressLooks, progressRest, Console, PauseCommand,
       ResumeCommand, SkipCommand, DeleteCommand, RestartCommand, ConsoleWork,
       DeleteQueueItem, RestartContinues, consoleRest, Interrupt, Exited, vars
  <2> QED
    BY <1>0, <1>1, <2>1 DEF JobsInQueue, At, mainRest, jobs, hasNext
<1>2. CASE main \in {"finalize", "done"}
  <2>1. Live = {} /\ queue.pos = Len(queue.jobs)
    BY <1>2 DEF QueueInv, DrainedBetweenJobs, NothingLeftBehind
  <2>2. \/ queue' = queue
        \/ console.at = "delete" /\ queue' = removeAt(queue, console.index)
    BY <1>2, <2>1, QueueMoves
  <2>3. console.at = "delete" => console.index \in Nat \ {0}
    BY DEF QueueInv, TypeOK
  <2> QED
    BY <1>0, <2>1, <2>2, <2>3 DEF removeAt, removable
<1>3. CASE main \notin {"jobs", "finalize", "done"}
  BY <1>3 DEF Next, Main, Start, JobsInQueue, PrepareQueueJob, JobReset, Begin,
     NextInput, CheckSkip, CheckStop, CheckRunning, MainPassesGate,
     AcquireSlot, TakeValue, Spawn, Drain, Finalize, mainRest, At, Task,
     Prepare, Execute, TaskPassesGate, Decide, taskRest, Progress, ProgressTop,
     ProgressPassesGate, ProgressLooks, progressRest, Console, PauseCommand,
     ResumeCommand, SkipCommand, DeleteCommand, RestartCommand, ConsoleWork,
     DeleteQueueItem, RestartContinues, consoleRest, Interrupt, Exited, vars
<1> QED
  BY <1>1, <1>2, <1>3

(* Jobs take turns, whatever is queued, deleted, skipped or restarted: when a
   job is prepared no goroutine of the last one is alive, every request works
   for the job at the head of the queue, and no job is left at the end. *)
THEOREM Turns == Spec => []JobsInTurn
<1>1. QueueInv => DrainedBetweenJobs /\ WorkForActiveJob
  BY DEF QueueInv, WorkForActiveJob, Live
<1>2. Init => NothingLeftBehind
  BY DEF Init, NothingLeftBehind
<1>3. QueueInv /\ NothingLeftBehind /\ [Next]_vars => NothingLeftBehind'
  BY LeftStep
<1>4. QueueInv /\ NothingLeftBehind => JobsInTurn
  BY <1>1 DEF JobsInTurn
<1> QED
  BY <1>2, <1>3, <1>4, QueueInit, QueueStep, PTL DEF Spec

LEMMA DeeperIsJob ==
  ASSUME QueueInv, NEW s \in Live
  PROVE  Deeper(tasks[s]) \in Job
<1>1. tasks[s].job \in Job /\ tasks[s].word \in 0..N
  BY DEF QueueInv, TypeOK, TaskRecord, Live
<1> QED
  BY <1>1 DEF Deeper, Job

LEMMA TakenStep ==
  ASSUME QueueInv, [Next]_vars, main # "start"
  PROVE  /\ queue'.pos - queue.pos \in {0, 1}
         /\ SubSeq(queue'.jobs, 1, queue.pos) = SubSeq(queue.jobs, 1, queue.pos)
<1>0. queue \in Queues(Job) /\ queue.pos \in Nat
  BY DEF QueueInv, TypeOK, Queues
<1>1. CASE queue' = queue
  BY <1>0, <1>1
<1>2. CASE queue' = advance(queue)
  BY <1>0, <1>2 DEF advance, Queues
<1>3. CASE console.at = "delete" /\ queue' = removeAt(queue, console.index)
  <2>1. console.index \in Nat \ {0}
    BY <1>3 DEF QueueInv, TypeOK
  <2>2. SamePrefix(queue', queue)
    BY <1>0, <1>3, <2>1, RemoveKeeps
  <2> QED
    BY <1>0, <2>2 DEF SamePrefix
<1>4. ASSUME NEW s \in Live,
             queue' = push(queue, Deeper(tasks[s]))
      PROVE  SamePrefix(queue', queue)
  BY <1>0, <1>4, DeeperIsJob, PushKeeps
<1>5. CASE \E s \in Live :
             queue' = push(queue, Deeper(tasks[s]))
  BY <1>0, <1>4, <1>5 DEF SamePrefix
<1> QED
  BY <1>1, <1>2, <1>3, <1>5, QueueMoves

(* The jobs already taken never change, and the position moves one by one. *)
THEOREM TakenFixed == Spec => TakenJobsFixed
<1>1. QueueInv /\ [Next]_vars =>
        [main # "start" =>
           /\ queue'.pos - queue.pos \in {0, 1}
           /\ SubSeq(queue'.jobs, 1, queue.pos) = SubSeq(queue.jobs, 1, queue.pos)
        ]_queue
  BY TakenStep
<1> QED
  BY <1>1, QueueInit, QueueStep, PTL DEF Spec, TakenJobsFixed

LEMMA DepthStep == QueueInv /\ DepthBounded /\ [Next]_vars => DepthBounded'
<1> SUFFICES ASSUME QueueInv, DepthBounded, [Next]_vars PROVE DepthBounded'
  OBVIOUS
<1> DEFINE Fits(job) == job.depth <= RecursionDepth /\ job.depth = Len(job.via)
<1>0. /\ queue \in Queues(Job)
      /\ \A i \in DOMAIN queue.jobs : Fits(queue.jobs[i])
  BY DEF QueueInv, TypeOK, Queues, DepthBounded
<1>1. SUFFICES \A i \in DOMAIN queue'.jobs : Fits(queue'.jobs[i])
  BY DEF DepthBounded
<1>2. CASE main = "start"
  <2>1. CASE Start
    <3>1. queue'.jobs = [i \in 1..BaseJobs |-> Base(i)]
      BY <1>2, <2>1 DEF Start, QueueInv, newJobQueue
    <3>2. \A i : Fits(Base(i))
      BY EngineAssumption DEF Base
    <3> HIDE DEF Fits
    <3> QED
      BY <3>1, <3>2
  <2>2. CASE ~Start
    <3>1. queue' = queue
      <4>1. Live = {} /\ console.at # "delete"
        BY <1>2 DEF QueueInv, Loop
      <4> QED
        BY <1>2, <2>2, <4>1 DEF Next, Main, JobsInQueue, PrepareQueueJob,
           JobReset, Begin, NextInput, CheckSkip, CheckStop, CheckRunning,
           MainPassesGate, AcquireSlot, TakeValue, Spawn, Drain, Finalize,
           Progress, ProgressTop, ProgressPassesGate, ProgressLooks, At,
           Console, PauseCommand, ResumeCommand, SkipCommand, DeleteCommand,
           RestartCommand, ConsoleWork, DeleteQueueItem, RestartContinues,
           Interrupt, Exited, Task, Prepare, Execute, TaskPassesGate, Decide,
           Live, vars, jobs, progressRest, consoleRest, mainRest
    <3> QED
      BY <1>0, <3>1
  <2> QED
    BY <2>1, <2>2
<1>3. CASE queue' = queue
  BY <1>0, <1>3
<1>4. CASE queue' = advance(queue)
  BY <1>0, <1>4 DEF advance, Queues
<1>5. CASE console.at = "delete" /\ queue' = removeAt(queue, console.index)
  <2>1. console.index \in Nat \ {0}
    BY <1>5 DEF QueueInv, TypeOK
  <2>2. \A i \in DOMAIN queue'.jobs :
          \E k \in DOMAIN queue.jobs : queue'.jobs[i] = queue.jobs[k]
    BY <1>0, <1>5, <2>1, RemoveKeeps
  <2> HIDE DEF Fits
  <2> QED
    BY <1>0, <2>2
<1>6. ASSUME NEW s \in Live,
             tasks[s].job.depth < RecursionDepth,
             queue' = push(queue, Deeper(tasks[s]))
      PROVE  \A i \in DOMAIN queue'.jobs : Fits(queue'.jobs[i])
  <2> DEFINE new == Deeper(tasks[s])
  <2>1. \A i \in DOMAIN queue'.jobs :
          \/ queue'.jobs[i] = new
          \/ i \in DOMAIN queue.jobs /\ queue'.jobs[i] = queue.jobs[i]
    BY <1>0, <1>6, DeeperIsJob, PushKeeps
  <2>2. Fits(new)
    <3>1. /\ tasks[s].job = queue.jobs[queue.pos]
          /\ queue.pos \in DOMAIN queue.jobs
      <4>1. tasks[s].job = active(queue) /\ queue.pos > 0
        BY DEF QueueInv
      <4>2. queue.pos \in 1 .. Len(queue.jobs)
        BY <1>0, <4>1 DEF Queues
      <4> QED
        BY <1>0, <4>1, <4>2 DEF active, Queues
    <3>2. Fits(tasks[s].job)
      BY <1>0, <3>1
    <3>3. tasks[s].job \in Job /\ tasks[s].word \in 0..N
      BY DEF QueueInv, TypeOK, TaskRecord, Live
    <3>4. /\ new.depth = tasks[s].job.depth + 1
          /\ Len(new.via) = Len(tasks[s].job.via) + 1
      BY <3>3 DEF Deeper, Job
    <3>5. tasks[s].job.depth \in Nat
      BY <3>3 DEF Job
    <3> HIDE DEF new
    <3> QED
      BY <1>6, <3>2, <3>4, <3>5, EngineAssumption
  <2> HIDE DEF Fits, new
  <2> QED
    BY <1>0, <2>1, <2>2
<1> QED
  BY <1>2, <1>3, <1>4, <1>5, <1>6, QueueMoves

(* Recursion respects the depth limit, and counts the inputs that led to a job. *)
THEOREM Depth == Spec => []DepthBounded
<1>1. Init => DepthBounded
  BY DEF Init, DepthBounded, newJobQueue
<1> QED
  BY <1>1, QueueInit, QueueStep, DepthStep, PTL DEF Spec

(* The parent of a job at place i is among the first pos jobs, before i. *)
HasParent(q, i) ==
  q.jobs[i].via # <<>> =>
    \E k \in 1 .. q.pos : k < i /\ Below(q.jobs[k], q.jobs[i])

LEMMA ParentsStep ==
  ASSUME QueueInv, [Next]_vars, \A i \in DOMAIN queue.jobs : HasParent(queue, i)
  PROVE  \A i \in DOMAIN queue'.jobs : HasParent(queue', i)
<1>0. /\ queue \in Queues(Job) /\ queue.pos \in Nat
      /\ queue.jobs \in Seq(Job) /\ queue.pos <= Len(queue.jobs)
      /\ DOMAIN queue.jobs = 1 .. Len(queue.jobs)
  BY DEF QueueInv, TypeOK, Queues
<1>1. CASE main = "start"
  <2>1. CASE Start
    <3>1. queue'.jobs = [i \in 1..BaseJobs |-> Base(i)]
      BY <1>0, <2>1 DEF Start, Queues
    <3> QED
      BY <3>1 DEF HasParent, Base
  <2>2. CASE queue' = queue
    BY <2>2 DEF HasParent
  <2>3. Live = {} /\ console.at # "delete"
    BY <1>1 DEF QueueInv, DrainedBetweenJobs
  <2>4. Start \/ queue' = queue
    BY <1>1, <2>3 DEF Next, Main, JobsInQueue, PrepareQueueJob, JobReset, Begin,
       NextInput, CheckSkip, CheckStop, CheckRunning, MainPassesGate,
       AcquireSlot, TakeValue, Spawn, Drain, Finalize, mainRest, At, Task,
       Prepare, Execute, TaskPassesGate, Decide, taskRest, Live, Progress,
       ProgressTop, ProgressPassesGate, ProgressLooks, progressRest, Console,
       PauseCommand, ResumeCommand, SkipCommand, DeleteCommand,
       RestartCommand, ConsoleWork, DeleteQueueItem, RestartContinues,
       consoleRest, Interrupt, Exited, vars, jobs
  <2> QED
    BY <2>1, <2>2, <2>4
<1> SUFFICES ASSUME main # "start"
             PROVE  \A i \in DOMAIN queue'.jobs : HasParent(queue', i)
  BY <1>1
<1>2. CASE queue' = queue
  BY <1>2 DEF HasParent
<1>3. CASE queue' = advance(queue)
  <2>1. queue'.jobs = queue.jobs /\ queue'.pos = queue.pos + 1
    BY <1>0, <1>3 DEF advance, Queues
  <2>2. \A k \in 1 .. queue.pos : k \in 1 .. queue'.pos
    BY <1>0, <2>1
  <2> SUFFICES ASSUME NEW i \in DOMAIN queue.jobs, queue.jobs[i].via # <<>>
               PROVE  \E k \in 1 .. queue'.pos :
                        k < i /\ Below(queue.jobs[k], queue.jobs[i])
    BY <2>1 DEF HasParent
  <2>3. PICK k \in 1 .. queue.pos : k < i /\ Below(queue.jobs[k], queue.jobs[i])
    BY DEF HasParent
  <2> QED
    BY <2>2, <2>3
<1>4. CASE console.at = "delete" /\ queue' = removeAt(queue, console.index)
  <2>1. console.index \in Nat \ {0}
    BY <1>4 DEF QueueInv, TypeOK
  <2>2. /\ queue'.pos = queue.pos
        /\ \A k \in 1 .. queue.pos : queue'.jobs[k] = queue.jobs[k]
    <3>1. queue'.pos = queue.pos
      BY <1>0, <1>4 DEF removeAt, Queues
    <3> QED
      BY <1>0, <1>4, <2>1, <3>1, RemoveKeeps
  <2> SUFFICES ASSUME NEW i \in DOMAIN queue'.jobs, queue'.jobs[i].via # <<>>
               PROVE  \E k \in 1 .. queue.pos :
                        k < i /\ Below(queue'.jobs[k], queue'.jobs[i])
    BY <2>2 DEF HasParent
  <2>3. i \in Int
    <3>1. queue' \in Queues(Job)
      BY <1>0, <1>4, <2>1, RemoveKeeps
    <3> QED
      BY <3>1 DEF Queues
  <2>4. CASE i \in DOMAIN queue.jobs /\ queue'.jobs[i] = queue.jobs[i]
    BY <2>2, <2>4 DEF HasParent
  <2>5. CASE /\ i > queue.pos /\ i + 1 \in DOMAIN queue.jobs
             /\ queue'.jobs[i] = queue.jobs[i + 1]
    <3>1. PICK k \in 1 .. queue.pos :
                 Below(queue.jobs[k], queue.jobs[i + 1])
      BY <2>5 DEF HasParent
    <3> QED
      BY <1>0, <2>2, <2>3, <2>5, <3>1
  <2> QED
    BY <1>0, <1>4, <2>1, <2>4, <2>5, RemoveMovesUp
<1>5. ASSUME NEW s \in Live, queue' = push(queue, Deeper(tasks[s]))
      PROVE  \A i \in DOMAIN queue'.jobs : HasParent(queue', i)
  <2> DEFINE new == Deeper(tasks[s])
  <2>1. /\ queue'.jobs = Append(queue.jobs, new) /\ queue'.pos = queue.pos
        /\ new \in Job
    BY <1>0, <1>5, DeeperIsJob DEF push, Queues
  <2>2. /\ tasks[s].job = queue.jobs[queue.pos]
        /\ queue.pos \in 1 .. Len(queue.jobs)
    BY <1>0 DEF QueueInv, active
  <2>3. Below(tasks[s].job, new)
    <3>1. tasks[s].word \in 0..N
      BY DEF QueueInv, TypeOK, TaskRecord, Live
    <3> QED
      BY <3>1 DEF Deeper, Below
  <2> HIDE DEF new
  <2>4. /\ DOMAIN queue'.jobs = 1 .. Len(queue.jobs) + 1
        /\ queue'.jobs[Len(queue.jobs) + 1] = new
        /\ \A i \in 1 .. Len(queue.jobs) : queue'.jobs[i] = queue.jobs[i]
    BY <1>0, <2>1
  <2>5. HasParent(queue', Len(queue.jobs) + 1)
    BY <1>0, <2>1, <2>2, <2>3, <2>4 DEF HasParent
  <2>6. ASSUME NEW i \in 1 .. Len(queue.jobs) PROVE HasParent(queue', i)
    BY <1>0, <2>1, <2>4, <2>6 DEF HasParent
  <2> QED
    BY <1>0, <2>4, <2>5, <2>6
<1> QED
  BY <1>2, <1>3, <1>4, <1>5, QueueMoves

(* A job that recursion queued lies behind the job whose response asked for
   it, which has been taken, whatever the console deletes. *)
THEOREM Parents == Spec => []ParentsTaken
<1>1. Init => ParentsTaken
  BY DEF Init, ParentsTaken, newJobQueue
<1>2. QueueInv /\ ParentsTaken /\ [Next]_vars => ParentsTaken'
  BY ParentsStep DEF ParentsTaken, HasParent
<1> QED
  BY <1>1, <1>2, QueueInit, QueueStep, PTL DEF Spec

(* Both at once: recursion respects its limit and its order. *)
THEOREM Recursion == Spec => []RecursionSound
<1>1. DepthBounded /\ ParentsTaken => RecursionSound
  BY DEF RecursionSound
<1> QED
  BY <1>1, Depth, Parents, PTL

-----------------------------------------------------------------------------
(* The order of the requests, when nobody restarts a job. *)

OrderInv ==
  /\ TypeOK
  /\ console.at \in {"idle", "delete"}
  /\ InOrder /\ CompletePass
  /\ main \in {"resetCounters", "begin", "next"} =>
       cursor = position /\ Len(sent) = cursor
  /\ main \in {"skip?", "checkStop", "running?", "gate", "limit", "value"} =>
       cursor = position - 1 /\ Len(sent) = cursor
  /\ main = "spawn" => /\ input = [word |-> position, pos |-> position]
                       /\ cursor = position /\ Len(sent) = cursor - 1

LEMMA OrderMain ==
  ASSUME QueueInv, QueueInv', OrderInv, Main PROVE OrderInv'
<1> USE DEF At, jobs, flags, inputs, others, hist, mainRest
<1>0. /\ TypeOK' /\ N \in Nat /\ position \in 0..N /\ cursor \in 0..N
      /\ sent \in Seq([word : 0..N, pos : 0..N]) /\ Len(sent) \in Nat
  BY EngineAssumption DEF QueueInv, OrderInv, TypeOK
<1>1. CASE JobReset
  <2>1. CASE main = "resetInput"
    <3>1. sent' = <<>> /\ position' = 0 /\ cursor' = 0 /\ main' = "resetCounters"
          /\ console' = console
      BY <1>1, <2>1 DEF JobReset, ResetInput
    <3> QED
      BY <1>0, <3>1 DEF OrderInv, InOrder, CompletePass
  <2>2. CASE main = "resetCounters"
    BY <1>0, <1>1, <2>2 DEF JobReset, ResetCounters, OrderInv, InOrder, CompletePass
  <2> QED
    BY <1>1, <2>1, <2>2 DEF JobReset
<1>2. CASE NextInput
  BY <1>0, <1>2 DEF NextInput, OrderInv, InOrder, CompletePass, Halted
<1>3. CASE CheckSkip \/ CheckRunning
  BY <1>0, <1>3 DEF CheckSkip, CheckRunning, OrderInv, InOrder, CompletePass,
     Halted
<1>4. CASE TakeValue
  BY <1>0, <1>4 DEF TakeValue, OrderInv, InOrder, CompletePass
<1>5. ASSUME NEW s \in Slots, Spawn(s) PROVE OrderInv'
  <2>1. /\ sent' = Append(sent, input) /\ UNCHANGED <<position, cursor, console,
             running, runningJob, skipQueue, input>>
        /\ main = "spawn" /\ main' = IF runningJob THEN "next" ELSE "drain"
    BY <1>5 DEF Spawn
  <2>2. /\ input = [word |-> position, pos |-> position]
        /\ cursor = position /\ Len(sent) = cursor - 1
    BY <2>1 DEF OrderInv
  <2>3. /\ Len(sent') = Len(sent) + 1 /\ sent'[Len(sent) + 1] = input
        /\ \A i \in 1 .. Len(sent) : sent'[i] = sent[i]
        /\ DOMAIN sent' = 1 .. Len(sent) + 1
    BY <1>0, <2>1
  <2>4. InOrder'
    BY <1>0, <2>2, <2>3 DEF OrderInv, InOrder
  <2> QED
    BY <1>0, <2>1, <2>2, <2>3, <2>4 DEF OrderInv, CompletePass, Halted
<1>6. CASE \/ Start \/ JobsInQueue \/ PrepareQueueJob \/ Begin \/ CheckStop
           \/ MainPassesGate \/ AcquireSlot \/ Drain \/ Finalize
  BY <1>0, <1>6 DEF Start, JobsInQueue, PrepareQueueJob, Begin, CheckStop,
     MainPassesGate, AcquireSlot, Drain, Finalize, OrderInv, InOrder,
     CompletePass, Halted
<1> QED
  BY <1>1, <1>2, <1>3, <1>4, <1>5, <1>6 DEF Main

LEMMA OrderStep ==
  ASSUME "restart" \notin Commands, QueueInv, QueueInv', OrderInv, [Next]_vars
  PROVE  OrderInv'
<1> USE DEF jobs, flags, inputs, others, hist, OrderInv, InOrder, CompletePass,
        Halted
<1>0. TypeOK'
  BY DEF QueueInv
<1>1. CASE Progress
  BY <1>0, <1>1 DEF Progress, ProgressTop, ProgressPassesGate, ProgressLooks,
     progressRest
<1>2. CASE Console
  BY <1>0, <1>2 DEF Console, PauseCommand, ResumeCommand, SkipCommand,
     DeleteCommand, RestartCommand, ConsoleWork, DeleteQueueItem,
     RestartContinues, consoleRest, Type, Idle
<1>3. CASE Interrupt
  BY <1>0, <1>3 DEF Interrupt
<1>4. CASE UNCHANGED vars
  BY <1>0, <1>4 DEF vars
<1>5. ASSUME NEW s \in Slots, Task(s) PROVE OrderInv'
  BY <1>0, <1>5 DEF Task, Prepare, Execute, TaskPassesGate, Decide, taskRest
<1> QED
  BY <1>1, <1>2, <1>3, <1>4, <1>5, OrderMain DEF Next, Exited

(* Unless a job is restarted, its requests are the inputs in order, each with
   its own position, and a job that nothing halts sends them all. *)
THEOREM Ordered ==
  ASSUME "restart" \notin Commands PROVE Spec => []PassInOrder
<1>1. Init => OrderInv
  BY QueueInit DEF Init, QueueInv, OrderInv, InOrder, CompletePass, Idle
<1>2. QueueInv /\ QueueInv' /\ OrderInv /\ [Next]_vars => OrderInv'
  BY OrderStep
<1>3. OrderInv => PassInOrder
  BY DEF OrderInv, PassInOrder
<1> QED
  BY <1>1, <1>2, <1>3, QueueInit, QueueStep, PTL DEF Spec

-----------------------------------------------------------------------------
(* The requests of a job that the console may restart at any step. *)

(* The requests since the last reset are as many as positions were drawn, or
   one more when the reset fell between a position and its request. *)
CountedInv ==
  /\ main \in {"skip?", "checkStop", "running?", "gate", "limit", "value",
               "spawn"} => Len(sent) \in {position - 1, position}
  /\ main \in {"resetCounters", "begin", "next"} =>
       Len(sent) \in {position, position + 1}

(* From the second request on, the cursor is at the word that was sent last. *)
CursorInv ==
  /\ main # "spawn" /\ Len(sent) >= 2 => cursor = sent[Len(sent)].word
  /\ main = "spawn" /\ Len(sent) >= 1 => input.word = cursor
  /\ main = "spawn" /\ Len(sent) >= 2 =>
       cursor = (sent[Len(sent)].word % N) + 1

RestartInv == CountedInv /\ CursorInv /\ RestartOvershoot

(* What Value does with the cursor. *)
LEMMA Successor ==
  ASSUME NEW w \in 0..N, N > 0
  PROVE  (IF w < N THEN w + 1 ELSE 1) = (w % N) + 1
<1>1. CASE w < N
  <2>1. w % N = w
    BY <1>1, EngineAssumption
  <2> QED
    BY <1>1, <2>1
<1>2. CASE w = N
  <2>1. w % N = 0
    BY <1>2, EngineAssumption
  <2> QED
    BY <1>2, <2>1
<1> QED
  BY <1>1, <1>2, EngineAssumption

LEMMA RestartSpawn ==
  ASSUME QueueInv, QueueInv', RestartInv, NEW s \in Slots, Spawn(s)
  PROVE  RestartInv'
<1>0. /\ sent \in Seq([word : 0..N, pos : 0..N]) /\ position \in 0..N
      /\ input \in [word : 0..N, pos : 0..N] /\ N \in Nat
  BY EngineAssumption DEF QueueInv, TypeOK
<1>1. /\ sent' = Append(sent, input) /\ UNCHANGED <<position, cursor>>
      /\ main = "spawn" /\ main' \in {"next", "drain"}
  BY DEF Spawn, At, inputs
<1>2. /\ Len(sent') = Len(sent) + 1 /\ sent'[Len(sent) + 1] = input
      /\ \A i \in 1 .. Len(sent) : sent'[i] = sent[i]
  BY <1>0, <1>1
<1>3. CountedInv'
  BY <1>0, <1>1, <1>2 DEF RestartInv, CountedInv
<1>4. CursorInv'
  BY <1>0, <1>1, <1>2 DEF RestartInv, CursorInv
<1>5. ASSUME NEW i \in 2 .. Len(sent') - 1
      PROVE  sent'[i + 1].word = (sent'[i].word % N) + 1
  <2>1. CASE i = Len(sent)
    BY <1>0, <1>1, <1>2, <1>5, <2>1 DEF RestartInv, CursorInv
  <2>2. CASE i < Len(sent)
    <3>1. i \in 2 .. Len(sent) - 1 /\ {i, i + 1} \subseteq 1 .. Len(sent)
      BY <1>0, <1>2, <2>2
    <3>2. sent[i + 1].word = (sent[i].word % N) + 1
      BY <3>1 DEF RestartInv, RestartOvershoot
    <3> QED
      BY <1>2, <3>1, <3>2
  <2> QED
    BY <1>0, <1>2, <1>5, <2>1, <2>2
<1>6. Len(sent') <= N + 1
  BY <1>0, <1>1, <1>2 DEF RestartInv, CountedInv
<1> QED
  BY <1>3, <1>4, <1>5, <1>6 DEF RestartInv, RestartOvershoot

LEMMA RestartStep ==
  ASSUME QueueInv, QueueInv', RestartInv, [Next]_vars PROVE RestartInv'
<1> USE DEF jobs, flags, inputs, others, hist, At
<1>0. /\ sent \in Seq([word : 0..N, pos : 0..N]) /\ position \in 0..N
      /\ cursor \in 0..N /\ N \in Nat
  BY EngineAssumption DEF QueueInv, TypeOK
<1>1. ASSUME ResetInput, UNCHANGED main \/ main' = "resetCounters"
      PROVE  RestartInv'
  BY <1>0, <1>1 DEF ResetInput, RestartInv, CountedInv, CursorInv, RestartOvershoot
<1>2. CASE JobReset
  BY <1>0, <1>1, <1>2 DEF JobReset, ResetCounters, RestartInv, CountedInv,
     CursorInv, RestartOvershoot
<1>3. CASE NextInput
  BY <1>0, <1>3 DEF NextInput, RestartInv, CountedInv, CursorInv, RestartOvershoot
<1>4. CASE TakeValue
  <2>1. /\ cursor' = IF cursor < N THEN cursor + 1 ELSE 1
        /\ input' = [word |-> cursor', pos |-> position]
        /\ UNCHANGED <<position, sent>> /\ main = "value" /\ main' = "spawn"
    BY <1>4 DEF TakeValue
  <2>2. N > 0
    BY <1>0, <2>1 DEF QueueInv, TypeOK
  <2>3. cursor' = (cursor % N) + 1
    BY <1>0, <2>1, <2>2, Successor
  <2> QED
    BY <1>0, <2>1, <2>3 DEF RestartInv, CountedInv, CursorInv, RestartOvershoot
<1>5. CASE \/ Start \/ JobsInQueue \/ PrepareQueueJob \/ Begin \/ CheckSkip
           \/ CheckStop \/ CheckRunning \/ MainPassesGate \/ AcquireSlot
           \/ Drain \/ Finalize
  BY <1>0, <1>5 DEF Start, JobsInQueue, PrepareQueueJob, Begin, CheckSkip,
     CheckStop, CheckRunning, MainPassesGate, AcquireSlot, Drain, Finalize,
     mainRest, RestartInv, CountedInv, CursorInv, RestartOvershoot
<1>6. CASE Progress \/ Interrupt \/ UNCHANGED vars
  BY <1>0, <1>6 DEF Progress, ProgressTop, ProgressPassesGate, ProgressLooks,
     progressRest, Interrupt, vars, RestartInv, CountedInv, CursorInv,
     RestartOvershoot
<1>7. CASE Console
  <2>1. CASE RestartCommand
    BY <1>1, <2>1 DEF RestartCommand, consoleRest
  <2>2. CASE ~RestartCommand
    BY <1>0, <1>7, <2>2 DEF Console, PauseCommand, ResumeCommand, SkipCommand,
       DeleteCommand, ConsoleWork, DeleteQueueItem, RestartContinues,
       ResetCounters, consoleRest, RestartInv, CountedInv, CursorInv,
       RestartOvershoot
  <2> QED
    BY <2>1, <2>2
<1>8. ASSUME NEW s \in Slots, Task(s) PROVE RestartInv'
  BY <1>0, <1>8 DEF Task, Prepare, Execute, TaskPassesGate, Decide, taskRest,
     RestartInv, CountedInv, CursorInv, RestartOvershoot
<1> QED
  BY <1>2, <1>3, <1>4, <1>5, <1>6, <1>7, <1>8, RestartSpawn DEF Next, Main, Exited

(* A restart, wherever it falls, lets at most one request more than the list
   is long out of a pass, and passes over no word. *)
THEOREM Restarted == Spec => []RestartOvershoot
<1>1. Init => RestartInv
  BY EngineAssumption DEF Init, RestartInv, CountedInv, CursorInv, RestartOvershoot
<1>2. QueueInv /\ QueueInv' /\ RestartInv /\ [Next]_vars => RestartInv'
  BY RestartStep
<1>3. RestartInv => RestartOvershoot
  BY DEF RestartInv
<1> QED
  BY <1>1, <1>2, <1>3, QueueInit, QueueStep, PTL DEF Spec

-----------------------------------------------------------------------------
(* The run as RunContract sees it: first, what the jobs behind the position
   become when a job is taken, pushed or deleted. *)

\* The part of s behind its first p elements.
After(s, p) == SubSeq(s, p + 1, Len(s))

LEMMA AfterElements ==
  ASSUME NEW S, NEW s \in Seq(S), NEW p \in 0 .. Len(s)
  PROVE  /\ After(s, p) \in Seq(S)
         /\ Len(After(s, p)) = Len(s) - p
         /\ \A i \in 1 .. Len(s) - p : After(s, p)[i] = s[p + i]
<1>1. p \in Nat /\ Len(s) \in Nat
  OBVIOUS
<1> QED
  BY <1>1 DEF After

(* Sequences of one length with the same elements are equal. *)
LEMMA SameElements ==
  ASSUME NEW S, NEW s \in Seq(S), NEW t \in Seq(S), Len(s) = Len(t),
         \A i \in 1 .. Len(s) : s[i] = t[i]
  PROVE  s = t
OBVIOUS

LEMMA AfterAppend ==
  ASSUME NEW S, NEW s \in Seq(S), NEW x \in S, NEW p \in 0 .. Len(s)
  PROVE  After(Append(s, x), p) = Append(After(s, p), x)
<1> DEFINE t == Append(s, x)
           a == After(t, p)
           b == Append(After(s, p), x)
<1>0. /\ p \in Nat /\ Len(s) \in Nat /\ t \in Seq(S)
      /\ Len(t) = Len(s) + 1 /\ p \in 0 .. Len(t)
      /\ \A i \in 1 .. Len(s) : t[i] = s[i]
      /\ t[Len(s) + 1] = x
  OBVIOUS
<1> HIDE DEF t
<1>1. /\ a \in Seq(S) /\ Len(a) = Len(t) - p
      /\ \A i \in 1 .. Len(t) - p : a[i] = t[p + i]
  BY <1>0, AfterElements
<1>2. /\ After(s, p) \in Seq(S) /\ Len(After(s, p)) = Len(s) - p
      /\ \A i \in 1 .. Len(s) - p : After(s, p)[i] = s[p + i]
  BY AfterElements
<1>3. /\ b \in Seq(S) /\ Len(b) = Len(s) - p + 1
      /\ \A i \in 1 .. Len(s) - p : b[i] = s[p + i]
      /\ b[Len(s) - p + 1] = x
  BY <1>2
<1> HIDE DEF a, b
<1>4. ASSUME NEW i \in 1 .. Len(a) PROVE a[i] = b[i]
  <2>0. i \in Nat /\ i \in 1 .. Len(t) - p /\ a[i] = t[p + i]
    BY <1>0, <1>1
  <2>1. CASE i = Len(s) - p + 1
    <3>1. p + i = Len(s) + 1
      BY <1>0, <2>1
    <3> QED
      BY <1>0, <1>3, <2>0, <2>1, <3>1
  <2>2. CASE i # Len(s) - p + 1
    <3>1. i \in 1 .. Len(s) - p /\ p + i \in 1 .. Len(s)
      BY <1>0, <2>0, <2>2
    <3> QED
      BY <1>0, <1>3, <2>0, <3>1
  <2> QED
    BY <2>1, <2>2
<1>5. a = b
  BY <1>0, <1>1, <1>3, <1>4, SameElements
<1> QED
  BY <1>5 DEF a, b, t

\* s without its element i, element by element.
Cut(s, i) == [k \in 1 .. Len(s) - 1 |-> s[IF k < i THEN k ELSE k + 1]]

LEMMA AfterWithout ==
  ASSUME NEW S, NEW s \in Seq(S), NEW p \in 0 .. Len(s), NEW n \in p + 1 .. Len(s)
  PROVE  /\ n - p \in DOMAIN After(s, p)
         /\ After(without(s, n), p) = Cut(After(s, p), n - p)
<1> DEFINE w == without(s, n)
           a == After(w, p)
           r == After(s, p)
           b == [k \in 1 .. Len(r) - 1 |-> r[IF k < n - p THEN k ELSE k + 1]]
<1>0. p \in Nat /\ Len(s) \in Nat /\ n \in 1 .. Len(s) /\ n \in Nat
  OBVIOUS
<1>1. /\ r \in Seq(S) /\ Len(r) = Len(s) - p
      /\ \A i \in 1 .. Len(s) - p : r[i] = s[p + i]
  BY AfterElements
<1>2. /\ w \in Seq(S)
      /\ Len(w) = Len(s) - 1
      /\ \A i \in 1 .. n - 1 : w[i] = s[i]
      /\ \A i \in n .. Len(s) - 1 : w[i] = s[i + 1]
  BY <1>0, WithoutElements
<1> HIDE DEF w, r
<1>3. /\ a \in Seq(S) /\ Len(a) = Len(s) - 1 - p
      /\ \A i \in 1 .. Len(s) - 1 - p : a[i] = w[p + i]
  <2>1. p \in 0 .. Len(w) /\ Len(w) - p = Len(s) - 1 - p
    BY <1>0, <1>2
  <2>2. /\ a \in Seq(S) /\ Len(a) = Len(w) - p
        /\ \A i \in 1 .. Len(w) - p : a[i] = w[p + i]
    BY <1>2, <2>1, AfterElements
  <2> QED
    BY <2>1, <2>2
<1>4. b \in Seq(S) /\ Len(b) = Len(s) - 1 - p
  BY <1>0, <1>1
<1>5. \A k \in 1 .. Len(s) - 1 - p : b[k] = r[IF k < n - p THEN k ELSE k + 1]
  BY <1>0, <1>1
<1> HIDE DEF a, b
<1>6. ASSUME NEW i \in 1 .. Len(a) PROVE a[i] = b[i]
  <2>0. i \in Nat /\ i \in 1 .. Len(s) - 1 - p
    BY <1>0, <1>3
  <2>1. CASE i < n - p
    <3>1. p + i \in 1 .. n - 1 /\ i \in 1 .. Len(s) - p
      BY <1>0, <2>0, <2>1
    <3>2. a[i] = s[p + i]
      BY <1>2, <1>3, <2>0, <3>1
    <3>3. b[i] = r[i]
      BY <1>5, <2>0, <2>1
    <3> QED
      BY <1>1, <3>1, <3>2, <3>3
  <2>2. CASE ~(i < n - p)
    <3>1. p + i \in n .. Len(s) - 1 /\ i + 1 \in 1 .. Len(s) - p
      BY <1>0, <2>0, <2>2
    <3>2. a[i] = s[p + i + 1]
      BY <1>2, <1>3, <2>0, <3>1
    <3>3. b[i] = r[i + 1]
      BY <1>5, <2>0, <2>2
    <3>4. p + i + 1 = p + (i + 1)
      BY <1>0, <2>0
    <3> QED
      BY <1>1, <3>1, <3>2, <3>3, <3>4
  <2> QED
    BY <2>1, <2>2
<1>7. a = b
  BY <1>0, <1>3, <1>4, <1>6, SameElements
<1>8. n - p \in DOMAIN r
  BY <1>0, <1>1
<1> QED
  BY <1>7, <1>8 DEF a, b, r, w, Cut

LEMMA AfterNext ==
  ASSUME NEW S, NEW s \in Seq(S), NEW p \in Nat, p + 1 \in 1 .. Len(s)
  PROVE  /\ After(s, p) # <<>>
         /\ SubSeq(s, 1, p + 1) = Append(SubSeq(s, 1, p), Head(After(s, p)))
         /\ After(s, p + 1) = Tail(After(s, p))
<1> DEFINE r == After(s, p)
           t == SubSeq(s, 1, p)
           u == SubSeq(s, 1, p + 1)
<1>0. p \in 0 .. Len(s) /\ p + 1 \in 0 .. Len(s) /\ Len(s) \in Nat
  OBVIOUS
<1>1. /\ r \in Seq(S) /\ Len(r) = Len(s) - p
      /\ \A i \in 1 .. Len(s) - p : r[i] = s[p + i]
  BY <1>0, AfterElements
<1>2. /\ After(s, p + 1) \in Seq(S) /\ Len(After(s, p + 1)) = Len(s) - (p + 1)
      /\ \A i \in 1 .. Len(s) - (p + 1) : After(s, p + 1)[i] = s[p + 1 + i]
  BY <1>0, AfterElements
<1>3. /\ t \in Seq(S) /\ Len(t) = p /\ \A i \in 1 .. p : t[i] = s[i]
      /\ u \in Seq(S) /\ Len(u) = p + 1 /\ \A i \in 1 .. p + 1 : u[i] = s[i]
  BY <1>0
<1> HIDE DEF r, t, u
<1>4. r # <<>> /\ Head(r) = s[p + 1] /\ Head(r) \in S
  BY <1>0, <1>1
<1>5. /\ Tail(r) \in Seq(S) /\ Len(Tail(r)) = Len(s) - (p + 1)
      /\ \A i \in 1 .. Len(s) - (p + 1) : Tail(r)[i] = r[i + 1]
  BY <1>0, <1>1, <1>4
<1>6. After(s, p + 1) = Tail(r)
  <2>1. ASSUME NEW i \in 1 .. Len(s) - (p + 1)
        PROVE  After(s, p + 1)[i] = Tail(r)[i]
    <3>1. i + 1 \in 1 .. Len(s) - p /\ p + 1 + i = p + (i + 1)
      BY <1>0
    <3> QED
      BY <1>1, <1>2, <1>5, <3>1
  <2> QED
    BY <1>2, <1>5, <2>1, SameElements
<1>7. u = Append(t, Head(r))
  <2>1. /\ Append(t, Head(r)) \in Seq(S) /\ Len(Append(t, Head(r))) = p + 1
        /\ \A i \in 1 .. p : Append(t, Head(r))[i] = t[i]
        /\ Append(t, Head(r))[p + 1] = Head(r)
    BY <1>3, <1>4
  <2>2. ASSUME NEW i \in 1 .. p + 1 PROVE u[i] = Append(t, Head(r))[i]
    BY <1>3, <1>4, <2>1
  <2> QED
    BY <1>3, <2>1, <2>2, SameElements
<1> QED
  BY <1>4, <1>6, <1>7 DEF r, t, u

-----------------------------------------------------------------------------
(* What the mapping to RunContract needs besides: a job begins with nothing
   sent, and a request is about to be made of an input of the list. *)
FreshInv ==
  /\ main \in {"resetCounters", "begin"} => sent = <<>>
  /\ main = "spawn" => input.word \in 1..N

LEMMA FreshStep ==
  ASSUME QueueInv, FreshInv, [Next]_vars PROVE FreshInv'
<1> USE DEF FreshInv, At, jobs, flags, inputs, others, hist, mainRest
<1>0. N \in Nat /\ cursor \in 0..N /\ (main = "value" => N > 0)
  BY EngineAssumption DEF QueueInv, TypeOK
<1>1. CASE TakeValue
  <2>1. /\ input' = [word |-> IF cursor < N THEN cursor + 1 ELSE 1, pos |-> position]
        /\ main = "value" /\ main' = "spawn"
    BY <1>1 DEF TakeValue
  <2> QED
    BY <1>0, <2>1
<1>2. CASE \/ Start \/ JobsInQueue \/ PrepareQueueJob \/ JobReset \/ Begin
           \/ NextInput \/ CheckSkip \/ CheckStop \/ CheckRunning
           \/ MainPassesGate \/ AcquireSlot \/ Drain \/ Finalize
  BY <1>2 DEF Start, JobsInQueue, PrepareQueueJob, JobReset, ResetInput,
     ResetCounters, Begin, NextInput, CheckSkip, CheckStop, CheckRunning,
     MainPassesGate, AcquireSlot, Drain, Finalize
<1>3. ASSUME NEW s \in Slots, Spawn(s) PROVE FreshInv'
  BY <1>3 DEF Spawn
<1>4. CASE Progress \/ Interrupt \/ UNCHANGED vars
  BY <1>4 DEF Progress, ProgressTop, ProgressPassesGate, ProgressLooks,
     progressRest, Interrupt, vars
<1>5. CASE Console
  BY <1>5 DEF Console, PauseCommand, ResumeCommand, SkipCommand,
     DeleteCommand, RestartCommand, ConsoleWork, DeleteQueueItem,
     RestartContinues, ResetInput, consoleRest
<1>6. ASSUME NEW s \in Slots, Task(s) PROVE FreshInv'
  BY <1>6 DEF Task, Prepare, Execute, TaskPassesGate, Decide, taskRest
<1> QED
  BY <1>1, <1>2, <1>3, <1>4, <1>5, <1>6 DEF Next, Main, Exited

RunInv ==
  /\ QueueInv /\ NothingLeftBehind /\ LateInv /\ RestartInv /\ FreshInv
  /\ "restart" \notin Commands => OrderInv

LEMMA RunInvInductive == Spec => []RunInv
<1>1. Init => RunInv
  <2> SUFFICES ASSUME Init PROVE RunInv
    OBVIOUS
  <2>1. QueueInv
    BY QueueInit
  <2>2. NothingLeftBehind /\ LateInv
    BY DEF Init, NothingLeftBehind, LateInv
  <2>3. RestartInv
    BY EngineAssumption DEF Init, RestartInv, CountedInv, CursorInv, RestartOvershoot
  <2>4. FreshInv
    BY DEF Init, FreshInv
  <2>5. OrderInv
    BY <2>1 DEF Init, QueueInv, OrderInv, InOrder, CompletePass, Idle
  <2> QED
    BY <2>1, <2>2, <2>3, <2>4, <2>5 DEF RunInv
<1>2. RunInv /\ [Next]_vars => RunInv'
  <2> SUFFICES ASSUME RunInv, [Next]_vars PROVE RunInv'
    OBVIOUS
  <2>1. QueueInv'
    BY QueueStep DEF RunInv
  <2>2. NothingLeftBehind'
    BY LeftStep DEF RunInv
  <2>3. LateInv'
    BY LateStep DEF RunInv
  <2>4. RestartInv'
    BY <2>1, RestartStep DEF RunInv
  <2>5. FreshInv'
    BY FreshStep DEF RunInv
  <2>6. "restart" \notin Commands => OrderInv'
    BY <2>1, OrderStep DEF RunInv
  <2> QED
    BY <2>1, <2>2, <2>3, <2>4, <2>5, <2>6 DEF RunInv
<1> QED
  BY <1>1, <1>2, PTL DEF Spec

-----------------------------------------------------------------------------
(* The state that RunContract sees. *)

Sent == [word : 0..N, pos : 0..N]
WordsOf(h) == [i \in DOMAIN h |-> h[i].word]

LEMMA WordsOfSent ==
  ASSUME NEW h \in Seq(Sent)
  PROVE  /\ WordsOf(h) \in Seq(0..N) /\ Len(WordsOf(h)) = Len(h)
         /\ \A i \in 1 .. Len(h) : WordsOf(h)[i] = h[i].word
<1>1. Len(h) \in Nat /\ DOMAIN h = 1 .. Len(h)
  OBVIOUS
<1>2. WordsOf(h) = [i \in 1 .. Len(h) |-> h[i].word]
  BY <1>1 DEF WordsOf
<1>3. ASSUME NEW i \in 1 .. Len(h) PROVE h[i].word \in 0..N
  <2>1. h[i] \in Sent
    BY <1>1, ElementOfSeq
  <2> QED
    BY <2>1 DEF Sent
<1> QED
  BY <1>1, <1>2, <1>3

LEMMA NoWordsOf == WordsOf(<<>>) = <<>>
<1>1. <<>> \in Seq(Sent) /\ Len(<<>>) = 0
  OBVIOUS
<1>2. WordsOf(<<>>) \in Seq(0..N) /\ Len(WordsOf(<<>>)) = 0
  BY <1>1, WordsOfSent
<1> QED
  BY <1>2, EmptySeq

(* One more request appends its word. *)
LEMMA WordsOfAppend ==
  ASSUME NEW h \in Seq(Sent), NEW x \in Sent
  PROVE  WordsOf(Append(h, x)) = Append(WordsOf(h), x.word)
<1> DEFINE g == Append(h, x)
           w == Append(WordsOf(h), x.word)
<1>1. /\ Len(h) \in Nat /\ g \in Seq(Sent) /\ Len(g) = Len(h) + 1
      /\ g[Len(h) + 1] = x /\ \A i \in 1 .. Len(h) : g[i] = h[i]
  OBVIOUS
<1> HIDE DEF g
<1>2. /\ WordsOf(g) \in Seq(0..N) /\ Len(WordsOf(g)) = Len(h) + 1
      /\ \A i \in 1 .. Len(h) + 1 : WordsOf(g)[i] = g[i].word
  BY <1>1, WordsOfSent
<1>3. x.word \in 0..N
  BY DEF Sent
<1>4. /\ WordsOf(h) \in Seq(0..N) /\ Len(WordsOf(h)) = Len(h)
      /\ \A i \in 1 .. Len(h) : WordsOf(h)[i] = h[i].word
  BY WordsOfSent
<1>5. /\ w \in Seq(0..N) /\ Len(w) = Len(h) + 1
      /\ w[Len(h) + 1] = x.word
      /\ \A i \in 1 .. Len(h) : w[i] = WordsOf(h)[i]
  BY <1>3, <1>4
<1> HIDE DEF w
<1>6. ASSUME NEW i \in 1 .. Len(h) + 1 PROVE WordsOf(g)[i] = w[i]
  <2>1. CASE i = Len(h) + 1
    BY <1>1, <1>2, <1>5, <2>1
  <2>2. CASE i # Len(h) + 1
    <3>1. i \in 1 .. Len(h)
      BY <1>1, <2>2
    <3> QED
      BY <1>1, <1>2, <1>4, <1>5, <3>1
  <2> QED
    BY <2>1, <2>2
<1>7. WordsOf(g) = w
  BY <1>2, <1>5, <1>6, SameElements
<1> QED
  BY <1>7 DEF g, w

LEMMA WordsSent ==
  /\ main # "resetInput" => Words = WordsOf(sent)
  /\ main' # "resetInput" => Words' = WordsOf(sent')
  /\ sent = <<>> => Words = <<>>
  /\ sent' = <<>> => Words' = <<>>
BY NoWordsOf DEF Words, WordsOf

(* The phase, and the words, change only where the main goroutine moves. *)
LEMMA SameWords ==
  ASSUME sent' = sent, main' = main \/ "resetInput" \notin {main, main'}
  PROVE  Words' = Words
BY DEF Words

LEMMA SameQueue ==
  ASSUME queue' = queue PROVE Taken' = Taken /\ Pending' = Pending
BY DEF Taken, Pending

LEMMA SameTasks == ASSUME tasks' = tasks PROVE InFlight' = InFlight
BY DEF InFlight, Live

SamePhase == main' = main \/ {main, main'} \subseteq Loop \ {"resetInput"}

LEMMA PhaseOf ==
  /\ main = "start" => Phase = "starting"
  /\ main \in {"jobs", "prepare"} => Phase = "between"
  /\ main \in {"finalize", "done", "panicked"} => Phase = "over"
  /\ main \in Loop => Phase = "working"
BY DEF Phase, Loop, MainStates

LEMMA RunStutters ==
  ASSUME SamePhase,
         UNCHANGED <<queue, running, runningJob, skipQueue, sent, late>>,
         InFlight' = InFlight
  PROVE  UNCHANGED Run!vars
<1>1. Words' = Words
  BY SameWords DEF SamePhase
<1>2. Phase' = Phase
  BY DEF SamePhase, Phase, Loop, MainStates
<1>3. JobHalted' = JobHalted
  BY DEF JobHalted
<1> QED
  BY <1>1, <1>2, <1>3, SameQueue DEF Run!vars

LEMMA RunHalts ==
  ASSUME TypeOK, TypeOK', UNCHANGED <<Phase, queue, tasks, sent, late>>,
         main' = main \/ "resetInput" \notin {main, main'},
         running' => running, JobHalted => JobHalted'
  PROVE  Run!Next
<1>1. /\ UNCHANGED <<Taken, Pending, Words, InFlight>>
  BY SameQueue, SameTasks, SameWords
<1>2. running' \in {running, FALSE}
  BY DEF TypeOK
<1>3. JobHalted \in BOOLEAN /\ JobHalted' \in BOOLEAN
  BY DEF JobHalted, TypeOK
<1>4. JobHalted' \in {JobHalted, TRUE}
  BY <1>3
<1>5. Run!Halt
  BY <1>1, <1>2, <1>4 DEF Run!Halt
<1> QED
  BY <1>5 DEF Run!Next

(* The skip flag of a job is cleared when it begins, or begins again. *)
LEMMA RunResumes ==
  ASSUME RunInv, TypeOK',
         "restart" \in Commands \/ main \in {"resetCounters", "begin"},
         SamePhase, UNCHANGED <<queue, tasks, sent, running>>,
         JobHalted' => JobHalted,
         late' = late \/ late' = IF running THEN 0 ELSE late
  PROVE  Run!Next
<1>1. UNCHANGED <<Taken, Pending, Words, InFlight>>
  BY SameQueue, SameTasks, SameWords DEF SamePhase
<1>2. Phase' = Phase
  BY DEF SamePhase, Phase, Loop, MainStates
<1>3. JobHalted \in BOOLEAN /\ JobHalted' \in BOOLEAN
  BY DEF RunInv, QueueInv, JobHalted, TypeOK
<1>4. JobHalted' \in {JobHalted, FALSE}
  BY <1>3
<1>5. "restart" \in Commands \/ (Phase = "working" /\ Words = <<>>)
  <2>1. main \in {"resetCounters", "begin"} => sent = <<>> /\ Phase = "working"
    BY PhaseOf DEF RunInv, FreshInv, Loop, MainStates
  <2> QED
    BY <2>1, WordsSent
<1>6. Run!Resume
  BY <1>1, <1>2, <1>4, <1>5 DEF Run!Resume
<1> QED
  BY <1>6 DEF Run!Next

(* What recursion and deletion do to the pending jobs. *)
LEMMA RunQueue ==
  ASSUME QueueInv
  PROVE  /\ Pending = After(queue.jobs, queue.pos)
         /\ queue.jobs \in Seq(Job) /\ queue.pos \in 0 .. Len(queue.jobs)
         /\ queue \in Queues(Job)
BY DEF QueueInv, TypeOK, Pending, After, Queues

LEMMA RunPush ==
  ASSUME QueueInv, NEW job \in Job, queue' = push(queue, job)
  PROVE  Taken' = Taken /\ Pending' = Append(Pending, job)
<1>1. queue'.jobs = Append(queue.jobs, job) /\ queue'.pos = queue.pos
  BY RunQueue DEF push, Queues
<1>2. Taken' = Taken
  BY <1>1, RunQueue, PushKeeps DEF SamePrefix, Taken
<1>3. Pending' = After(Append(queue.jobs, job), queue.pos)
  BY <1>1 DEF Pending, After
<1> QED
  BY <1>2, <1>3, RunQueue, AfterAppend

LEMMA RunDelete ==
  ASSUME QueueInv, NEW offset \in Nat \ {0}, queue' = removeAt(queue, offset)
  PROVE  /\ Taken' = Taken
         /\ \/ Pending' = Pending
            \/ \E i \in DOMAIN Pending : Pending' = Cut(Pending, i)
<1>1. Taken' = Taken
  <2>1. /\ queue'.pos = queue.pos
        /\ SubSeq(queue'.jobs, 1, queue.pos) = SubSeq(queue.jobs, 1, queue.pos)
    BY RunQueue, RemoveKeeps DEF SamePrefix
  <2> QED
    BY <2>1 DEF Taken
<1>2. CASE ~removable(queue, offset)
  BY <1>1, <1>2, SameQueue DEF removeAt
<1>3. CASE removable(queue, offset)
  <2> DEFINE n == queue.pos + offset
  <2>1. /\ queue.jobs \in Seq(Job) /\ queue.pos \in 0 .. Len(queue.jobs)
        /\ n \in queue.pos + 1 .. Len(queue.jobs)
    BY <1>3, RunQueue DEF removable
  <2>2. queue'.jobs = without(queue.jobs, n) /\ queue'.pos = queue.pos
    BY <1>3, RunQueue DEF removeAt, Queues
  <2>3. Pending' = After(without(queue.jobs, n), queue.pos)
    BY <2>2 DEF Pending, After
  <2> HIDE DEF n
  <2>4. /\ n - queue.pos \in DOMAIN Pending
        /\ Pending' = Cut(Pending, n - queue.pos)
    <3>1. Pending = After(queue.jobs, queue.pos)
      BY RunQueue
    <3> QED
      BY <2>1, <2>3, <3>1, AfterWithout
  <2> QED
    BY <1>1, <2>4
<1> QED
  BY <1>2, <1>3

LEMMA RunTake ==
  ASSUME QueueInv, advanceInRange(queue), queue' = advance(queue)
  PROVE  /\ Pending # <<>> /\ Taken' = Append(Taken, Head(Pending))
         /\ Pending' = Tail(Pending)
<1>1. /\ queue.jobs \in Seq(Job) /\ queue.pos \in Nat
      /\ queue.pos + 1 \in 1 .. Len(queue.jobs)
  BY RunQueue DEF advanceInRange
<1>2. queue'.jobs = queue.jobs /\ queue'.pos = queue.pos + 1
  BY RunQueue DEF advance, Queues
<1>3. /\ Pending' = After(queue.jobs, queue.pos + 1)
      /\ Taken' = SubSeq(queue.jobs, 1, queue.pos + 1)
  BY <1>2 DEF Pending, After, Taken
<1> QED
  BY <1>1, <1>3, RunQueue, AfterNext DEF Taken

LEMMA NonePending ==
  ASSUME QueueInv, ~(queue.pos + 1 \in DOMAIN queue.jobs) PROVE Pending = <<>>
<1>1. /\ queue.jobs \in Seq(Job) /\ queue.pos \in 0 .. Len(queue.jobs)
      /\ Pending = After(queue.jobs, queue.pos)
  BY RunQueue
<1>2. Pending \in Seq(Job) /\ Len(Pending) = Len(queue.jobs) - queue.pos
  BY <1>1, AfterElements
<1>3. Len(Pending) = 0
  BY <1>1, <1>2
<1> QED
  BY <1>2, <1>3, EmptySeq

(* The requests in flight. *)
Flight(s) == [slot |-> s, job |-> tasks[s].job, word |-> tasks[s].word]

LEMMA FlightEnds ==
  ASSUME QueueInv, NEW s \in Live, End(s)
  PROVE  Flight(s) \in InFlight /\ InFlight' = InFlight \ {Flight(s)}
<1>1. /\ s \in Slots /\ tasks'[s].at = "free"
      /\ \A r \in Slots \ {s} : tasks'[r] = tasks[r]
  BY DEF QueueInv, TypeOK, Live, End, Free
<1>2. Live' = Live \ {s}
  BY <1>1 DEF Live
<1>3. InFlight = {Flight(r) : r \in Live}
  BY DEF InFlight, Flight
<1>4. InFlight' = {Flight(r) : r \in Live \ {s}}
  BY <1>1, <1>2 DEF InFlight, Flight, Live
<1>5. \A r \in Live : Flight(r) = Flight(s) => r = s
  BY DEF Flight
<1> QED
  BY <1>3, <1>4, <1>5

LEMMA FlightGoesOn ==
  ASSUME QueueInv, NEW s \in Live,
         \A r \in Slots : /\ tasks'[r].at = "free" <=> tasks[r].at = "free"
                          /\ tasks'[r].job = tasks[r].job
                          /\ tasks'[r].word = tasks[r].word
  PROVE  InFlight' = InFlight
<1>1. Live' = Live
  BY DEF Live
<1> QED
  BY <1>1 DEF InFlight, Live

LEMMA FlightBegins ==
  ASSUME QueueInv, NEW s \in Slots, Spawn(s)
  PROVE  /\ \A r \in InFlight : r.slot # s
         /\ InFlight' = InFlight \cup
              {[slot |-> s, job |-> ctx, word |-> input.word]}
<1>1. /\ tasks[s].at = "free" /\ tasks'[s].at = "prepare"
      /\ tasks'[s].job = ctx /\ tasks'[s].word = input.word
      /\ \A r \in Slots \ {s} : tasks'[r] = tasks[r]
  BY DEF QueueInv, TypeOK, Spawn
<1>2. Live' = Live \cup {s} /\ s \notin Live
  BY <1>1 DEF Live
<1>3. InFlight = {Flight(r) : r \in Live}
  BY DEF InFlight, Flight
<1>4. InFlight' = {Flight(r) : r \in Live} \cup
                   {[slot |-> s, job |-> ctx, word |-> input.word]}
  BY <1>1, <1>2 DEF InFlight, Flight, Live
<1> QED
  BY <1>2, <1>3, <1>4 DEF Flight

-----------------------------------------------------------------------------
(* Each step is a step of RunContract, or none. *)

LEMMA RunMain ==
  ASSUME RunInv, RunInv', Main PROVE [Run!Next]_Run!vars
<1> USE DEF At, jobs, flags, inputs, others, hist, mainRest
<1>0. QueueInv /\ TypeOK /\ TypeOK' /\ N \in Nat
  BY EngineAssumption DEF RunInv, QueueInv
<1>1. CASE Start
  <2> DEFINE f == [i \in 1..BaseJobs |-> Base(i)]
  <2>1. /\ main = "start" /\ main' = "jobs" /\ queue = newJobQueue
        /\ queue' = [queue EXCEPT !.jobs = f]
        /\ UNCHANGED <<sent, late, tasks>> /\ running' = TRUE
    BY <1>0, <1>1 DEF Start, QueueInv
  <2>2. f \in Seq(Job) /\ Len(f) = BaseJobs /\ BaseJobs \in Nat
    BY BaseIsJob, EngineAssumption
  <2>3. f = [i \in 1..BaseJobs |-> Run!First(i)]
    BY DEF Base, Run!First
  <2> HIDE DEF f
  <2>4. queue = [jobs |-> <<>>, pos |-> 0] /\ queue' = [jobs |-> f, pos |-> 0]
    BY <2>1, FirstJobs DEF newJobQueue
  <2>5. Taken' = Taken
    BY <2>2, <2>4 DEF Taken
  <2>6. Pending' = f
    <3>1. Pending' = SubSeq(f, 1, BaseJobs)
      BY <2>2, <2>4 DEF Pending
    <3>2. \A i \in 1 .. BaseJobs : SubSeq(f, 1, BaseJobs)[i] = f[i]
      BY <2>2
    <3> QED
      BY <2>2, <3>1, <3>2, SameElements
  <2>7. Words' = Words /\ InFlight' = InFlight
    BY <2>1, SameWords, SameTasks
  <2>8. Phase = "starting" /\ Phase' = "between"
    BY <2>1, PhaseOf DEF Phase
  <2>9. JobHalted' \in BOOLEAN
    BY <1>0 DEF JobHalted, TypeOK
  <2>10. Run!Start
    BY <2>1, <2>3, <2>5, <2>6, <2>7, <2>8, <2>9 DEF Run!Start
  <2> QED
    BY <2>10 DEF Run!Next
<1>2. CASE JobsInQueue
  <2>1. /\ main = "jobs" /\ UNCHANGED mainRest
        /\ main' = IF hasNext(queue) THEN "prepare" ELSE "finalize"
    BY <1>2 DEF JobsInQueue
  <2>2. UNCHANGED <<Taken, Pending, Words, InFlight, JobHalted, running, late>>
    BY <2>1, SameQueue, SameWords, SameTasks DEF JobHalted
  <2>3. CASE hasNext(queue)
    BY <2>1, <2>2, <2>3 DEF Phase, Run!vars
  <2>4. CASE ~hasNext(queue)
    <3>1. Phase = "between" /\ Phase' = "over"
      BY <2>1, <2>4 DEF Phase
    <3>2. Pending = <<>>
      <4>1. ~(queue.pos + 1 \in DOMAIN queue.jobs)
        BY <1>0, <2>4, RunQueue DEF hasNext
      <4> QED
        BY <1>0, <4>1, NonePending
    <3>3. Run!Finish
      BY <2>2, <3>1, <3>2 DEF Run!Finish
    <3> QED
      BY <3>3 DEF Run!Next
  <2> QED
    BY <2>3, <2>4
<1>3. CASE PrepareQueueJob
  <2>1. /\ main = "prepare" /\ UNCHANGED <<flags, sent, late, tasks>>
    BY <1>3 DEF PrepareQueueJob
  <2>2. UNCHANGED <<InFlight, JobHalted, running, late>>
    BY <2>1, SameTasks DEF JobHalted
  <2>3. CASE advanceInRange(queue)
    <3>1. main' = "resetInput" /\ queue' = advance(queue)
      BY <1>3, <2>3 DEF PrepareQueueJob
    <3>2. Phase = "between" /\ Phase' = "working" /\ Words' = <<>>
      BY <2>1, <3>1 DEF Phase, Words
    <3>3. Run!Take
      BY <1>0, <2>2, <2>3, <3>1, <3>2, RunTake DEF Run!Take
    <3> QED
      BY <3>3 DEF Run!Next
  <2>4. CASE ~advanceInRange(queue)
    <3>1. main' = "panicked" /\ queue' = queue
      BY <1>3, <2>4 DEF PrepareQueueJob
    <3>2. Phase = "between" /\ Phase' = "over" /\ Words' = Words
      BY <2>1, <3>1, SameWords DEF Phase
    <3>3. Pending = <<>>
      BY <1>0, <2>4, NonePending DEF advanceInRange
    <3>4. Run!Finish
      BY <2>2, <3>1, <3>2, <3>3, SameQueue DEF Run!Finish
    <3> QED
      BY <3>4 DEF Run!Next
  <2> QED
    BY <2>3, <2>4
<1>4. CASE JobReset
  <2>1. CASE main = "resetInput"
    <3>1. /\ main' = "resetCounters" /\ sent' = <<>>
          /\ UNCHANGED <<queue, running, runningJob, skipQueue, late, tasks>>
      BY <1>4, <2>1 DEF JobReset, ResetInput
    <3>2. Words = <<>> /\ Words' = <<>>
      BY <2>1, <3>1, WordsSent DEF Words
    <3>3. Phase' = Phase
      BY <2>1, <3>1 DEF Phase
    <3> QED
      BY <3>1, <3>2, <3>3, SameQueue, SameTasks DEF Run!vars, JobHalted
  <2>2. CASE main = "resetCounters"
    <3>1. /\ main' = "begin" /\ skipQueue' = FALSE
          /\ late' = IF running THEN 0 ELSE late
          /\ UNCHANGED <<queue, running, runningJob, sent, tasks>>
      BY <1>4, <2>2 DEF JobReset, ResetCounters
    <3>2. SamePhase /\ (JobHalted' => JobHalted)
      BY <2>2, <3>1 DEF SamePhase, Loop, MainStates, JobHalted
    <3> QED
      BY <1>0, <2>2, <3>1, <3>2, RunResumes
  <2> QED
    BY <1>4, <2>1, <2>2 DEF JobReset
<1>5. CASE Begin
  <2>1. /\ main = "begin" /\ main' = "next" /\ runningJob' = TRUE
        /\ UNCHANGED <<queue, running, skipQueue, sent, late, tasks>>
    BY <1>5 DEF Begin
  <2>2. SamePhase /\ (JobHalted' => JobHalted)
    BY <2>1 DEF SamePhase, Loop, MainStates, JobHalted
  <2> QED
    BY <1>0, <2>1, <2>2, RunResumes
<1>6. CASE \/ NextInput \/ CheckSkip \/ CheckRunning \/ MainPassesGate
           \/ AcquireSlot \/ TakeValue
  <2>1. UNCHANGED <<queue, running, runningJob, skipQueue, sent, late, tasks>>
    BY <1>6 DEF NextInput, CheckSkip, CheckRunning, MainPassesGate,
       AcquireSlot, TakeValue
  <2>2. SamePhase
    BY <1>6 DEF NextInput, CheckSkip, CheckRunning, MainPassesGate,
       AcquireSlot, TakeValue, SamePhase, Loop, MainStates
  <2> QED
    BY <2>1, <2>2, RunStutters, SameTasks
<1>7. CASE CheckStop
  <2>1. /\ main = "checkStop" /\ main' = "running?"
        /\ UNCHANGED <<queue, skipQueue, sent, late, tasks>>
    BY <1>7 DEF CheckStop
  <2>2. (running' => running) /\ (runningJob' => runningJob)
    BY <1>7 DEF CheckStop
  <2>3. Phase' = Phase
    BY <2>1 DEF Phase
  <2>4. JobHalted => JobHalted'
    BY <2>1, <2>2 DEF JobHalted
  <2> QED
    BY <1>0, <2>1, <2>2, <2>3, <2>4, RunHalts
<1>8. ASSUME NEW s \in Slots, Spawn(s) PROVE [Run!Next]_Run!vars
  <2>1. /\ main = "spawn" /\ main' \in {"next", "drain"}
        /\ sent' = Append(sent, input)
        /\ late' = IF Halted THEN late + 1 ELSE 0
        /\ UNCHANGED <<queue, running, runningJob, skipQueue>>
    BY <1>8 DEF Spawn
  <2>2. Phase = "working" /\ Phase' = "working"
    BY <2>1 DEF Phase
  <2>3. late = 0
    BY <2>1 DEF RunInv, LateInv
  <2>4. late' = IF running /\ ~JobHalted THEN 0 ELSE 1
    BY <2>1, <2>3 DEF Halted, JobHalted
  <2>5. UNCHANGED <<Taken, Pending, JobHalted>>
    BY <2>1, SameQueue DEF JobHalted
  <2>6. ctx = Taken[Len(Taken)]
    <3>1. /\ queue.jobs \in Seq(Job) /\ queue.pos \in 1 .. Len(queue.jobs)
          /\ ctx = queue.jobs[queue.pos]
      BY <1>0, <2>1, RunQueue DEF QueueInv, Loop, MainStates, active
    <3> QED
      BY <3>1 DEF Taken
  <2>7. /\ sent \in Seq(Sent) /\ Len(sent) \in Nat /\ input \in Sent
        /\ Words = WordsOf(sent) /\ Words' = WordsOf(sent')
    BY <1>0, <2>1, WordsSent DEF TypeOK, Sent
  <2>8. /\ Len(sent') = Len(sent) + 1 /\ sent'[Len(sent) + 1] = input
        /\ \A i \in 1 .. Len(sent) : sent'[i] = sent[i]
        /\ Len(Words) = Len(sent)
        /\ \A i \in 1 .. Len(sent) : Words[i] = sent[i].word
    BY <2>1, <2>7, WordsOfSent
  <2>9. Words' = Append(Words, input.word)
    BY <2>1, <2>7, WordsOfAppend
  <2>10. Run!MaySend(input.word)
    <3>1. CASE "restart" \in Commands
      <4>1. /\ Len(sent') <= N + 1
            /\ \A i \in 2 .. Len(sent') - 1 :
                 sent'[i + 1].word = (sent'[i].word % N) + 1
        BY DEF RunInv, RestartInv, RestartOvershoot
      <4>2. Len(Words) <= N
        BY <1>0, <2>7, <2>8, <4>1
      <4>3. ASSUME Len(Words) >= 2
            PROVE  input.word = (Words[Len(Words)] % N) + 1
        <5> DEFINE n == Len(sent)
        <5>1. n \in 2 .. Len(sent') - 1 /\ n \in 1 .. Len(sent)
          BY <2>7, <2>8, <4>3
        <5>2. sent'[n + 1].word = (sent'[n].word % N) + 1
          BY <4>1, <5>1
        <5> QED
          BY <2>7, <2>8, <5>1, <5>2
      <4> QED
        BY <3>1, <4>2, <4>3 DEF Run!MaySend
    <3>2. CASE "restart" \notin Commands
      <4>1. input.word = Len(sent) + 1
        <5>1. /\ input = [word |-> position, pos |-> position]
              /\ cursor = position /\ Len(sent) = cursor - 1 /\ position \in 0..N
          BY <1>0, <2>1, <3>2 DEF RunInv, OrderInv, TypeOK
        <5> QED
          BY <1>0, <5>1
      <4> QED
        BY <2>8, <3>2, <4>1 DEF Run!MaySend
    <3> QED
      BY <3>1, <3>2
  <2>11. input.word \in 1..N
    BY <2>1 DEF RunInv, FreshInv
  <2>12. /\ \A r \in InFlight : r.slot # s
         /\ InFlight' = InFlight \cup
              {[slot |-> s, job |-> Taken[Len(Taken)], word |-> input.word]}
    BY <1>0, <1>8, <2>6, FlightBegins
  <2>13. Run!Send(s)
    BY <2>1, <2>2, <2>3, <2>4, <2>5, <2>9, <2>10, <2>11, <2>12 DEF Run!Send
  <2> QED
    BY <2>13 DEF Run!Next
<1>9. CASE Drain
  <2>1. /\ main = "drain" /\ main' = "jobs" /\ Live = {} /\ UNCHANGED mainRest
    BY <1>9 DEF Drain
  <2>2. Phase = "working" /\ Phase' = "between"
    BY <2>1 DEF Phase
  <2>3. UNCHANGED <<Taken, Pending, Words, InFlight, JobHalted, running, late>>
    BY <2>1, SameQueue, SameWords, SameTasks DEF JobHalted
  <2>4. InFlight = {}
    BY <2>1 DEF InFlight
  <2>5. "restart" \in Commands \/ JobHalted \/ ~running \/ Len(Words) = N
    <3>1. ASSUME "restart" \notin Commands, ~Halted PROVE Len(Words) = N
      <4>1. Len(sent) = N
        BY <2>1, <3>1 DEF RunInv, OrderInv, CompletePass
      <4>2. sent \in Seq(Sent) /\ Words = WordsOf(sent)
        BY <1>0, <2>1, WordsSent DEF TypeOK, Sent
      <4> QED
        BY <4>1, <4>2, WordsOfSent
    <3> QED
      BY <3>1 DEF Halted, JobHalted
  <2>6. Run!Leave
    BY <2>2, <2>3, <2>4, <2>5 DEF Run!Leave
  <2> QED
    BY <2>6 DEF Run!Next
<1>10. CASE Finalize
  <2>1. /\ main = "finalize" /\ main' = "done" /\ running' = FALSE
        /\ UNCHANGED <<queue, runningJob, skipQueue, sent, late, tasks>>
    BY <1>10 DEF Finalize
  <2>2. Phase' = Phase /\ (JobHalted => JobHalted')
    BY <2>1 DEF Phase, JobHalted
  <2> QED
    BY <1>0, <2>1, <2>2, RunHalts
<1> QED
  BY <1>1, <1>2, <1>3, <1>4, <1>5, <1>6, <1>7, <1>8, <1>9, <1>10 DEF Main

LEMMA RunTask ==
  ASSUME RunInv, NEW s \in Slots, Task(s) PROVE [Run!Next]_Run!vars
<1> USE DEF jobs, flags, inputs, hist
<1>0. QueueInv /\ TypeOK /\ s \in Live
  BY DEF RunInv, QueueInv, Task, Prepare, Execute, TaskPassesGate, Decide, Live
<1>1. UNCHANGED <<main, running, runningJob, skipQueue, sent, late>>
  BY DEF Task, Prepare, Execute, TaskPassesGate, Decide, taskRest
<1>2. UNCHANGED <<Phase, Words, JobHalted>>
  BY <1>1, SameWords DEF Phase, JobHalted
<1>3. CASE End(s) /\ queue' = queue
  <2>1. Run!Answer
    BY <1>0, <1>1, <1>2, <1>3, FlightEnds, SameQueue DEF Run!Answer
  <2> QED
    BY <2>1 DEF Run!Next
<1>4. CASE /\ End(s) /\ tasks[s].job.depth < RecursionDepth
           /\ queue' = push(queue, Deeper(tasks[s]))
  <2>1. Deeper(tasks[s]) = Run!Found(Flight(s))
    BY DEF Deeper, Run!Found, Flight
  <2>2. Taken' = Taken /\ Pending' = Append(Pending, Run!Found(Flight(s)))
    BY <1>0, <1>4, <2>1, DeeperIsJob, RunPush
  <2>3. Flight(s) \in InFlight /\ InFlight' = InFlight \ {Flight(s)}
    BY <1>0, <1>4, FlightEnds
  <2>4. Flight(s).job.depth < RecursionDepth
    BY <1>4 DEF Flight
  <2>5. Run!Answer
    BY <1>1, <1>2, <2>2, <2>3, <2>4 DEF Run!Answer
  <2> QED
    BY <2>5 DEF Run!Next
<1>5. ASSUME queue' = queue, NEW to \in {"execute", "gate", "decide", "prepare"},
             \/ Go(s, to)
             \/ tasks' = [tasks EXCEPT ![s].at = "prepare", ![s].retried = TRUE]
      PROVE  [Run!Next]_Run!vars
  <2>1. \A r \in Slots : /\ tasks'[r].at = "free" <=> tasks[r].at = "free"
                         /\ tasks'[r].job = tasks[r].job
                         /\ tasks'[r].word = tasks[r].word
    <3>1. /\ tasks \in [Slots -> TaskRecord] /\ s \in Slots
          /\ tasks[s].at # "free" /\ to # "free"
      BY <1>0 DEF TypeOK, Live
    <3>2. CASE Go(s, to)
      BY <3>1, <3>2 DEF Go, TaskRecord
    <3>3. CASE tasks' = [tasks EXCEPT ![s].at = "prepare", ![s].retried = TRUE]
      BY <3>1, <3>3 DEF TaskRecord
    <3> QED
      BY <1>5, <3>2, <3>3
  <2>2. InFlight' = InFlight
    BY <1>0, <2>1, FlightGoesOn
  <2> QED
    BY <1>1, <1>5, <2>2, RunStutters DEF SamePhase
<1> QED
  BY <1>3, <1>4, <1>5 DEF Task, Prepare, Execute, TaskPassesGate, Decide, handle

LEMMA RunConsole ==
  ASSUME RunInv, TypeOK', Console PROVE [Run!Next]_Run!vars
<1> USE DEF jobs, flags, inputs, others, hist, consoleRest
<1>0. QueueInv /\ TypeOK
  BY DEF RunInv, QueueInv
<1>1. CASE PauseCommand \/ ResumeCommand \/ DeleteCommand
  <2>1. UNCHANGED <<main, queue, running, runningJob, skipQueue, sent, late, tasks>>
    BY <1>1 DEF PauseCommand, ResumeCommand, DeleteCommand
  <2> QED
    BY <2>1, RunStutters, SameTasks DEF SamePhase
<1>2. CASE SkipCommand
  <2>1. /\ UNCHANGED <<main, queue, running, runningJob, sent, late, tasks>>
        /\ skipQueue' = TRUE
    BY <1>2 DEF SkipCommand
  <2>2. Phase' = Phase /\ (JobHalted => JobHalted')
    BY <2>1 DEF Phase, JobHalted
  <2> QED
    BY <1>0, <2>1, <2>2, RunHalts
<1>3. CASE DeleteQueueItem
  <2>1. /\ UNCHANGED <<main, running, runningJob, skipQueue, sent, late, tasks>>
        /\ queue' = removeAt(queue, console.index)
        /\ console.index \in Nat \ {0}
    BY <1>0, <1>3 DEF DeleteQueueItem, QueueInv, TypeOK
  <2>2. UNCHANGED <<Phase, Words, InFlight, JobHalted>>
    BY <2>1, SameWords, SameTasks DEF Phase, JobHalted
  <2>3. /\ Taken' = Taken
        /\ Pending' = Pending \/ \E i \in DOMAIN Pending : Pending' = Cut(Pending, i)
    BY <1>0, <2>1, RunDelete
  <2>4. CASE Pending' = Pending
    BY <2>1, <2>2, <2>3, <2>4 DEF Run!vars
  <2>5. ASSUME NEW i \in DOMAIN Pending, Pending' = Cut(Pending, i)
        PROVE  [Run!Next]_Run!vars
    <3>1. Run!Delete
      BY <2>1, <2>2, <2>3, <2>5 DEF Run!Delete, Cut
    <3> QED
      BY <3>1 DEF Run!Next
  <2> QED
    BY <2>3, <2>4, <2>5
<1>4. CASE RestartCommand
  <2>1. /\ UNCHANGED <<main, queue, running, runningJob, skipQueue, late, tasks>>
        /\ sent' = <<>> /\ "restart" \in Commands
    BY <1>4 DEF RestartCommand, ResetInput, Type
  <2>2. Words' = <<>>
    BY <2>1, WordsSent
  <2>3. UNCHANGED <<Phase, Taken, Pending, InFlight, JobHalted>>
    BY <2>1, SameQueue, SameTasks DEF Phase, JobHalted
  <2>4. Run!Restart
    BY <2>1, <2>2, <2>3 DEF Run!Restart
  <2> QED
    BY <2>4 DEF Run!Next
<1>5. CASE RestartContinues
  <2>1. CASE console.at = "resetCounters"
    <3>1. /\ UNCHANGED <<main, queue, running, runningJob, sent, tasks>>
          /\ skipQueue' = FALSE /\ late' = IF running THEN 0 ELSE late
      BY <1>5, <2>1 DEF RestartContinues, ResetCounters
    <3>2. "restart" \in Commands
      BY <2>1 DEF RunInv, OrderInv
    <3>3. SamePhase /\ (JobHalted' => JobHalted)
      BY <3>1 DEF SamePhase, JobHalted
    <3> QED
      BY <3>1, <3>2, <3>3, RunResumes
  <2>2. CASE console.at = "resume"
    <3>1. UNCHANGED <<main, queue, running, runningJob, skipQueue, sent, late, tasks>>
      BY <1>5, <2>2 DEF RestartContinues
    <3> QED
      BY <3>1, RunStutters, SameTasks DEF SamePhase
  <2> QED
    BY <1>5, <2>1, <2>2 DEF RestartContinues
<1> QED
  BY <1>1, <1>2, <1>3, <1>4, <1>5 DEF Console, ConsoleWork

(* Every behaviour of the engine is one that RunContract allows. *)
THEOREM RefinesRun == Spec => ImplementsRun
<1>1. Init => Run!Init
  <2> SUFFICES ASSUME Init PROVE Run!Init
    OBVIOUS
  <2>1. /\ main = "start" /\ queue = [jobs |-> <<>>, pos |-> 0] /\ sent = <<>>
        /\ running = FALSE /\ runningJob = FALSE /\ late = 0
    BY DEF Init, newJobQueue
  <2>2. QueueInv
    BY QueueInit
  <2>3. Phase = "starting" /\ JobHalted = TRUE
    BY <2>1 DEF Phase, JobHalted
  <2>4. Words = <<>>
    BY <2>1, WordsSent
  <2>5. InFlight = {}
    BY DEF Init, InFlight, Live, Free
  <2>6. Taken = <<>> /\ Pending = <<>>
    BY <2>1 DEF Taken, Pending
  <2> QED
    BY <2>1, <2>3, <2>4, <2>5, <2>6 DEF Run!Init
<1>2. RunInv /\ RunInv' /\ [Next]_vars => [Run!Next]_Run!vars
  <2> SUFFICES ASSUME RunInv, RunInv', [Next]_vars PROVE [Run!Next]_Run!vars
    OBVIOUS
  <2>0. TypeOK /\ TypeOK'
    BY DEF RunInv, QueueInv
  <2>1. CASE Progress
    <3>1. UNCHANGED <<main, queue, running, runningJob, skipQueue, sent, late, tasks>>
      BY <2>1 DEF Progress, ProgressTop, ProgressPassesGate, ProgressLooks,
         progressRest, jobs, flags, hist
    <3> QED
      BY <3>1, RunStutters, SameTasks DEF SamePhase
  <2>2. CASE Interrupt
    <3>1. /\ UNCHANGED <<main, queue, runningJob, skipQueue, sent, late, tasks>>
          /\ running' = FALSE
      BY <2>2 DEF Interrupt, jobs, others, hist
    <3>2. Phase' = Phase /\ (JobHalted => JobHalted')
      BY <3>1 DEF Phase, JobHalted
    <3> QED
      BY <2>0, <3>1, <3>2, RunHalts
  <2>3. CASE UNCHANGED vars
    <3>1. UNCHANGED <<main, queue, running, runningJob, skipQueue, sent, late, tasks>>
      BY <2>3 DEF vars, jobs, flags, others, hist
    <3> QED
      BY <3>1, RunStutters, SameTasks DEF SamePhase
  <2> QED
    BY <2>0, <2>1, <2>2, <2>3, RunMain, RunTask, RunConsole DEF Next, Exited
<1> QED
  BY <1>1, <1>2, RunInvInductive, PTL DEF Spec, ImplementsRun, Run!Spec

-----------------------------------------------------------------------------
(* A pass comes to its end. *)

(* The steps of the main goroutine up to the end of a pass: nine for each
   input that is left, and what is left of the round of the loop. *)
Rounds == 9 * (N - position)

Ahead ==
  CASE main = "resetInput"    -> 9 * N + 5
    [] main = "resetCounters" -> Rounds + 4
    [] main = "begin"         -> Rounds + 3
    [] main = "next"          -> Rounds + 2
    [] main = "skip?"         -> Rounds + 10
    [] main = "checkStop"     -> Rounds + 9
    [] main = "running?"      -> Rounds + 8
    [] main = "gate"          -> Rounds + 7
    [] main = "limit"         -> Rounds + 6
    [] main = "value"         -> Rounds + 5
    [] main = "spawn"         -> Rounds + 4
    [] OTHER                  -> 1

(* Those of a request goroutine: a request that fails is tried once more. *)
TaskAhead(t) ==
  CASE t.at = "free"    -> 0
    [] t.at = "prepare" -> IF t.retried THEN 4 ELSE 8
    [] t.at = "execute" -> IF t.retried THEN 3 ELSE 7
    [] t.at = "gate"    -> 2
    [] t.at = "decide"  -> 1

(* Both are bounded. *)
PassBounded ==
  /\ main \in Loop => Ahead \in 1 .. (9 * N + 10)
  /\ \A s \in Slots : TaskAhead(tasks[s]) \in 0..8

(* Each step of the main goroutine in a pass brings it closer to the end of
   the pass, and only a restart that the user types puts it further off. *)
PassGoesOn ==
  main \in Loop \ {"drain"} =>
    \/ Ahead' < Ahead
    \/ main' = main /\ Ahead' = Ahead
    \/ RestartCommand

(* Each step of a request goroutine brings it closer to its end. *)
TasksGoOn ==
  \A s \in Slots : tasks'[s] # tasks[s] =>
    tasks[s].at = "free" \/ TaskAhead(tasks'[s]) < TaskAhead(tasks[s])

LEMMA PassIsBounded == QueueInv => PassBounded
<1> SUFFICES ASSUME QueueInv PROVE PassBounded
  OBVIOUS
<1>1. main \in MainStates /\ position \in 0..N /\ N \in Nat
  BY EngineAssumption DEF QueueInv, TypeOK
<1>2. Rounds \in 0 .. (9 * N)
  BY <1>1 DEF Rounds
<1>3. ASSUME main \in Loop PROVE Ahead \in 1 .. (9 * N + 10)
  <2>1. 9 * N \in Nat /\ Rounds \in Nat /\ Rounds <= 9 * N
    BY <1>1, <1>2
  <2>2. Ahead \in {9 * N + 5, Rounds + 2, Rounds + 3, Rounds + 4, Rounds + 5,
                   Rounds + 6, Rounds + 7, Rounds + 8, Rounds + 9, Rounds + 10, 1}
    BY Zenon DEF Ahead
  <2> QED
    BY <2>1, <2>2
<1>4. ASSUME NEW s \in Slots PROVE TaskAhead(tasks[s]) \in 0..8
  <2>1. tasks[s].at \in TaskStates
    BY DEF QueueInv, TypeOK, TaskRecord
  <2> QED
    BY <2>1 DEF TaskStates, TaskAhead
<1> QED
  BY <1>3, <1>4 DEF PassBounded

LEMMA MainGoesOn == QueueInv /\ Main => PassGoesOn
<1> SUFFICES ASSUME QueueInv, Main, main \in Loop \ {"drain"} PROVE Ahead' < Ahead
  BY DEF PassGoesOn
<1> USE DEF At, inputs
<1>1. position \in 0..N /\ N \in Nat
  BY EngineAssumption DEF QueueInv, TypeOK
<1>2. Rounds \in 0 .. (9 * N)
  BY <1>1 DEF Rounds
<1>3. position' = position => Rounds' = Rounds
  BY DEF Rounds
<1>4. CASE JobReset
  <2>1. CASE main = "resetInput"
    <3>1. main' = "resetCounters" /\ position' = 0
      BY <1>4, <2>1 DEF JobReset, ResetInput
    <3>2. Rounds' = 9 * N
      BY <1>1, <3>1 DEF Rounds
    <3> QED
      BY <1>1, <2>1, <3>1, <3>2 DEF Ahead
  <2>2. CASE main = "resetCounters"
    <3>1. main' = "begin" /\ position' = position
      BY <1>4, <2>2 DEF JobReset
    <3> QED
      BY <1>2, <1>3, <2>2, <3>1 DEF Ahead
  <2> QED
    BY <1>4, <2>1, <2>2 DEF JobReset
<1>5. CASE NextInput
  <2>1. CASE position < N
    <3>1. main = "next" /\ main' = "skip?" /\ position' = position + 1
      BY <1>5, <2>1 DEF NextInput
    <3>2. Rounds' = Rounds - 9
      BY <1>1, <3>1 DEF Rounds
    <3> QED
      BY <1>2, <3>1, <3>2 DEF Ahead
  <2>2. CASE ~(position < N)
    BY <1>2, <1>5, <2>2 DEF NextInput, Ahead
  <2> QED
    BY <2>1, <2>2
<1>6. CASE CheckSkip \/ CheckRunning
  BY <1>2, <1>3, <1>6 DEF CheckSkip, CheckRunning, mainRest, Ahead
<1>7. CASE Begin \/ CheckStop \/ TakeValue
  BY <1>2, <1>3, <1>7 DEF Begin, CheckStop, TakeValue, Ahead
<1>8. CASE MainPassesGate \/ AcquireSlot
  BY <1>2, <1>3, <1>8 DEF MainPassesGate, AcquireSlot, mainRest, Ahead
<1>9. ASSUME NEW s \in Slots, Spawn(s) PROVE Ahead' < Ahead
  BY <1>2, <1>3, <1>9 DEF Spawn, Ahead
<1>10. CASE Start \/ JobsInQueue \/ PrepareQueueJob \/ Drain \/ Finalize
  BY <1>10 DEF Start, JobsInQueue, PrepareQueueJob, Drain, Finalize, Loop
<1> QED
  BY <1>4, <1>5, <1>6, <1>7, <1>8, <1>9, <1>10 DEF Main

LEMMA GoesOnStep == QueueInv /\ [Next]_vars => PassGoesOn /\ TasksGoOn
<1> SUFFICES ASSUME QueueInv, [Next]_vars PROVE PassGoesOn /\ TasksGoOn
  OBVIOUS
<1> USE DEF jobs, flags, inputs, others, hist
<1>1. ASSUME UNCHANGED <<main, position>> PROVE PassGoesOn
  BY <1>1 DEF PassGoesOn, Ahead, Rounds
<1>2. ASSUME UNCHANGED tasks PROVE TasksGoOn
  BY <1>2 DEF TasksGoOn
<1>3. CASE Main
  <2>1. ASSUME NEW s \in Slots, Spawn(s) PROVE TasksGoOn
    BY <2>1 DEF Spawn, TasksGoOn, QueueInv, TypeOK
  <2>2. ASSUME \/ Start \/ JobsInQueue \/ PrepareQueueJob \/ JobReset \/ Begin
               \/ NextInput \/ CheckSkip \/ CheckStop \/ CheckRunning
               \/ MainPassesGate \/ AcquireSlot \/ TakeValue \/ Drain
               \/ Finalize
        PROVE  TasksGoOn
    <3>1. UNCHANGED tasks
      BY <2>2 DEF Start, JobsInQueue, PrepareQueueJob, JobReset, Begin,
         NextInput, CheckSkip, CheckStop, CheckRunning, MainPassesGate,
         AcquireSlot, TakeValue, Drain, Finalize, mainRest
    <3> QED
      BY <1>2, <3>1
  <2> QED
    BY <1>3, <2>1, <2>2, MainGoesOn DEF Main
<1>4. CASE Progress \/ Interrupt \/ UNCHANGED vars \/ Exited
  <2>1. UNCHANGED <<main, position, tasks>>
    BY <1>4 DEF Progress, ProgressTop, ProgressPassesGate, ProgressLooks,
       progressRest, Interrupt, Exited, vars
  <2> QED
    BY <1>1, <1>2, <2>1
<1>5. CASE Console
  <2>1. UNCHANGED <<main, tasks>> /\ (position' = position \/ RestartCommand)
    BY <1>5 DEF Console, PauseCommand, ResumeCommand, SkipCommand,
       DeleteCommand, RestartCommand, ConsoleWork, DeleteQueueItem,
       RestartContinues, consoleRest
  <2> QED
    BY <1>1, <1>2, <2>1 DEF PassGoesOn
<1>6. ASSUME NEW s \in Slots, Task(s) PROVE PassGoesOn /\ TasksGoOn
  <2>1. UNCHANGED <<main, position>>
    BY <1>6 DEF Task, Prepare, Execute, TaskPassesGate, Decide, taskRest
  <2>2. tasks \in [Slots -> TaskRecord] /\ tasks[s].retried \in BOOLEAN
    BY DEF QueueInv, TypeOK, TaskRecord
  <2>3. PICK t : /\ tasks' = [tasks EXCEPT ![s] = t]
                 /\ tasks[s].at \in {"prepare", "execute", "gate", "decide"}
                 /\ \/ t.at = "free"
                    \/ /\ t.retried = tasks[s].retried
                       /\ \/ tasks[s].at = "prepare" /\ t.at = "execute"
                          \/ tasks[s].at = "execute" /\ t.at = "gate"
                          \/ tasks[s].at = "gate" /\ t.at = "decide"
                    \/ /\ tasks[s].at = "execute" /\ ~tasks[s].retried
                       /\ t.at = "prepare" /\ t.retried
    <3>1. ASSUME NEW p \in {"execute", "gate", "decide"}
          PROVE  LET t == [tasks[s] EXCEPT !.at = p]
                 IN  t.at = p /\ t.retried = tasks[s].retried
      BY <2>2 DEF TaskRecord
    <3>2. LET t == [tasks[s] EXCEPT !.at = "prepare", !.retried = TRUE]
          IN  t.at = "prepare" /\ t.retried
      BY <2>2 DEF TaskRecord
    <3>3. Free.at = "free"
      BY DEF Free
    <3>4. CASE Prepare(s)
      BY <3>1, <3>3, <3>4 DEF Prepare, Go, End
    <3>5. CASE Execute(s)
      <4>1. CASE Go(s, "gate") \/ End(s)
        BY <3>1, <3>3, <3>5, <4>1 DEF Execute, Go, End
      <4>2. CASE /\ ~tasks[s].retried
                 /\ tasks' = [tasks EXCEPT ![s].at = "prepare", ![s].retried = TRUE]
        <5> DEFINE t == [tasks[s] EXCEPT !.at = "prepare", !.retried = TRUE]
        <5>1. tasks' = [tasks EXCEPT ![s] = t]
          BY <2>2, <4>2
        <5>2. t.at = "prepare" /\ t.retried /\ tasks[s].at = "execute"
          BY <3>2, <3>5 DEF Execute
        <5> HIDE DEF t
        <5> QED
          BY <4>2, <5>1, <5>2
      <4> QED
        BY <3>5, <4>1, <4>2 DEF Execute
    <3>6. CASE TaskPassesGate(s)
      BY <3>1, <3>6 DEF TaskPassesGate, Go
    <3>7. CASE Decide(s)
      BY <3>3, <3>7 DEF Decide, End
    <3> QED
      BY <1>6, <3>4, <3>5, <3>6, <3>7 DEF Task
  <2>4. TaskAhead(t) < TaskAhead(tasks[s])
    BY <2>2, <2>3 DEF TaskAhead
  <2>5. \A r \in Slots : tasks'[r] = IF r = s THEN t ELSE tasks[r]
    BY <2>2, <2>3
  <2> QED
    BY <1>1, <2>1, <2>4, <2>5 DEF TasksGoOn
<1> QED
  BY <1>3, <1>4, <1>5, <1>6 DEF Next

(* A pass is over after a bounded number of steps of the main goroutine,
   however it is halted, paused or skipped, and so is a request, however often
   it fails: nothing that another goroutine or a signal does puts the end
   further off, and a restart of the pass has to be typed (job.go:322-391 and
   455-582).  That no step is waited for in vain is not part of this:
   Terminates checks it, and after a late restart it is false. *)
THEOREM PassEnds == Spec => []PassBounded /\ [][PassGoesOn /\ TasksGoOn]_vars
<1> QED
  BY QueueInit, QueueStep, PassIsBounded, GoesOnStep, PTL DEF Spec
-----------------------------------------------------------------------------
(* No input of a job asks for a second job.  Nothing in recursionManager looks
   for a job that is queued already; that each input adds at most one comes from
   the order of the requests and from what a retry repeats.  It is about inputs,
   not about URLs: a word that is in the list twice, or two inputs that differ
   in a keyword outside the URL, queue two jobs with the same URL. *)

\* The job that a match of word w of this parent asks for.
Child(parent, w, job) ==
  job.via = Append(parent.via, w) /\ job.req = parent.req

Asked(q, parent, w) == \E i \in DOMAIN q.jobs : Child(parent, w, q.jobs[i])

Same(job, other) == job.via = other.via /\ job.req = other.req

OnceIn(q) == \A i, k \in DOMAIN q.jobs : Same(q.jobs[i], q.jobs[k]) => i = k

ParentIn(q) ==
  \A i \in DOMAIN q.jobs :
    q.jobs[i].via # <<>> =>
      \E k \in 1 .. q.pos, w \in 0..N : Child(q.jobs[k], w, q.jobs[i])

(* No two jobs of the queue come from the same input of the same job, or are
   the same base job. *)
QueuedOnce == OnceIn(queue)

\* Words of the active job that no response has been decided for.
Undecided == {w \in 0..N : main = "resetInput" \/ w > Len(sent)}
               \cup {tasks[s].word : s \in Live}

OnceInv ==
  /\ QueuedOnce /\ ParentIn(queue)
  /\ main \in Loop => \A w \in Undecided : ~Asked(queue, ctx, w)
  /\ \A s \in Live : /\ main # "resetInput" /\ tasks[s].word <= Len(sent)
                     /\ \A r \in Live : tasks[r].word = tasks[s].word => r = s

(* A job has one parent: the inputs without the last one, and the request. *)
LEMMA OneParent ==
  ASSUME NEW job \in Job, NEW p \in Job, NEW r \in Job,
         NEW v \in 0..N, NEW w \in 0..N, Child(p, v, job), Child(r, w, job)
  PROVE  v = w /\ Same(p, r)
<1>1. p.via \in Seq(0..N) /\ r.via \in Seq(0..N)
  BY DEF Job
<1>2. Append(p.via, v) = Append(r.via, w) /\ p.req = r.req
  BY DEF Child
<1>3. \A s, t \in Seq(0..N), x, y \in 0..N :
        Append(s, x) = Append(t, y) => s = t /\ x = y
  BY AppendInjective
<1>4. p.via = r.via /\ v = w
  BY <1>1, <1>2, <1>3
<1> QED
  BY <1>2, <1>4 DEF Same

(* Deleting a job makes no two jobs the same. *)
LEMMA RemoveOnce ==
  ASSUME NEW q \in Queues(Job), NEW offset \in Nat \ {0}, OnceIn(q)
  PROVE  OnceIn(removeAt(q, offset))
<1> DEFINE n == q.pos + offset
           q2 == removeAt(q, offset)
<1>0. q.jobs \in Seq(Job) /\ q.pos \in Nat /\ DOMAIN q.jobs = 1 .. Len(q.jobs)
  BY DEF Queues
<1>1. CASE ~removable(q, offset)
  BY <1>1 DEF removeAt
<1>2. CASE removable(q, offset)
  <2> DEFINE old(i) == IF i < n THEN i ELSE i + 1
  <2>1. n \in 1 .. Len(q.jobs)
    BY <1>0, <1>2 DEF removable
  <2>2. q2.jobs = without(q.jobs, n)
    BY <1>0, <1>2 DEF removeAt, Queues
  <2>3. /\ without(q.jobs, n) \in Seq(Job)
        /\ Len(without(q.jobs, n)) = Len(q.jobs) - 1
        /\ \A k \in 1 .. n - 1 : without(q.jobs, n)[k] = q.jobs[k]
        /\ \A k \in n .. Len(q.jobs) - 1 : without(q.jobs, n)[k] = q.jobs[k + 1]
    BY <1>0, <2>1, WithoutElements
  <2> HIDE DEF n, q2
  <2>4. DOMAIN q2.jobs = 1 .. Len(q.jobs) - 1
    BY <2>2, <2>3
  <2>5. ASSUME NEW i \in DOMAIN q2.jobs
        PROVE  old(i) \in DOMAIN q.jobs /\ q2.jobs[i] = q.jobs[old(i)]
    BY <1>0, <2>1, <2>2, <2>3, <2>4, <2>5
  <2>6. ASSUME NEW i \in DOMAIN q2.jobs, NEW k \in DOMAIN q2.jobs, old(i) = old(k)
        PROVE  i = k
    BY <1>0, <2>1, <2>4, <2>6
  <2> HIDE DEF old
  <2>7. ASSUME NEW i \in DOMAIN q2.jobs, NEW k \in DOMAIN q2.jobs,
               Same(q2.jobs[i], q2.jobs[k])
        PROVE  i = k
    BY <2>5, <2>6, <2>7 DEF OnceIn
  <2> QED
    BY <2>7 DEF OnceIn, q2
<1> QED
  BY <1>1, <1>2

(* A child of the active job that nobody has asked for is new. *)
LEMMA PushOnce ==
  ASSUME NEW q \in Queues(Job), OnceIn(q), ParentIn(q), NEW k \in 1 .. q.pos,
         NEW w \in 0..N, NEW job \in Job, Child(q.jobs[k], w, job),
         ~Asked(q, q.jobs[k], w)
  PROVE  OnceIn(push(q, job)) /\ ParentIn(push(q, job))
<1> DEFINE q2 == push(q, job)
           n == Len(q.jobs)
<1>0. q.jobs \in Seq(Job) /\ q.pos \in Nat /\ q.pos <= n /\ n \in Nat
  BY DEF Queues
<1>1. q2.jobs = Append(q.jobs, job) /\ q2.pos = q.pos
  BY DEF push, Queues
<1>2. /\ DOMAIN q2.jobs = 1 .. n + 1 /\ DOMAIN q.jobs = 1 .. n
      /\ q2.jobs[n + 1] = job /\ \A i \in 1 .. n : q2.jobs[i] = q.jobs[i]
  BY <1>0, <1>1
<1> HIDE DEF q2, n
<1>3. ASSUME NEW i \in 1 .. n PROVE ~Same(q.jobs[i], job)
  BY <1>2, <1>3 DEF Same, Asked, Child
<1>4. ASSUME NEW i \in DOMAIN q2.jobs, NEW j \in DOMAIN q2.jobs,
             Same(q2.jobs[i], q2.jobs[j])
      PROVE  i = j
  <2>1. CASE i \in 1 .. n /\ j \in 1 .. n
    BY <1>2, <1>4, <2>1 DEF OnceIn
  <2>2. CASE i \in 1 .. n /\ j = n + 1
    BY <1>2, <1>3, <1>4, <2>2
  <2>3. CASE i = n + 1 /\ j \in 1 .. n
    BY <1>2, <1>3, <1>4, <2>3 DEF Same
  <2> QED
    BY <1>0, <1>2, <2>1, <2>2, <2>3
<1>5. ASSUME NEW i \in DOMAIN q2.jobs, q2.jobs[i].via # <<>>
      PROVE  \E j \in 1 .. q2.pos, v \in 0..N : Child(q2.jobs[j], v, q2.jobs[i])
  <2>1. \A j \in 1 .. q.pos : q2.jobs[j] = q.jobs[j]
    BY <1>0, <1>2
  <2>2. CASE i = n + 1
    BY <1>1, <1>2, <2>1, <2>2
  <2>3. CASE i \in 1 .. n
    <3>1. PICK j \in 1 .. q.pos, v \in 0..N : Child(q.jobs[j], v, q.jobs[i])
      BY <1>2, <1>5, <2>3 DEF ParentIn
    <3> QED
      BY <1>1, <1>2, <2>1, <2>3, <3>1
  <2> QED
    BY <1>0, <1>2, <2>2, <2>3
<1> QED
  BY <1>4, <1>5 DEF OnceIn, ParentIn, q2

(* A step that adds no job, keeps those taken, and dispatches no request. *)
LEMMA FewerOnce ==
  ASSUME QueueInv, OnceInv,
         NEW q2 \in Queues(Job), queue' = q2, OnceIn(q2), ctx' = ctx,
         q2.pos = queue.pos,
         \A i \in 1 .. queue.pos : q2.jobs[i] = queue.jobs[i],
         \A i \in DOMAIN q2.jobs : \E k \in DOMAIN queue.jobs :
                                     q2.jobs[i] = queue.jobs[k],
         main' \in Loop => main \in Loop /\ Undecided' \subseteq Undecided,
         main' = "resetInput" => main = "resetInput",
         sent' = sent,
         \A s \in Live' : s \in Live /\ tasks'[s].word = tasks[s].word
  PROVE  OnceInv'
<1>1. ParentIn(q2)
  <2> SUFFICES ASSUME NEW i \in DOMAIN q2.jobs, q2.jobs[i].via # <<>>
               PROVE  \E k \in 1 .. q2.pos, w \in 0..N :
                        Child(q2.jobs[k], w, q2.jobs[i])
    BY DEF ParentIn
  <2>1. PICK j \in DOMAIN queue.jobs : q2.jobs[i] = queue.jobs[j]
    OBVIOUS
  <2>2. PICK k \in 1 .. queue.pos, w \in 0..N : Child(queue.jobs[k], w, queue.jobs[j])
    BY <2>1 DEF OnceInv, ParentIn
  <2> QED
    BY <2>1, <2>2
<1>2. \A w \in 0..N : Asked(q2, ctx, w) => Asked(queue, ctx, w)
  BY DEF Asked
<1>3. \A w \in Undecided : w \in 0..N
  BY DEF Undecided, Live, QueueInv, TypeOK, TaskRecord
<1>4. main' \in Loop => \A w \in Undecided' : ~Asked(queue', ctx', w)
  BY <1>2, <1>3 DEF OnceInv
<1>5. \A s \in Live' : /\ main' # "resetInput" /\ tasks'[s].word <= Len(sent')
                       /\ \A r \in Live' : tasks'[r].word = tasks'[s].word => r = s
  BY DEF OnceInv
<1> QED
  BY <1>1, <1>4, <1>5 DEF OnceInv, QueuedOnce

(* Steps that leave the queue alone: they only end requests or move on. *)
LEMMA QuietOnce ==
  ASSUME QueueInv, OnceInv, UNCHANGED <<queue, ctx, sent>>,
         main' \in Loop => main \in Loop,
         main' = "resetInput" => main = "resetInput",
         \A s \in Live' : s \in Live /\ tasks'[s].word = tasks[s].word
  PROVE  OnceInv'
<1>1. Undecided' \subseteq Undecided
  BY DEF Undecided
<1>2. queue \in Queues(Job)
  BY DEF QueueInv, TypeOK, Queues
<1> QED
  BY <1>1, <1>2, FewerOnce DEF OnceInv, QueuedOnce

(* The next job has not been asked for anything yet: who asked for a child of
   it would have been queued before it, and been the same job. *)
LEMMA NextUnasked ==
  ASSUME QueueInv, OnceInv, advanceInRange(queue), NEW w \in 0..N
  PROVE  ~Asked(queue, queue.jobs[queue.pos + 1], w)
<1> DEFINE next == queue.jobs[queue.pos + 1]
<1>0. /\ queue.jobs \in Seq(Job) /\ queue.pos \in Nat
      /\ DOMAIN queue.jobs = 1 .. Len(queue.jobs)
      /\ queue.pos + 1 \in DOMAIN queue.jobs
  BY DEF QueueInv, TypeOK, advanceInRange
<1> SUFFICES ASSUME NEW i \in DOMAIN queue.jobs, Child(next, w, queue.jobs[i])
             PROVE  FALSE
  BY DEF Asked
<1>1. queue.jobs[i] \in Job /\ next \in Job
  BY <1>0
<1>2. queue.jobs[i].via # <<>>
  BY <1>1 DEF Child, Job
<1>3. PICK k \in 1 .. queue.pos, v \in 0..N : Child(queue.jobs[k], v, queue.jobs[i])
  BY <1>2 DEF OnceInv, ParentIn
<1>4. k \in DOMAIN queue.jobs /\ queue.jobs[k] \in Job /\ k # queue.pos + 1
  BY <1>0
<1>5. Same(queue.jobs[k], next)
  BY <1>1, <1>3, <1>4, OneParent
<1> QED
  BY <1>0, <1>4, <1>5 DEF OnceInv, QueuedOnce, OnceIn

LEMMA OnceMain ==
  ASSUME QueueInv, QueueInv', OrderInv, OnceInv, Main PROVE OnceInv'
<1> USE DEF At, jobs, flags, inputs, others, hist, mainRest
<1>0. /\ queue.jobs \in Seq(Job) /\ queue.pos \in Nat /\ N \in Nat
      /\ sent \in Seq([word : 0..N, pos : 0..N]) /\ Len(sent) \in Nat
  BY EngineAssumption DEF QueueInv, TypeOK
<1>1. CASE Start
  <2>1. /\ queue'.jobs = [i \in 1..BaseJobs |-> Base(i)]
        /\ main' = "jobs" /\ Live = {} /\ tasks' = tasks
    BY <1>1 DEF Start, QueueInv, TypeOK, DrainedBetweenJobs
  <2>2. Live' = {} /\ main' \notin Loop
    BY <2>1 DEF Live, Loop
  <2>3. OnceIn(queue') /\ ParentIn(queue')
    BY <2>1 DEF OnceIn, ParentIn, Same, Base
  <2> QED
    BY <2>2, <2>3 DEF OnceInv, QueuedOnce
<1>2. CASE PrepareQueueJob
  <2>1. CASE ~advanceInRange(queue)
    BY <1>2, <2>1, QuietOnce DEF PrepareQueueJob, Loop, Live
  <2>2. CASE advanceInRange(queue)
    <3>1. /\ queue'.jobs = queue.jobs /\ queue'.pos = queue.pos + 1
          /\ ctx' = queue.jobs[queue.pos + 1]
          /\ main' = "resetInput" /\ Live = {} /\ tasks' = tasks
      BY <1>0, <1>2, <2>2 DEF PrepareQueueJob, advance, active, QueueInv, TypeOK,
         DrainedBetweenJobs
    <3>2. Live' = {}
      BY <3>1 DEF Live
    <3>3. OnceIn(queue')
      BY <3>1 DEF OnceInv, QueuedOnce, OnceIn
    <3>4. ParentIn(queue')
      <4>1. \A k \in 1 .. queue.pos : k \in 1 .. queue'.pos
        BY <1>0, <3>1
      <4> SUFFICES ASSUME NEW i \in DOMAIN queue.jobs, queue.jobs[i].via # <<>>
                   PROVE  \E k \in 1 .. queue'.pos, w \in 0..N :
                            Child(queue.jobs[k], w, queue.jobs[i])
        BY <3>1 DEF ParentIn
      <4>2. PICK k \in 1 .. queue.pos, w \in 0..N :
                   Child(queue.jobs[k], w, queue.jobs[i])
        BY DEF OnceInv, ParentIn
      <4> QED
        BY <4>1, <4>2
    <3>5. \A w \in Undecided' : w \in 0..N
      BY <3>2 DEF Undecided
    <3>6. \A w \in 0..N : ~Asked(queue', ctx', w)
      BY <2>2, <3>1, NextUnasked DEF Asked
    <3> QED
      BY <3>2, <3>3, <3>4, <3>5, <3>6 DEF OnceInv, QueuedOnce
  <2> QED
    BY <2>1, <2>2
<1>3. CASE main = "resetInput" /\ JobReset
  <2>1. /\ UNCHANGED <<queue, ctx, tasks>> /\ main' = "resetCounters" /\ Live = {}
    BY <1>3 DEF JobReset, QueueInv, DrainedBetweenJobs
  <2>2. Live' = {}
    BY <2>1 DEF Live
  <2>3. \A w \in Undecided' : w \in Undecided
    BY <1>3, <2>2 DEF Undecided
  <2>4. main \in Loop
    BY <1>3 DEF Loop, MainStates
  <2> QED
    BY <2>1, <2>2, <2>3, <2>4 DEF OnceInv, QueuedOnce
<1>4. ASSUME NEW s \in Slots, Spawn(s) PROVE OnceInv'
  <2>1. /\ main = "spawn" /\ main' \in Loop \ {"resetInput"} /\ main \in Loop
        /\ sent' = Append(sent, input) /\ UNCHANGED <<queue, ctx>>
        /\ s \notin Live
    BY <1>4 DEF Spawn, Loop, MainStates, Live
  <2>2. input.word = Len(sent) + 1 /\ input.word \in 0..N
    BY <1>0, <2>1 DEF OrderInv, TypeOK
  <2>3. Len(sent') = Len(sent) + 1
    BY <1>0, <2>1
  <2>4. /\ Live' = Live \cup {s} /\ tasks'[s].word = input.word
        /\ \A r \in Live : tasks'[r] = tasks[r]
    BY <1>4, <2>1 DEF Spawn, Live, QueueInv, TypeOK
  <2>5. Undecided' \subseteq Undecided
    <3> SUFFICES ASSUME NEW w \in Undecided' PROVE w \in Undecided
      OBVIOUS
    <3>1. CASE w \in 0..N /\ w > Len(sent')
      BY <1>0, <2>3, <3>1 DEF Undecided
    <3>2. CASE w = input.word
      BY <1>0, <2>2, <3>2 DEF Undecided
    <3>3. CASE \E r \in Live : w = tasks[r].word
      BY <3>3 DEF Undecided
    <3> QED
      BY <2>1, <2>4, <3>1, <3>2, <3>3 DEF Undecided
  <2>6. \A r \in Live : tasks[r].word <= Len(sent) /\ tasks[r].word \in 0..N
    BY DEF OnceInv, Live, QueueInv, TypeOK, TaskRecord
  <2>7. \A r \in Live' : /\ main' # "resetInput" /\ tasks'[r].word <= Len(sent')
                         /\ \A t \in Live' : tasks'[t].word = tasks'[r].word => t = r
    <3>1. ASSUME NEW r \in Live' PROVE tasks'[r].word <= Len(sent')
      BY <1>0, <2>2, <2>3, <2>4, <2>6, <3>1
    <3>2. ASSUME NEW r \in Live PROVE tasks'[r].word # tasks'[s].word
      <4>1. tasks'[r].word <= Len(sent) /\ tasks'[s].word = Len(sent) + 1
        BY <2>2, <2>4, <2>6, <3>2
      <4> QED
        BY <1>0, <4>1
    <3>3. ASSUME NEW r \in Live', NEW t \in Live', tasks'[t].word = tasks'[r].word
          PROVE  t = r
      BY <2>4, <3>2, <3>3 DEF OnceInv
    <3> QED
      BY <2>1, <3>1, <3>3
  <2> QED
    BY <2>1, <2>5, <2>7 DEF OnceInv, QueuedOnce
<1>5. CASE \/ JobsInQueue \/ (main = "resetCounters" /\ JobReset) \/ Begin
           \/ NextInput \/ CheckSkip \/ CheckStop \/ CheckRunning
           \/ MainPassesGate \/ AcquireSlot \/ TakeValue \/ Drain \/ Finalize
  BY <1>5, QuietOnce DEF JobsInQueue, JobReset, Begin, NextInput, CheckSkip,
     CheckStop, CheckRunning, MainPassesGate, AcquireSlot, TakeValue, Drain,
     Finalize, Loop, MainStates, Live
<1> QED
  BY <1>1, <1>2, <1>3, <1>4, <1>5 DEF Main, JobReset

LEMMA OnceTask ==
  ASSUME QueueInv, OnceInv, NEW s \in Slots, Task(s) PROVE OnceInv'
<1> USE DEF Task, Prepare, Execute, TaskPassesGate, Decide
<1>0. /\ queue \in Queues(Job) /\ s \in Live /\ main \in Loop
      /\ tasks[s] \in TaskRecord /\ tasks[s].word \in 0..N
      /\ tasks[s].job = ctx /\ ctx = queue.jobs[queue.pos] /\ queue.pos > 0
  BY DEF QueueInv, TypeOK, Queues, Live, TaskRecord, active
<1>1. UNCHANGED <<main, ctx, sent>>
  BY DEF taskRest, hist
<1>2. \A r \in Live' : r \in Live /\ tasks'[r].word = tasks[r].word
  <2>1. tasks \in [Slots -> TaskRecord]
    BY DEF QueueInv, TypeOK
  <2>2. CASE End(s)
    BY <2>1, <2>2 DEF End, Live, Free
  <2>3. ASSUME NEW to \in {"execute", "gate", "decide"}, Go(s, to)
        PROVE  \A r \in Live' : r \in Live /\ tasks'[r].word = tasks[r].word
    BY <1>0, <2>1, <2>3 DEF Go, Live, TaskRecord
  <2>4. CASE tasks' = [tasks EXCEPT ![s].at = "prepare", ![s].retried = TRUE]
    BY <1>0, <2>1, <2>4 DEF Live, TaskRecord
  <2> QED
    BY <2>2, <2>3, <2>4
<1>3. CASE queue' = queue
  BY <1>1, <1>2, <1>3, QuietOnce DEF Loop
<1>4. CASE Decide(s) /\ queue' = push(queue, Deeper(tasks[s]))
  <2> DEFINE new == Deeper(tasks[s])
             w   == tasks[s].word
  <2>0. \A v \in Undecided : v \in 0..N
    BY DEF Undecided, Live, QueueInv, TypeOK, TaskRecord
  <2>1. new \in Job
    BY <1>0, DeeperIsJob
  <2>2. Child(ctx, w, new)
    BY <1>0 DEF Deeper, Child
  <2>3. ~Asked(queue, ctx, w)
    BY <1>0 DEF OnceInv, Undecided
  <2> HIDE DEF new, w
  <2>4. queue.pos \in 1 .. queue.pos /\ w \in 0..N
    BY <1>0 DEF Queues, w
  <2>5. OnceIn(queue') /\ ParentIn(queue')
    BY <1>0, <1>4, <2>1, <2>2, <2>3, <2>4, PushOnce DEF OnceInv, QueuedOnce, new
  <2>6. Live' = Live \ {s}
    BY <1>4 DEF End, Live, Free, QueueInv, TypeOK
  <2>7. \A v \in Undecided' : v \in Undecided /\ v # w
    <3>1. \A r \in Live' : tasks'[r].word # w
      BY <1>0, <1>2, <2>6 DEF OnceInv, w
    <3>2. main # "resetInput" /\ w <= Len(sent) /\ Len(sent) \in Nat
      BY <1>0 DEF OnceInv, w, QueueInv, TypeOK
    <3> QED
      BY <1>1, <1>2, <2>4, <3>1, <3>2 DEF Undecided
  <2>8. ASSUME NEW v \in Undecided', Asked(queue', ctx', v) PROVE FALSE
    <3>1. PICK i \in DOMAIN queue'.jobs : Child(ctx, v, queue'.jobs[i])
      BY <1>1, <2>8 DEF Asked
    <3>2. \/ queue'.jobs[i] = new
          \/ i \in DOMAIN queue.jobs /\ queue'.jobs[i] = queue.jobs[i]
      BY <1>0, <1>4, <2>1, PushKeeps DEF new
    <3>3. CASE queue'.jobs[i] = new
      <4>1. ctx \in Job /\ v \in 0..N
        BY <2>7, <2>0 DEF QueueInv, TypeOK
      <4> QED
        BY <2>1, <2>2, <2>4, <2>7, <3>1, <3>3, <4>1, OneParent
    <3>4. CASE i \in DOMAIN queue.jobs /\ queue'.jobs[i] = queue.jobs[i]
      BY <1>0, <2>7, <3>1, <3>4 DEF OnceInv, Asked
    <3> QED
      BY <3>2, <3>3, <3>4
  <2>9. \A r \in Live' : /\ main' # "resetInput" /\ tasks'[r].word <= Len(sent')
                         /\ \A t \in Live' : tasks'[t].word = tasks'[r].word => t = r
    BY <1>1, <1>2 DEF OnceInv
  <2> QED
    BY <2>5, <2>8, <2>9 DEF OnceInv, QueuedOnce
<1> QED
  BY <1>3, <1>4 DEF handle

LEMMA OnceStep ==
  ASSUME "restart" \notin Commands, QueueInv, QueueInv', OrderInv, OnceInv,
         [Next]_vars
  PROVE  OnceInv'
<1> USE DEF jobs, flags, inputs, others, hist
<1>1. CASE Progress \/ Interrupt \/ UNCHANGED vars
  BY <1>1, QuietOnce DEF Progress, ProgressTop, ProgressPassesGate,
     ProgressLooks, progressRest, Interrupt, vars, Live, Loop
<1>2. CASE console.at = "delete" /\ DeleteQueueItem
  <2>1. queue \in Queues(Job) /\ console.index \in Nat \ {0}
    BY <1>2 DEF QueueInv, TypeOK, Queues
  <2>2. queue' = removeAt(queue, console.index) /\ queue'.pos = queue.pos
    BY <1>2, <2>1 DEF DeleteQueueItem, removeAt, Queues
  <2>3. UNCHANGED <<main, ctx, tasks, sent>>
    BY <1>2 DEF DeleteQueueItem, consoleRest
  <2>4. OnceIn(queue')
    BY <2>1, <2>2, RemoveOnce DEF OnceInv, QueuedOnce
  <2>5. /\ queue' \in Queues(Job)
        /\ \A i \in 1 .. queue.pos : queue'.jobs[i] = queue.jobs[i]
        /\ \A i \in DOMAIN queue'.jobs :
             \E k \in DOMAIN queue.jobs : queue'.jobs[i] = queue.jobs[k]
    BY <2>1, <2>2, RemoveKeeps
  <2>6. Undecided' = Undecided /\ Live' = Live
    BY <2>3 DEF Undecided, Live
  <2> QED
    BY <2>2, <2>3, <2>4, <2>5, <2>6, FewerOnce
<1>3. CASE Console /\ ~DeleteQueueItem
  <2>1. UNCHANGED <<main, queue, ctx, tasks, sent>>
    BY <1>3 DEF Console, PauseCommand, ResumeCommand, SkipCommand,
       DeleteCommand, RestartCommand, ConsoleWork, RestartContinues,
       consoleRest, Type, OrderInv
  <2> QED
    BY <2>1, QuietOnce DEF Live, Loop
<1> QED
  BY <1>1, <1>2, <1>3, OnceMain, OnceTask DEF Next, Exited, DeleteQueueItem

(* Without the restart command an input of a job queues at most one job below
   it, however the requests of a job overlap, fail and are retried, and whatever
   the console deletes: no input is dispatched twice, runTask called again after
   an error decides once, and no sequence of inputs leads to two jobs
   (recursion.go:27-55, job.go:568-581).  After a restart it is false.  It does
   not say that the jobs have different URLs, which depends on the lists: nobody
   compares the URL that is pushed with those in the queue. *)
THEOREM OneJobPerInput ==
  ASSUME "restart" \notin Commands PROVE Spec => []QueuedOnce
<1>1. Init => OnceInv
  BY DEF Init, OnceInv, QueuedOnce, OnceIn, ParentIn, newJobQueue, Loop, Live, Free
<1>2. RunInv /\ RunInv' /\ OnceInv /\ [Next]_vars => OnceInv'
  BY OnceStep DEF RunInv
<1>3. OnceInv => QueuedOnce
  BY DEF OnceInv
<1> QED
  BY <1>1, <1>2, <1>3, RunInvInductive, PTL DEF Spec

-----------------------------------------------------------------------------
(* ... so there is an end to it. *)

\* What can lead to a job: up to RecursionDepth inputs, from a base job on.
Vias(depth) == {via \in Seq(0..N) : Len(via) <= depth}
Places == [via : Vias(RecursionDepth), req : 1..BaseJobs]

\* A set that holds 0 and the successors of its members holds every natural.
LEMMA SetInduction ==
  ASSUME NEW S, 0 \in S, \A n \in Nat : n \in S => n + 1 \in S
  PROVE  Nat \subseteq S
<1> SUFFICES ASSUME Nat \ S # {} PROVE FALSE
  OBVIOUS
<1>1. PICK x \in Nat \ S : \A y \in Nat \ S : ~(<<y, x>> \in OpToRel(<, Nat))
  BY WFMin, NatLessThanWellFounded
<1>2. \A y \in Nat \ S : ~(y < x)
  BY <1>1 DEF OpToRel
<1>3. x - 1 \in Nat /\ x - 1 < x /\ (x - 1) + 1 = x
  BY x # 0
<1> QED
  BY <1>2, <1>3

LEMMA ViasFinite == \A d \in Nat : IsFiniteSet(Vias(d))
<1> DEFINE Q == {d \in Nat : IsFiniteSet(Vias(d))}
<1>0. N \in Nat /\ IsFiniteSet(0..N)
  BY EngineAssumption, FS_Interval
<1>1. 0 \in Q
  <2>1. Vias(0) \subseteq {<<>>}
    BY DEF Vias
  <2> QED
    BY <2>1, FS_Singleton, FS_Subset
<1>2. ASSUME NEW d \in Nat, d \in Q PROVE d + 1 \in Q
  <2> DEFINE P == Vias(d) \X (0..N)
             f == [p \in P |-> Append(p[1], p[2])]
             T == {f[p] : p \in P}
  <2>1. IsFiniteSet(P)
    BY <1>0, <1>2, FS_Product
  <2>2. f \in Surjection(P, T)
    BY DEF Surjection
  <2>3. IsFiniteSet(T)
    BY <2>1, <2>2, FS_Surjection
  <2>4. IsFiniteSet({<<>>} \cup T)
    <3>1. IsFiniteSet({<<>>})
      BY FS_Singleton
    <3> HIDE DEF T
    <3> QED
      BY <2>3, <3>1, FS_Union
  <2>5. ASSUME NEW via \in Vias(d + 1), via # <<>> PROVE via \in T
    <3>1. via \in Seq(0..N) /\ Len(via) <= d + 1
      BY DEF Vias
    <3>2. PICK s \in Seq(0..N), w \in 0..N : via = Append(s, w)
      BY <2>5, <3>1, SequenceEmptyOrAppend
    <3>3. Len(s) <= d
      BY <3>1, <3>2
    <3>4. <<s, w>> \in P
      BY <3>3 DEF Vias
    <3>5. f[<<s, w>>] = via
      BY <3>2, <3>4
    <3> QED
      BY <3>4, <3>5
  <2>6. Vias(d + 1) \in SUBSET ({<<>>} \cup T)
    BY <2>5
  <2> HIDE DEF T
  <2>7. IsFiniteSet(Vias(d + 1))
    BY <2>4, <2>6, FS_Subset
  <2> QED
    BY <1>2, <2>7
<1>3. Nat \subseteq Q
  <2> HIDE DEF Q
  <2> QED
    BY <1>1, <1>2, SetInduction
<1> QED
  BY <1>3

LEMMA PlacesFinite == IsFiniteSet(Places)
<1> DEFINE U == Vias(RecursionDepth)
           P == U \X (1..BaseJobs)
           f == [p \in P |-> [via |-> p[1], req |-> p[2]]]
<1>1. IsFiniteSet(U) /\ IsFiniteSet(1..BaseJobs)
  BY ViasFinite, FS_Interval, EngineAssumption
<1>2. IsFiniteSet(P)
  <2> HIDE DEF U
  <2> QED
    BY <1>1, FS_Product
<1>3. f \in Surjection(P, Places)
  <2>1. f \in [P -> Places]
    BY DEF Places
  <2>2. ASSUME NEW place \in Places PROVE \E p \in P : f[p] = place
    <3>1. /\ place.via \in U /\ place.req \in 1..BaseJobs
          /\ place = [via |-> place.via, req |-> place.req]
      BY DEF Places
    <3> HIDE DEF U
    <3>2. <<place.via, place.req>> \in P /\ f[<<place.via, place.req>>] = place
      BY <3>1
    <3> QED
      BY <3>2
  <2> QED
    BY <2>1, <2>2 DEF Surjection
<1> QED
  BY <1>2, <1>3, FS_Surjection

(* At most one job for each place, deleted ones aside. *)
QueueBounded == Len(queue.jobs) <= Cardinality(Places)

LEMMA OnceBounds ==
  ASSUME QueueInv, DepthBounded, QueuedOnce PROVE QueueBounded
<1> DEFINE n == Len(queue.jobs)
           f == [i \in 1..n |-> [via |-> queue.jobs[i].via,
                                 req |-> queue.jobs[i].req]]
<1>0. queue.jobs \in Seq(Job) /\ n \in Nat /\ DOMAIN queue.jobs = 1..n
  BY DEF QueueInv, TypeOK
<1>1. ASSUME NEW i \in 1..n
      PROVE  queue.jobs[i].via \in Vias(RecursionDepth)
             /\ queue.jobs[i].req \in 1..BaseJobs
  <2>1. queue.jobs[i] \in Job
    BY <1>0
  <2> QED
    BY <1>0, <2>1 DEF DepthBounded, Job, Vias
<1>2. f \in [1..n -> Places]
  BY <1>1 DEF Places
<1>3. ASSUME NEW i \in 1..n, NEW k \in 1..n, f[i] = f[k] PROVE i = k
  BY <1>0, <1>3 DEF QueuedOnce, OnceIn, Same
<1>4. f \in Injection(1..n, Places)
  <2> HIDE DEF f
  <2> QED
    BY <1>2, <1>3 DEF Injection, IsInjective
<1>5. Cardinality(1..n) <= Cardinality(Places)
  BY <1>4, PlacesFinite, FS_Injection
<1>6. Cardinality(1..n) = n
  <2>1. 1 \in Int /\ n \in Int
    BY <1>0
  <2> QED
    BY <1>0, <2>1, FS_Interval
<1> QED
  BY <1>5, <1>6 DEF QueueBounded

(* With a depth limit recursion comes to an end: finitely many sequences of
   inputs are within it, and at most one job is queued for each. *)
THEOREM RecursionEnds ==
  ASSUME "restart" \notin Commands
  PROVE  IsFiniteSet(Places) /\ (Spec => []QueueBounded)
<1>1. QueueInv /\ DepthBounded /\ QueuedOnce => QueueBounded
  BY OnceBounds
<1>2. Spec => []QueueInv
  BY QueueInit, QueueStep, PTL DEF Spec
<1>3. Spec => []QueueBounded
  BY <1>1, <1>2, Depth, OneJobPerInput, PTL
<1> QED
  BY <1>3, PlacesFinite
=============================================================================
