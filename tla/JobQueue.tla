------------------------------ MODULE JobQueue ------------------------------
(***************************************************************************)
(* The job queue of pkg/engine/jobqueue.go: every job ever queued, in      *)
(* order, and the number of jobs already taken.  Each operator is one      *)
(* method, which runs under the queue's mutex.                             *)
(***************************************************************************)
EXTENDS Naturals, Sequences

newJobQueue == [jobs |-> <<>>, pos |-> 0]

push(q, job) == [q EXCEPT !.jobs = Append(@, job)]

\* Faulty: the last job does not count.
hasNextButLast(q) == q.pos + 1 < Len(q.jobs)

hasNext(q) == q.pos < Len(q.jobs)

\* advance indexes the slice without a check of its own.
advanceInRange(q) == q.pos + 1 \in DOMAIN q.jobs
advance(q) == [q EXCEPT !.pos = @ + 1]

\* The job advance returned last: the active one.
active(q) == q.jobs[q.pos]

\* The active job and the ones behind it; nothing before the first advance.
remaining(q) == IF q.pos = 0 \/ q.pos > Len(q.jobs) + 1 THEN <<>>
                ELSE SubSeq(q.jobs, q.pos, Len(q.jobs))

\* Offset 1 is the job behind the active one.
removable(q, offset) == q.pos + offset \in DOMAIN q.jobs

without(s, i) == SubSeq(s, 1, i - 1) \o SubSeq(s, i + 1, Len(s))

\* Faulty: the offset counted from 0.
removeAtFromZero(q, offset) ==
  [q EXCEPT !.jobs = without(@, q.pos + offset - 1)]

removeAt(q, offset) ==
  IF removable(q, offset) THEN [q EXCEPT !.jobs = without(@, q.pos + offset)]
  ELSE q
=============================================================================
