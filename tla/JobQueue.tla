------------------------------- MODULE JobQueue -------------------------------
(***************************************************************************)
(* The scheduler, the two RQ queues and their workers (systems/scheduler.py,*)
(* systems/queue.py, systems/rqworker.py).  Time is counted in polls of the *)
(* scheduler (POLL_INTERVAL_SECONDS).  What a job does to the database      *)
(* belongs to the module that uses this one.                                *)
(***************************************************************************)
EXTENDS Integers, Sequences, FiniteSets

CONSTANTS
  Table,        \* the scheduler's tasks, in order
  Interval,     \* polls between two runs of a task
  QueueOf,      \* the queue a task's jobs go to
  Wanted,       \* the task that API requests enqueue as well
  Clients,      \* threads of the API
  Scheduler,    \* the scheduler process
  None,
  MaxFaults     \* bound on deaths, lost replies and Redis outages

Tasks == {Table[i] : i \in DOMAIN Table}
Queues == {QueueOf[t] : t \in Tasks}

ASSUME JobsAssumption ==
  /\ Table \in Seq(Tasks) /\ Wanted \in Tasks
  /\ \A i, j \in DOMAIN Table : Table[i] = Table[j] => i = j
  /\ Interval \in [Tasks -> Nat \ {0}]
  /\ IsFiniteSet(Clients) /\ Scheduler \notin Clients
  /\ None \notin Tasks
  /\ MaxFaults \in Nat

VARIABLES
  at,           \* place of the scheduler in Table; past its end, it sleeps
  elapsed,      \* polls since last_run, no more than Interval; never run: due
  counted,      \* who found no job of its task waiting, and is about to push
  queue,        \* jobs waiting, by queue
  running,      \* the job each queue's worker runs, or None
  redis,        \* whether Redis answers
  faults        \* faults so far

jobsVars == <<at, elapsed, counted, queue, running, redis, faults>>

JobsTypeOK ==
  /\ at \in 1..Len(Table) + 1
  /\ elapsed \in [Tasks -> Nat]
  /\ \A t \in Tasks : elapsed[t] <= Interval[t]
  /\ counted \subseteq Clients \cup {Scheduler}
  /\ queue \in [Queues -> Seq(Tasks)]
  /\ running \in [Queues -> Tasks \cup {None}]
  /\ redis \in BOOLEAN
  /\ faults \in 0..MaxFaults

JobsInit ==
  /\ at = 1
  /\ elapsed = Interval
  /\ counted = {}
  /\ queue = [q \in Queues |-> <<>>]
  /\ running = [q \in Queues |-> None]
  /\ redis = TRUE
  /\ faults = 0

Fault == faults < MaxFaults /\ faults' = faults + 1
-----------------------------------------------------------------------------
(***************************************************************************)
(* An enqueue helper: look for a waiting job of the task, then push one,   *)
(* each a round trip to Redis.  The embedding queue carries one task only, *)
(* so its queue.count asks the same as _already_queued.  A running job is  *)
(* not looked at.                                                          *)
(***************************************************************************)
Waiting(t) == Cardinality({i \in DOMAIN queue[QueueOf[t]] : queue[QueueOf[t]][i] = t})

\* Mutant: nobody looks at what waits.
CountBlindly(e, t) ==
  /\ redis /\ e \notin counted
  /\ counted' = counted \cup {e}
  /\ UNCHANGED queue

Count(e, t) ==
  /\ redis /\ e \notin counted
  /\ Waiting(t) = 0
  /\ counted' = counted \cup {e}
  /\ UNCHANGED queue

AlreadyQueued(e, t) ==
  /\ redis /\ e \notin counted
  /\ Waiting(t) > 0
  /\ UNCHANGED <<counted, queue>>

Push(e, t) ==
  /\ redis /\ e \in counted
  /\ queue' = [queue EXCEPT ![QueueOf[t]] = Append(@, t)]
  /\ counted' = counted \ {e}

\* Redis is down, or the reply to the push is lost after it took effect.
Raises(e, t) ==
  \/ ~redis /\ counted' = counted \ {e} /\ UNCHANGED <<queue, faults>>
  \/ Push(e, t) /\ Fault
-----------------------------------------------------------------------------
(***************************************************************************)
(* The scheduler.                                                          *)
(***************************************************************************)
Current == Table[at]
Polling == at <= Len(Table)
Due(t) == elapsed[t] = Interval[t]

SkipUndue ==
  /\ Polling /\ ~Due(Current)
  /\ at' = at + 1
  /\ UNCHANGED <<elapsed, counted, queue, running, redis, faults>>

SchedulerCounts ==
  /\ Polling /\ Due(Current)
  /\ Count(Scheduler, Current)
  /\ UNCHANGED <<at, elapsed, running, redis, faults>>

\* A job that waits already counts as a run, too.
SchedulerEnqueues ==
  /\ Polling /\ Due(Current)
  /\ Push(Scheduler, Current) \/ AlreadyQueued(Scheduler, Current)
  /\ elapsed' = [elapsed EXCEPT ![Current] = 0]
  /\ at' = at + 1
  /\ UNCHANGED <<running, redis, faults>>

\* Mutant: last_run moves although the enqueue raised.
EnqueueRaisesForgetting ==
  /\ Polling /\ Due(Current)
  /\ Raises(Scheduler, Current)
  /\ elapsed' = [elapsed EXCEPT ![Current] = 0]
  /\ at' = at + 1
  /\ UNCHANGED <<running, redis>>

\* last_run stays, so the next poll tries again; the other tasks go on.
EnqueueRaises ==
  /\ Polling /\ Due(Current)
  /\ Raises(Scheduler, Current)
  /\ at' = at + 1
  /\ UNCHANGED <<elapsed, running, redis>>

Sleep ==
  /\ ~Polling
  /\ at' = 1
  /\ elapsed' = [t \in Tasks |-> IF Due(t) THEN elapsed[t] ELSE elapsed[t] + 1]
  /\ UNCHANGED <<counted, queue, running, redis, faults>>

\* last_run lives in the process: after a restart every task is due.
SchedulerDies ==
  /\ Fault
  /\ at' = 1 /\ elapsed' = Interval /\ counted' = counted \ {Scheduler}
  /\ UNCHANGED <<queue, running, redis>>

SchedulerStep ==
  SkipUndue \/ SchedulerCounts \/ SchedulerEnqueues \/ EnqueueRaises \/ Sleep
-----------------------------------------------------------------------------
(***************************************************************************)
(* API requests that ask for Wanted.                                       *)
(***************************************************************************)
ClientCounts(c) ==
  /\ Count(c, Wanted)
  /\ UNCHANGED <<at, elapsed, running, redis, faults>>

\* Enqueued, or left to the job that waits already.
ClientEnqueues(c) ==
  /\ Push(c, Wanted) \/ AlreadyQueued(c, Wanted)
  /\ UNCHANGED <<at, elapsed, running, redis, faults>>

ClientRaises(c) ==
  /\ Raises(c, Wanted)
  /\ UNCHANGED <<at, elapsed, running, redis>>

ClientDies(c) ==
  /\ Fault
  /\ counted' = counted \ {c}
  /\ UNCHANGED <<at, elapsed, queue, running, redis>>
-----------------------------------------------------------------------------
(***************************************************************************)
(* Workers and Redis.  One worker serves each queue, in order.  The job of *)
(* a worker that dies, and one that raises or times out, is not run again. *)
(***************************************************************************)
\* Mutant: the embedding worker listens to a queue nobody publishes to.
StartOnOldName(q) ==
  /\ q # QueueOf[Wanted]
  /\ redis /\ running[q] = None /\ queue[q] # <<>>
  /\ running' = [running EXCEPT ![q] = Head(queue[q])]
  /\ queue' = [queue EXCEPT ![q] = Tail(@)]
  /\ UNCHANGED <<at, elapsed, counted, redis, faults>>

Start(q) ==
  /\ redis /\ running[q] = None /\ queue[q] # <<>>
  /\ running' = [running EXCEPT ![q] = Head(queue[q])]
  /\ queue' = [queue EXCEPT ![q] = Tail(@)]
  /\ UNCHANGED <<at, elapsed, counted, redis, faults>>

Finish(q) ==
  /\ running[q] # None
  /\ running' = [running EXCEPT ![q] = None]
  /\ UNCHANGED <<at, elapsed, counted, queue, redis, faults>>

JobDies(q) ==
  /\ Fault
  /\ running[q] # None
  /\ running' = [running EXCEPT ![q] = None]
  /\ UNCHANGED <<at, elapsed, counted, queue, redis>>

RedisFails ==
  /\ Fault
  /\ redis /\ redis' = FALSE
  /\ UNCHANGED <<at, elapsed, counted, queue, running>>

\* Back with what it had saved, or with nothing.
RedisReturns ==
  /\ ~redis /\ redis' = TRUE
  /\ queue' \in {queue, [q \in Queues |-> <<>>]}
  /\ UNCHANGED <<at, elapsed, counted, running, faults>>

JobsNext ==
  \/ SchedulerStep \/ SchedulerDies \/ RedisFails \/ RedisReturns
  \/ \E c \in Clients :
       ClientCounts(c) \/ ClientEnqueues(c) \/ ClientRaises(c) \/ ClientDies(c)
  \/ \E q \in Queues : Start(q) \/ Finish(q) \/ JobDies(q)

JobsSpec == JobsInit /\ [][JobsNext]_jobsVars
-----------------------------------------------------------------------------
(***************************************************************************)
(* Properties.                                                             *)
(***************************************************************************)
Enqueuers(t) == {Scheduler} \cup (IF t = Wanted THEN Clients ELSE {})

\* "unless one is already waiting": looking and pushing are two steps, so a
\* task has as many jobs waiting as it has enqueuers, at worst; a task only
\* the scheduler enqueues has one.
JobsDoNotPileUp == \A t \in Tasks : Waiting(t) <= Cardinality(Enqueuers(t))

\* A task's interval starts again only while a job of the task is waiting, so
\* that no run is written off for an enqueue that failed.
RunIsBackedByAJob ==
  [][\A t \in Tasks : elapsed'[t] < elapsed[t] => Waiting(t)' > 0]_jobsVars

\* The scheduler isolates its tasks: whatever failed and died before, each of
\* them gets to run again and again.
TasksKeepRunning == \A t \in Tasks : []<>(running[QueueOf[t]] = t)

=============================================================================
