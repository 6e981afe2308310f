---------------------------- MODULE JobQueueProofs ----------------------------
(***************************************************************************)
(* How far jobs pile up, proved for every table of tasks, every number of  *)
(* API threads and every fault.                                            *)
(*                                                                         *)
(* Whoever has counted and not pushed yet is asking for a job.  The jobs   *)
(* of a task that wait and those being asked for never outnumber the       *)
(* processes that enqueue the task: a push turns one into the other, and   *)
(* who starts to ask saw nothing waiting.                                  *)
(***************************************************************************)
EXTENDS JobQueue, FiniteSetTheorems, SequenceTheorems, TLAPS

Places(s, t) == {i \in DOMAIN s : s[i] = t}

Asking(t) ==
  {e \in counted : IF e = Scheduler THEN Polling /\ Current = t ELSE t = Wanted}

\* Between the count and the push the scheduler stays with its task.
SchedulerAsksInTurn == Scheduler \in counted => Polling /\ Due(Current)

PileInv ==
  \A t \in Tasks : Waiting(t) + Cardinality(Asking(t)) <= Cardinality(Enqueuers(t))

\* Jobs are on their own queue and with their own worker.
Routed ==
  \A q \in Queues :
    /\ \A i \in DOMAIN queue[q] : QueueOf[queue[q][i]] = q
    /\ running[q] # None => QueueOf[running[q]] = q

JobsInv == JobsTypeOK /\ Routed /\ SchedulerAsksInTurn /\ PileInv
-----------------------------------------------------------------------------
\* A subset of a finite set is finite and has at most as many members.
LEMMA SubsetSize ==
  ASSUME NEW S, IsFiniteSet(S), NEW R \in SUBSET S
  PROVE  /\ IsFiniteSet(R) /\ Cardinality(R) \in Nat
         /\ Cardinality(S) \in Nat /\ Cardinality(R) <= Cardinality(S)
BY FS_Subset, FS_CardinalityType

\* The places of an element in a sequence are finitely many.
LEMMA PlacesFinite ==
  ASSUME NEW S, NEW s \in Seq(S), NEW t
  PROVE  IsFiniteSet(Places(s, t)) /\ Cardinality(Places(s, t)) \in Nat
<1>1. IsFiniteSet(1..Len(s))
  BY FS_Interval, LenProperties
<1>2. Places(s, t) \in SUBSET (1..Len(s))
  BY LenProperties DEF Places
<1> QED BY <1>1, <1>2, SubsetSize

\* Appending an element adds a place of it, and none of any other.
LEMMA AppendPlaces ==
  ASSUME NEW S, NEW s \in Seq(S), NEW u \in S, NEW t
  PROVE  Cardinality(Places(Append(s, u), t)) =
           Cardinality(Places(s, t)) + (IF u = t THEN 1 ELSE 0)
<1> DEFINE n == Len(s) + 1
<1>1. /\ Len(s) \in Nat /\ DOMAIN s = 1..Len(s)
      /\ DOMAIN Append(s, u) = 1..n
      /\ \A i \in 1..Len(s) : Append(s, u)[i] = s[i]
      /\ Append(s, u)[n] = u
  BY AppendProperties, LenProperties
<1>2. n \notin Places(s, t)
  BY <1>1 DEF Places
<1>3. CASE u = t
  <2>1. Places(Append(s, u), t) = Places(s, t) \cup {n}
    BY <1>1, <1>3 DEF Places
  <2> QED BY <2>1, <1>2, <1>3, PlacesFinite, FS_AddElement
<1>4. CASE u # t
  <2>1. Places(Append(s, u), t) = Places(s, t)
    BY <1>1, <1>4 DEF Places
  <2> QED BY <2>1, <1>4, PlacesFinite
<1> QED BY <1>3, <1>4

\* Taking the head adds no place of any element.
LEMMA TailPlaces ==
  ASSUME NEW S, NEW s \in Seq(S), s # <<>>, NEW t
  PROVE  Cardinality(Places(Tail(s), t)) <= Cardinality(Places(s, t))
<1>1. /\ Len(s) \in Nat /\ DOMAIN s = 1..Len(s)
      /\ Tail(s) \in Seq(S) /\ Len(Tail(s)) = Len(s) - 1
      /\ DOMAIN Tail(s) = 1..(Len(s) - 1)
      /\ \A i \in 1..(Len(s) - 1) : Tail(s)[i] = s[i + 1]
  BY HeadTailProperties, LenProperties
<1> DEFINE f == [i \in Places(Tail(s), t) |-> i + 1]
<1>2. \A i \in Places(Tail(s), t) : i \in Int /\ i + 1 \in Places(s, t)
  BY <1>1 DEF Places
<1>3. f \in Injection(Places(Tail(s), t), Places(s, t))
  <2>1. f \in [Places(Tail(s), t) -> Places(s, t)]
    BY <1>2
  <2>2. \A a, b \in Places(Tail(s), t) : f[a] = f[b] => a = b
    BY <1>2
  <2> QED BY <2>1, <2>2 DEF Injection, IsInjective
<1> QED BY <1>3, PlacesFinite, FS_Injection

\* The tasks and queues of the table.
LEMMA TableFacts ==
  /\ Len(Table) \in Nat /\ DOMAIN Table = 1..Len(Table)
  /\ \A i \in 1..Len(Table) : Table[i] \in Tasks
  /\ Wanted \in Tasks
  /\ \A t \in Tasks : QueueOf[t] \in Queues /\ Interval[t] \in Nat \ {0}
  /\ DOMAIN Interval = Tasks
BY JobsAssumption, LenProperties DEF Tasks, Queues

LEMMA CurrentIsATask ==
  ASSUME JobsTypeOK, Polling
  PROVE  Current \in Tasks /\ at + 1 \in 1..Len(Table) + 1
<1> DEFINE n == Len(Table)
<1>1. n \in Nat /\ at \in 1..n + 1 /\ at <= n
  BY TableFacts DEF JobsTypeOK, Polling
<1>2. at \in 1..n /\ at + 1 \in 1..n + 1
  <2> HIDE DEF n
  <2> QED BY <1>1
<1> QED BY <1>2, TableFacts DEF Current
-----------------------------------------------------------------------------
(***************************************************************************)
(* Types and routes.                                                       *)
(***************************************************************************)

\* Pushing and taking keep the queues well typed and every job on its queue.
LEMMA PushTyped ==
  ASSUME JobsTypeOK, Routed, NEW e, NEW t \in Tasks, Push(e, t)
  PROVE  /\ queue' \in [Queues -> Seq(Tasks)]
         /\ counted' \subseteq Clients \cup {Scheduler}
         /\ \A q \in Queues : \A i \in DOMAIN queue'[q] : QueueOf[queue'[q][i]] = q
<1>1. Append(queue[QueueOf[t]], t) \in Seq(Tasks)
  BY TableFacts, AppendProperties DEF JobsTypeOK
<1>2. queue' = [queue EXCEPT ![QueueOf[t]] = Append(queue[QueueOf[t]], t)]
  BY DEF Push
<1>3. queue' \in [Queues -> Seq(Tasks)]
  BY <1>1, <1>2 DEF JobsTypeOK
<1>4. ASSUME NEW q \in Queues, NEW i \in DOMAIN queue'[q]
      PROVE  QueueOf[queue'[q][i]] = q
  <2>1. CASE q = QueueOf[t]
    <3>1. queue'[q] = Append(queue[q], t)
      BY <1>2, <2>1 DEF JobsTypeOK
    <3>2. queue[q] \in Seq(Tasks)
      BY DEF JobsTypeOK
    <3>3. /\ Len(queue[q]) \in Nat /\ i \in 1..Len(queue[q]) + 1
          /\ DOMAIN queue[q] = 1..Len(queue[q])
          /\ \A j \in 1..Len(queue[q]) : queue'[q][j] = queue[q][j]
          /\ queue'[q][Len(queue[q]) + 1] = t
      BY <3>1, <3>2, <1>4, AppendProperties, LenProperties
    <3> QED BY <3>3, <2>1 DEF Routed
  <2>2. CASE q # QueueOf[t]
    BY <1>2, <1>4, <2>2 DEF JobsTypeOK, Routed
  <2> QED BY <2>1, <2>2
<1>5. counted' \subseteq Clients \cup {Scheduler}
  BY DEF Push, JobsTypeOK
<1> QED BY <1>3, <1>4, <1>5

\* What a worker takes is a task of its own queue.
LEMMA StartTyped ==
  ASSUME JobsTypeOK, Routed, NEW q \in Queues, Start(q)
  PROVE  /\ queue' \in [Queues -> Seq(Tasks)]
         /\ running' \in [Queues -> Tasks \cup {None}]
         /\ Head(queue[q]) \in Tasks
         /\ Routed'
<1>1. queue[q] \in Seq(Tasks) /\ queue[q] # <<>>
  BY DEF Start, JobsTypeOK
<1>2. /\ Len(queue[q]) \in Nat \ {0} /\ DOMAIN queue[q] = 1..Len(queue[q])
      /\ Head(queue[q]) \in Tasks /\ Tail(queue[q]) \in Seq(Tasks)
      /\ DOMAIN Tail(queue[q]) = 1..(Len(queue[q]) - 1)
      /\ \A i \in 1..(Len(queue[q]) - 1) : Tail(queue[q])[i] = queue[q][i + 1]
  BY <1>1, HeadTailProperties, LenProperties, EmptySeq
<1>3. Head(queue[q]) = queue[q][1]
  BY <1>1
<1>4. /\ queue' = [queue EXCEPT ![q] = Tail(queue[q])]
      /\ running' = [running EXCEPT ![q] = Head(queue[q])]
  BY DEF Start
<1>5. queue' \in [Queues -> Seq(Tasks)] /\ running' \in [Queues -> Tasks \cup {None}]
  BY <1>2, <1>4 DEF JobsTypeOK
<1>6. QueueOf[Head(queue[q])] = q
  BY <1>2, <1>3 DEF Routed
<1>7. ASSUME NEW r \in Queues
      PROVE  /\ \A i \in DOMAIN queue'[r] : QueueOf[queue'[r][i]] = r
             /\ running'[r] # None => QueueOf[running'[r]] = r
  <2>1. CASE r = q
    <3>1. queue'[r] = Tail(queue[q]) /\ running'[r] = Head(queue[q])
      BY <1>4, <2>1 DEF JobsTypeOK
    <3>2. \A i \in 1..(Len(queue[q]) - 1) : i + 1 \in DOMAIN queue[q]
      BY <1>2
    <3> QED BY <3>1, <3>2, <1>2, <1>6, <2>1 DEF Routed
  <2>2. CASE r # q
    BY <1>4, <2>2 DEF JobsTypeOK, Routed
  <2> QED BY <2>1, <2>2
<1> QED BY <1>2, <1>5, <1>7 DEF Routed

\* The queues of a Redis that lost them.
LEMMA EmptyQueues ==
  /\ [q \in Queues |-> <<>>] \in [Queues -> Seq(Tasks)]
  /\ \A q \in Queues : DOMAIN [r \in Queues |-> <<>>][q] = {}
<1>1. <<>> \in Seq(Tasks) /\ Len(<<>>) = 0
  BY EmptySeq
<1>2. DOMAIN <<>> = {}
  BY <1>1, LenProperties
<1> QED BY <1>1, <1>2

LEMMA FaultTyped ==
  ASSUME JobsTypeOK, Fault
  PROVE  faults' \in 0..MaxFaults
BY JobsAssumption DEF JobsTypeOK, Fault

LEMMA TypeStep ==
  ASSUME JobsTypeOK, Routed, [JobsNext]_jobsVars
  PROVE  JobsTypeOK' /\ Routed'
<1> USE TableFacts
<1>1. CASE UNCHANGED jobsVars
  BY <1>1 DEF jobsVars, JobsTypeOK, Routed
<1>2. CASE SkipUndue
  BY <1>2, CurrentIsATask DEF SkipUndue, JobsTypeOK, Routed
<1>3. CASE SchedulerCounts
  BY <1>3 DEF SchedulerCounts, Count, JobsTypeOK, Routed
<1>4. CASE SchedulerEnqueues
  <2>1. Current \in Tasks /\ at + 1 \in 1..Len(Table) + 1
    BY <1>4, CurrentIsATask DEF SchedulerEnqueues
  <2>2. /\ queue' \in [Queues -> Seq(Tasks)]
        /\ counted' \subseteq Clients \cup {Scheduler}
        /\ \A q \in Queues : \A i \in DOMAIN queue'[q] : QueueOf[queue'[q][i]] = q
    <3>1. CASE Push(Scheduler, Current)
      BY <2>1, <3>1, PushTyped
    <3>2. CASE AlreadyQueued(Scheduler, Current)
      BY <3>2 DEF AlreadyQueued, JobsTypeOK, Routed
    <3> QED BY <1>4, <3>1, <3>2 DEF SchedulerEnqueues
  <2> QED BY <1>4, <2>1, <2>2 DEF SchedulerEnqueues, JobsTypeOK, Routed
<1>5. CASE EnqueueRaises
  <2>1. Current \in Tasks /\ at + 1 \in 1..Len(Table) + 1
    BY <1>5, CurrentIsATask DEF EnqueueRaises
  <2>2. /\ queue' \in [Queues -> Seq(Tasks)]
        /\ counted' \subseteq Clients \cup {Scheduler}
        /\ \A q \in Queues : \A i \in DOMAIN queue'[q] : QueueOf[queue'[q][i]] = q
        /\ faults' \in 0..MaxFaults
    <3>1. CASE Push(Scheduler, Current) /\ Fault
      BY <2>1, <3>1, PushTyped, JobsAssumption DEF Fault, JobsTypeOK
    <3>2. CASE counted' = counted \ {Scheduler} /\ UNCHANGED <<queue, faults>>
      BY <3>2 DEF JobsTypeOK, Routed
    <3> QED BY <1>5, <3>1, <3>2 DEF EnqueueRaises, Raises
  <2> QED BY <1>5, <2>1, <2>2 DEF EnqueueRaises, JobsTypeOK, Routed
<1>6. CASE Sleep
  BY <1>6 DEF Sleep, Due, JobsTypeOK, Routed
<1>7. CASE SchedulerDies
  BY <1>7, JobsAssumption DEF SchedulerDies, Fault, JobsTypeOK, Routed
<1>8. CASE RedisFails
  <2>1. faults' \in 0..MaxFaults
    BY <1>8, FaultTyped DEF RedisFails
  <2> QED BY <1>8, <2>1 DEF RedisFails, JobsTypeOK, Routed
<1>9. CASE RedisReturns
  <2>1. /\ queue' \in [Queues -> Seq(Tasks)]
        /\ \A q \in Queues : \A i \in DOMAIN queue'[q] : QueueOf[queue'[q][i]] = q
    <3>1. CASE queue' = queue
      BY <3>1 DEF JobsTypeOK, Routed
    <3>2. CASE queue' = [q \in Queues |-> <<>>]
      BY <3>2, EmptyQueues
    <3> QED BY <1>9, <3>1, <3>2 DEF RedisReturns
  <2> QED BY <1>9, <2>1 DEF RedisReturns, JobsTypeOK, Routed
<1>10. ASSUME NEW c \in Clients, ClientCounts(c)
       PROVE  JobsTypeOK' /\ Routed'
  BY <1>10 DEF ClientCounts, Count, JobsTypeOK, Routed
<1>11. ASSUME NEW c \in Clients, ClientEnqueues(c)
       PROVE  JobsTypeOK' /\ Routed'
  <2>1. /\ queue' \in [Queues -> Seq(Tasks)]
        /\ counted' \subseteq Clients \cup {Scheduler}
        /\ \A q \in Queues : \A i \in DOMAIN queue'[q] : QueueOf[queue'[q][i]] = q
    <3>1. CASE Push(c, Wanted)
      BY <3>1, PushTyped
    <3>2. CASE AlreadyQueued(c, Wanted)
      BY <3>2 DEF AlreadyQueued, JobsTypeOK, Routed
    <3> QED BY <1>11, <3>1, <3>2 DEF ClientEnqueues
  <2> QED BY <1>11, <2>1 DEF ClientEnqueues, JobsTypeOK, Routed
<1>12. ASSUME NEW c \in Clients, ClientRaises(c)
       PROVE  JobsTypeOK' /\ Routed'
  <2>1. /\ queue' \in [Queues -> Seq(Tasks)]
        /\ counted' \subseteq Clients \cup {Scheduler}
        /\ \A q \in Queues : \A i \in DOMAIN queue'[q] : QueueOf[queue'[q][i]] = q
        /\ faults' \in 0..MaxFaults
    <3>1. CASE Push(c, Wanted) /\ Fault
      BY <3>1, PushTyped, JobsAssumption DEF Fault, JobsTypeOK
    <3>2. CASE counted' = counted \ {c} /\ UNCHANGED <<queue, faults>>
      BY <3>2 DEF JobsTypeOK, Routed
    <3> QED BY <1>12, <3>1, <3>2 DEF ClientRaises, Raises
  <2> QED BY <1>12, <2>1 DEF ClientRaises, JobsTypeOK, Routed
<1>13. ASSUME NEW c \in Clients, ClientDies(c)
       PROVE  JobsTypeOK' /\ Routed'
  BY <1>13, JobsAssumption DEF ClientDies, Fault, JobsTypeOK, Routed
<1>14. ASSUME NEW q \in Queues, Start(q)
       PROVE  JobsTypeOK' /\ Routed'
  <2>1. /\ queue' \in [Queues -> Seq(Tasks)]
        /\ running' \in [Queues -> Tasks \cup {None}] /\ Routed'
    BY <1>14, StartTyped
  <2> QED BY <1>14, <2>1 DEF Start, JobsTypeOK
<1>15. ASSUME NEW q \in Queues, Finish(q) \/ JobDies(q)
       PROVE  JobsTypeOK' /\ Routed'
  <2>1. faults' \in 0..MaxFaults
    <3>1. CASE Finish(q)
      BY <3>1 DEF Finish, JobsTypeOK
    <3>2. CASE JobDies(q)
      BY <3>2, FaultTyped DEF JobDies
    <3> QED BY <1>15, <3>1, <3>2
  <2>2. /\ running' = [running EXCEPT ![q] = None]
        /\ UNCHANGED <<at, elapsed, counted, queue, redis>>
    BY <1>15 DEF Finish, JobDies
  <2>3. JobsTypeOK'
    BY <2>1, <2>2 DEF JobsTypeOK
  <2>4. Routed'
    BY <2>2 DEF JobsTypeOK, Routed
  <2> QED BY <2>3, <2>4
<1> QED
  BY <1>1, <1>2, <1>3, <1>4, <1>5, <1>6, <1>7, <1>8, <1>9, <1>10, <1>11, <1>12,
     <1>13, <1>14, <1>15
  DEF JobsNext, SchedulerStep

LEMMA TypeInit == JobsInit => JobsTypeOK /\ Routed
<1> SUFFICES ASSUME JobsInit PROVE JobsTypeOK /\ Routed
  OBVIOUS
<1>1. queue \in [Queues -> Seq(Tasks)] /\ \A q \in Queues : DOMAIN queue[q] = {}
  BY EmptyQueues DEF JobsInit
<1> QED BY <1>1, TableFacts, JobsAssumption DEF JobsInit, JobsTypeOK, Routed

\* The scheduler, the queues and the workers stay well formed under every
\* interleaving and every fault (JobsTypeOK), and no job strays.
THEOREM JobsTypeCorrect == JobsSpec => [](JobsTypeOK /\ Routed)
<1>1. JobsTypeOK /\ Routed /\ [JobsNext]_jobsVars => (JobsTypeOK /\ Routed)'
  BY TypeStep
<1> QED BY <1>1, TypeInit, PTL DEF JobsSpec

-----------------------------------------------------------------------------
(***************************************************************************)
(* Piling up.                                                              *)
(***************************************************************************)

\* Counts are natural numbers, and only enqueuers of a task ask for it.
LEMMA Counts ==
  ASSUME JobsTypeOK, NEW t \in Tasks
  PROVE  /\ Waiting(t) = Cardinality(Places(queue[QueueOf[t]], t))
         /\ Waiting(t) \in Nat
         /\ IsFiniteSet(counted) /\ IsFiniteSet(Asking(t))
         /\ IsFiniteSet(Enqueuers(t)) /\ Asking(t) \subseteq Enqueuers(t)
         /\ Cardinality(Asking(t)) \in Nat /\ Cardinality(Enqueuers(t)) \in Nat
         /\ Cardinality(Asking(t)) <= Cardinality(Enqueuers(t))
<1>1. queue[QueueOf[t]] \in Seq(Tasks)
  BY TableFacts DEF JobsTypeOK
<1>2. Waiting(t) = Cardinality(Places(queue[QueueOf[t]], t))
  BY DEF Waiting, Places
<1>3. Waiting(t) \in Nat
  BY <1>1, <1>2, PlacesFinite
<1>4. IsFiniteSet(Clients \cup {Scheduler})
  BY JobsAssumption, FS_AddElement
<1>5. Asking(t) \in SUBSET Enqueuers(t)
  BY DEF Asking, Enqueuers, JobsTypeOK
<1>6. Enqueuers(t) \in SUBSET (Clients \cup {Scheduler})
  BY DEF Enqueuers
<1>7. counted \in SUBSET (Clients \cup {Scheduler})
  BY DEF JobsTypeOK
<1>8. IsFiniteSet(Enqueuers(t)) /\ IsFiniteSet(counted)
  BY <1>4, <1>6, <1>7, SubsetSize
<1> QED BY <1>2, <1>3, <1>5, <1>8, SubsetSize

\* A task for which nothing was added keeps its bound.
LEMMA KeptBound ==
  ASSUME JobsTypeOK, NEW t \in Tasks,
         Waiting(t) + Cardinality(Asking(t)) <= Cardinality(Enqueuers(t)),
         NEW w \in Nat, w <= Waiting(t), NEW A \in SUBSET Asking(t)
  PROVE  w + Cardinality(A) <= Cardinality(Enqueuers(t))
<1>1. Cardinality(A) \in Nat /\ Cardinality(A) <= Cardinality(Asking(t))
  BY Counts, SubsetSize
<1> QED BY <1>1, Counts

\* Steps that push nothing and let nobody count.
LEMMA KeptInv ==
  ASSUME JobsTypeOK, JobsTypeOK', PileInv,
         \A t \in Tasks : Waiting(t)' <= Waiting(t) /\ Asking(t)' \subseteq Asking(t)
  PROVE  PileInv'
<1> SUFFICES ASSUME NEW t \in Tasks
             PROVE  Waiting(t)' + Cardinality(Asking(t)') <= Cardinality(Enqueuers(t))
  BY DEF PileInv, Enqueuers
<1>1. Waiting(t)' \in Nat
  <2>1. queue'[QueueOf[t]] \in Seq(Tasks)
    BY TableFacts DEF JobsTypeOK
  <2> QED BY <2>1, PlacesFinite DEF Waiting, Places
<1>2. Waiting(t) + Cardinality(Asking(t)) <= Cardinality(Enqueuers(t))
  BY DEF PileInv
<1> QED BY <1>1, <1>2, KeptBound

\* Who counts saw nothing of its task waiting.
LEMMA CountKeeps ==
  ASSUME JobsTypeOK, JobsTypeOK', PileInv, NEW e, NEW u \in Tasks, Count(e, u),
         UNCHANGED at,
         IF e = Scheduler THEN Polling /\ Current = u ELSE u = Wanted
  PROVE  PileInv'
<1> SUFFICES ASSUME NEW t \in Tasks
             PROVE  Waiting(t)' + Cardinality(Asking(t)') <= Cardinality(Enqueuers(t))
  BY DEF PileInv, Enqueuers
<1>1. Waiting(t)' = Waiting(t)
  BY DEF Count, Waiting
<1>2. CASE t = u
  <2>1. Waiting(t)' = 0
    BY <1>1, <1>2 DEF Count
  <2>2. Asking(t)' \subseteq Enqueuers(t)
    BY DEF Asking, Enqueuers, JobsTypeOK
  <2>3. Cardinality(Asking(t)') \in Nat
         /\ Cardinality(Asking(t)') <= Cardinality(Enqueuers(t))
    BY <2>2, Counts, SubsetSize
  <2> QED BY <2>1, <2>3, Counts
<1>3. CASE t # u
  <2>1. Asking(t)' \subseteq Asking(t)
    BY <1>3 DEF Asking, Count, Polling, Current
  <2> QED BY <1>1, <2>1, Counts, KeptBound DEF PileInv
<1> QED BY <1>2, <1>3

\* A push turns one that asks into one that waits.
LEMMA PushKeeps ==
  ASSUME JobsTypeOK, JobsTypeOK', PileInv, NEW e, NEW u \in Tasks, Push(e, u),
         IF e = Scheduler THEN Polling /\ Current = u ELSE UNCHANGED at /\ u = Wanted
  PROVE  PileInv' /\ Waiting(u)' > 0
<1>1. queue[QueueOf[u]] \in Seq(Tasks) /\ QueueOf[u] \in Queues
  BY TableFacts DEF JobsTypeOK
<1>2. queue' = [queue EXCEPT ![QueueOf[u]] = Append(queue[QueueOf[u]], u)]
  BY DEF Push
<1>3. ASSUME NEW t \in Tasks
      PROVE  Waiting(t)' = Waiting(t) + (IF t = u THEN 1 ELSE 0)
  <2>1. QueueOf[t] \in Queues
    BY TableFacts
  <2>2. CASE QueueOf[t] = QueueOf[u]
    <3>1. queue'[QueueOf[t]] = Append(queue[QueueOf[t]], u)
      BY <1>1, <1>2, <2>2 DEF JobsTypeOK
    <3>2. Cardinality(Places(queue'[QueueOf[t]], t)) =
            Cardinality(Places(queue[QueueOf[t]], t)) + (IF u = t THEN 1 ELSE 0)
      BY <1>1, <2>2, <3>1, AppendPlaces
    <3> QED BY <3>2 DEF Waiting, Places
  <2>3. CASE QueueOf[t] # QueueOf[u]
    <3>1. queue'[QueueOf[t]] = queue[QueueOf[t]] /\ t # u
      BY <1>2, <2>1, <2>3 DEF JobsTypeOK
    <3>2. Waiting(t)' = Waiting(t)
      BY <3>1 DEF Waiting
    <3> QED BY <3>1, <3>2, Counts
  <2> QED BY <2>2, <2>3
<1>4. Waiting(u)' > 0
  BY <1>3, Counts
<1>5. ASSUME NEW t \in Tasks
      PROVE  Waiting(t)' + Cardinality(Asking(t)') <= Cardinality(Enqueuers(t))
  <2>1. Asking(t)' \subseteq Asking(t) \ {e}
    BY DEF Asking, Push, Polling, Current
  <2>2. CASE t = u
    <3>1. e \in Asking(t)
      BY <2>2 DEF Asking, Push
    <3>2. IsFiniteSet(Asking(t) \ {e})
          /\ Cardinality(Asking(t) \ {e}) = Cardinality(Asking(t)) - 1
      BY <3>1, Counts, FS_RemoveElement
    <3>3. Cardinality(Asking(t)') \in Nat
          /\ Cardinality(Asking(t)') <= Cardinality(Asking(t)) - 1
      BY <2>1, <3>2, SubsetSize
    <3>4. Waiting(t)' = Waiting(t) + 1
      BY <1>3, <2>2
    <3> QED BY <3>3, <3>4, Counts DEF PileInv
  <2>3. CASE t # u
    <3>1. Waiting(t)' = Waiting(t)
      BY <1>3, <2>3, Counts
    <3> QED BY <2>1, <3>1, Counts, KeptBound DEF PileInv
  <2> QED BY <2>2, <2>3
<1> QED BY <1>4, <1>5 DEF PileInv, Enqueuers

\* An enqueue that raises leaves either everything or one job more.
LEMMA RaisesKeeps ==
  ASSUME JobsTypeOK, JobsTypeOK', PileInv, NEW e, NEW u \in Tasks, Raises(e, u),
         IF e = Scheduler THEN Polling /\ Current = u ELSE UNCHANGED at /\ u = Wanted
  PROVE  PileInv' /\ e \notin counted'
<1>1. CASE Push(e, u)
  BY <1>1, PushKeeps DEF Push
<1>2. CASE counted' = counted \ {e} /\ UNCHANGED queue
  <2>1. \A t \in Tasks : Waiting(t)' = Waiting(t) /\ Asking(t)' \subseteq Asking(t)
    BY <1>2 DEF Waiting, Asking, Polling, Current
  <2>2. \A t \in Tasks : Waiting(t)' <= Waiting(t)
    BY <2>1, Counts
  <2> QED BY <1>2, <2>1, <2>2, KeptInv
<1> QED BY <1>1, <1>2 DEF Raises

\* Steps that leave the queues alone and let nobody count.
LEMMA QuietKeeps ==
  ASSUME JobsTypeOK, JobsTypeOK', SchedulerAsksInTurn, PileInv,
         UNCHANGED queue, counted' \subseteq counted,
         UNCHANGED at \/ Scheduler \notin counted'
  PROVE  PileInv'
<1>1. \A t \in Tasks : Waiting(t)' = Waiting(t) /\ Asking(t)' \subseteq Asking(t)
  BY DEF Waiting, Asking, Polling, Current
<1>2. \A t \in Tasks : Waiting(t)' <= Waiting(t)
  BY <1>1, Counts
<1> QED BY <1>1, <1>2, KeptInv

LEMMA InvStep ==
  ASSUME JobsInv, JobsTypeOK', [JobsNext]_jobsVars
  PROVE  SchedulerAsksInTurn' /\ PileInv'
<1> USE DEF JobsInv
<1>1. CASE UNCHANGED jobsVars
  BY <1>1, QuietKeeps DEF jobsVars, SchedulerAsksInTurn, Polling, Due, Current
<1>2. CASE SkipUndue
  BY <1>2, QuietKeeps DEF SkipUndue, SchedulerAsksInTurn
<1>3. CASE SchedulerCounts
  <2>1. PileInv'
    BY <1>3, CurrentIsATask, CountKeeps DEF SchedulerCounts
  <2> QED BY <1>3, <2>1
      DEF SchedulerCounts, Count, SchedulerAsksInTurn, Polling, Due, Current
<1>4. CASE SchedulerEnqueues
  <2>1. CASE Push(Scheduler, Current)
    <3>1. PileInv'
      BY <1>4, <2>1, CurrentIsATask, PushKeeps DEF SchedulerEnqueues
    <3> QED BY <2>1, <3>1 DEF Push, SchedulerAsksInTurn
  <2>2. CASE AlreadyQueued(Scheduler, Current)
    BY <2>2, QuietKeeps DEF AlreadyQueued, SchedulerAsksInTurn
  <2> QED BY <1>4, <2>1, <2>2 DEF SchedulerEnqueues
<1>5. CASE EnqueueRaises
  <2>1. PileInv' /\ Scheduler \notin counted'
    BY <1>5, CurrentIsATask, RaisesKeeps DEF EnqueueRaises
  <2> QED BY <2>1 DEF SchedulerAsksInTurn
<1>6. CASE Sleep
  BY <1>6, QuietKeeps DEF Sleep, SchedulerAsksInTurn
<1>7. CASE SchedulerDies
  BY <1>7, QuietKeeps DEF SchedulerDies, SchedulerAsksInTurn
<1>8. CASE RedisFails
  BY <1>8, QuietKeeps DEF RedisFails, SchedulerAsksInTurn, Polling, Due, Current
<1>9. CASE RedisReturns
  <2>1. CASE queue' = queue
    BY <1>9, <2>1, QuietKeeps
    DEF RedisReturns, SchedulerAsksInTurn, Polling, Due, Current
  <2>2. CASE queue' = [q \in Queues |-> <<>>]
    <3>1. ASSUME NEW t \in Tasks
          PROVE  Waiting(t)' <= Waiting(t)
      <4>1. Places(queue'[QueueOf[t]], t) = {}
        BY <2>2, TableFacts, EmptyQueues DEF Places
      <4>2. Waiting(t)' = Cardinality(Places(queue'[QueueOf[t]], t))
        BY DEF Waiting, Places
      <4> QED BY <4>1, <4>2, Counts, FS_EmptySet
    <3>2. \A t \in Tasks : Asking(t)' \subseteq Asking(t)
      BY <1>9 DEF RedisReturns, Asking, Polling, Current
    <3>3. PileInv'
      BY <3>1, <3>2, KeptInv
    <3> QED BY <1>9, <3>3 DEF RedisReturns, SchedulerAsksInTurn, Polling, Due, Current
  <2> QED BY <1>9, <2>1, <2>2 DEF RedisReturns
<1>10. ASSUME NEW c \in Clients, ClientCounts(c)
       PROVE  SchedulerAsksInTurn' /\ PileInv'
  <2>1. c # Scheduler
    BY JobsAssumption
  <2>2. PileInv'
    BY <1>10, <2>1, TableFacts, CountKeeps DEF ClientCounts
  <2> QED BY <1>10, <2>1, <2>2
      DEF ClientCounts, Count, SchedulerAsksInTurn, Polling, Due, Current
<1>11. ASSUME NEW c \in Clients, ClientEnqueues(c)
       PROVE  SchedulerAsksInTurn' /\ PileInv'
  <2>1. c # Scheduler
    BY JobsAssumption
  <2>2. PileInv' /\ counted' \subseteq counted
    <3>1. CASE Push(c, Wanted)
      BY <1>11, <2>1, <3>1, TableFacts, PushKeeps DEF ClientEnqueues, Push
    <3>2. CASE AlreadyQueued(c, Wanted)
      BY <1>11, <3>2, QuietKeeps DEF ClientEnqueues, AlreadyQueued
    <3> QED BY <1>11, <3>1, <3>2 DEF ClientEnqueues
  <2> QED BY <1>11, <2>2
      DEF ClientEnqueues, SchedulerAsksInTurn, Polling, Due, Current
<1>12. ASSUME NEW c \in Clients, ClientRaises(c)
       PROVE  SchedulerAsksInTurn' /\ PileInv'
  <2>1. c # Scheduler
    BY JobsAssumption
  <2>2. PileInv'
    BY <1>12, <2>1, TableFacts, RaisesKeeps DEF ClientRaises
  <2>3. counted' \subseteq counted
    BY <1>12 DEF ClientRaises, Raises, Push
  <2> QED BY <1>12, <2>2, <2>3
      DEF ClientRaises, SchedulerAsksInTurn, Polling, Due, Current
<1>13. ASSUME NEW c \in Clients, ClientDies(c)
       PROVE  SchedulerAsksInTurn' /\ PileInv'
  BY <1>13, QuietKeeps DEF ClientDies, SchedulerAsksInTurn, Polling, Due, Current
<1>14. ASSUME NEW q \in Queues, Start(q)
       PROVE  SchedulerAsksInTurn' /\ PileInv'
  <2>1. ASSUME NEW t \in Tasks
        PROVE  Waiting(t)' <= Waiting(t)
    <3>1. QueueOf[t] \in Queues
      BY TableFacts
    <3>2. CASE QueueOf[t] = q
      <4>1. queue[q] \in Seq(Tasks) /\ queue[q] # <<>>
        BY <1>14 DEF Start, JobsTypeOK
      <4>2. queue'[q] = Tail(queue[q])
        BY <1>14 DEF Start, JobsTypeOK
      <4>3. Cardinality(Places(Tail(queue[q]), t)) <= Cardinality(Places(queue[q], t))
        BY <4>1, TailPlaces
      <4> QED BY <3>2, <4>2, <4>3 DEF Waiting, Places
    <3>3. CASE QueueOf[t] # q
      <4>1. queue'[QueueOf[t]] = queue[QueueOf[t]]
        BY <1>14, <3>1, <3>3 DEF Start, JobsTypeOK
      <4>2. Waiting(t)' = Waiting(t)
        BY <4>1 DEF Waiting
      <4> QED BY <4>2, Counts
    <3> QED BY <3>2, <3>3
  <2>2. \A t \in Tasks : Asking(t)' \subseteq Asking(t)
    BY <1>14 DEF Start, Asking, Polling, Current
  <2>3. PileInv'
    BY <2>1, <2>2, KeptInv
  <2> QED BY <1>14, <2>3 DEF Start, SchedulerAsksInTurn, Polling, Due, Current
<1>15. ASSUME NEW q \in Queues, Finish(q) \/ JobDies(q)
       PROVE  SchedulerAsksInTurn' /\ PileInv'
  BY <1>15, QuietKeeps DEF Finish, JobDies, SchedulerAsksInTurn, Polling, Due, Current
<1> QED
  BY <1>1, <1>2, <1>3, <1>4, <1>5, <1>6, <1>7, <1>8, <1>9, <1>10, <1>11, <1>12,
     <1>13, <1>14, <1>15
  DEF JobsNext, SchedulerStep

LEMMA InvInit == JobsInit => SchedulerAsksInTurn /\ PileInv
<1> SUFFICES ASSUME JobsInit PROVE SchedulerAsksInTurn /\ PileInv
  OBVIOUS
<1>1. JobsTypeOK
  BY TypeInit
<1>2. ASSUME NEW t \in Tasks
      PROVE  Waiting(t) + Cardinality(Asking(t)) <= Cardinality(Enqueuers(t))
  <2>1. Places(queue[QueueOf[t]], t) = {} /\ Asking(t) = {}
    BY TableFacts, EmptyQueues DEF JobsInit, Places, Asking
  <2> QED BY <1>1, <2>1, Counts, FS_EmptySet
<1> QED BY <1>2 DEF PileInv, SchedulerAsksInTurn, JobsInit

\* The invariant behind the results below: nothing is asked for or waits
\* beyond the number of processes that enqueue it.
THEOREM JobsInvariant == JobsSpec => []JobsInv
<1>1. JobsInit => JobsInv
  BY TypeInit, InvInit DEF JobsInv
<1>2. JobsInv /\ [JobsNext]_jobsVars => JobsInv'
  BY TypeStep, InvStep DEF JobsInv
<1> QED BY <1>1, <1>2, PTL DEF JobsSpec

LEMMA BoundHolds == JobsInv => JobsDoNotPileUp
<1> SUFFICES ASSUME JobsInv, NEW t \in Tasks
             PROVE  Waiting(t) <= Cardinality(Enqueuers(t))
  BY DEF JobsDoNotPileUp
<1>1. Waiting(t) + Cardinality(Asking(t)) <= Cardinality(Enqueuers(t))
  BY DEF JobsInv, PileInv
<1> QED BY <1>1, Counts DEF JobsInv

\* "unless one is already waiting" (systems/queue.py): no task has more jobs
\* waiting than processes that enqueue it, so a task of the one scheduler has
\* one at most (JobsDoNotPileUp).
THEOREM JobsStayFew == JobsSpec => []JobsDoNotPileUp
<1>1. JobsInv => JobsDoNotPileUp
  BY BoundHolds
<1> QED BY <1>1, JobsInvariant, PTL

\* last_run moves only while a job of the task waits (RunIsBackedByAJob):
\* neither an error nor a restart of the scheduler writes a run off.
THEOREM RunsAreBacked == JobsSpec => RunIsBackedByAJob
<1> DEFINE Backed == \A t \in Tasks : elapsed'[t] < elapsed[t] => Waiting(t)' > 0
<1>1. JobsInv /\ JobsInv' /\ [JobsNext]_jobsVars => [Backed]_jobsVars
  <2> SUFFICES ASSUME JobsInv, JobsInv', JobsNext,
                      NEW t \in Tasks, elapsed'[t] < elapsed[t]
               PROVE  Waiting(t)' > 0
    BY DEF jobsVars
  <2> USE DEF JobsInv
  <2>1. CASE SchedulerEnqueues
    <3>1. Current \in Tasks /\ Polling
      BY <2>1, CurrentIsATask DEF SchedulerEnqueues
    <3>2. t = Current
      BY <2>1, <3>1 DEF SchedulerEnqueues, JobsTypeOK
    <3>3. CASE Push(Scheduler, Current)
      BY <3>1, <3>2, <3>3, PushKeeps
    <3>4. CASE AlreadyQueued(Scheduler, Current)
      BY <3>2, <3>4 DEF AlreadyQueued, Waiting
    <3> QED BY <2>1, <3>3, <3>4 DEF SchedulerEnqueues
  <2>2. CASE Sleep
    BY <2>2 DEF Sleep, JobsTypeOK
  <2>3. CASE SchedulerDies
    BY <2>3, TableFacts DEF SchedulerDies, JobsTypeOK
  <2>4. CASE UNCHANGED elapsed
    BY <2>4 DEF JobsTypeOK
  <2> QED
    BY <2>1, <2>2, <2>3, <2>4
    DEF JobsNext, SchedulerStep, SkipUndue, SchedulerCounts, EnqueueRaises, RedisFails,
        RedisReturns, ClientCounts, ClientEnqueues, ClientRaises, ClientDies, Start,
        Finish, JobDies
<1> QED BY <1>1, JobsInvariant, PTL DEF JobsSpec, RunIsBackedByAJob

=============================================================================
