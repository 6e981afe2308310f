------------------------------ MODULE EmbedQueue ------------------------------
(***************************************************************************)
(* How a listing gets the vector of its photo: captures and ingestion put  *)
(* listings up as pending (connectors/capture.py, api/routes/capture.py),  *)
(* jobs of JobQueue embed what is pending (ml/embed_listings.py).          *)
(*                                                                         *)
(* A photo stands for a list of images with its own first image, None for  *)
(* the empty list; the vector of a photo is the photo itself.              *)
(***************************************************************************)
EXTENDS JobQueue

CONSTANTS
  Listings,     \* ids; a later commit may have the smaller one
  Captured,     \* the listings that come from captures
  Photos,
  Chunk,        \* chunk_size
  Limit,        \* embed_job_max_listings
  MaxCaptures   \* bound on captures

VARIABLES
  table,        \* the row of each listing, or None
  capture,      \* what each API thread is doing, or None
  left,         \* listings the running embedding job may still take
  chunk,        \* listings it is embedding
  seen,         \* the photos it read for them
  captures,     \* captures so far
  raced         \* listings a capture and another writer worked on at once
                \* (for checking only)

embedVars == <<table, capture, left, chunk, seen, captures, raced>>
vars == <<jobsVars, embedVars>>

Image == Photos \cup {None}
Row == [photo : Image, embedded : BOOLEAN, vector : Image]
NewRow(p) == [photo |-> p, embedded |-> FALSE, vector |-> None]

Capture == [stage : {"loaded", "saved", "asking"}, id : Captured, photo : Image,
            row : Row \cup {None}]

ASSUME EmbedAssumption ==
  /\ Listings \subseteq Nat /\ IsFiniteSet(Listings) /\ Captured \subseteq Listings
  /\ None \notin Photos /\ None \notin Row /\ None \notin Capture
  /\ Chunk \in Nat \ {0} /\ Limit \in Nat \ {0} /\ MaxCaptures \in Nat

TypeOK ==
  /\ JobsTypeOK
  /\ table \in [Listings -> Row \cup {None}]
  /\ capture \in [Clients -> Capture \cup {None}]
  /\ left \in 0..Limit
  /\ chunk \subseteq Listings /\ Cardinality(chunk) <= left
  /\ seen \in [Listings -> Image]
  /\ captures \in 0..MaxCaptures
  /\ raced \subseteq Captured

NothingSeen == [l \in Listings |-> None]

\* Any table in which nothing waits: unknown listings and embedded ones.
Init ==
  /\ JobsInit
  /\ table \in [Listings -> {None} \cup {r \in Row :
                   r.embedded /\ r.vector \in {None, r.photo}}]
  /\ capture = [c \in Clients |-> None]
  /\ left = 0 /\ chunk = {} /\ seen = NothingSeen
  /\ captures = 0
  /\ raced = {}

Pending == {l \in Listings : table[l] # None /\ ~table[l].embedded}
-----------------------------------------------------------------------------
(***************************************************************************)
(* A capture: load, save, and ask for a job when the row is pending.       *)
(***************************************************************************)
At(c, stage) == capture[c] # None /\ capture[c].stage = stage
Moves(c, stage) == capture' = [capture EXCEPT ![c].stage = stage]
Answers(c) == capture' = [capture EXCEPT ![c] = None]

LoadCapture(c, l, p) ==
  /\ capture[c] = None /\ captures < MaxCaptures
  /\ capture' = [capture EXCEPT ![c] =
                   [stage |-> "loaded", id |-> l, photo |-> p, row |-> table[l]]]
  /\ captures' = captures + 1
  /\ UNCHANGED <<jobsVars, table, left, chunk, seen, raced>>

InsertCapture(c) ==
  LET l == capture[c].id IN
  /\ At(c, "loaded") /\ capture[c].row = None /\ table[l] = None
  /\ table' = [table EXCEPT ![l] = NewRow(capture[c].photo)]
  /\ Moves(c, "asking")
  /\ UNCHANGED <<jobsVars, left, chunk, seen, captures, raced>>

\* Another request inserted it first: the unique key fails this one.
RefuseCapture(c) ==
  /\ At(c, "loaded") /\ capture[c].row = None /\ table[capture[c].id] # None
  /\ Answers(c)
  /\ UNCHANGED <<jobsVars, table, left, chunk, seen, captures, raced>>

\* Mutant: the vector of the old photo stays behind.
MergedKeepingVector(now, loaded, p) ==
  IF p = None \/ p = loaded.photo THEN now
  ELSE [now EXCEPT !.photo = p, !.embedded = @ /\ ~loaded.embedded]

\* The UPDATE sets the columns that differ from what was loaded, and leaves
\* the others as they are now.
Merged(now, loaded, p) ==
  IF p = None \/ p = loaded.photo THEN now
  ELSE [photo    |-> p,
        embedded |-> now.embedded /\ ~loaded.embedded,
        vector   |-> IF loaded.vector = None THEN now.vector ELSE None]

UpdateCapture(c) ==
  LET l == capture[c].id
      loaded == capture[c].row
  IN  /\ At(c, "loaded") /\ loaded # None
      /\ table' = [table EXCEPT ![l] = Merged(@, loaded, capture[c].photo)]
      /\ raced' = IF table[l] # loaded \/ l \in chunk THEN raced \cup {l} ELSE raced
      /\ Moves(c, "saved")
      /\ UNCHANGED <<jobsVars, left, chunk, seen, captures>>

\* The refresh after the commit decides whether there is something to embed.
RefreshCapture(c) ==
  /\ At(c, "saved")
  /\ IF capture[c].id \in Pending THEN Moves(c, "asking") ELSE Answers(c)
  /\ UNCHANGED <<jobsVars, table, left, chunk, seen, captures, raced>>

\* A failure to enqueue is swallowed: the capture is committed by then.
Ask(c) ==
  /\ At(c, "asking")
  /\ \/ ClientCounts(c) /\ UNCHANGED capture
     \/ ClientEnqueues(c) /\ Answers(c)
     \/ ClientRaises(c) /\ Answers(c)
  /\ UNCHANGED <<table, left, chunk, seen, captures, raced>>

CaptureDies(c) ==
  /\ capture[c] # None
  /\ ClientDies(c)
  /\ Answers(c)
  /\ UNCHANGED <<table, left, chunk, seen, captures, raced>>

\* An ingest, a job or one run by hand, adds a listing; it leaves images and
\* embeddings of the listings it knows alone.
IngestAdds(l, p) ==
  /\ l \notin Captured /\ table[l] = None
  /\ table' = [table EXCEPT ![l] = NewRow(p)]
  /\ UNCHANGED <<jobsVars, capture, left, chunk, seen, captures, raced>>
-----------------------------------------------------------------------------
(***************************************************************************)
(* Jobs.                                                                   *)
(***************************************************************************)
Embeds(q) == running[q] = Wanted
Embedding == running[QueueOf[Wanted]] = Wanted

StartJob(q) ==
  /\ Start(q)
  /\ left' = IF Head(queue[q]) = Wanted THEN Limit ELSE left
  /\ UNCHANGED <<table, capture, chunk, seen, captures, raced>>

Least(m, n) == IF m < n THEN m ELSE n

\* Mutant: the last chunk may exceed what is left of the limit.
ChunkSizeUnlimited(n) == Chunk

ChunkSize(n) == Least(Chunk, n)

\* The oldest ids first, their photos read and the session closed again.
ReadChunk ==
  /\ Embedding /\ chunk = {} /\ left > 0 /\ Pending # {}
  /\ chunk' \in SUBSET Pending
  /\ Cardinality(chunk') = Least(ChunkSize(left), Cardinality(Pending))
  /\ \A l \in chunk', m \in Pending \ chunk' : l < m
  /\ seen' = [l \in Listings |-> IF l \in chunk' THEN table[l].photo ELSE None]
  /\ UNCHANGED <<jobsVars, table, capture, left, captures, raced>>

\* Mutant: only the rows that got a vector are stamped.
StampedOnSuccess(l, dead) ==
  IF seen[l] = None \/ l \in dead THEN table[l]
  ELSE [table[l] EXCEPT !.embedded = TRUE, !.vector = seen[l]]

Stamped(l, dead) ==
  [table[l] EXCEPT !.embedded = TRUE,
                   !.vector = IF seen[l] = None \/ l \in dead THEN @ ELSE seen[l]]

\* dead: the photos that could not be fetched.  A deadlock undoes the write
\* and it is tried again; when that fails four times the job dies.
WriteChunk ==
  /\ Embedding /\ chunk # {}
  /\ \E dead \in SUBSET chunk :
       table' = [l \in Listings |-> IF l \in chunk THEN Stamped(l, dead) ELSE table[l]]
  /\ left' = left - Cardinality(chunk)
  /\ chunk' = {} /\ seen' = NothingSeen
  /\ UNCHANGED <<jobsVars, capture, captures, raced>>

\* The vectors of a job that ends early are gone; so is a read chunk.
Forgets(q) ==
  IF Embeds(q) THEN left' = 0 /\ chunk' = {} /\ seen' = NothingSeen
               ELSE UNCHANGED <<left, chunk, seen>>

FinishJob(q) ==
  /\ Finish(q)
  /\ Embeds(q) => chunk = {} /\ (left = 0 \/ Pending = {})
  /\ Forgets(q)
  /\ UNCHANGED <<table, capture, captures, raced>>

KillJob(q) ==
  /\ JobDies(q)
  /\ Forgets(q)
  /\ UNCHANGED <<table, capture, captures, raced>>

Next ==
  \/ (SchedulerStep \/ SchedulerDies \/ RedisFails \/ RedisReturns) /\ UNCHANGED embedVars
  \/ \E c \in Clients :
       \/ \E l \in Captured, p \in Image : LoadCapture(c, l, p)
       \/ InsertCapture(c) \/ RefuseCapture(c) \/ UpdateCapture(c)
       \/ RefreshCapture(c) \/ Ask(c) \/ CaptureDies(c)
  \/ \E l \in Listings, p \in Image : IngestAdds(l, p)
  \/ ReadChunk \/ WriteChunk
  \/ \E q \in Queues : StartJob(q) \/ FinishJob(q) \/ KillJob(q)

\* The scheduler loops, the workers take what waits, a job ends (or its
\* timeout ends it) and Redis is restarted.
Fairness ==
  /\ WF_vars(SchedulerStep /\ UNCHANGED embedVars)
  /\ WF_vars(RedisReturns /\ UNCHANGED embedVars)
  /\ WF_vars(ReadChunk) /\ WF_vars(WriteChunk)
  /\ \A q \in Queues : WF_vars(StartJob(q)) /\ WF_vars(FinishJob(q))

Spec == Init /\ [][Next]_vars /\ Fairness
-----------------------------------------------------------------------------
(***************************************************************************)
(* Properties.                                                             *)
(***************************************************************************)

\* "re-embed against the new photo": what an embedded row carries is the
\* vector of its own photo.
VectorShowsThePhoto ==
  \A l \in Listings : table[l] # None /\ table[l].embedded =>
    table[l].vector \in {None, table[l].photo}

\* A vector that is not of the row's photo, or one on a row that still waits,
\* takes a capture that overlapped the embedding of the listing or another
\* capture of it.
MismatchIsRaced ==
  \A l \in Listings : table[l] # None /\ table[l].vector # None
                      /\ (~table[l].embedded \/ table[l].vector # table[l].photo)
    => l \in raced

\* "embed_pending picks it up on its next scheduled run regardless": a pending
\* listing is embedded in the end, whether its own enqueue was skipped, raised
\* or lost, and whatever became of the jobs so far.
PendingIsEmbedded == \A l \in Listings : []<>(l \notin Pending)

=============================================================================
