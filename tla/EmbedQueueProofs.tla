--------------------------- MODULE EmbedQueueProofs ---------------------------
(***************************************************************************)
(* What holds of the embedding of listings, proved for every number of     *)
(* listings, photos, API threads and tasks, and every fault: it uses the   *)
(* job queue as JobQueue says, and a vector of another photo takes a race. *)
(*                                                                         *)
(* The argument for the latter: a row that no capture and other writer     *)
(* worked on at once carries no vector while it waits, and a job that has  *)
(* read such a row's photo finds the photo and the wait unchanged when it  *)
(* writes.                                                                 *)
(***************************************************************************)
EXTENDS EmbedQueue, JobQueueProofs

Matches(r) == r.vector # None => r.embedded /\ r.vector = r.photo

\* Rows are not deleted, so what a capture loaded is there when it commits.
LoadedExists ==
  \A c \in Clients :
    capture[c] # None /\ capture[c].row # None => table[capture[c].id] # None

RowsMatch ==
  \A l \in Listings : table[l] # None /\ l \notin raced => Matches(table[l])

ChunkAsRead ==
  \A l \in chunk :
    /\ table[l] # None
    /\ l \notin raced => ~table[l].embedded /\ seen[l] = table[l].photo

RaceInv == TypeOK /\ LoadedExists /\ RowsMatch /\ ChunkAsRead
-----------------------------------------------------------------------------
(***************************************************************************)
(* The pipeline is a use of the job queue.                                 *)
(***************************************************************************)

LEMMA StepUsesJobs == [Next]_vars => [JobsNext]_jobsVars
<1> SUFFICES ASSUME [Next]_vars PROVE [JobsNext]_jobsVars
  OBVIOUS
<1>1. CASE UNCHANGED vars
  BY <1>1 DEF vars
<1>2. CASE SchedulerStep \/ SchedulerDies \/ RedisFails \/ RedisReturns
  BY <1>2 DEF JobsNext
<1>3. ASSUME NEW c \in Clients, Ask(c)
      PROVE  [JobsNext]_jobsVars
  BY <1>3 DEF Ask, JobsNext
<1>4. ASSUME NEW c \in Clients, CaptureDies(c)
      PROVE  [JobsNext]_jobsVars
  BY <1>4 DEF CaptureDies, JobsNext
<1>5. ASSUME NEW q \in Queues, StartJob(q) \/ FinishJob(q) \/ KillJob(q)
      PROVE  [JobsNext]_jobsVars
  BY <1>5 DEF StartJob, FinishJob, KillJob, JobsNext
<1>6. ASSUME NEW c \in Clients, NEW l \in Captured, NEW p \in Image, LoadCapture(c, l, p)
      PROVE  [JobsNext]_jobsVars
  BY <1>6 DEF LoadCapture
<1>7. ASSUME NEW c \in Clients,
             InsertCapture(c) \/ RefuseCapture(c) \/ UpdateCapture(c) \/ RefreshCapture(c)
      PROVE  [JobsNext]_jobsVars
  BY <1>7 DEF InsertCapture, RefuseCapture, UpdateCapture, RefreshCapture
<1>8. ASSUME NEW l \in Listings, NEW p \in Image, IngestAdds(l, p)
      PROVE  [JobsNext]_jobsVars
  BY <1>8 DEF IngestAdds
<1>9. CASE ReadChunk \/ WriteChunk
  BY <1>9 DEF ReadChunk, WriteChunk
<1> QED
  BY <1>1, <1>2, <1>3, <1>4, <1>5, <1>6, <1>7, <1>8, <1>9 DEF Next

\* Captures and embedding jobs touch the scheduler, the queues and the workers
\* in no other way than JobQueue has it.
THEOREM PipelineImplementsJobs == Spec => JobsSpec
<1>1. Init => JobsInit
  BY DEF Init
<1> QED BY <1>1, StepUsesJobs, PTL DEF Spec, JobsSpec

\* So captures cannot make embedding jobs pile up beyond one for each API
\* thread and the scheduler (JobsDoNotPileUp).
COROLLARY PipelineJobsStayFew == Spec => []JobsDoNotPileUp
BY PipelineImplementsJobs, JobsStayFew, PTL
-----------------------------------------------------------------------------
(***************************************************************************)
(* Types and races.                                                        *)
(***************************************************************************)
LEMMA RowShape ==
  ASSUME NEW r \in Row
  PROVE  r # None /\ r.photo \in Image /\ r.embedded \in BOOLEAN /\ r.vector \in Image
BY EmbedAssumption DEF Row

LEMMA NewRowShape ==
  ASSUME NEW p \in Image
  PROVE  NewRow(p) \in Row /\ Matches(NewRow(p))
BY DEF NewRow, Row, Image, Matches

LEMMA CaptureShape ==
  ASSUME TypeOK, NEW c \in Clients, capture[c] # None
  PROVE  /\ capture[c] \in Capture
         /\ capture[c].id \in Captured /\ capture[c].id \in Listings
         /\ capture[c].photo \in Image /\ capture[c].row \in Row \cup {None}
BY EmbedAssumption DEF TypeOK, Capture

\* A thread that goes on, or ends, leaves the captures well typed and loads
\* nothing new.
LEMMA CaptureMoves ==
  ASSUME TypeOK, NEW c \in Clients, capture[c] # None,
         Answers(c) \/ \E s \in {"loaded", "saved", "asking"} : Moves(c, s)
  PROVE  /\ capture' \in [Clients -> Capture \cup {None}]
         /\ \A d \in Clients : capture'[d] # None =>
              capture[d] # None /\ capture'[d].id = capture[d].id
                                /\ capture'[d].row = capture[d].row
<1>1. capture[c] \in Capture /\ capture \in [Clients -> Capture \cup {None}]
  BY CaptureShape DEF TypeOK
<1>2. CASE Answers(c)
  BY <1>1, <1>2 DEF Answers
<1>3. ASSUME NEW s \in {"loaded", "saved", "asking"}, Moves(c, s)
      PROVE  /\ capture' \in [Clients -> Capture \cup {None}]
             /\ \A d \in Clients : capture'[d] # None =>
                  capture[d] # None /\ capture'[d].id = capture[d].id
                                    /\ capture'[d].row = capture[d].row
  <2>1. [capture[c] EXCEPT !.stage = s] \in Capture
    BY <1>1 DEF Capture
  <2>2. capture' = [capture EXCEPT ![c] = [capture[c] EXCEPT !.stage = s]]
    BY <1>3 DEF Moves
  <2>3. [capture[c] EXCEPT !.stage = s].id = capture[c].id
        /\ [capture[c] EXCEPT !.stage = s].row = capture[c].row
    BY <1>1 DEF Capture
  <2> QED BY <1>1, <2>1, <2>2, <2>3
<1> QED BY <1>2, <1>3

\* Steps that leave the rows, the chunk and the loaded copies as they are.
LEMMA QuietRaces ==
  ASSUME RaceInv, JobsTypeOK',
         UNCHANGED <<table, left, chunk, seen, raced>>,
         captures' \in 0..MaxCaptures,
         capture' \in [Clients -> Capture \cup {None}],
         \A d \in Clients : capture'[d] # None =>
           capture[d] # None /\ capture'[d].id = capture[d].id
                             /\ capture'[d].row = capture[d].row
  PROVE  RaceInv'
<1>1. TypeOK'
  BY DEF RaceInv, TypeOK
<1>2. LoadedExists'
  BY DEF RaceInv, LoadedExists
<1>3. RowsMatch' /\ ChunkAsRead'
  BY DEF RaceInv, RowsMatch, ChunkAsRead
<1> QED BY <1>1, <1>2, <1>3 DEF RaceInv

\* A listing that enters the table as a new row.
LEMMA InsertKeeps ==
  ASSUME RaceInv, NEW l \in Listings, NEW p \in Image, table[l] = None,
         table' = [table EXCEPT ![l] = NewRow(p)],
         UNCHANGED <<chunk, seen, raced>>
  PROVE  /\ table' \in [Listings -> Row \cup {None}]
         /\ \A m \in Listings : table[m] # None => table'[m] = table[m]
         /\ RowsMatch' /\ ChunkAsRead'
<1> USE DEF RaceInv
<1>1. NewRow(p) \in Row /\ Matches(NewRow(p))
  BY NewRowShape
<1>2. table' \in [Listings -> Row \cup {None}]
      /\ \A m \in Listings : table[m] # None => table'[m] = table[m]
  BY <1>1 DEF TypeOK
<1>3. RowsMatch'
  <2> SUFFICES ASSUME NEW m \in Listings, table'[m] # None, m \notin raced
               PROVE  Matches(table'[m])
    BY DEF RowsMatch
  <2>1. CASE m = l
    BY <1>1, <2>1 DEF TypeOK
  <2>2. CASE m # l
    BY <2>2 DEF TypeOK, RowsMatch
  <2> QED BY <2>1, <2>2
<1>4. ChunkAsRead'
  BY <1>2 DEF ChunkAsRead, TypeOK
<1> QED BY <1>2, <1>3, <1>4

\* A re-capture of what nobody else touched leaves no vector on a waiting row.
LEMMA MergeKeeps ==
  ASSUME NEW now \in Row, NEW loaded \in Row, NEW p \in Image
  PROVE  /\ Merged(now, loaded, p) \in Row
         /\ now = loaded /\ Matches(now) => Matches(Merged(now, loaded, p))
<1>1. CASE p = None \/ p = loaded.photo
  BY <1>1 DEF Merged
<1>2. CASE ~(p = None \/ p = loaded.photo)
  <2>1. Merged(now, loaded, p) =
          [photo |-> p, embedded |-> now.embedded /\ ~loaded.embedded,
           vector |-> IF loaded.vector = None THEN now.vector ELSE None]
    BY <1>2 DEF Merged
  <2>2. now.vector \in Image /\ None \in Image
    BY RowShape DEF Image
  <2>3. (now.embedded /\ ~loaded.embedded) \in BOOLEAN
    OBVIOUS
  <2>4. Merged(now, loaded, p) \in Row
    BY <2>1, <2>2, <2>3 DEF Row
  <2>5. now = loaded => Merged(now, loaded, p).vector = None
    BY <2>1
  <2> QED BY <2>4, <2>5 DEF Matches
<1> QED BY <1>1, <1>2

LEMMA UpdateKeeps ==
  ASSUME RaceInv, JobsTypeOK', NEW c \in Clients, UpdateCapture(c)
  PROVE  RaceInv'
<1> USE DEF RaceInv
<1> DEFINE l == capture[c].id
           loaded == capture[c].row
           p == capture[c].photo
           r == Merged(table[l], loaded, p)
<1>1. /\ capture[c] # None /\ loaded # None
      /\ table' = [table EXCEPT ![l] = r]
      /\ raced' = IF table[l] # loaded \/ l \in chunk THEN raced \cup {l} ELSE raced
      /\ Moves(c, "saved")
      /\ UNCHANGED <<left, chunk, seen, captures>>
  BY DEF UpdateCapture, At
<1>2. l \in Captured /\ l \in Listings /\ p \in Image /\ loaded \in Row
  BY <1>1, CaptureShape
<1>3. table[l] # None /\ table[l] \in Row
  BY <1>1, <1>2 DEF LoadedExists, TypeOK
<1>4. r \in Row /\ r # None /\ (table[l] = loaded /\ Matches(table[l]) => Matches(r))
  BY <1>2, <1>3, MergeKeeps, RowShape
<1>5. /\ capture' \in [Clients -> Capture \cup {None}]
      /\ \A d \in Clients : capture'[d] # None =>
           capture[d] # None /\ capture'[d].id = capture[d].id
                             /\ capture'[d].row = capture[d].row
  BY <1>1, CaptureMoves
<1>6. /\ table' \in [Listings -> Row \cup {None}]
      /\ \A m \in Listings : table[m] # None => table'[m] # None
      /\ \A m \in Listings \ {l} : table'[m] = table[m]
      /\ table'[l] = r
  <2> HIDE DEF l, r
  <2> QED BY <1>1, <1>2, <1>4 DEF TypeOK
<1>7. raced' \subseteq Captured /\ raced \subseteq raced'
  BY <1>1, <1>2 DEF TypeOK
<1>8. TypeOK'
  BY <1>1, <1>5, <1>6, <1>7 DEF TypeOK
<1>9. LoadedExists'
  <2> SUFFICES ASSUME NEW d \in Clients, capture'[d] # None, capture'[d].row # None
               PROVE  table'[capture'[d].id] # None
    BY DEF LoadedExists
  <2>1. capture[d] # None /\ capture'[d].id = capture[d].id /\ capture[d].row # None
    BY <1>5
  <2>2. capture[d].id \in Listings /\ table[capture[d].id] # None
    BY <2>1, CaptureShape DEF LoadedExists
  <2> QED BY <1>6, <2>1, <2>2
<1>10. RowsMatch'
  <2> SUFFICES ASSUME NEW m \in Listings, table'[m] # None, m \notin raced'
               PROVE  Matches(table'[m])
    BY DEF RowsMatch
  <2>1. CASE m = l
    <3>1. table[l] = loaded /\ l \notin raced
      BY <1>1, <1>7, <2>1
    <3>2. Matches(r)
      BY <1>2, <1>3, <1>4, <3>1 DEF RowsMatch
    <3> HIDE DEF r
    <3> QED BY <1>6, <2>1, <3>2 DEF Matches
  <2>2. CASE m # l
    BY <1>6, <1>7, <2>2 DEF RowsMatch, Matches
  <2> QED BY <2>1, <2>2
<1>11. ChunkAsRead'
  <2> SUFFICES ASSUME NEW m \in chunk
               PROVE  /\ table'[m] # None
                      /\ m \notin raced' => ~table'[m].embedded /\ seen[m] = table'[m].photo
    BY <1>1 DEF ChunkAsRead
  <2>1. m \in Listings
    BY DEF TypeOK
  <2>2. CASE m = l
    BY <1>1, <1>4, <1>6, <2>2
  <2>3. CASE m # l
    BY <1>6, <1>7, <2>1, <2>3 DEF ChunkAsRead
  <2> QED BY <2>2, <2>3
<1> QED BY <1>8, <1>9, <1>10, <1>11

\* Stamping a row whose photo is the one that was read.
LEMMA StampKeeps ==
  ASSUME RaceInv, NEW l \in chunk, NEW dead \in SUBSET chunk
  PROVE  /\ Stamped(l, dead) \in Row
         /\ l \notin raced => Matches(Stamped(l, dead))
<1> USE DEF RaceInv
<1>1. l \in Listings /\ table[l] \in Row /\ seen[l] \in Image
  BY DEF TypeOK, ChunkAsRead
<1> DEFINE v == IF seen[l] = None \/ l \in dead THEN table[l].vector ELSE seen[l]
<1>2. table[l] = [photo |-> table[l].photo, embedded |-> table[l].embedded,
                  vector |-> table[l].vector]
      /\ table[l].photo \in Image /\ table[l].vector \in Image
  BY <1>1 DEF Row
<1>3. Stamped(l, dead) = [photo |-> table[l].photo, embedded |-> TRUE, vector |-> v]
  <2>1. Stamped(l, dead) = [table[l] EXCEPT !.embedded = TRUE, !.vector = v]
    BY <1>1 DEF Stamped, Row
  <2> HIDE DEF v
  <2> QED BY <1>1, <1>2, <2>1 DEF Row
<1>4. v \in Image
  BY <1>1, <1>2
<1>5. Stamped(l, dead) \in Row
  <2> HIDE DEF v
  <2> QED BY <1>2, <1>3, <1>4 DEF Row
<1>6. ASSUME l \notin raced
      PROVE  Matches(Stamped(l, dead))
  <2>1. ~table[l].embedded /\ seen[l] = table[l].photo /\ Matches(table[l])
    BY <1>1, <1>6, RowShape DEF ChunkAsRead, RowsMatch
  <2>2. v # None => v = table[l].photo
    BY <2>1 DEF Matches
  <2> HIDE DEF v
  <2> QED BY <1>3, <2>2 DEF Matches
<1> QED BY <1>5, <1>6

LEMMA WriteKeeps ==
  ASSUME RaceInv, JobsTypeOK', WriteChunk
  PROVE  RaceInv'
<1> USE DEF RaceInv
<1>1. PICK dead \in SUBSET chunk :
        table' = [l \in Listings |-> IF l \in chunk THEN Stamped(l, dead) ELSE table[l]]
  BY DEF WriteChunk
<1>2. /\ chunk \subseteq Listings
      /\ \A l \in chunk : Stamped(l, dead) \in Row
  BY StampKeeps DEF TypeOK
<1>3. /\ table' \in [Listings -> Row \cup {None}]
      /\ \A l \in Listings : table[l] # None => table'[l] # None
  BY <1>1, <1>2, RowShape DEF TypeOK
<1>4. /\ left' \in 0..Limit /\ chunk' = {} /\ Cardinality(chunk') <= left'
      /\ seen' \in [Listings -> Image]
  <2>1. IsFiniteSet(chunk)
    BY EmbedAssumption, <1>2, SubsetSize
  <2>2. Cardinality(chunk) \in Nat /\ Cardinality(chunk) <= left
    BY <2>1, FS_CardinalityType DEF TypeOK
  <2>3. left' = left - Cardinality(chunk) /\ chunk' = {} /\ seen' = NothingSeen
    BY DEF WriteChunk
  <2>4. left' \in 0..Limit
    BY <2>2, <2>3, EmbedAssumption DEF TypeOK
  <2> QED BY <2>3, <2>4, FS_EmptySet DEF NothingSeen, Image
<1>5. UNCHANGED <<capture, captures, raced>>
  BY DEF WriteChunk
<1>6. TypeOK'
  BY <1>3, <1>4, <1>5 DEF TypeOK
<1>7. LoadedExists'
  BY <1>3, <1>5, CaptureShape DEF LoadedExists
<1>8. RowsMatch'
  <2> SUFFICES ASSUME NEW l \in Listings, table'[l] # None, l \notin raced
               PROVE  Matches(table'[l])
    BY <1>5 DEF RowsMatch
  <2>1. CASE l \in chunk
    <3>1. table'[l] = Stamped(l, dead) /\ Matches(Stamped(l, dead))
      BY <1>1, <2>1, StampKeeps
    <3> QED BY <3>1 DEF Matches
  <2>2. CASE l \notin chunk
    <3>1. table'[l] = table[l] /\ Matches(table[l])
      BY <1>1, <2>2 DEF RowsMatch
    <3> QED BY <3>1 DEF Matches
  <2> QED BY <2>1, <2>2
<1>9. ChunkAsRead'
  BY <1>4 DEF ChunkAsRead
<1> QED BY <1>6, <1>7, <1>8, <1>9

LEMMA ReadKeeps ==
  ASSUME RaceInv, JobsTypeOK', ReadChunk
  PROVE  RaceInv'
<1> USE DEF RaceInv
<1>1. /\ chunk' \in SUBSET Pending
      /\ Cardinality(chunk') = Least(ChunkSize(left), Cardinality(Pending))
      /\ seen' = [l \in Listings |-> IF l \in chunk' THEN table[l].photo ELSE None]
      /\ UNCHANGED <<table, capture, left, captures, raced>>
  BY DEF ReadChunk
<1>2. chunk' \subseteq Listings /\ \A l \in chunk' : table[l] \in Row /\ ~table[l].embedded
  BY <1>1 DEF Pending, TypeOK
<1>3. Cardinality(chunk') <= left
  <2>1. IsFiniteSet(Pending)
    BY EmbedAssumption, SubsetSize DEF Pending
  <2>2. Cardinality(Pending) \in Nat
    BY <2>1, FS_CardinalityType
  <2> QED BY <1>1, <2>2, EmbedAssumption DEF Least, ChunkSize, TypeOK
<1>4. seen' \in [Listings -> Image]
  BY <1>1, <1>2, RowShape DEF Image
<1>5. TypeOK'
  BY <1>1, <1>2, <1>3, <1>4 DEF TypeOK
<1>6. LoadedExists' /\ RowsMatch'
  BY <1>1 DEF LoadedExists, RowsMatch
<1>7. ChunkAsRead'
  BY <1>1, <1>2, RowShape DEF ChunkAsRead
<1> QED BY <1>5, <1>6, <1>7

LEMMA LoadKeeps ==
  ASSUME RaceInv, JobsTypeOK', NEW c \in Clients, NEW l \in Captured, NEW p \in Image,
         LoadCapture(c, l, p)
  PROVE  RaceInv'
<1> USE DEF RaceInv
<1> DEFINE new == [stage |-> "loaded", id |-> l, photo |-> p, row |-> table[l]]
<1>1. /\ capture' = [capture EXCEPT ![c] = new] /\ captures' \in 0..MaxCaptures
      /\ UNCHANGED <<table, left, chunk, seen, raced>>
  BY EmbedAssumption DEF LoadCapture, TypeOK
<1>2. l \in Listings /\ new \in Capture
  BY EmbedAssumption DEF TypeOK, Capture
<1>3. capture' \in [Clients -> Capture \cup {None}]
  BY <1>1, <1>2 DEF TypeOK
<1>4. TypeOK'
  BY <1>1, <1>3 DEF TypeOK
<1>5. LoadedExists'
  <2> SUFFICES ASSUME NEW d \in Clients, capture'[d] # None, capture'[d].row # None
               PROVE  table[capture'[d].id] # None
    BY <1>1 DEF LoadedExists
  <2>1. CASE d = c
    BY <1>1, <2>1 DEF TypeOK
  <2>2. CASE d # c
    BY <1>1, <2>2 DEF TypeOK, LoadedExists
  <2> QED BY <2>1, <2>2
<1>6. RowsMatch' /\ ChunkAsRead'
  BY <1>1 DEF RowsMatch, ChunkAsRead
<1> QED BY <1>4, <1>5, <1>6

LEMMA EnterKeeps ==
  ASSUME RaceInv, JobsTypeOK', NEW c \in Clients, InsertCapture(c)
  PROVE  RaceInv'
<1> USE DEF RaceInv
<1>1. /\ capture[c] # None /\ table[capture[c].id] = None /\ Moves(c, "asking")
      /\ table' = [table EXCEPT ![capture[c].id] = NewRow(capture[c].photo)]
      /\ UNCHANGED <<left, chunk, seen, captures, raced>>
  BY DEF InsertCapture, At
<1>2. capture[c].id \in Listings /\ capture[c].photo \in Image
  BY <1>1, CaptureShape
<1>3. /\ table' \in [Listings -> Row \cup {None}]
      /\ \A m \in Listings : table[m] # None => table'[m] = table[m]
      /\ RowsMatch' /\ ChunkAsRead'
  BY <1>1, <1>2, InsertKeeps
<1>4. /\ capture' \in [Clients -> Capture \cup {None}]
      /\ \A d \in Clients : capture'[d] # None =>
           capture[d] # None /\ capture'[d].id = capture[d].id
                             /\ capture'[d].row = capture[d].row
  BY <1>1, CaptureMoves
<1>5. TypeOK'
  BY <1>1, <1>3, <1>4 DEF TypeOK
<1>6. LoadedExists'
  BY <1>3, <1>4, CaptureShape DEF LoadedExists
<1> QED BY <1>3, <1>5, <1>6

LEMMA IngestKeeps ==
  ASSUME RaceInv, JobsTypeOK', NEW l \in Listings, NEW p \in Image, IngestAdds(l, p)
  PROVE  RaceInv'
<1> USE DEF RaceInv
<1>1. /\ table[l] = None /\ table' = [table EXCEPT ![l] = NewRow(p)]
      /\ UNCHANGED <<capture, left, chunk, seen, captures, raced>>
  BY DEF IngestAdds
<1>2. /\ table' \in [Listings -> Row \cup {None}]
      /\ \A m \in Listings : table[m] # None => table'[m] = table[m]
      /\ RowsMatch' /\ ChunkAsRead'
  BY <1>1, InsertKeeps
<1>3. TypeOK'
  BY <1>1, <1>2 DEF TypeOK
<1>4. LoadedExists'
  BY <1>1, <1>2, CaptureShape DEF LoadedExists
<1> QED BY <1>2, <1>3, <1>4

\* A job that starts has nothing in hand; one that ends forgets what it had.
LEMMA JobKeeps ==
  ASSUME RaceInv, JobsTypeOK',
         UNCHANGED <<table, capture, captures, raced>>,
         \/ left' \in {left, Limit} /\ UNCHANGED <<chunk, seen>>
         \/ left' = 0 /\ chunk' = {} /\ seen' = NothingSeen
  PROVE  RaceInv'
<1> USE DEF RaceInv
<1>1. TypeOK'
  <2>1. CASE left' \in {left, Limit} /\ UNCHANGED <<chunk, seen>>
    <3>1. IsFiniteSet(chunk)
      BY EmbedAssumption, SubsetSize DEF TypeOK
    <3>2. Cardinality(chunk) \in Nat
      BY <3>1, FS_CardinalityType
    <3>3. left' \in 0..Limit /\ Cardinality(chunk) <= left'
      BY <2>1, <3>2, EmbedAssumption DEF TypeOK
    <3> QED BY <2>1, <3>3 DEF TypeOK
  <2>2. CASE left' = 0 /\ chunk' = {} /\ seen' = NothingSeen
    <3>1. seen' \in [Listings -> Image] /\ left' \in 0..Limit
      BY <2>2, EmbedAssumption DEF NothingSeen, Image
    <3> QED BY <2>2, <3>1, FS_EmptySet DEF TypeOK
  <2> QED BY <2>1, <2>2
<1>2. LoadedExists' /\ RowsMatch'
  BY DEF LoadedExists, RowsMatch
<1>3. ChunkAsRead'
  BY DEF ChunkAsRead
<1> QED BY <1>1, <1>2, <1>3

LEMMA RaceStep ==
  ASSUME RaceInv, JobsTypeOK', [Next]_vars
  PROVE  RaceInv'
<1>1. capture \in [Clients -> Capture \cup {None}] /\ captures \in 0..MaxCaptures
  BY DEF RaceInv, TypeOK
<1>2. CASE UNCHANGED vars \/ UNCHANGED embedVars
  BY <1>1, <1>2, QuietRaces DEF vars, embedVars
<1>3. ASSUME NEW c \in Clients, NEW l \in Captured, NEW p \in Image, LoadCapture(c, l, p)
      PROVE  RaceInv'
  BY <1>3, LoadKeeps
<1>4. ASSUME NEW c \in Clients, InsertCapture(c)
      PROVE  RaceInv'
  BY <1>4, EnterKeeps
<1>5. ASSUME NEW c \in Clients, UpdateCapture(c)
      PROVE  RaceInv'
  BY <1>5, UpdateKeeps
<1>6. ASSUME NEW c \in Clients,
             RefuseCapture(c) \/ RefreshCapture(c) \/ CaptureDies(c) \/ Ask(c)
      PROVE  RaceInv'
  <2>1. capture[c] # None /\ UNCHANGED <<table, left, chunk, seen, captures, raced>>
    BY <1>6 DEF RefuseCapture, RefreshCapture, CaptureDies, Ask, At
  <2>2. CASE UNCHANGED capture
    BY <1>1, <2>1, <2>2, QuietRaces
  <2>3. CASE Answers(c) \/ Moves(c, "asking")
    <3>1. /\ capture' \in [Clients -> Capture \cup {None}]
          /\ \A d \in Clients : capture'[d] # None =>
               capture[d] # None /\ capture'[d].id = capture[d].id
                                 /\ capture'[d].row = capture[d].row
      BY <2>1, <2>3, CaptureMoves DEF RaceInv
    <3> QED BY <1>1, <2>1, <3>1, QuietRaces
  <2> QED BY <1>6, <2>2, <2>3 DEF RefuseCapture, RefreshCapture, CaptureDies, Ask
<1>7. ASSUME NEW l \in Listings, NEW p \in Image, IngestAdds(l, p)
      PROVE  RaceInv'
  BY <1>7, IngestKeeps
<1>8. ASSUME NEW q \in Queues, StartJob(q) \/ FinishJob(q) \/ KillJob(q)
      PROVE  RaceInv'
  BY <1>8, JobKeeps DEF StartJob, FinishJob, KillJob, Forgets
<1> QED
  BY <1>2, <1>3, <1>4, <1>5, <1>6, <1>7, <1>8, ReadKeeps, WriteKeeps DEF Next

LEMMA RaceInit == Init => RaceInv
<1> SUFFICES ASSUME Init PROVE RaceInv
  OBVIOUS
<1>1. JobsTypeOK
  BY TypeInit DEF Init
<1>2. /\ table \in [Listings -> Row \cup {None}]
      /\ \A l \in Listings : table[l] # None =>
           table[l].embedded /\ table[l].vector \in {None, table[l].photo}
  BY DEF Init
<1>3. TypeOK
  BY <1>1, <1>2, EmbedAssumption, FS_EmptySet DEF Init, TypeOK, NothingSeen, Image
<1>4. RowsMatch
  BY <1>2 DEF RowsMatch, Matches
<1> QED BY <1>3, <1>4 DEF Init, RaceInv, LoadedExists, ChunkAsRead

\* The invariant behind the two results below.
THEOREM RaceInvariant == Spec => []RaceInv
<1>1. RaceInv /\ JobsTypeOK' /\ [Next]_vars => RaceInv'
  BY RaceStep
<1>2. Spec => []JobsTypeOK
  BY PipelineImplementsJobs, JobsTypeCorrect, PTL
<1> QED BY <1>1, <1>2, RaceInit, PTL DEF Spec

\* Rows, captures and jobs stay well formed, and a job never takes more
\* listings than its limit leaves it (TypeOK).
THEOREM PipelineTypeCorrect == Spec => []TypeOK
<1>1. RaceInv => TypeOK
  BY DEF RaceInv
<1> QED BY <1>1, RaceInvariant, PTL

\* A vector that is not of the row's photo, or on a row that still waits,
\* takes a capture that overlapped the embedding of the listing or another
\* capture of it (MismatchIsRaced): jobs that die, chunks that are cut short
\* and captures in sequence never lead to one.
THEOREM MismatchesAreRaced == Spec => []MismatchIsRaced
<1>1. RaceInv => MismatchIsRaced
  BY DEF RaceInv, RowsMatch, Matches, MismatchIsRaced
<1> QED BY <1>1, RaceInvariant, PTL

-----------------------------------------------------------------------------
(***************************************************************************)
(* Captures in turn.                                                       *)
(***************************************************************************)

\* No listing is captured twice at once or while a job embeds it.
CapturesInTurn ==
  \A c \in Clients : At(c, "loaded") =>
    /\ capture[c].id \notin chunk
    /\ \A d \in Clients \ {c} : At(d, "loaded") => capture[d].id # capture[c].id

\* Then what a capture loaded is what the row is when it commits.
CopiesAreCurrent ==
  /\ raced = {}
  /\ \A c \in Clients : At(c, "loaded") => table[capture[c].id] = capture[c].row

\* A thread that saves, asks or ends holds no copy, and the others keep theirs.
LEMMA CopiesAreDropped ==
  ASSUME TypeOK, NEW c \in Clients, capture[c] # None,
         Answers(c) \/ Moves(c, "saved") \/ Moves(c, "asking")
  PROVE  \A d \in Clients : At(d, "loaded")' => d # c /\ capture'[d] = capture[d]
<1>1. capture[c] \in Capture /\ capture \in [Clients -> Capture \cup {None}]
  BY CaptureShape DEF TypeOK
<1>2. \A d \in Clients \ {c} : capture'[d] = capture[d]
  BY <1>1 DEF Answers, Moves
<1>3. CASE Answers(c)
  BY <1>1, <1>2, <1>3 DEF Answers, At
<1>4. ASSUME NEW s \in {"saved", "asking"}, Moves(c, s)
      PROVE  capture'[c].stage # "loaded"
  <2>1. capture'[c] = [capture[c] EXCEPT !.stage = s]
    BY <1>1, <1>4 DEF Moves
  <2>2. [capture[c] EXCEPT !.stage = s].stage = s
    BY <1>1 DEF Capture
  <2> QED BY <2>1, <2>2
<1> QED BY <1>2, <1>3, <1>4 DEF At

\* Whoever writes rows leaves those that another capture has loaded.
LEMMA CopiesStay ==
  ASSUME RaceInv, CopiesAreCurrent, raced' = {},
         \A c \in Clients : At(c, "loaded")' =>
           /\ capture'[c] = capture[c]
           /\ table'[capture[c].id] = table[capture[c].id]
  PROVE  CopiesAreCurrent'
BY DEF CopiesAreCurrent, At

\* A step keeps them current.
LEMMA CopiesStep ==
  ASSUME RaceInv, CapturesInTurn, CopiesAreCurrent, [Next]_vars
  PROVE  CopiesAreCurrent'
<1>0. TypeOK
  BY DEF RaceInv
<1>1. CASE UNCHANGED <<table, capture, raced>>
  BY <1>1 DEF CopiesAreCurrent, At
<1>2. CASE UNCHANGED vars \/ UNCHANGED embedVars
  BY <1>1, <1>2 DEF vars, embedVars
<1>3. ASSUME NEW c \in Clients, NEW l \in Captured, NEW p \in Image, LoadCapture(c, l, p)
      PROVE  CopiesAreCurrent'
  <2> DEFINE new == [stage |-> "loaded", id |-> l, photo |-> p, row |-> table[l]]
  <2>1. capture' = [capture EXCEPT ![c] = new] /\ UNCHANGED <<table, raced>>
    BY <1>3 DEF LoadCapture
  <2>2. capture'[c] = new /\ \A d \in Clients \ {c} : capture'[d] = capture[d]
    BY <1>0, <2>1 DEF TypeOK
  <2> QED BY <2>1, <2>2 DEF CopiesAreCurrent, At
<1>4. ASSUME NEW c \in Clients, InsertCapture(c) \/ UpdateCapture(c)
      PROVE  CopiesAreCurrent'
  <2> DEFINE l == capture[c].id
  <2>1. /\ At(c, "loaded") /\ capture[c] # None
        /\ Moves(c, "saved") \/ Moves(c, "asking")
    BY <1>4 DEF InsertCapture, UpdateCapture, At
  <2>2. \A d \in Clients : At(d, "loaded")' => d # c /\ capture'[d] = capture[d]
    BY <1>0, <2>1, CopiesAreDropped
  <2>3. \A m \in Listings \ {l} : table'[m] = table[m]
    BY <1>0, <1>4 DEF InsertCapture, UpdateCapture, TypeOK
  <2>4. raced' = {}
    BY <1>4, <2>1 DEF InsertCapture, UpdateCapture, CapturesInTurn, CopiesAreCurrent
  <2>5. ASSUME NEW d \in Clients, At(d, "loaded")'
        PROVE  capture'[d] = capture[d] /\ table'[capture[d].id] = table[capture[d].id]
    <3>1. d # c /\ capture'[d] = capture[d] /\ At(d, "loaded")
      BY <2>2, <2>5 DEF At
    <3>2. capture[d].id \in Listings /\ capture[d].id # l
      BY <1>0, <2>1, <3>1, CaptureShape DEF CapturesInTurn, At
    <3> QED BY <2>3, <3>1, <3>2
  <2> QED BY <2>4, <2>5, CopiesStay
<1>5. ASSUME NEW c \in Clients,
             RefuseCapture(c) \/ RefreshCapture(c) \/ Ask(c) \/ CaptureDies(c)
      PROVE  CopiesAreCurrent'
  <2>1. capture[c] # None /\ UNCHANGED <<table, raced>>
    BY <1>5 DEF RefuseCapture, RefreshCapture, Ask, CaptureDies, At
  <2>2. CASE UNCHANGED capture
    BY <1>1, <2>1, <2>2
  <2>3. CASE Answers(c) \/ Moves(c, "asking")
    <3>1. \A d \in Clients : At(d, "loaded")' => d # c /\ capture'[d] = capture[d]
      BY <1>0, <2>1, <2>3, CopiesAreDropped
    <3> QED BY <2>1, <3>1, CopiesStay DEF CopiesAreCurrent
  <2> QED BY <1>5, <2>2, <2>3 DEF RefuseCapture, RefreshCapture, Ask, CaptureDies
<1>6. ASSUME NEW l \in Listings, NEW p \in Image, IngestAdds(l, p)
      PROVE  CopiesAreCurrent'
  <2>1. /\ l \notin Captured /\ UNCHANGED <<capture, raced>>
        /\ \A m \in Listings \ {l} : table'[m] = table[m]
    BY <1>0, <1>6 DEF IngestAdds, TypeOK
  <2>2. \A d \in Clients : At(d, "loaded") =>
          capture[d].id \in Listings /\ capture[d].id # l
    BY <1>0, <2>1, CaptureShape DEF At
  <2> QED BY <2>1, <2>2, CopiesStay DEF CopiesAreCurrent, At
<1>7. CASE WriteChunk
  <2>1. UNCHANGED <<capture, raced>> /\ \A m \in Listings \ chunk : table'[m] = table[m]
    BY <1>7 DEF WriteChunk
  <2>2. \A d \in Clients : At(d, "loaded") => capture[d].id \in Listings \ chunk
    BY <1>0, CaptureShape DEF At, CapturesInTurn
  <2> QED BY <2>1, <2>2, CopiesStay DEF CopiesAreCurrent, At
<1>8. CASE ReadChunk \/ \E q \in Queues : StartJob(q) \/ FinishJob(q) \/ KillJob(q)
  BY <1>1, <1>8 DEF ReadChunk, StartJob, FinishJob, KillJob
<1> QED BY <1>2, <1>3, <1>4, <1>5, <1>6, <1>7, <1>8 DEF Next

\* capture.py:248, "re-embed against the new photo": where no listing is
\* captured twice at once or while a job embeds it, every embedded row shows
\* its photo, whatever dies, fails or is cut short.
THEOREM CapturesInTurnShowThePhoto ==
  Spec /\ []CapturesInTurn => []VectorShowsThePhoto
<1>1. Init => CopiesAreCurrent
  BY DEF Init, CopiesAreCurrent, At
<1>2. RaceInv /\ CapturesInTurn /\ CopiesAreCurrent /\ [Next]_vars => CopiesAreCurrent'
  BY CopiesStep
<1>3. RaceInv /\ CopiesAreCurrent => VectorShowsThePhoto
  BY DEF RaceInv, RowsMatch, Matches, CopiesAreCurrent, VectorShowsThePhoto
<1> QED BY <1>1, <1>2, <1>3, RaceInvariant, PTL DEF Spec

\* Whatever captures do, a listing of the searches shows its photo.
IngestedShowThePhoto ==
  \A l \in Listings \ Captured : table[l] # None /\ table[l].embedded =>
    table[l].vector \in {None, table[l].photo}

\* embed_listings.py: no capture gets the vector of another photo onto a
\* listing that is not its own.
THEOREM IngestedAreSafe == Spec => []IngestedShowThePhoto
<1>1. RaceInv => IngestedShowThePhoto
  BY DEF RaceInv, TypeOK, RowsMatch, Matches, IngestedShowThePhoto
<1> QED BY <1>1, RaceInvariant, PTL
=============================================================================
