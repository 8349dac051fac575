------------------------- MODULE ShoutIndexingProofs -------------------------
(***************************************************************************)
(* Proofs about ShoutIndexing: what the index shows once the jobs of a     *)
(* shout are done, and how many shouts a deactivation leaves unmuted, for  *)
(* any number of shouts, requests and workers.                             *)
(***************************************************************************)
EXTENDS ShoutIndexing, FiniteSetTheorems, SequenceTheorems, TLAPS
-----------------------------------------------------------------------------
Calling == {"authenticated", "insert", "item", "clear", "tags", "save", "list", "mute",
            "copy", "enqueue", "publish"}

ReqState == Call \cup Ended \cup {NotMade}

\* The phases in which a request has a shout that has a row.
Having == {"item", "clear", "tags", "save", "copy", "enqueue", "publish"}

\* What is known of a request by how far it has come.
ReqOK(c) ==
    /\ c.phase = "insert" =>
          c.op = "create" /\ c.shout \in Shout /\ row[c.shout] = None /\ item[c.shout] # None
    /\ c.phase \in Having => c.shout \in Shout /\ row[c.shout] # None
    /\ c.phase \in {"item", "clear"} => c.op = "edit"
    /\ c.phase \in {"tags", "publish"} => c.op \in {"create", "edit"}
    /\ c.phase = "save" => c.op \in {"edit", "delete"}
    /\ c.phase \in {"item", "clear", "tags", "save"} /\ c.op # "create" => c.row \in Row
    /\ c.phase \in {"item", "clear", "tags", "save"} /\ c.op = "edit" => c.item \in Item
    /\ c.phase = "enqueue" => c.copy \in Copy
    /\ c.phase \in {"list", "mute"} => c.op = "deactivate"
    /\ c.phase \in {"mute", "copy", "enqueue"} /\ c.op = "deactivate" => \A s \in c.todo : row[s] # None

\* Jobs and documents are of shouts that have a row, and a row is inserted by one
\* request.
MadeInv ==
    /\ \A r \in Request : ReqOK(req[r])
    /\ \A q, r \in Request :
          req[q].phase = "insert" /\ req[r].phase = "insert" /\ req[q].shout = req[r].shout => q = r
    /\ \A i \in DOMAIN jobs : row[jobs[i].shout] # None
    /\ worker # None =>
          row[worker.job.shout] # None /\ (worker.phase = "enqueue" => worker.copy \in Copy)
    /\ \A s \in Shout : row[s] = None => doc[s] = None

TInv == TypeOK /\ MadeInv
-----------------------------------------------------------------------------
\* The worker has a job in hand that will save the document of s.
Indexing(s) ==
    worker # None /\ worker.job.kind = "index" /\ worker.job.shout = s /\ worker.phase \in {"tags", "save"}

IsIndex(job, s) == job.kind = "index" /\ job.shout = s

Fresh(job, s) == job.copy = CopyOf(row[s]) /\ ~ (job.created /\ job.copy.disabled)

\* The last index job for s on the queue has the row as it is, ...
QueueFresh(s) ==
    \A i \in DOMAIN jobs :
       IsIndex(jobs[i], s) /\ (\A j \in DOMAIN jobs : j > i => ~ IsIndex(jobs[j], s)) => Fresh(jobs[i], s)

\* ... or, if there is none, the one in hand, ...
WorkerFresh(s) == worker.job.copy = CopyOf(row[s]) /\ ~ worker.job.copy.disabled

\* ... or the document.
DocFresh(s) ==
    IF row[s] = None \/ row[s].disabled THEN doc[s] = None
    ELSE doc[s] # None /\ doc[s].text = row[s].text /\ doc[s].muted = row[s].muted

RowKept(s) ==
    IF Holds(jobs, s) THEN QueueFresh(s) ELSE IF Indexing(s) THEN WorkerFresh(s) ELSE DocFresh(s)

\* Item and tags are those that the job in hand has read, or those of the document,
\* unless another job will read them.
ItemKept(s) ==
    \/ Holds(jobs, s)
    \/ /\ Indexing(s)
       /\ worker.name = item[s].name /\ (worker.phase = "save" => worker.tags = tags[s])
    \/ ~ Indexing(s) /\ (doc[s] # None => doc[s].name = item[s].name /\ doc[s].tags = tags[s])

Changing(s) == \E r \in Request : Unindexed(r, s)

XInv(s) == s \in lost \/ Changing(s) \/ (ItemKept(s) /\ (s \in late \/ RowKept(s)))
-----------------------------------------------------------------------------
Unmuted == {s \in Shout : row[s] # None /\ ~ row[s].muted}

\* The requests that may leave a shout unmuted yet: one each.
Writes(c) ==
    /\ c.phase \in {"authenticated", "insert", "item", "clear", "tags", "save"}
    /\ c.op # "deactivate" /\ (c.phase = "tags" => c.op # "create")

Writers == {r \in Request : Writes(req[r])}

\* A request that has listed the shouts to mute, and those it is still to mute.
Listed(c) == c.phase \in {"mute", "copy", "enqueue", "done"} /\ c.op = "deactivate"

Todo(c) == IF c.phase = "done" THEN {} ELSE c.todo

Left(r) == Unmuted \ Todo(req[r])

MuteInv ==
    /\ Cardinality(InFlight) <= Workers
    /\ \A r \in Request : req[r].phase = "list" => ~ active
    /\ \A r \in Request : Listed(req[r]) =>
          ~ active /\ IsFiniteSet(Left(r)) /\ Cardinality(Left(r)) + Cardinality(Writers) < Workers
-----------------------------------------------------------------------------
LEMMA NotNone ==
    /\ \A x \in Row \cup Item \cup Copy \cup Doc \cup InHand : x # None
    /\ Workers \in Nat \ {0} /\ Requests \in Nat
  BY NoneAssumption, ShoutIndexingAssumption

LEMMA ReqPhases ==
    ASSUME NEW c \in ReqState
    PROVE  /\ c \in Call <=> c.phase \in Calling
           /\ c.phase \notin {"not_made", "done", "aborted"} <=> c.phase \in Calling
           /\ c = NotMade <=> c.phase = "not_made"
           /\ c \in Ended <=> c.phase \in {"done", "aborted"}
  BY DEF ReqState, Call, Ended, NotMade, Calling

LEMMA ReqTypes ==
    ASSUME TypeOK
    PROVE  /\ req \in [Request -> ReqState]
           /\ InFlight \subseteq Request
           /\ \A r \in Request :
                 /\ r \in InFlight <=> req[r].phase \in Calling
                 /\ req[r].phase \in Calling => req[r] \in Call
  <1>1. req \in [Request -> ReqState]
    BY DEF TypeOK, ReqState
  <1>2. QED
    BY <1>1, ReqPhases DEF InFlight

LEMMA ReqPut ==
    ASSUME TypeOK, NEW r \in Request, NEW c \in ReqState, req' = [req EXCEPT ![r] = c]
    PROVE  /\ req' \in [Request -> ReqState] /\ req'[r] = c
           /\ \A q \in Request \ {r} : req'[q] = req[q]
  BY ReqTypes

\* A request goes on to its next statement.
LEMMA ReqGoto ==
    ASSUME TypeOK, NEW r \in Request, req[r].phase \in Calling, NEW phase \in Calling, Goto(r, phase)
    PROVE  /\ req' \in [Request -> ReqState]
           /\ \A q \in Request \ {r} : req'[q] = req[q]
           /\ \E c \in Call :
                 /\ c = req'[r] /\ c.phase = phase
                 /\ c.op = req[r].op /\ c.shout = req[r].shout /\ c.changes = req[r].changes
                 /\ c.row = req[r].row /\ c.item = req[r].item /\ c.copy = req[r].copy /\ c.todo = req[r].todo
  <1>1. req \in [Request -> ReqState] /\ req[r] \in Call
    BY ReqTypes
  <1>2. PICK c : c = [req[r] EXCEPT !.phase = phase]
    OBVIOUS
  <1>3. /\ c \in Call /\ c.phase = phase
        /\ c.op = req[r].op /\ c.shout = req[r].shout /\ c.changes = req[r].changes
        /\ c.row = req[r].row /\ c.item = req[r].item /\ c.copy = req[r].copy /\ c.todo = req[r].todo
    BY <1>1, <1>2 DEF Call, Calling
  <1>4. c \in ReqState /\ req' = [req EXCEPT ![r] = c]
    BY <1>1, <1>2, <1>3 DEF Goto, ReqState
  <1>5. QED
    BY <1>3, <1>4, ReqPut

LEMMA ReqEnd ==
    ASSUME TypeOK, NEW r \in Request, req[r].phase \in Calling, NEW how \in {"done", "aborted"}, End(r, how)
    PROVE  /\ req' \in [Request -> ReqState]
           /\ \A q \in Request \ {r} : req'[q] = req[q]
           /\ \E c \in ReqState : c = req'[r] /\ c.phase = how /\ c.op = req[r].op
  <1>1. req \in [Request -> ReqState] /\ req[r] \in Call
    BY ReqTypes
  <1>2. PICK c : c = [phase |-> how, op |-> req[r].op]
    OBVIOUS
  <1>3. c \in ReqState /\ c.phase = how /\ c.op = req[r].op
    BY <1>1, <1>2 DEF Call, ReqState, Ended
  <1>4. req' = [req EXCEPT ![r] = c]
    BY <1>2 DEF End
  <1>5. QED
    BY <1>3, <1>4, ReqPut
-----------------------------------------------------------------------------
\* A request stays what is known of it as long as no row goes, and no other
\* inserts the row it is to insert.
LEMMA ReqStays ==
    ASSUME NEW c \in ReqState, ReqOK(c),
           \A s \in Shout : row[s] # None => row'[s] # None,
           c.phase = "insert" => row'[c.shout] = None /\ item'[c.shout] # None
    PROVE  ReqOK(c)'
  <1>1. c.phase \in {"mute", "copy", "enqueue"} => c.todo \subseteq Shout
    BY ReqPhases DEF Call, Calling
  <1>2. QED
    BY <1>1 DEF ReqOK, Having

LEMMA MadeMoves ==
    ASSUME TInv, NEW r \in Request, NEW c \in ReqState, c = req'[r], ReqOK(c)',
           req' \in [Request -> ReqState], \A q \in Request \ {r} : req'[q] = req[q],
           \A s \in Shout : row[s] # None => row'[s] # None,
           \A q \in Request \ {r} : req[q].phase = "insert" =>
              /\ row'[req[q].shout] = None /\ item'[req[q].shout] # None
              /\ c.phase = "insert" => c.shout # req[q].shout,
           \A i \in DOMAIN jobs' : jobs'[i].shout \in Shout /\ row[jobs'[i].shout] # None,
           UNCHANGED <<doc, worker>>
    PROVE  MadeInv'
  <1>1. TypeOK /\ MadeInv
    BY DEF TInv
  <1>2. ASSUME NEW q \in Request
        PROVE  ReqOK(req[q])'
    <2>1. CASE q = r
      BY <2>1 DEF ReqOK
    <2>2. CASE q # r
      <3>1. PICK d : d = req[q]
        OBVIOUS
      <3>2. d \in ReqState /\ ReqOK(d)
        BY <1>1, <3>1, ReqTypes DEF MadeInv
      <3>3. ReqOK(d)'
        BY <2>2, <3>1, <3>2, ReqStays
      <3>4. d = req'[q]
        BY <2>2, <3>1
      <3>5. QED
        BY <3>3, <3>4 DEF ReqOK
    <2>3. QED
      BY <2>1, <2>2
  <1>3. ASSUME NEW p \in Request, NEW q \in Request,
               req'[p].phase = "insert", req'[q].phase = "insert", req'[p].shout = req'[q].shout
        PROVE  p = q
    <2>1. CASE p # r /\ q # r
      BY <1>1, <1>3, <2>1 DEF MadeInv
    <2>2. CASE p = r \/ q = r
      BY <1>3, <2>2
    <2>3. QED
      BY <2>1, <2>2
  <1>4. \A i \in DOMAIN jobs' : row'[jobs'[i].shout] # None
    OBVIOUS
  <1>5. worker' # None =>
           row'[worker'.job.shout] # None /\ (worker'.phase = "enqueue" => worker'.copy \in Copy)
    <2>1. worker # None => worker.job.shout \in Shout
      BY <1>1 DEF TypeOK, InHand, IndexJob, PublishJob
    <2>2. QED
      BY <1>1, <2>1 DEF MadeInv
  <1>6. \A s \in Shout : row'[s] = None => doc'[s] = None
    BY <1>1 DEF MadeInv
  <1>7. QED
    BY <1>2, <1>3, <1>4, <1>5, <1>6 DEF MadeInv, Request
-----------------------------------------------------------------------------
\* Request c has changed s and has yet to enqueue the job for it.
Owes(c, s) ==
    /\ c.shout = s
    /\ \/ c.phase \in {"clear", "tags", "copy", "enqueue"}
       \/ c.phase = "save" /\ c.op = "edit"
       \/ c.phase = "publish" /\ c.op = "create"

SameRow(s) ==
    \/ row'[s] = row[s]
    \/ /\ row[s] # None /\ row'[s] # None
       /\ row'[s].text = row[s].text /\ row'[s].muted = row[s].muted /\ row'[s].disabled = row[s].disabled

LEMMA OwesIs ==
    ASSUME NEW r \in Request, NEW s
    PROVE  /\ Unindexed(r, s) <=> Owes(req[r], s)
           /\ Unindexed(r, s)' <=> Owes(req[r], s)'
  BY DEF Unindexed, InFlight, Owes, Request

LEMMA CopySame ==
    ASSUME NEW s, SameRow(s)
    PROVE  CopyOf(row[s])' = CopyOf(row[s])
  BY DEF SameRow, CopyOf

\* What has been indexed of a shout stays so, unless it changes.
LEMMA XKeeps ==
    ASSUME NEW s \in Shout, XInv(s), SameRow(s), item'[s] = item[s], tags'[s] = tags[s], doc'[s] = doc[s],
           Holds(jobs, s)' <=> Holds(jobs, s), QueueFresh(s) => QueueFresh(s)',
           Indexing(s)' <=> Indexing(s), Indexing(s) => worker' = worker,
           s \in lost => s \in lost', s \in late => s \in late',
           Changing(s) => Changing(s)' \/ s \in lost'
    PROVE  XInv(s)'
  <1>1. CopyOf(row[s])' = CopyOf(row[s])
    BY CopySame
  <1>2. ItemKept(s) => ItemKept(s)'
    BY DEF ItemKept
  <1>3. RowKept(s) => RowKept(s)'
    <2>1. Indexing(s) /\ WorkerFresh(s) => WorkerFresh(s)'
      BY <1>1 DEF WorkerFresh
    <2>2. DocFresh(s) => DocFresh(s)'
      BY DEF DocFresh, SameRow
    <2>3. QED
      BY <2>1, <2>2 DEF RowKept
  <1>4. QED
    BY <1>2, <1>3 DEF XInv

LEMMA QueueStays ==
    ASSUME NEW s, SameRow(s), jobs' = jobs
    PROVE  (Holds(jobs, s)' <=> Holds(jobs, s)) /\ (QueueFresh(s) => QueueFresh(s)')
  BY CopySame DEF Holds, QueueFresh, Fresh, IsIndex

LEMMA QueueAppend ==
    ASSUME NEW s, SameRow(s), NEW J, jobs \in Seq(J), NEW job \in J, jobs' = Append(jobs, job), ~ IsIndex(job, s)
    PROVE  (Holds(jobs, s)' <=> Holds(jobs, s)) /\ (QueueFresh(s) => QueueFresh(s)')
  <1>1. /\ Len(jobs) \in Nat /\ DOMAIN jobs = 1..Len(jobs) /\ DOMAIN jobs' = 1..Len(jobs)+1
        /\ \A i \in DOMAIN jobs : jobs'[i] = jobs[i]
        /\ jobs'[Len(jobs)+1] = job
    BY AppendProperties, LenProperties
  <1>2. \A i \in DOMAIN jobs' : i \in DOMAIN jobs \/ jobs'[i] = job
    BY <1>1
  <1>3. DOMAIN jobs \subseteq DOMAIN jobs'
    BY <1>1
  <1>4. Holds(jobs, s)' <=> Holds(jobs, s)
    BY <1>1, <1>2, <1>3 DEF Holds, IsIndex
  <1>5. ASSUME QueueFresh(s), NEW i \in DOMAIN jobs', IsIndex(jobs'[i], s),
               \A j \in DOMAIN jobs' : j > i => ~ IsIndex(jobs'[j], s)
        PROVE  Fresh(jobs[i], s)'
    <2>1. i \in DOMAIN jobs /\ jobs'[i] = jobs[i]
      BY <1>1, <1>2, <1>5
    <2>2. \A j \in DOMAIN jobs : j > i => ~ IsIndex(jobs[j], s)
      BY <1>1, <1>3, <1>5
    <2>3. Fresh(jobs[i], s)
      BY <1>5, <2>1, <2>2 DEF QueueFresh
    <2>4. QED
      BY <2>1, <2>3, CopySame DEF Fresh
  <1>6. QueueFresh(s) => QueueFresh(s)'
    BY <1>5 DEF QueueFresh, IsIndex, Fresh
  <1>7. QED
    BY <1>4, <1>6

LEMMA QueueTail ==
    ASSUME NEW s, SameRow(s), NEW J, jobs \in Seq(J), jobs # << >>, jobs' = Tail(jobs),
           Holds(Tail(jobs), s) \/ ~ IsIndex(Head(jobs), s)
    PROVE  (Holds(jobs, s)' <=> Holds(jobs, s)) /\ (QueueFresh(s) => QueueFresh(s)')
  <1>1. /\ Len(jobs) \in Nat \ {0} /\ DOMAIN jobs = 1..Len(jobs) /\ DOMAIN jobs' = 1..Len(jobs)-1
        /\ \A i \in DOMAIN jobs' : jobs'[i] = jobs[i+1]
        /\ Head(jobs) = jobs[1]
    <2>1. Len(jobs) \in Nat \ {0} /\ DOMAIN jobs = 1..Len(jobs)
      BY EmptySeq, LenProperties
    <2>2. /\ Len(jobs') = Len(jobs) - 1 /\ jobs' \in Seq(J)
          /\ \A i \in 1..Len(jobs') : jobs'[i] = jobs[i+1]
      BY HeadTailProperties
    <2>3. DOMAIN jobs' = 1..Len(jobs')
      BY <2>2, LenProperties
    <2>4. Head(jobs) = jobs[1]
      OBVIOUS
    <2>5. QED
      BY <2>1, <2>2, <2>3, <2>4
  <1>2. \A i \in DOMAIN jobs : i = 1 \/ (i - 1 \in DOMAIN jobs' /\ jobs'[i-1] = jobs[i])
    BY <1>1
  <1>3. \A i \in DOMAIN jobs' : i + 1 \in DOMAIN jobs
    BY <1>1
  <1>4. Holds(jobs, s)' => Holds(jobs, s)
    BY <1>1, <1>3 DEF Holds
  <1>5. Holds(jobs, s) => Holds(jobs, s)'
    <2>1. CASE Holds(Tail(jobs), s)
      BY <2>1 DEF Holds
    <2>2. CASE ~ IsIndex(Head(jobs), s)
      BY <1>1, <1>2, <2>2 DEF Holds, IsIndex
    <2>3. QED
      BY <2>1, <2>2
  <1>6. ASSUME QueueFresh(s), NEW i \in DOMAIN jobs', IsIndex(jobs'[i], s),
               \A j \in DOMAIN jobs' : j > i => ~ IsIndex(jobs'[j], s)
        PROVE  Fresh(jobs[i], s)'
    <2>1. i + 1 \in DOMAIN jobs /\ jobs'[i] = jobs[i+1]
      BY <1>1, <1>3
    <2>2. ASSUME NEW j \in DOMAIN jobs, j > i + 1
          PROVE  ~ IsIndex(jobs[j], s)
      <3>1. i \in Nat \ {0} /\ j \in Nat
        BY <1>1
      <3>2. j # 1 /\ j - 1 > i
        BY <2>2, <3>1
      <3>3. j - 1 \in DOMAIN jobs' /\ jobs'[j-1] = jobs[j]
        BY <1>2, <3>2
      <3>4. ~ IsIndex(jobs'[j-1], s)
        BY <1>6, <3>2, <3>3
      <3>5. QED
        BY <3>3, <3>4
    <2>3. Fresh(jobs[i+1], s)
      BY <1>6, <2>1, <2>2 DEF QueueFresh
    <2>4. QED
      BY <2>1, <2>3, CopySame DEF Fresh
  <1>7. QueueFresh(s) => QueueFresh(s)'
    BY <1>6 DEF QueueFresh, IsIndex, Fresh
  <1>8. QED
    BY <1>4, <1>5, <1>7
-----------------------------------------------------------------------------
\* There is nothing to index of a shout without a row.
LEMMA XNone ==
    ASSUME TypeOK', MadeInv', NEW s \in Shout, row'[s] = None
    PROVE  XInv(s)'
  <1>1. ~ Holds(jobs, s)'
    BY DEF MadeInv, Holds
  <1>2. ~ Indexing(s)'
    BY DEF MadeInv, Indexing
  <1>3. doc'[s] = None
    BY DEF MadeInv
  <1>4. ItemKept(s)'
    BY <1>2, <1>3 DEF ItemKept
  <1>5. RowKept(s)'
    BY <1>1, <1>2, <1>3 DEF RowKept, DocFresh
  <1>6. QED
    BY <1>4, <1>5 DEF XInv

\* A step of request r that leaves the queue alone.
LEMMA XMoves ==
    ASSUME NEW r \in Request, NEW c, c = req'[r], \A q \in Request \ {r} : req'[q] = req[q],
           NEW s \in Shout, XInv(s), UNCHANGED <<doc, queue, late>>, s \in lost => s \in lost',
           Owes(req[r], s) => Owes(c, s) \/ s \in lost',
           Owes(c, s) \/ (SameRow(s) /\ item'[s] = item[s] /\ tags'[s] = tags[s])
    PROVE  XInv(s)'
  <1>1. CASE Owes(c, s)
    <2>1. Owes(req[r], s)'
      BY <1>1 DEF Owes
    <2>2. Changing(s)'
      BY <2>1, OwesIs DEF Changing, Request
    <2>3. QED
      BY <2>2 DEF XInv
  <1>2. CASE ~ Owes(c, s)
    <2>1. Changing(s) => Changing(s)' \/ s \in lost'
      <3>1. SUFFICES ASSUME NEW q \in Request, Unindexed(q, s)
                     PROVE  Changing(s)' \/ s \in lost'
        BY DEF Changing
      <3>2. CASE q = r
        BY <1>2, <3>1, <3>2, OwesIs
      <3>3. CASE q # r
        <4>1. Owes(req[q], s)
          BY <3>1, OwesIs
        <4>2. Owes(req[q], s)'
          BY <3>3, <4>1 DEF Owes
        <4>3. QED
          BY <4>2, OwesIs DEF Changing, Request
      <3>4. QED
        BY <3>2, <3>3
    <2>2. (Holds(jobs, s)' <=> Holds(jobs, s)) /\ (QueueFresh(s) => QueueFresh(s)')
      BY <1>2, QueueStays DEF queue
    <2>3. Indexing(s)' <=> Indexing(s)
      BY DEF queue, Indexing
    <2>4. QED
      BY <1>2, <2>1, <2>2, <2>3, XKeeps DEF queue
  <1>3. QED
    BY <1>1, <1>2

\* The job that is enqueued for t is the last for t, and others keep theirs.
LEMMA XEnqueued ==
    ASSUME TypeOK, NEW s \in Shout, XInv(s), NEW t \in Shout, NEW copy \in Copy, NEW created \in BOOLEAN,
           EnqueueIndex(t, copy, created), UNCHANGED <<database, doc>>,
           Indexing(s)' <=> Indexing(s), Indexing(s) => worker' = worker,
           Changing(s) => Changing(s)' \/ s = t
    PROVE  XInv(s)'
  <1>1. PICK job : job = [kind |-> "index", shout |-> t, copy |-> copy, created |-> created]
    OBVIOUS
  <1>2. job \in IndexJob \cup PublishJob
    BY <1>1 DEF IndexJob
  <1>3. jobs \in Seq(IndexJob \cup PublishJob) /\ jobs' = Append(jobs, job)
    BY <1>1 DEF TypeOK, EnqueueIndex
  <1>4. UNCHANGED <<row, item, tags, doc>> /\ SameRow(s)
    BY DEF database, SameRow
  <1>5. CASE s = t
    <2>1. /\ Len(jobs) \in Nat /\ DOMAIN jobs' = 1..Len(jobs)+1
          /\ jobs'[Len(jobs)+1] = job
      BY <1>2, <1>3, AppendProperties, LenProperties
    <2>2. Len(jobs)+1 \in DOMAIN jobs' /\ IsIndex(jobs'[Len(jobs)+1], s)
      BY <1>1, <1>5, <2>1 DEF IsIndex
    <2>3. Holds(jobs, s)'
      BY <2>2 DEF Holds, IsIndex
    <2>4. ASSUME s \notin late',
                 NEW i \in DOMAIN jobs', IsIndex(jobs'[i], s), \A j \in DOMAIN jobs' : j > i => ~ IsIndex(jobs'[j], s)
          PROVE  Fresh(jobs[i], s)'
      <3>1. i = Len(jobs)+1
        BY <2>1, <2>2, <2>4
      <3>2. copy = CopyOf(row[s]) /\ ~ (created /\ copy.disabled)
        BY <1>5, <2>4 DEF EnqueueIndex
      <3>3. copy = CopyOf(row[s])'
        BY <1>4, <3>2 DEF CopyOf
      <3>4. QED
        BY <1>1, <2>1, <3>1, <3>2, <3>3 DEF Fresh
    <2>5. s \in late' \/ QueueFresh(s)'
      BY <2>4 DEF QueueFresh, IsIndex, Fresh
    <2>6. QED
      BY <2>3, <2>5 DEF XInv, ItemKept, RowKept
  <1>6. CASE s # t
    <2>1. ~ IsIndex(job, s)
      BY <1>1, <1>6 DEF IsIndex
    <2>2. (Holds(jobs, s)' <=> Holds(jobs, s)) /\ (QueueFresh(s) => QueueFresh(s)')
      BY <1>2, <1>3, <1>4, <2>1, QueueAppend
    <2>3. (s \in lost => s \in lost') /\ (s \in late => s \in late')
      BY <1>6 DEF EnqueueIndex
    <2>4. QED
      BY <1>4, <1>6, <2>2, <2>3, XKeeps
  <1>7. QED
    BY <1>5, <1>6
-----------------------------------------------------------------------------
LEMMA FiniteRequests == IsFiniteSet(Request)
  BY NotNone, FS_Interval DEF Request

LEMMA SubsetSmaller ==
    ASSUME NEW S, NEW T, IsFiniteSet(T), S \subseteq T
    PROVE  IsFiniteSet(S) /\ Cardinality(S) <= Cardinality(T) /\ Cardinality(S) \in Nat /\ Cardinality(T) \in Nat
  BY FS_Subset, FS_CardinalityType

LEMMA OneLess ==
    ASSUME NEW S, NEW T, NEW x \in T, IsFiniteSet(T), S \subseteq T \ {x}
    PROVE  IsFiniteSet(S) /\ Cardinality(S) + 1 <= Cardinality(T) /\ Cardinality(S) \in Nat /\ Cardinality(T) \in Nat
  <1>1. IsFiniteSet(T \ {x}) /\ Cardinality(T \ {x}) = Cardinality(T) - 1
    BY FS_RemoveElement
  <1>2. QED
    BY <1>1, SubsetSmaller, FS_CardinalityType

LEMMA OneMore ==
    ASSUME NEW S, NEW T, NEW x, IsFiniteSet(T), S \subseteq T \cup {x}
    PROVE  IsFiniteSet(S) /\ Cardinality(S) <= Cardinality(T) + 1 /\ Cardinality(S) \in Nat /\ Cardinality(T) \in Nat
  <1>1. IsFiniteSet(T \cup {x}) /\ Cardinality(T \cup {x}) <= Cardinality(T) + 1 /\ Cardinality(T) \in Nat
    BY FS_AddElement, FS_CardinalityType
  <1>2. QED
    BY <1>1, SubsetSmaller

\* A step of request r neither starts to write nor lists the shouts, and one that may
\* unmute a shout is its last write.
LEMMA MuteMoves ==
    ASSUME TypeOK, MuteInv, NEW r \in Request, NEW c, c = req'[r], \A q \in Request \ {r} : req'[q] = req[q],
           req[r].phase \in Calling, active' => active, c.phase = "list" => ~ active',
           Writes(c) => Writes(req[r]),
           Listed(c) => Listed(req[r]) /\ Unmuted' \ Todo(c) \subseteq Left(r),
           \/ Unmuted' \subseteq Unmuted
           \/ (\E s : Unmuted' \subseteq Unmuted \cup {s}) /\ Writes(req[r]) /\ ~ Writes(c)
    PROVE  MuteInv'
  <1>1. InFlight' \subseteq InFlight
    BY ReqTypes DEF InFlight, Request
  <1>2. Cardinality(InFlight') <= Workers
    <2>1. IsFiniteSet(InFlight)
      BY FiniteRequests, FS_Subset DEF InFlight
    <2>2. QED
      BY <1>1, <2>1, SubsetSmaller, NotNone DEF MuteInv
  <1>3. \A q \in Request : req'[q].phase = "list" => ~ active'
    BY DEF MuteInv
  <1>4. Writers \subseteq Request /\ Writers' \subseteq Writers /\ (Writes(req[r]) /\ ~ Writes(c) => r \in Writers /\ Writers' \subseteq Writers \ {r})
    BY DEF Writers, Request, Writes
  <1>5. IsFiniteSet(Writers)
    BY <1>4, FiniteRequests, FS_Subset
  <1>6. ASSUME NEW q \in Request, Listed(req[q])'
        PROVE  ~ active' /\ IsFiniteSet(Left(q)') /\ Cardinality(Left(q)') + Cardinality(Writers') < Workers
    <2>1. Listed(req[q])
      BY <1>6 DEF Listed
    <2>2. ~ active /\ IsFiniteSet(Left(q)) /\ Cardinality(Left(q)) + Cardinality(Writers) < Workers
      BY <2>1 DEF MuteInv
    <2>3. CASE Left(q)' \subseteq Left(q)
      BY <1>4, <1>5, <2>2, <2>3, SubsetSmaller, NotNone
    <2>4. CASE ~ (Left(q)' \subseteq Left(q))
      <3>1. q # r
        <4>1. SUFFICES ASSUME q = r PROVE FALSE
          OBVIOUS
        <4>2. Listed(c)
          BY <1>6, <4>1 DEF Listed
        <4>3. Left(q)' = Unmuted' \ Todo(c)
          BY <4>1 DEF Left, Todo
        <4>4. QED
          BY <2>4, <4>1, <4>2, <4>3
      <3>2. Left(q)' = Unmuted' \ Todo(req[q])
        BY <3>1 DEF Left, Todo
      <3>3. ~ (Unmuted' \subseteq Unmuted)
        BY <2>4, <3>2 DEF Left
      <3>4. PICK s : Unmuted' \subseteq Unmuted \cup {s}
        BY <3>3
      <3>5. Left(q)' \subseteq Left(q) \cup {s}
        BY <3>2, <3>4 DEF Left
      <3>6. IsFiniteSet(Left(q)') /\ Cardinality(Left(q)') <= Cardinality(Left(q)) + 1
            /\ Cardinality(Left(q)') \in Nat /\ Cardinality(Left(q)) \in Nat
        BY <2>2, <3>5, OneMore
      <3>7. Cardinality(Writers') + 1 <= Cardinality(Writers) /\ Cardinality(Writers') \in Nat /\ Cardinality(Writers) \in Nat
        BY <1>4, <1>5, <3>3, OneLess
      <3>8. QED
        BY <2>2, <3>6, <3>7, NotNone
    <2>5. QED
      BY <2>3, <2>4
  <1>7. QED
    BY <1>2, <1>3, <1>6 DEF MuteInv, Request
-----------------------------------------------------------------------------
ShoutsInv == TInv /\ (\A s \in Shout : XInv(s)) /\ MuteInv

\* A step of request r that leaves the database and the queue alone.
LEMMA ReadsKeep ==
    ASSUME ShoutsInv, NEW r \in Request, NEW c \in ReqState, c = req'[r], ReqOK(c)',
           req' \in [Request -> ReqState], \A q \in Request \ {r} : req'[q] = req[q],
           UNCHANGED <<row, item, tags, doc, queue, late>>,
           active' \in BOOLEAN, lost \subseteq lost', lost' \subseteq Shout, c.phase # "insert",
           \A s \in Shout : Owes(req[r], s) => Owes(c, s) \/ s \in lost',
           MuteInv'
    PROVE  ShoutsInv'
  <1>1. TypeOK /\ MadeInv /\ TInv
    BY DEF ShoutsInv, TInv
  <1>2. TypeOK'
    BY <1>1 DEF TypeOK, ReqState, queue
  <1>3. MadeInv'
    <2>1. \A i \in DOMAIN jobs' : jobs'[i].shout \in Shout /\ row[jobs'[i].shout] # None
      BY <1>1 DEF TypeOK, MadeInv, IndexJob, PublishJob, queue
    <2>2. \A q \in Request \ {r} : req[q].phase = "insert" =>
             row'[req[q].shout] = None /\ item'[req[q].shout] # None
      BY <1>1 DEF MadeInv, ReqOK
    <2>3. QED
      BY <1>1, <2>1, <2>2, MadeMoves DEF queue
  <1>4. ASSUME NEW s \in Shout
        PROVE  XInv(s)'
    <2>1. XInv(s) /\ SameRow(s)
      BY DEF ShoutsInv, SameRow
    <2>2. QED
      BY <2>1, XMoves
  <1>5. QED
    BY <1>2, <1>3, <1>4 DEF ShoutsInv, TInv

LEMMA AuthenticateInv ==
    ASSUME ShoutsInv, NEW r \in Request, NEW op \in ClientOp, Authenticate(r, op)
    PROVE  ShoutsInv'
  <1>1. TypeOK /\ MadeInv /\ MuteInv
    BY DEF ShoutsInv, TInv
  <1>2. PICK c : c = [phase |-> "authenticated", op |-> op, shout |-> None, changes |-> {}, publish |-> FALSE,
                      row |-> None, item |-> None, copy |-> None, todo |-> {}]
    OBVIOUS
  <1>3. c \in ReqState /\ c.phase = "authenticated"
    BY <1>2, ShoutIndexingAssumption DEF Call, ReqState
  <1>4. req' = [req EXCEPT ![r] = c]
    BY <1>2 DEF Authenticate
  <1>5. /\ req' \in [Request -> ReqState] /\ req'[r] = c
        /\ \A q \in Request \ {r} : req'[q] = req[q]
    BY <1>1, <1>3, <1>4, ReqPut
  <1>6. ReqOK(c)'
    BY <1>3 DEF ReqOK, Having
  <1>7. MuteInv'
    <2>1. InFlight' \subseteq InFlight \cup {r} /\ IsFiniteSet(InFlight)
      BY <1>5, FiniteRequests, FS_Subset DEF InFlight, Request
    <2>2. Cardinality(InFlight') <= Workers
      <3>1. Cardinality(InFlight) < Workers
        BY DEF Authenticate
      <3>2. /\ Cardinality(InFlight') <= Cardinality(InFlight) + 1
            /\ Cardinality(InFlight') \in Nat /\ Cardinality(InFlight) \in Nat
        BY <2>1, OneMore
      <3>3. QED
        BY <3>1, <3>2, NotNone
    <2>3. active /\ active'
      BY DEF Authenticate, database
    <2>4. \A q \in Request : req'[q].phase # "list" /\ ~ Listed(req[q])'
      BY <1>1, <1>3, <1>5, <2>3 DEF MuteInv, Listed
    <2>5. QED
      BY <2>2, <2>4 DEF MuteInv, Request
  <1>8. \A s \in Shout : ~ Owes(req[r], s)
    BY DEF Authenticate, NotMade, Owes
  <1>9. QED
    BY <1>1, <1>3, <1>5, <1>6, <1>7, <1>8, ReadsKeep DEF Authenticate, database, history, TypeOK

LEMMA GetShoutInv ==
    ASSUME ShoutsInv, NEW r \in Request, NEW s \in Shout, GetShout(r, s)
    PROVE  ShoutsInv'
  <1>1. TypeOK /\ MadeInv /\ MuteInv
    BY DEF ShoutsInv, TInv
  <1>2. req[r] \in Call /\ req[r].phase = "authenticated" /\ req[r].op \in {"edit", "delete"}
    BY <1>1, ReqTypes DEF GetShout, At, Calling
  <1>3. row[s] \in Row /\ row[s] # None /\ item[s] \in Item
    BY <1>1 DEF TypeOK, GetShout
  <1>4. PICK c \in ReqState :
           /\ req' = [req EXCEPT ![r] = c]
           /\ c.shout = s /\ c.row = row[s] /\ c.op = req[r].op
           /\ \/ c.phase = "save" /\ c.op = "delete"
              \/ c.phase = "item" /\ c.op = "edit" /\ c.item = item[s]
    <2>1. CASE req[r].op = "delete"
      <3>1. PICK c : c = [req[r] EXCEPT !.phase = "save", !.shout = s, !.row = row[s]]
        OBVIOUS
      <3>2. c \in ReqState
        BY <1>2, <1>3, <3>1 DEF Call, ReqState
      <3>3. req' = [req EXCEPT ![r] = c]
        BY <2>1, <3>1 DEF GetShout
      <3>4. QED
        BY <1>2, <2>1, <3>1, <3>2, <3>3 DEF Call
    <2>2. CASE req[r].op = "edit"
      <3>1. PICK changes \in Edits, publish \in BOOLEAN :
               req' = [req EXCEPT ![r].phase = "item", ![r].shout = s, ![r].changes = changes,
                                  ![r].publish = publish, ![r].row = row[s], ![r].item = item[s]]
        BY <2>2 DEF GetShout
      <3>2. PICK c : c = [req[r] EXCEPT !.phase = "item", !.shout = s, !.changes = changes,
                                  !.publish = publish, !.row = row[s], !.item = item[s]]
        OBVIOUS
      <3>3. c \in ReqState
        BY <1>2, <1>3, <3>2, ShoutIndexingAssumption DEF Call, ReqState
      <3>4. req' = [req EXCEPT ![r] = c]
        BY <3>1, <3>2
      <3>5. QED
        BY <1>2, <2>2, <3>2, <3>3, <3>4 DEF Call
    <2>3. QED
      BY <1>2, <2>1, <2>2
  <1>5. /\ req' \in [Request -> ReqState] /\ req'[r] = c
        /\ \A q \in Request \ {r} : req'[q] = req[q]
    BY <1>1, <1>4, ReqPut
  <1>6. UNCHANGED <<database, doc, queue, history>>
    BY DEF GetShout
  <1>7. ReqOK(c)'
    BY <1>3, <1>4, <1>6 DEF ReqOK, Having, database
  <1>8. MuteInv'
    <2>1. Unmuted' = Unmuted
      BY <1>6 DEF Unmuted, database
    <2>2. Writes(req[r]) /\ ~ Listed(c) /\ c.phase # "list"
      BY <1>2, <1>4 DEF Writes, Listed
    <2>3. req[r].phase \in Calling
      BY <1>2 DEF Calling
    <2>4. QED
      BY <1>1, <1>5, <1>6, <2>1, <2>2, <2>3, MuteMoves DEF database
  <1>9. \A t \in Shout : ~ Owes(req[r], t)
    BY <1>2 DEF Owes
  <1>10. QED
    BY <1>1, <1>4, <1>5, <1>6, <1>7, <1>8, <1>9, ReadsKeep DEF database, history, TypeOK

LEMMA DeactivateInv ==
    ASSUME ShoutsInv, NEW r \in Request, Deactivate(r)
    PROVE  ShoutsInv'
  <1>1. TypeOK /\ MadeInv /\ MuteInv
    BY DEF ShoutsInv, TInv
  <1>2. req[r].phase \in Calling /\ req[r].phase = "authenticated" /\ req[r].op = "deactivate"
    BY DEF Deactivate, At, Calling
  <1>3. Goto(r, "list") /\ "list" \in Calling
    BY DEF Deactivate, Calling
  <1>4. /\ req' \in [Request -> ReqState]
        /\ \A q \in Request \ {r} : req'[q] = req[q]
    BY <1>1, <1>2, <1>3, ReqGoto
  <1>5. PICK c \in Call : c = req'[r] /\ c.phase = "list" /\ c.op = req[r].op
    BY <1>1, <1>2, <1>3, ReqGoto
  <1>6. c \in ReqState
    BY <1>5 DEF ReqState
  <1>7. ReqOK(c)'
    BY <1>2, <1>5 DEF ReqOK, Having
  <1>8. ~ active' /\ UNCHANGED <<row, item, tags, doc, queue, history>>
    BY DEF Deactivate
  <1>9. MuteInv'
    <2>1. Unmuted' = Unmuted
      BY <1>8 DEF Unmuted
    <2>2. ~ Writes(c) /\ ~ Listed(c)
      BY <1>2, <1>5 DEF Writes, Listed
    <2>3. QED
      BY <1>1, <1>2, <1>4, <1>5, <1>8, <2>1, <2>2, MuteMoves
  <1>10. \A t \in Shout : ~ Owes(req[r], t)
    BY <1>2 DEF Owes
  <1>11. QED
    BY <1>1, <1>4, <1>5, <1>6, <1>7, <1>8, <1>9, <1>10, ReadsKeep DEF Deactivate, history, TypeOK

LEMMA ListShoutsInv ==
    ASSUME ShoutsInv, NEW r \in Request, ListShouts(r)
    PROVE  ShoutsInv'
  <1>1. TypeOK /\ MadeInv /\ MuteInv
    BY DEF ShoutsInv, TInv
  <1>2. req[r] \in Call /\ req[r].phase = "list" /\ req[r].phase \in Calling /\ req[r].op = "deactivate"
    BY <1>1, ReqTypes DEF ListShouts, At, Calling, MadeInv, ReqOK
  <1>3. PICK c : c = [req[r] EXCEPT !.phase = "mute", !.todo = {s \in Shout : row[s] # None}]
    OBVIOUS
  <1>4. c \in ReqState /\ c.phase = "mute" /\ c.op = "deactivate" /\ c.todo = {s \in Shout : row[s] # None}
    BY <1>2, <1>3 DEF Call, ReqState
  <1>5. req' = [req EXCEPT ![r] = c] /\ UNCHANGED <<database, doc, queue, history>>
    BY <1>3 DEF ListShouts
  <1>6. /\ req' \in [Request -> ReqState] /\ req'[r] = c
        /\ \A q \in Request \ {r} : req'[q] = req[q]
    BY <1>1, <1>4, <1>5, ReqPut
  <1>7. ReqOK(c)'
    BY <1>4, <1>5 DEF ReqOK, Having, database
  <1>8. MuteInv'
    <2>1. InFlight' \subseteq InFlight /\ r \in InFlight /\ IsFiniteSet(InFlight)
      BY <1>2, <1>6, FiniteRequests, FS_Subset DEF InFlight, Request, Calling
    <2>2. Cardinality(InFlight') <= Workers
      BY <1>1, <2>1, SubsetSmaller, NotNone DEF MuteInv
    <2>3. Unmuted' = Unmuted /\ ~ active /\ ~ active'
      BY <1>1, <1>2, <1>5 DEF Unmuted, database, MuteInv
    <2>4. Writers' \subseteq Writers
      BY <1>4, <1>6 DEF Writers, Request, Writes
    <2>5. Writers' \subseteq InFlight \ {r}
      BY <1>4, <1>6 DEF Writers, Writes, InFlight, Request
    <2>6. IsFiniteSet(Writers)
      BY FiniteRequests, FS_Subset DEF Writers
    <2>7. ASSUME NEW q \in Request, Listed(req[q])'
          PROVE  IsFiniteSet(Left(q)') /\ Cardinality(Left(q)') + Cardinality(Writers') < Workers
      <3>1. CASE q = r
        <4>1. Left(q)' = {}
          BY <1>4, <1>5, <1>6, <3>1 DEF Left, Todo, Unmuted, database
        <4>2. /\ Cardinality(Writers') + 1 <= Cardinality(InFlight)
              /\ Cardinality(Writers') \in Nat /\ Cardinality(InFlight) \in Nat
          BY <2>1, <2>5, OneLess
        <4>3. Cardinality(InFlight) <= Workers
          BY <1>1 DEF MuteInv
        <4>4. QED
          BY <4>1, <4>2, <4>3, FS_EmptySet, NotNone
      <3>2. CASE q # r
        <4>1. Left(q)' = Left(q) /\ Listed(req[q])
          BY <1>6, <2>3, <2>7, <3>2 DEF Left, Todo, Listed
        <4>2. IsFiniteSet(Left(q)) /\ Cardinality(Left(q)) + Cardinality(Writers) < Workers
          BY <1>1, <4>1 DEF MuteInv
        <4>3. QED
          BY <2>4, <2>6, <4>1, <4>2, SubsetSmaller, FS_CardinalityType, NotNone
      <3>3. QED
        BY <3>1, <3>2
    <2>8. \A q \in Request : req'[q].phase = "list" => ~ active'
      BY <2>3
    <2>9. QED
      BY <2>2, <2>3, <2>7, <2>8 DEF MuteInv, Request
  <1>9. \A t \in Shout : ~ Owes(req[r], t)
    BY <1>2 DEF Owes
  <1>10. QED
    BY <1>1, <1>4, <1>5, <1>6, <1>7, <1>8, <1>9, ReadsKeep DEF database, history, TypeOK

LEMMA FinishMutingInv ==
    ASSUME ShoutsInv, NEW r \in Request, FinishMuting(r)
    PROVE  ShoutsInv'
  <1>1. TypeOK /\ MadeInv /\ MuteInv
    BY DEF ShoutsInv, TInv
  <1>2. req[r].phase \in Calling /\ req[r].phase = "mute" /\ req[r].op = "deactivate" /\ req[r].todo = {}
    BY <1>1 DEF FinishMuting, At, Calling, MadeInv, ReqOK
  <1>3. End(r, "done")
    BY DEF FinishMuting
  <1>4. /\ req' \in [Request -> ReqState]
        /\ \A q \in Request \ {r} : req'[q] = req[q]
    BY <1>1, <1>2, <1>3, ReqEnd
  <1>5. PICK c \in ReqState : c = req'[r] /\ c.phase = "done" /\ c.op = req[r].op
    BY <1>1, <1>2, <1>3, ReqEnd
  <1>6. ReqOK(c)'
    BY <1>5 DEF ReqOK, Having
  <1>7. UNCHANGED <<database, doc, queue, history>>
    BY DEF FinishMuting
  <1>8. MuteInv'
    <2>1. Unmuted' = Unmuted
      BY <1>7 DEF Unmuted, database
    <2>2. ~ Writes(c) /\ Listed(req[r]) /\ Unmuted' \ Todo(c) \subseteq Left(r)
      BY <1>2, <1>5, <2>1 DEF Writes, Listed, Left, Todo
    <2>3. QED
      BY <1>1, <1>2, <1>4, <1>5, <1>7, <2>1, <2>2, MuteMoves DEF database
  <1>9. \A t \in Shout : ~ Owes(req[r], t)
    BY <1>2 DEF Owes
  <1>10. QED
    BY <1>1, <1>4, <1>5, <1>6, <1>7, <1>8, <1>9, ReadsKeep DEF database, history, TypeOK

LEMMA GetCopyInv ==
    ASSUME ShoutsInv, NEW r \in Request, GetCopy(r)
    PROVE  ShoutsInv'
  <1>1. TypeOK /\ MadeInv /\ MuteInv
    BY DEF ShoutsInv, TInv
  <1>2. /\ req[r] \in Call /\ req[r].phase = "copy" /\ req[r].phase \in Calling
        /\ req[r].shout \in Shout /\ row[req[r].shout] # None
        /\ req[r].op = "deactivate" => \A s \in req[r].todo : row[s] # None
    BY <1>1, ReqTypes DEF GetCopy, At, Calling, MadeInv, ReqOK, Having
  <1>3. PICK c : c = [req[r] EXCEPT !.phase = "enqueue", !.copy = CopyOf(row[req[r].shout])]
    OBVIOUS
  <1>4. CopyOf(row[req[r].shout]) \in Copy
    BY <1>1, <1>2 DEF TypeOK, CopyOf, Copy, Row
  <1>5. /\ c \in ReqState /\ c.phase = "enqueue" /\ c.op = req[r].op /\ c.shout = req[r].shout
        /\ c.todo = req[r].todo /\ c.copy \in Copy
    BY <1>2, <1>3, <1>4 DEF Call, ReqState
  <1>6. req' = [req EXCEPT ![r] = c] /\ UNCHANGED <<database, doc, queue, history>>
    BY <1>3 DEF GetCopy
  <1>7. /\ req' \in [Request -> ReqState] /\ req'[r] = c
        /\ \A q \in Request \ {r} : req'[q] = req[q]
    BY <1>1, <1>5, <1>6, ReqPut
  <1>8. ReqOK(c)'
    BY <1>2, <1>5, <1>6 DEF ReqOK, Having, database
  <1>9. MuteInv'
    <2>1. Unmuted' = Unmuted
      BY <1>6 DEF Unmuted, database
    <2>2. ~ Writes(c) /\ (Listed(c) => Listed(req[r]) /\ Unmuted' \ Todo(c) \subseteq Left(r))
      BY <1>2, <1>5, <2>1 DEF Writes, Listed, Left, Todo
    <2>3. QED
      BY <1>1, <1>2, <1>5, <1>6, <1>7, <2>1, <2>2, MuteMoves DEF database
  <1>10. \A t \in Shout : Owes(req[r], t) => Owes(c, t)
    BY <1>5 DEF Owes
  <1>11. QED
    BY <1>1, <1>5, <1>6, <1>7, <1>8, <1>9, <1>10, ReadsKeep DEF database, history, TypeOK

LEMMA AbortInv ==
    ASSUME ShoutsInv, NEW r \in Request, Abort(r)
    PROVE  ShoutsInv'
  <1>1. TypeOK /\ MadeInv /\ MuteInv
    BY DEF ShoutsInv, TInv
  <1>2. req[r].phase \in Calling
    BY <1>1, ReqTypes DEF Abort
  <1>3. End(r, "aborted") /\ UNCHANGED <<database, doc, queue, late>>
    BY DEF Abort
  <1>4. /\ req' \in [Request -> ReqState]
        /\ \A q \in Request \ {r} : req'[q] = req[q]
    BY <1>1, <1>2, <1>3, ReqEnd
  <1>5. PICK c \in ReqState : c = req'[r] /\ c.phase = "aborted" /\ c.op = req[r].op
    BY <1>1, <1>2, <1>3, ReqEnd
  <1>6. ReqOK(c)'
    BY <1>5 DEF ReqOK, Having
  <1>7. MuteInv'
    <2>1. Unmuted' = Unmuted
      BY <1>3 DEF Unmuted, database
    <2>2. ~ Writes(c) /\ ~ Listed(c)
      BY <1>5 DEF Writes, Listed
    <2>3. QED
      BY <1>1, <1>2, <1>3, <1>4, <1>5, <2>1, <2>2, MuteMoves DEF database
  <1>8. lost' = lost \cup {s \in Shout : Unindexed(r, s)}
    BY DEF Abort
  <1>9. \A t \in Shout : Owes(req[r], t) => t \in lost'
    BY <1>8, OwesIs
  <1>10. lost \subseteq lost' /\ lost' \subseteq Shout
    BY <1>1, <1>8 DEF TypeOK
  <1>11. QED
    BY <1>1, <1>3, <1>4, <1>5, <1>6, <1>7, <1>9, <1>10, ReadsKeep DEF database, TypeOK
-----------------------------------------------------------------------------
\* A step of request r that writes the row, the item or the tags of t, after which it
\* is to index t, unless t has no row.
LEMMA WritesKeep ==
    ASSUME ShoutsInv, NEW r \in Request, NEW c \in ReqState, c = req'[r], ReqOK(c)',
           req' \in [Request -> ReqState], \A q \in Request \ {r} : req'[q] = req[q],
           UNCHANGED <<active, doc, queue, history>>, NEW t \in Shout,
           row' \in [Shout -> Row \cup {None}], item' \in [Shout -> Item \cup {None}],
           tags' \in [Shout -> SUBSET Request],
           \A s \in Shout \ {t} : row'[s] = row[s] /\ item'[s] = item[s] /\ tags'[s] = tags[s],
           row'[t] # None => item'[t] # None, row[t] # None => row'[t] # None,
           row[t] # None \/ item[t] = None \/ (req[r].phase = "insert" /\ req[r].shout = t),
           row'[t] = None \/ Owes(c, t), c.phase = "insert" => c.shout = t,
           \A s \in Shout : Owes(req[r], s) => Owes(c, s),
           MuteInv'
    PROVE  ShoutsInv'
  <1>1. TypeOK /\ MadeInv /\ TInv
    BY DEF ShoutsInv, TInv
  <1>2. TypeOK'
    <2>1. \A s \in Shout : row'[s] # None => item'[s] # None
      BY <1>1 DEF TypeOK
    <2>2. active' \in BOOLEAN /\ doc' \in [Shout -> Doc \cup {None}] /\ jobs' \in Seq(IndexJob \cup PublishJob)
          /\ worker' \in InHand \cup {None} /\ late' \subseteq Shout /\ lost' \subseteq Shout
      BY <1>1 DEF TypeOK, queue, history
    <2>3. QED
      BY <2>1, <2>2 DEF TypeOK, ReqState
  <1>3. MadeInv'
    <2>1. \A i \in DOMAIN jobs' : jobs'[i].shout \in Shout /\ row[jobs'[i].shout] # None
      BY <1>1 DEF TypeOK, MadeInv, IndexJob, PublishJob, queue
    <2>2. ASSUME NEW q \in Request \ {r}, req[q].phase = "insert"
          PROVE  req[q].shout # t /\ row'[req[q].shout] = None /\ item'[req[q].shout] # None
      <3>1. req[q].shout \in Shout /\ row[req[q].shout] = None /\ item[req[q].shout] # None
        BY <1>1, <2>2 DEF MadeInv, ReqOK
      <3>2. req[q].shout # t
        BY <1>1, <2>2, <3>1 DEF MadeInv
      <3>3. QED
        BY <3>1, <3>2
    <2>3. \A s \in Shout : row[s] # None => row'[s] # None
      OBVIOUS
    <2>4. UNCHANGED <<doc, worker>>
      BY DEF queue
    <2>5. QED
      BY <1>1, <2>1, <2>2, <2>3, <2>4, MadeMoves
  <1>4. ASSUME NEW s \in Shout
        PROVE  XInv(s)'
    <2>1. CASE row'[s] = None
      BY <1>2, <1>3, <2>1, XNone
    <2>2. CASE row'[s] # None
      <3>1. Owes(c, s) \/ (SameRow(s) /\ item'[s] = item[s] /\ tags'[s] = tags[s])
        BY <2>2 DEF SameRow
      <3>2. XInv(s) /\ lost' = lost /\ UNCHANGED <<doc, queue, late>>
        BY DEF ShoutsInv, history
      <3>3. QED
        BY <3>1, <3>2, XMoves
    <2>3. QED
      BY <2>1, <2>2
  <1>5. QED
    BY <1>2, <1>3, <1>4 DEF ShoutsInv, TInv

\* ... and the step is the last with which it may unmute t.
LEMMA MuteWrites ==
    ASSUME TypeOK, MuteInv, NEW r \in Request, NEW c, c = req'[r], \A q \in Request \ {r} : req'[q] = req[q],
           req[r].phase \in Calling, active' = active, c.phase # "list", Writes(req[r]), ~ Listed(c),
           NEW t \in Shout, \A s \in Shout \ {t} : row'[s] = row[s],
           row'[t] = row[t] \/ ~ Writes(c)
    PROVE  MuteInv'
  <1>1. Unmuted' \subseteq Unmuted \cup {t}
    BY DEF Unmuted
  <1>2. row'[t] = row[t] => Unmuted' \subseteq Unmuted
    BY DEF Unmuted
  <1>3. QED
    BY <1>1, <1>2, MuteMoves

LEMMA CreateItemInv ==
    ASSUME ShoutsInv, NEW r \in Request, NEW s \in Shout, CreateItem(r, s)
    PROVE  ShoutsInv'
  <1>1. TypeOK /\ MadeInv /\ MuteInv
    BY DEF ShoutsInv, TInv
  <1>2. req[r] \in Call /\ req[r].phase = "authenticated" /\ req[r].phase \in Calling /\ req[r].op = "create"
    BY <1>1, ReqTypes DEF CreateItem, At, Calling
  <1>3. PICK given \in SUBSET {"filters"}, publish \in BOOLEAN :
           req' = [req EXCEPT ![r].phase = "insert", ![r].shout = s, ![r].changes = given, ![r].publish = publish]
    BY DEF CreateItem
  <1>4. PICK c : c = [req[r] EXCEPT !.phase = "insert", !.shout = s, !.changes = given, !.publish = publish]
    OBVIOUS
  <1>5. c \in ReqState /\ c.phase = "insert" /\ c.shout = s /\ c.op = "create"
    BY <1>2, <1>4 DEF Call, ReqState
  <1>6. req' = [req EXCEPT ![r] = c]
    BY <1>3, <1>4
  <1>7. /\ req' \in [Request -> ReqState] /\ req'[r] = c
        /\ \A q \in Request \ {r} : req'[q] = req[q]
    BY <1>1, <1>5, <1>6, ReqPut
  <1>8. UNCHANGED <<active, row, tags, doc, queue, history>>
    BY DEF CreateItem
  <1>9. PICK i \in Item : item' = [item EXCEPT ![s] = i]
    <2>1. r \in Version
      BY NotNone DEF Request, Version
    <2>2. [name |-> r, description |-> r] \in Item
      BY <2>1 DEF Item
    <2>3. QED
      BY <2>2 DEF CreateItem
  <1>10. /\ item' \in [Shout -> Item \cup {None}] /\ item'[s] # None
         /\ \A t \in Shout \ {s} : item'[t] = item[t]
    BY <1>1, <1>9, NotNone DEF TypeOK
  <1>11. item[s] = None /\ row[s] = None
    BY <1>1 DEF CreateItem, TypeOK
  <1>12. ReqOK(c)'
    BY <1>5, <1>8, <1>10, <1>11 DEF ReqOK, Having
  <1>13. MuteInv'
    BY <1>1, <1>2, <1>5, <1>7, <1>8, MuteWrites DEF Writes, Listed
  <1>14. \A t \in Shout : ~ Owes(req[r], t)
    BY <1>2 DEF Owes
  <1>15. /\ row' \in [Shout -> Row \cup {None}] /\ tags' \in [Shout -> SUBSET Request]
         /\ row'[s] = None
         /\ \A t \in Shout \ {s} : row'[t] = row[t] /\ item'[t] = item[t] /\ tags'[t] = tags[t]
    BY <1>1, <1>8, <1>10, <1>11 DEF TypeOK
  <1>16. UNCHANGED <<active, doc, queue, history>>
    BY <1>8
  <1>17. QED
    BY <1>5, <1>7, <1>10, <1>11, <1>12, <1>13, <1>14, <1>15, <1>16, WritesKeep

LEMMA InsertShoutInv ==
    ASSUME ShoutsInv, NEW r \in Request, InsertShout(r)
    PROVE  ShoutsInv'
  <1>1. TypeOK /\ MadeInv /\ MuteInv
    BY DEF ShoutsInv, TInv
  <1>2. PICK t : t = req[r].shout
    OBVIOUS
  <1>3. /\ req[r].phase = "insert" /\ req[r].phase \in Calling /\ req[r].op = "create"
        /\ t \in Shout /\ row[t] = None /\ item[t] # None
    BY <1>1, <1>2 DEF InsertShout, At, Calling, MadeInv, ReqOK
  <1>4. UNCHANGED <<active, tags, doc, queue, history>>
    BY DEF InsertShout
  <1>5. \A s \in Shout : ~ Owes(req[r], s)
    BY <1>3 DEF Owes
  <1>6. Writes(req[r])
    BY <1>3 DEF Writes
  <1>7. tags' \in [Shout -> SUBSET Request] /\ \A s \in Shout : tags'[s] = tags[s]
    BY <1>1, <1>4 DEF TypeOK
  <1>8. CASE /\ row' = [row EXCEPT ![t] = [NewRow EXCEPT !.text = r]]
             /\ Goto(r, IF req[r].publish THEN "publish" ELSE AfterInsert(r))
             /\ UNCHANGED item
    <2>1. PICK phase \in {"publish", "tags", "copy"} : Goto(r, phase)
      BY <1>8 DEF AfterInsert
    <2>2. phase \in Calling
      BY DEF Calling
    <2>3. /\ req' \in [Request -> ReqState]
          /\ \A q \in Request \ {r} : req'[q] = req[q]
      BY <1>1, <1>3, <2>1, <2>2, ReqGoto
    <2>4. PICK c \in Call : c = req'[r] /\ c.phase = phase /\ c.op = req[r].op /\ c.shout = t /\ c.todo = req[r].todo
      BY <1>1, <1>2, <1>3, <2>1, <2>2, ReqGoto
    <2>5. PICK new \in Row : row' = [row EXCEPT ![t] = new]
      <3>1. r \in Version /\ 0 \in Version
        BY NotNone DEF Request, Version
      <3>2. [NewRow EXCEPT !.text = r] \in Row
        BY <3>1 DEF NewRow, Row
      <3>3. QED
        BY <1>8, <3>2
    <2>6. /\ row' \in [Shout -> Row \cup {None}] /\ row'[t] # None
          /\ \A s \in Shout \ {t} : row'[s] = row[s]
      BY <1>1, <1>3, <2>5, NotNone DEF TypeOK
    <2>7. ReqOK(c)'
      BY <1>3, <2>4, <2>6 DEF ReqOK, Having
    <2>8. Owes(c, t)
      BY <1>3, <2>4 DEF Owes
    <2>9. MuteInv'
      <3>1. ~ Writes(c) /\ ~ Listed(c) /\ c.phase # "list"
        BY <1>3, <2>4 DEF Writes, Listed
      <3>2. QED
        BY <1>1, <1>3, <1>4, <1>6, <2>3, <2>4, <2>6, <3>1, MuteWrites
    <2>10. /\ item' \in [Shout -> Item \cup {None}] /\ item'[t] # None
           /\ \A s \in Shout \ {t} : row'[s] = row[s] /\ item'[s] = item[s] /\ tags'[s] = tags[s]
      BY <1>1, <1>3, <1>7, <1>8, <2>6 DEF TypeOK
    <2>11. UNCHANGED <<active, doc, queue, history>> /\ c \in ReqState /\ c.phase # "insert"
      BY <1>4, <2>4 DEF ReqState
    <2>12. QED
      BY <1>2, <1>3, <1>5, <1>7, <2>3, <2>4, <2>6, <2>7, <2>8, <2>9, <2>10, <2>11, WritesKeep
  <1>9. CASE item' = [item EXCEPT ![t] = None] /\ End(r, "done") /\ UNCHANGED row
    <2>1. /\ req' \in [Request -> ReqState]
          /\ \A q \in Request \ {r} : req'[q] = req[q]
      BY <1>1, <1>3, <1>9, ReqEnd
    <2>2. PICK c \in ReqState : c = req'[r] /\ c.phase = "done" /\ c.op = req[r].op
      BY <1>1, <1>3, <1>9, ReqEnd
    <2>3. ReqOK(c)'
      BY <2>2 DEF ReqOK, Having
    <2>4. MuteInv'
      <3>1. ~ Writes(c) /\ ~ Listed(c) /\ c.phase # "list"
        BY <1>3, <2>2 DEF Writes, Listed
      <3>2. QED
        BY <1>1, <1>3, <1>4, <1>6, <1>9, <2>1, <2>2, <3>1, MuteWrites
    <2>5. /\ row' \in [Shout -> Row \cup {None}] /\ item' \in [Shout -> Item \cup {None}] /\ row'[t] = None
          /\ \A s \in Shout \ {t} : row'[s] = row[s] /\ item'[s] = item[s] /\ tags'[s] = tags[s]
      BY <1>1, <1>3, <1>7, <1>9 DEF TypeOK
    <2>6. UNCHANGED <<active, doc, queue, history>> /\ c.phase # "insert"
      BY <1>4, <2>2
    <2>7. QED
      BY <1>2, <1>3, <1>5, <1>7, <2>1, <2>2, <2>3, <2>4, <2>5, <2>6, WritesKeep
  <1>10. QED
    BY <1>2, <1>8, <1>9 DEF InsertShout

LEMMA AddTagsInv ==
    ASSUME ShoutsInv, NEW r \in Request, AddTags(r)
    PROVE  ShoutsInv'
  <1>1. TypeOK /\ MadeInv /\ MuteInv
    BY DEF ShoutsInv, TInv
  <1>2. PICK t : t = req[r].shout
    OBVIOUS
  <1>3. /\ req[r].phase = "tags" /\ req[r].phase \in Calling /\ req[r].op \in {"create", "edit"}
        /\ t \in Shout /\ row[t] # None /\ item[t] # None
        /\ req[r].op = "edit" => req[r].row \in Row /\ req[r].item \in Item
    BY <1>1, <1>2 DEF AddTags, At, Calling, MadeInv, ReqOK, Having, TypeOK
  <1>4. PICK phase \in {"copy", "save"} : Goto(r, phase) /\ (phase = "copy" <=> req[r].op = "create")
    BY DEF AddTags
  <1>5. phase \in Calling
    BY DEF Calling
  <1>6. /\ req' \in [Request -> ReqState]
        /\ \A q \in Request \ {r} : req'[q] = req[q]
    BY <1>1, <1>3, <1>4, <1>5, ReqGoto
  <1>7. PICK c \in Call : /\ c = req'[r] /\ c.phase = phase /\ c.op = req[r].op /\ c.shout = t
                          /\ c.row = req[r].row /\ c.item = req[r].item
    BY <1>1, <1>2, <1>3, <1>4, <1>5, ReqGoto
  <1>8. UNCHANGED <<active, row, item, doc, queue, history>>
    BY DEF AddTags
  <1>9. tags' \in [Shout -> SUBSET Request] /\ \A s \in Shout \ {t} : tags'[s] = tags[s]
    <2>1. tags' = [tags EXCEPT ![t] = tags[t] \cup {r}]
      BY <1>2 DEF AddTags
    <2>2. QED
      BY <1>1, <1>3, <2>1 DEF TypeOK
  <1>10. ReqOK(c)'
    BY <1>3, <1>4, <1>7, <1>8 DEF ReqOK, Having
  <1>11. Owes(c, t) /\ \A s \in Shout : Owes(req[r], s) => Owes(c, s)
    BY <1>2, <1>3, <1>4, <1>7 DEF Owes
  <1>12. MuteInv'
    <2>1. /\ Writes(c) => Writes(req[r])
          /\ ~ Listed(c) /\ c.phase # "list"
      BY <1>3, <1>4, <1>7 DEF Writes, Listed
    <2>2. Unmuted' = Unmuted
      BY <1>8 DEF Unmuted
    <2>3. QED
      BY <1>1, <1>3, <1>6, <1>7, <1>8, <2>1, <2>2, MuteMoves
  <1>13. /\ row' \in [Shout -> Row \cup {None}] /\ item' \in [Shout -> Item \cup {None}]
         /\ row'[t] # None /\ item'[t] # None
         /\ \A s \in Shout \ {t} : row'[s] = row[s] /\ item'[s] = item[s] /\ tags'[s] = tags[s]
    BY <1>1, <1>3, <1>8, <1>9 DEF TypeOK
  <1>14. UNCHANGED <<active, doc, queue, history>> /\ c \in ReqState /\ c.phase # "insert"
    BY <1>7, <1>8 DEF ReqState
  <1>15. QED
    BY <1>2, <1>3, <1>6, <1>7, <1>9, <1>10, <1>11, <1>12, <1>13, <1>14, WritesKeep

LEMMA EditItemInv ==
    ASSUME ShoutsInv, NEW r \in Request, EditItem(r)
    PROVE  ShoutsInv'
  <1>1. TypeOK /\ MadeInv /\ MuteInv
    BY DEF ShoutsInv, TInv
  <1>2. PICK t : t = req[r].shout
    OBVIOUS
  <1>3. /\ req[r].phase = "item" /\ req[r].phase \in Calling /\ req[r].op = "edit"
        /\ t \in Shout /\ row[t] # None /\ item[t] # None
        /\ req[r].row \in Row /\ req[r].item \in Item
    BY <1>1, <1>2 DEF EditItem, At, Calling, MadeInv, ReqOK, Having, TypeOK
  <1>4. PICK phase \in {"clear", "save"} : Goto(r, phase)
    BY DEF EditItem
  <1>5. phase \in Calling
    BY DEF Calling
  <1>6. /\ req' \in [Request -> ReqState]
        /\ \A q \in Request \ {r} : req'[q] = req[q]
    BY <1>1, <1>3, <1>4, <1>5, ReqGoto
  <1>7. PICK c \in Call : /\ c = req'[r] /\ c.phase = phase /\ c.op = req[r].op /\ c.shout = t
                          /\ c.row = req[r].row /\ c.item = req[r].item
    BY <1>1, <1>2, <1>3, <1>4, <1>5, ReqGoto
  <1>8. UNCHANGED <<active, row, tags, doc, queue, history>>
    BY DEF EditItem
  <1>9. PICK i \in Item : item' = [item EXCEPT ![t] = i]
    <2>1. r \in Version
      BY NotNone DEF Request, Version
    <2>2. PICK name, description :
             /\ item' = [item EXCEPT ![t] = [name |-> name, description |-> description]]
             /\ name \in {r, req[r].item.name} /\ description \in {r, req[r].item.description}
      BY <1>2 DEF EditItem
    <2>3. name \in Version /\ description \in Version
      BY <1>3, <2>1, <2>2 DEF Item
    <2>4. QED
      BY <2>2, <2>3 DEF Item
  <1>10. /\ item' \in [Shout -> Item \cup {None}] /\ item'[t] # None
         /\ \A s \in Shout \ {t} : item'[s] = item[s]
    BY <1>1, <1>3, <1>9, NotNone DEF TypeOK
  <1>11. ReqOK(c)'
    BY <1>3, <1>7, <1>8 DEF ReqOK, Having
  <1>12. Owes(c, t) /\ \A s \in Shout : ~ Owes(req[r], s)
    BY <1>3, <1>7 DEF Owes
  <1>13. MuteInv'
    BY <1>1, <1>3, <1>6, <1>7, <1>8, MuteWrites DEF Writes, Listed
  <1>14. /\ row' \in [Shout -> Row \cup {None}] /\ tags' \in [Shout -> SUBSET Request] /\ row'[t] # None
         /\ \A s \in Shout \ {t} : row'[s] = row[s] /\ item'[s] = item[s] /\ tags'[s] = tags[s]
    BY <1>1, <1>3, <1>8, <1>10 DEF TypeOK
  <1>15. UNCHANGED <<active, doc, queue, history>> /\ c \in ReqState /\ c.phase # "insert"
    BY <1>7, <1>8 DEF ReqState
  <1>16. QED
    BY <1>3, <1>6, <1>7, <1>10, <1>11, <1>12, <1>13, <1>14, <1>15, WritesKeep

LEMMA ClearTagsInv ==
    ASSUME ShoutsInv, NEW r \in Request, ClearTags(r)
    PROVE  ShoutsInv'
  <1>1. TypeOK /\ MadeInv /\ MuteInv
    BY DEF ShoutsInv, TInv
  <1>2. PICK t : t = req[r].shout
    OBVIOUS
  <1>3. /\ req[r].phase = "clear" /\ req[r].phase \in Calling /\ req[r].op = "edit"
        /\ t \in Shout /\ row[t] # None /\ item[t] # None
        /\ req[r].row \in Row /\ req[r].item \in Item
    BY <1>1, <1>2 DEF ClearTags, At, Calling, MadeInv, ReqOK, Having, TypeOK
  <1>4. Goto(r, "tags") /\ "tags" \in Calling
    BY DEF ClearTags, Calling
  <1>5. /\ req' \in [Request -> ReqState]
        /\ \A q \in Request \ {r} : req'[q] = req[q]
    BY <1>1, <1>3, <1>4, ReqGoto
  <1>6. PICK c \in Call : /\ c = req'[r] /\ c.phase = "tags" /\ c.op = req[r].op /\ c.shout = t
                          /\ c.row = req[r].row /\ c.item = req[r].item
    BY <1>1, <1>2, <1>3, <1>4, ReqGoto
  <1>7. UNCHANGED <<active, row, item, doc, queue, history>>
    BY DEF ClearTags
  <1>8. tags' \in [Shout -> SUBSET Request] /\ \A s \in Shout \ {t} : tags'[s] = tags[s]
    BY <1>1, <1>2, <1>3 DEF ClearTags, TypeOK
  <1>9. ReqOK(c)'
    BY <1>3, <1>6, <1>7 DEF ReqOK, Having
  <1>10. Owes(c, t) /\ \A s \in Shout : Owes(req[r], s) => Owes(c, s)
    BY <1>2, <1>6 DEF Owes
  <1>11. MuteInv'
    BY <1>1, <1>3, <1>5, <1>6, <1>7, MuteWrites DEF Writes, Listed
  <1>12. /\ row' \in [Shout -> Row \cup {None}] /\ item' \in [Shout -> Item \cup {None}]
         /\ row'[t] # None /\ item'[t] # None
         /\ \A s \in Shout \ {t} : row'[s] = row[s] /\ item'[s] = item[s] /\ tags'[s] = tags[s]
    BY <1>1, <1>3, <1>7, <1>8 DEF TypeOK
  <1>13. UNCHANGED <<active, doc, queue, history>> /\ c \in ReqState /\ c.phase # "insert"
    BY <1>6, <1>7 DEF ReqState
  <1>14. QED
    BY <1>3, <1>5, <1>6, <1>8, <1>9, <1>10, <1>11, <1>12, <1>13, WritesKeep

LEMMA SaveShoutInv ==
    ASSUME ShoutsInv, NEW r \in Request, SaveShout(r)
    PROVE  ShoutsInv'
  <1>1. TypeOK /\ MadeInv /\ MuteInv
    BY DEF ShoutsInv, TInv
  <1>2. PICK t : t = req[r].shout
    OBVIOUS
  <1>3. /\ req[r].phase = "save" /\ req[r].phase \in Calling /\ req[r].op \in {"edit", "delete"}
        /\ t \in Shout /\ row[t] # None /\ item[t] # None /\ req[r].row \in Row
        /\ req[r].op = "edit" => req[r].item \in Item
    BY <1>1, <1>2 DEF SaveShout, At, Calling, MadeInv, ReqOK, Having, TypeOK
  <1>4. Goto(r, "copy") /\ "copy" \in Calling
    BY DEF SaveShout, Calling
  <1>5. /\ req' \in [Request -> ReqState]
        /\ \A q \in Request \ {r} : req'[q] = req[q]
    BY <1>1, <1>3, <1>4, ReqGoto
  <1>6. PICK c \in Call : c = req'[r] /\ c.phase = "copy" /\ c.op = req[r].op /\ c.shout = t
    BY <1>1, <1>2, <1>3, <1>4, ReqGoto
  <1>7. UNCHANGED <<active, item, tags, doc, queue, history>>
    BY DEF SaveShout
  <1>8. PICK new \in Row : row' = [row EXCEPT ![t] = new]
    <2>1. r \in Version
      BY NotNone DEF Request, Version
    <2>2. CASE req[r].op = "delete"
      <3>1. [req[r].row EXCEPT !.disabled = TRUE] \in Row
        BY <1>3 DEF Row
      <3>2. QED
        BY <1>2, <2>2, <3>1 DEF SaveShout
    <2>3. CASE req[r].op = "edit"
      <3>1. PICK text \in Version : row' = [row EXCEPT ![t] = [req[r].row EXCEPT !.text = text]]
        BY <1>2, <1>3, <2>1, <2>3 DEF SaveShout, Item
      <3>2. [req[r].row EXCEPT !.text = text] \in Row
        BY <1>3 DEF Row
      <3>3. QED
        BY <3>1, <3>2
    <2>4. QED
      BY <1>3, <2>2, <2>3
  <1>9. /\ row' \in [Shout -> Row \cup {None}] /\ row'[t] # None
        /\ \A s \in Shout \ {t} : row'[s] = row[s]
    BY <1>1, <1>3, <1>8, NotNone DEF TypeOK
  <1>10. ReqOK(c)'
    BY <1>3, <1>6, <1>9 DEF ReqOK, Having
  <1>11. Owes(c, t) /\ \A s \in Shout : Owes(req[r], s) => Owes(c, s)
    BY <1>2, <1>6 DEF Owes
  <1>12. MuteInv'
    <2>1. Writes(req[r]) /\ ~ Writes(c) /\ ~ Listed(c) /\ c.phase # "list"
      BY <1>3, <1>6 DEF Writes, Listed
    <2>2. QED
      BY <1>1, <1>3, <1>5, <1>6, <1>7, <1>9, <2>1, MuteWrites
  <1>13. /\ item' \in [Shout -> Item \cup {None}] /\ tags' \in [Shout -> SUBSET Request] /\ item'[t] # None
         /\ \A s \in Shout \ {t} : row'[s] = row[s] /\ item'[s] = item[s] /\ tags'[s] = tags[s]
    BY <1>1, <1>3, <1>7, <1>9 DEF TypeOK
  <1>14. UNCHANGED <<active, doc, queue, history>> /\ c \in ReqState /\ c.phase # "insert"
    BY <1>6, <1>7 DEF ReqState
  <1>15. QED
    BY <1>3, <1>5, <1>6, <1>9, <1>10, <1>11, <1>12, <1>13, <1>14, WritesKeep

LEMMA MuteShoutInv ==
    ASSUME ShoutsInv, NEW r \in Request, NEW t \in Shout, MuteShout(r, t)
    PROVE  ShoutsInv'
  <1>1. TypeOK /\ MadeInv /\ MuteInv
    BY DEF ShoutsInv, TInv
  <1>2. /\ req[r] \in Call /\ req[r].phase = "mute" /\ req[r].phase \in Calling /\ req[r].op = "deactivate"
        /\ t \in req[r].todo /\ \A s \in req[r].todo : row[s] # None
    BY <1>1, ReqTypes DEF MuteShout, At, Calling, MadeInv, ReqOK
  <1>3. row[t] \in Row /\ row[t] # None /\ item[t] # None
    BY <1>1, <1>2 DEF TypeOK
  <1>4. PICK c : c = [req[r] EXCEPT !.phase = "copy", !.shout = t, !.todo = req[r].todo \ {t}]
    OBVIOUS
  <1>5. /\ c \in ReqState /\ c.phase = "copy" /\ c.op = "deactivate" /\ c.shout = t
        /\ c.todo = req[r].todo \ {t}
    BY <1>2, <1>4 DEF Call, ReqState
  <1>6. req' = [req EXCEPT ![r] = c] /\ UNCHANGED <<active, item, tags, doc, queue, history>>
    BY <1>4 DEF MuteShout
  <1>7. /\ req' \in [Request -> ReqState] /\ req'[r] = c
        /\ \A q \in Request \ {r} : req'[q] = req[q]
    BY <1>1, <1>5, <1>6, ReqPut
  <1>8. PICK new \in Row : row' = [row EXCEPT ![t] = new] /\ new.muted
    <2>1. [row[t] EXCEPT !.muted = TRUE] \in Row
      BY <1>3 DEF Row
    <2>2. [row[t] EXCEPT !.muted = TRUE].muted
      BY <1>3 DEF Row
    <2>3. QED
      BY <2>1, <2>2 DEF MuteShout
  <1>9. /\ row' \in [Shout -> Row \cup {None}] /\ row'[t] # None /\ row'[t].muted
        /\ \A s \in Shout \ {t} : row'[s] = row[s]
    BY <1>1, <1>8, NotNone DEF TypeOK
  <1>10. ReqOK(c)'
    <2>1. \A s \in c.todo : s \in Shout /\ row'[s] # None
      BY <1>2, <1>5, <1>9 DEF Call
    <2>2. QED
      BY <1>5, <1>9, <2>1 DEF ReqOK, Having
  <1>11. Owes(c, t) /\ \A s \in Shout : ~ Owes(req[r], s)
    BY <1>2, <1>5 DEF Owes
  <1>12. MuteInv'
    <2>1. Unmuted' \subseteq Unmuted \ {t}
      BY <1>9 DEF Unmuted
    <2>2. ~ Writes(c) /\ Listed(req[r]) /\ Unmuted' \ Todo(c) \subseteq Left(r) /\ c.phase # "list"
      BY <1>2, <1>5, <2>1 DEF Writes, Listed, Left, Todo
    <2>3. QED
      BY <1>1, <1>2, <1>6, <1>7, <2>1, <2>2, MuteMoves
  <1>13. /\ item' \in [Shout -> Item \cup {None}] /\ tags' \in [Shout -> SUBSET Request] /\ item'[t] # None
         /\ \A s \in Shout \ {t} : row'[s] = row[s] /\ item'[s] = item[s] /\ tags'[s] = tags[s]
    BY <1>1, <1>3, <1>6, <1>9 DEF TypeOK
  <1>14. UNCHANGED <<active, doc, queue, history>> /\ c.phase # "insert"
    BY <1>5, <1>6
  <1>15. QED
    BY <1>3, <1>5, <1>7, <1>9, <1>10, <1>11, <1>12, <1>13, <1>14, WritesKeep
-----------------------------------------------------------------------------
LEMMA JobsTyped ==
    ASSUME TypeOK
    PROVE  /\ jobs \in Seq(IndexJob \cup PublishJob)
           /\ \A i \in DOMAIN jobs : jobs[i] \in IndexJob \cup PublishJob /\ jobs[i].shout \in Shout
           /\ worker # None => worker \in InHand /\ worker.job \in IndexJob \cup PublishJob /\ worker.job.shout \in Shout
  BY DEF TypeOK, IndexJob, PublishJob, InHand

\* A job that is enqueued for a shout that has a row.
LEMMA JobAppended ==
    ASSUME TypeOK, MadeInv, NEW job \in IndexJob \cup PublishJob, jobs' = Append(jobs, job), row[job.shout] # None
    PROVE  /\ jobs' \in Seq(IndexJob \cup PublishJob)
           /\ \A i \in DOMAIN jobs' : jobs'[i].shout \in Shout /\ row[jobs'[i].shout] # None
  <1>1. /\ jobs \in Seq(IndexJob \cup PublishJob) /\ job.shout \in Shout
        /\ \A i \in DOMAIN jobs : jobs[i].shout \in Shout /\ row[jobs[i].shout] # None
    BY JobsTyped DEF MadeInv, IndexJob, PublishJob
  <1>2. /\ Len(jobs) \in Nat /\ DOMAIN jobs = 1..Len(jobs) /\ DOMAIN jobs' = 1..Len(jobs)+1
        /\ \A i \in DOMAIN jobs : jobs'[i] = jobs[i]
        /\ jobs'[Len(jobs)+1] = job /\ jobs' \in Seq(IndexJob \cup PublishJob)
    BY <1>1, AppendProperties, LenProperties
  <1>3. \A i \in DOMAIN jobs' : i \in DOMAIN jobs \/ jobs'[i] = job
    BY <1>2
  <1>4. QED
    BY <1>1, <1>2, <1>3

LEMMA SaveShoutIndexInv ==
    ASSUME ShoutsInv, NEW r \in Request, SaveShoutIndex(r)
    PROVE  ShoutsInv'
  <1>1. TypeOK /\ MadeInv /\ MuteInv /\ TInv
    BY DEF ShoutsInv, TInv
  <1>2. PICK t, copy, created : t = req[r].shout /\ copy = req[r].copy /\ created = (req[r].op = "create")
    OBVIOUS
  <1>3. /\ req[r].phase = "enqueue" /\ req[r].phase \in Calling
        /\ t \in Shout /\ row[t] # None /\ copy \in Copy /\ created \in BOOLEAN
        /\ req[r].op = "deactivate" => \A s \in req[r].todo : row[s] # None
    BY <1>1, <1>2 DEF SaveShoutIndex, At, Calling, MadeInv, ReqOK, Having
  <1>4. EnqueueIndex(t, copy, created) /\ UNCHANGED <<database, doc, worker>>
    BY <1>2 DEF SaveShoutIndex
  <1>5. \/ Goto(r, "mute") /\ req[r].op = "deactivate"
        \/ Goto(r, "publish") /\ req[r].op = "edit"
        \/ End(r, "done") /\ req[r].op # "deactivate"
    BY DEF SaveShoutIndex
  <1>6. /\ req' \in [Request -> ReqState]
        /\ \A q \in Request \ {r} : req'[q] = req[q]
    BY <1>1, <1>3, <1>5, ReqGoto, ReqEnd DEF Calling
  <1>7. PICK c \in ReqState :
           /\ c = req'[r] /\ c.op = req[r].op
           /\ \/ c.phase = "mute" /\ c.op = "deactivate" /\ c.todo = req[r].todo
              \/ c.phase = "publish" /\ c.op = "edit" /\ c.shout = t
              \/ c.phase = "done" /\ c.op # "deactivate"
    <2>1. CASE Goto(r, "mute") /\ req[r].op = "deactivate"
      <3>1. PICK c \in Call : c = req'[r] /\ c.op = req[r].op /\ c.phase = "mute" /\ c.todo = req[r].todo
        BY <1>1, <1>3, <2>1, ReqGoto DEF Calling
      <3>2. QED
        BY <2>1, <3>1 DEF ReqState
    <2>2. CASE Goto(r, "publish") /\ req[r].op = "edit"
      <3>1. PICK c \in Call : c = req'[r] /\ c.op = req[r].op /\ c.phase = "publish" /\ c.shout = t
        BY <1>1, <1>2, <1>3, <2>2, ReqGoto DEF Calling
      <3>2. QED
        BY <2>2, <3>1 DEF ReqState
    <2>3. CASE End(r, "done") /\ req[r].op # "deactivate"
      <3>1. PICK c \in ReqState : c = req'[r] /\ c.op = req[r].op /\ c.phase = "done"
        BY <1>1, <1>3, <2>3, ReqEnd
      <3>2. QED
        BY <2>3, <3>1
    <2>4. QED
      BY <1>5, <2>1, <2>2, <2>3
  <1>8. UNCHANGED <<active, row, item, tags, doc, worker>>
    BY <1>4 DEF database
  <1>9. ReqOK(c)'
    BY <1>3, <1>7, <1>8 DEF ReqOK, Having
  <1>10. PICK job \in IndexJob : job.shout = t /\ jobs' = Append(jobs, job)
    <2>1. [kind |-> "index", shout |-> t, copy |-> copy, created |-> created] \in IndexJob
      BY <1>3 DEF IndexJob
    <2>2. QED
      BY <1>4, <2>1 DEF EnqueueIndex
  <1>11. /\ jobs' \in Seq(IndexJob \cup PublishJob)
         /\ \A i \in DOMAIN jobs' : jobs'[i].shout \in Shout /\ row[jobs'[i].shout] # None
    BY <1>1, <1>3, <1>10, JobAppended
  <1>12. TypeOK'
    <2>1. late' \subseteq Shout /\ lost' \subseteq Shout
      BY <1>1, <1>3, <1>4 DEF EnqueueIndex, TypeOK
    <2>2. QED
      BY <1>1, <1>6, <1>8, <1>11, <2>1 DEF TypeOK, ReqState
  <1>13. MadeInv'
    <2>1. \A q \in Request \ {r} : req[q].phase = "insert" =>
             row'[req[q].shout] = None /\ item'[req[q].shout] # None
      BY <1>1, <1>8 DEF MadeInv, ReqOK
    <2>2. c.phase # "insert"
      BY <1>7
    <2>3. QED
      BY <1>1, <1>6, <1>7, <1>8, <1>9, <1>11, <2>1, <2>2, MadeMoves
  <1>14. ASSUME NEW s \in Shout
         PROVE  XInv(s)'
    <2>1. Indexing(s)' <=> Indexing(s)
      BY <1>8 DEF Indexing
    <2>2. ASSUME s # t, NEW q \in Request, Unindexed(q, s)
          PROVE  Changing(s)'
      <3>1. q # r
        BY <1>2, <2>2 DEF Unindexed
      <3>2. Owes(req[q], s)
        BY <2>2, OwesIs
      <3>3. Owes(req[q], s)'
        BY <1>6, <3>1, <3>2 DEF Owes
      <3>4. QED
        BY <3>3, OwesIs DEF Changing, Request
    <2>3. Changing(s) => Changing(s)' \/ s = t
      BY <2>2 DEF Changing
    <2>4. XInv(s)
      BY DEF ShoutsInv
    <2>5. QED
      BY <1>1, <1>3, <1>4, <1>8, <2>1, <2>3, <2>4, XEnqueued
  <1>15. MuteInv'
    <2>1. Unmuted' = Unmuted
      BY <1>8 DEF Unmuted
    <2>2. ~ Writes(c) /\ (Listed(c) => Listed(req[r]) /\ Unmuted' \ Todo(c) \subseteq Left(r)) /\ c.phase # "list"
      BY <1>3, <1>7, <2>1 DEF Writes, Listed, Left, Todo
    <2>3. QED
      BY <1>1, <1>3, <1>6, <1>7, <1>8, <2>1, <2>2, MuteMoves
  <1>16. QED
    BY <1>12, <1>13, <1>14, <1>15 DEF ShoutsInv, TInv

LEMMA EnqueuePublishInv ==
    ASSUME ShoutsInv, NEW r \in Request, EnqueuePublish(r)
    PROVE  ShoutsInv'
  <1>1. TypeOK /\ MadeInv /\ MuteInv /\ TInv
    BY DEF ShoutsInv, TInv
  <1>2. PICK t : t = req[r].shout
    OBVIOUS
  <1>3. /\ req[r].phase = "publish" /\ req[r].phase \in Calling /\ req[r].op \in {"create", "edit"}
        /\ t \in Shout /\ row[t] # None
    BY <1>1, <1>2 DEF EnqueuePublish, At, Calling, MadeInv, ReqOK, Having
  <1>4. UNCHANGED <<database, doc, worker, history>> /\ UNCHANGED <<active, row, item, tags>>
    BY DEF EnqueuePublish, database
  <1>5. \/ (Goto(r, "tags") \/ Goto(r, "copy")) /\ req[r].op = "create"
        \/ End(r, "done") /\ req[r].op = "edit"
    BY <1>3 DEF EnqueuePublish, AfterInsert
  <1>6. /\ req' \in [Request -> ReqState]
        /\ \A q \in Request \ {r} : req'[q] = req[q]
    BY <1>1, <1>3, <1>5, ReqGoto, ReqEnd DEF Calling
  <1>7. PICK c \in ReqState :
           /\ c = req'[r] /\ c.op = req[r].op
           /\ \/ c.phase \in {"tags", "copy"} /\ c.op = "create" /\ c.shout = t
              \/ c.phase = "done" /\ c.op = "edit"
    <2>1. ASSUME NEW phase \in {"tags", "copy"}, Goto(r, phase), req[r].op = "create"
          PROVE  \E c \in ReqState : /\ c = req'[r] /\ c.op = req[r].op
                                     /\ c.phase \in {"tags", "copy"} /\ c.op = "create" /\ c.shout = t
      <3>1. phase \in Calling
        BY DEF Calling
      <3>2. PICK c \in Call : c = req'[r] /\ c.op = req[r].op /\ c.phase = phase /\ c.shout = t
        BY <1>1, <1>2, <1>3, <2>1, <3>1, ReqGoto
      <3>3. QED
        BY <2>1, <3>2 DEF ReqState
    <2>2. CASE End(r, "done") /\ req[r].op = "edit"
      <3>1. PICK c \in ReqState : c = req'[r] /\ c.op = req[r].op /\ c.phase = "done"
        BY <1>1, <1>3, <2>2, ReqEnd
      <3>2. QED
        BY <2>2, <3>1
    <2>3. QED
      BY <1>5, <2>1, <2>2
  <1>8. ReqOK(c)'
    BY <1>3, <1>4, <1>7 DEF ReqOK, Having
  <1>9. PICK job \in PublishJob : job.shout = t /\ jobs' = Append(jobs, job)
    <2>1. [kind |-> "publish", shout |-> t, reindex |-> req[r].op = "edit"] \in PublishJob
      BY <1>3 DEF PublishJob
    <2>2. QED
      BY <1>2, <2>1 DEF EnqueuePublish
  <1>10. /\ jobs' \in Seq(IndexJob \cup PublishJob)
         /\ \A i \in DOMAIN jobs' : jobs'[i].shout \in Shout /\ row[jobs'[i].shout] # None
    BY <1>1, <1>3, <1>9, JobAppended
  <1>11. TypeOK'
    BY <1>1, <1>4, <1>6, <1>10 DEF TypeOK, ReqState, history
  <1>12. MadeInv'
    <2>1. \A q \in Request \ {r} : req[q].phase = "insert" =>
             row'[req[q].shout] = None /\ item'[req[q].shout] # None
      BY <1>1, <1>4 DEF MadeInv, ReqOK
    <2>2. c.phase # "insert"
      BY <1>7
    <2>3. QED
      BY <1>1, <1>4, <1>6, <1>7, <1>8, <1>10, <2>1, <2>2, MadeMoves
  <1>13. ASSUME NEW s \in Shout
         PROVE  XInv(s)'
    <2>1. Indexing(s)' <=> Indexing(s)
      BY <1>4 DEF Indexing
    <2>2. ASSUME NEW q \in Request, Unindexed(q, s)
          PROVE  Changing(s)'
      <3>1. Owes(req[q], s)
        BY <2>2, OwesIs
      <3>2. Owes(req[q], s)'
        BY <1>2, <1>3, <1>6, <1>7, <3>1 DEF Owes
      <3>3. QED
        BY <3>2, OwesIs DEF Changing, Request
    <2>3. Changing(s) => Changing(s)'
      BY <2>2 DEF Changing
    <2>4. XInv(s) /\ SameRow(s)
      BY <1>4 DEF ShoutsInv, SameRow
    <2>5. ~ IsIndex(job, s) /\ job \in IndexJob \cup PublishJob
      BY DEF IsIndex, PublishJob
    <2>6. (Holds(jobs, s)' <=> Holds(jobs, s)) /\ (QueueFresh(s) => QueueFresh(s)')
      BY <1>9, <2>4, <2>5, JobsTyped, <1>1, QueueAppend
    <2>7. lost' = lost /\ late' = late
      BY <1>4 DEF history
    <2>8. QED
      BY <1>4, <2>1, <2>3, <2>4, <2>6, <2>7, XKeeps
  <1>14. MuteInv'
    <2>1. Unmuted' = Unmuted
      BY <1>4 DEF Unmuted
    <2>2. ~ Writes(c) /\ ~ Listed(c) /\ c.phase # "list"
      BY <1>7 DEF Writes, Listed
    <2>3. QED
      BY <1>1, <1>3, <1>4, <1>6, <1>7, <2>1, <2>2, MuteMoves
  <1>15. QED
    BY <1>11, <1>12, <1>13, <1>14 DEF ShoutsInv, TInv
-----------------------------------------------------------------------------
\* A step of the worker.
LEMMA Works ==
    ASSUME ShoutsInv, UNCHANGED <<active, item, tags, req>>,
           row' \in [Shout -> Row \cup {None}], \A s \in Shout : SameRow(s),
           doc' \in [Shout -> Doc \cup {None}], \A s \in Shout : row[s] = None => doc'[s] = None,
           jobs' \in Seq(IndexJob \cup PublishJob), \A i \in DOMAIN jobs' : row[jobs'[i].shout] # None,
           worker' = None \/ /\ worker' \in InHand /\ row[worker'.job.shout] # None
                             /\ worker'.phase = "enqueue" => worker'.copy \in Copy,
           late' \subseteq Shout, lost' \subseteq Shout,
           \A s \in Shout : XInv(s)'
    PROVE  ShoutsInv'
  <1>1. TypeOK /\ MadeInv /\ MuteInv
    BY DEF ShoutsInv, TInv
  <1>2. \A s \in Shout : row'[s] = None <=> row[s] = None
    BY DEF SameRow
  <1>3. TypeOK'
    BY <1>1, <1>2 DEF TypeOK
  <1>4. MadeInv'
    <2>1. ASSUME NEW r \in Request
          PROVE  ReqOK(req[r])'
      <3>1. PICK c : c = req[r]
        OBVIOUS
      <3>2. c \in ReqState /\ ReqOK(c)
        BY <1>1, <3>1, ReqTypes DEF MadeInv
      <3>3. c.phase = "insert" => row'[c.shout] = None /\ item'[c.shout] # None
        BY <1>2, <3>2 DEF ReqOK
      <3>4. ReqOK(c)'
        BY <1>2, <3>2, <3>3, ReqStays
      <3>5. c = req'[r]
        BY <3>1
      <3>6. QED
        BY <3>4, <3>5 DEF ReqOK
    <2>2. \A i \in DOMAIN jobs' : row'[jobs'[i].shout] # None
      <3>1. \A i \in DOMAIN jobs' : jobs'[i].shout \in Shout
        BY DEF IndexJob, PublishJob
      <3>2. QED
        BY <1>2, <3>1
    <2>3. worker' # None =>
             row'[worker'.job.shout] # None /\ (worker'.phase = "enqueue" => worker'.copy \in Copy)
      <3>1. worker' # None => worker'.job.shout \in Shout
        BY DEF IndexJob, PublishJob, InHand
      <3>2. QED
        BY <1>2, <3>1
    <2>4. \A s \in Shout : row'[s] = None => doc'[s] = None
      BY <1>2
    <2>5. \A p, q \in Request :
             req'[p].phase = "insert" /\ req'[q].phase = "insert" /\ req'[p].shout = req'[q].shout => p = q
      BY <1>1 DEF MadeInv
    <2>6. QED
      BY <2>1, <2>2, <2>3, <2>4, <2>5 DEF MadeInv, Request
  <1>5. MuteInv'
    <2>1. Unmuted' = Unmuted
      BY DEF Unmuted, SameRow
    <2>2. InFlight' = InFlight /\ Writers' = Writers
      BY DEF InFlight, Writers, Request
    <2>3. \A r \in Request : Left(r)' = Left(r) /\ Listed(req[r])' = Listed(req[r])
      BY <2>1 DEF Left, Todo, Listed
    <2>4. QED
      BY <1>1, <2>2, <2>3 DEF MuteInv, Request
  <1>6. QED
    BY <1>3, <1>4, <1>5 DEF ShoutsInv, TInv

\* ... keeps what is known of s unless it has to do with s.
LEMMA XWorks ==
    ASSUME NEW s \in Shout, XInv(s), UNCHANGED <<item, tags, req>>, SameRow(s), doc'[s] = doc[s],
           (Holds(jobs, s)' <=> Holds(jobs, s)) /\ (QueueFresh(s) => QueueFresh(s)'),
           Indexing(s)' <=> Indexing(s), Indexing(s) => worker' = worker,
           s \in lost => s \in lost', s \in late => s \in late'
    PROVE  XInv(s)'
  <1>1. Changing(s) => Changing(s)'
    BY DEF Changing, Unindexed, InFlight, Request
  <1>2. QED
    BY <1>1, XKeeps

LEMMA ChangingStays ==
    ASSUME NEW s, UNCHANGED req
    PROVE  Changing(s)' <=> Changing(s)
  BY DEF Changing, Unindexed, InFlight, Request
-----------------------------------------------------------------------------
\* What the head of the queue and its tail are.
LEMMA NextJob ==
    ASSUME TypeOK, MadeInv, jobs # << >>
    PROVE  /\ Head(jobs) \in IndexJob \cup PublishJob /\ Head(jobs).shout \in Shout /\ row[Head(jobs).shout] # None
           /\ Tail(jobs) \in Seq(IndexJob \cup PublishJob)
           /\ \A i \in DOMAIN Tail(jobs) : row[Tail(jobs)[i].shout] # None
  <1>1. jobs \in Seq(IndexJob \cup PublishJob) /\ Len(jobs) \in Nat \ {0} /\ DOMAIN jobs = 1..Len(jobs)
    BY JobsTyped, EmptySeq, LenProperties
  <1>2. /\ Head(jobs) = jobs[1] /\ 1 \in DOMAIN jobs
        /\ Tail(jobs) \in Seq(IndexJob \cup PublishJob) /\ Len(Tail(jobs)) = Len(jobs) - 1
        /\ \A i \in 1..Len(Tail(jobs)) : Tail(jobs)[i] = jobs[i+1]
    BY <1>1, HeadTailProperties
  <1>3. DOMAIN Tail(jobs) = 1..Len(jobs)-1
    BY <1>2, LenProperties
  <1>4. \A i \in DOMAIN Tail(jobs) : i + 1 \in DOMAIN jobs /\ Tail(jobs)[i] = jobs[i+1]
    BY <1>1, <1>2, <1>3
  <1>5. QED
    BY <1>1, <1>2, <1>4, JobsTyped DEF MadeInv

\* The last index job of the queue is as fresh as the queue.
LEMMA LastJobFresh ==
    ASSUME TypeOK, jobs # << >>, NEW s, IsIndex(Head(jobs), s), ~ Holds(Tail(jobs), s)
    PROVE  Holds(jobs, s) /\ (QueueFresh(s) => Fresh(Head(jobs), s))
  <1>1. jobs \in Seq(IndexJob \cup PublishJob) /\ Len(jobs) \in Nat \ {0} /\ DOMAIN jobs = 1..Len(jobs)
    BY JobsTyped, EmptySeq, LenProperties
  <1>2. /\ Head(jobs) = jobs[1] /\ 1 \in DOMAIN jobs
        /\ Tail(jobs) \in Seq(IndexJob \cup PublishJob) /\ Len(Tail(jobs)) = Len(jobs) - 1
        /\ \A i \in 1..Len(Tail(jobs)) : Tail(jobs)[i] = jobs[i+1]
    BY <1>1, HeadTailProperties
  <1>3. DOMAIN Tail(jobs) = 1..Len(jobs)-1
    BY <1>2, LenProperties
  <1>4. ASSUME NEW j \in DOMAIN jobs, j > 1
        PROVE  ~ IsIndex(jobs[j], s)
    <2>1. j - 1 \in DOMAIN Tail(jobs) /\ j - 1 \in 1..Len(Tail(jobs)) /\ (j - 1) + 1 = j
      BY <1>1, <1>2, <1>3, <1>4
    <2>2. Tail(jobs)[j-1] = jobs[j]
      BY <1>2, <2>1
    <2>3. QED
      BY <2>1, <2>2 DEF Holds, IsIndex
  <1>5. QED
    BY <1>2, <1>4 DEF Holds, IsIndex, QueueFresh

LEMMA TakeIndexJobInv ==
    ASSUME ShoutsInv, TakeIndexJob
    PROVE  ShoutsInv'
  <1>1. TypeOK /\ MadeInv /\ worker = None /\ jobs # << >>
    BY DEF ShoutsInv, TInv, TakeIndexJob, IsNext
  <1>2. PICK job, t : job = Head(jobs) /\ t = job.shout
    OBVIOUS
  <1>3. /\ job \in IndexJob /\ job.kind = "index" /\ t \in Shout /\ row[t] # None /\ item[t] \in Item
        /\ jobs' = Tail(jobs) /\ jobs' \in Seq(IndexJob \cup PublishJob)
        /\ \A i \in DOMAIN jobs' : row[jobs'[i].shout] # None
    <2>1. /\ job \in IndexJob \cup PublishJob /\ t \in Shout /\ row[t] # None
          /\ Tail(jobs) \in Seq(IndexJob \cup PublishJob)
          /\ \A i \in DOMAIN Tail(jobs) : row[Tail(jobs)[i].shout] # None
      BY <1>1, <1>2, NextJob
    <2>2. job.kind = "index" /\ jobs' = Tail(jobs)
      BY <1>2 DEF TakeIndexJob, IsNext
    <2>3. QED
      BY <1>1, <2>1, <2>2 DEF TypeOK, PublishJob
  <1>4. UNCHANGED <<active, row, item, tags, req, late, lost>>
    BY DEF TakeIndexJob, database, history
  <1>5. \/ /\ job.copy.disabled /\ ~ job.created
           /\ doc' = [doc EXCEPT ![t] = None] /\ worker' = None
        \/ /\ ~ job.copy.disabled \/ job.created
           /\ worker' = [phase |-> "tags", job |-> job, name |-> item[t].name, tags |-> {}]
           /\ doc' = doc
    BY <1>1, <1>2 DEF TakeIndexJob
  <1>6. doc' \in [Shout -> Doc \cup {None}] /\ \A s \in Shout : row[s] = None => doc'[s] = None
    BY <1>1, <1>5 DEF TypeOK, MadeInv
  <1>7. PICK w : w = [phase |-> "tags", job |-> job, name |-> item[t].name, tags |-> {}]
    OBVIOUS
  <1>8. w \in InHand /\ w # None /\ w.phase = "tags" /\ w.job = job /\ w.name = item[t].name
    <2>1. item[t].name \in Version /\ {} \in SUBSET Request
      BY <1>3 DEF Item
    <2>2. w \in InHand
      BY <1>3, <1>7, <2>1 DEF InHand
    <2>3. QED
      BY <1>7, <2>2, NotNone
  <1>9. worker' = None \/ (worker' \in InHand /\ worker'.job.shout = t /\ worker'.phase # "enqueue")
    BY <1>2, <1>5, <1>7, <1>8
  <1>10. ASSUME NEW s \in Shout
        PROVE  XInv(s)'
    <2>1. XInv(s) /\ SameRow(s) /\ ~ Indexing(s)
      BY <1>1, <1>4 DEF ShoutsInv, SameRow, Indexing
    <2>2. CASE s # t
      <3>1. ~ IsIndex(Head(jobs), s)
        BY <1>2, <2>2 DEF IsIndex
      <3>2. (Holds(jobs, s)' <=> Holds(jobs, s)) /\ (QueueFresh(s) => QueueFresh(s)')
        BY <1>1, <1>3, <2>1, <3>1, JobsTyped, QueueTail
      <3>3. ~ Indexing(s)'
        BY <1>2, <1>5, <2>2 DEF Indexing
      <3>4. doc'[s] = doc[s]
        BY <1>1, <1>5, <2>2 DEF TypeOK
      <3>5. QED
        BY <1>4, <2>1, <3>2, <3>3, <3>4, XWorks
    <2>3. CASE s = t /\ Holds(Tail(jobs), s)
      <3>1. Holds(jobs, s)' /\ Holds(jobs, s) /\ (QueueFresh(s) => QueueFresh(s)')
        <4>1. Holds(jobs, s)'
          BY <1>3, <2>3 DEF Holds
        <4>2. QED
          BY <1>1, <1>3, <2>1, <2>3, <4>1, JobsTyped, QueueTail
      <3>2. ItemKept(s)' /\ (RowKept(s) => RowKept(s)')
        BY <3>1 DEF ItemKept, RowKept
      <3>3. QED
        BY <1>4, <2>1, <3>2, ChangingStays DEF XInv
    <2>4. CASE s = t /\ ~ Holds(Tail(jobs), s)
      <3>1. IsIndex(Head(jobs), s)
        BY <1>2, <1>3, <2>4 DEF IsIndex
      <3>2. Holds(jobs, s) /\ (QueueFresh(s) => Fresh(job, s))
        BY <1>1, <1>2, <2>4, <3>1, LastJobFresh
      <3>3. ~ Holds(jobs, s)'
        BY <1>3, <2>4 DEF Holds
      <3>4. /\ RowKept(s) => job.copy = CopyOf(row[s]) /\ ~ (job.created /\ job.copy.disabled)
            /\ CopyOf(row[s])' = CopyOf(row[s])
        BY <2>1, <3>2, CopySame DEF RowKept, Fresh
      <3>5. CASE job.copy.disabled /\ ~ job.created /\ doc' = [doc EXCEPT ![t] = None] /\ worker' = None
        <4>1. ~ Indexing(s)' /\ doc'[s] = None
          BY <1>1, <2>4, <3>5 DEF Indexing, TypeOK
        <4>2. RowKept(s) => row'[s].disabled
          BY <1>4, <3>4, <3>5 DEF CopyOf
        <4>3. ItemKept(s)' /\ (RowKept(s) => RowKept(s)')
          BY <3>3, <4>1, <4>2 DEF ItemKept, RowKept, DocFresh
        <4>4. QED
          BY <1>4, <2>1, <4>3, ChangingStays DEF XInv
      <3>6. CASE /\ ~ job.copy.disabled \/ job.created
                 /\ worker' = [phase |-> "tags", job |-> job, name |-> item[t].name, tags |-> {}]
        <4>1. Indexing(s)' /\ worker'.name = item'[s].name /\ worker'.phase = "tags" /\ worker'.job = job
          BY <1>2, <1>3, <1>4, <1>7, <1>8, <2>4, <3>6 DEF Indexing
        <4>2. RowKept(s) => WorkerFresh(s)'
          BY <3>4, <3>6, <4>1 DEF WorkerFresh
        <4>3. ItemKept(s)' /\ (RowKept(s) => RowKept(s)')
          BY <3>3, <4>1, <4>2 DEF ItemKept, RowKept
        <4>4. QED
          BY <1>4, <2>1, <4>3, ChangingStays DEF XInv
      <3>7. QED
        BY <1>5, <3>5, <3>6
    <2>5. QED
      BY <2>2, <2>3, <2>4
  <1>11. /\ row' \in [Shout -> Row \cup {None}] /\ late' \subseteq Shout /\ lost' \subseteq Shout
        /\ \A s \in Shout : SameRow(s)
    BY <1>1, <1>4 DEF TypeOK, SameRow
  <1>12. QED
    BY <1>3, <1>4, <1>6, <1>9, <1>10, <1>11, Works

\* A step of the worker in the middle of a job.
LEMMA Middle ==
    ASSUME ShoutsInv, worker # None
    PROVE  /\ TypeOK /\ MadeInv /\ worker \in InHand
           /\ worker.job.shout \in Shout /\ row[worker.job.shout] # None
           /\ jobs \in Seq(IndexJob \cup PublishJob) /\ \A i \in DOMAIN jobs : row[jobs[i].shout] # None
           /\ worker.job.kind = "index" =>
                 /\ worker.job \in IndexJob /\ worker.name \in Version /\ worker.tags \in SUBSET Request
                 /\ worker.phase \in {"tags", "save", "mark"}
           /\ worker.job.kind = "publish" =>
                 /\ worker.job \in PublishJob /\ worker.phase \in {"save", "copy", "enqueue"}
                 /\ worker.copy \in Copy \cup {None}
           /\ \A s \in Shout : XInv(s)
           /\ row \in [Shout -> Row \cup {None}] /\ doc \in [Shout -> Doc \cup {None}]
           /\ late \subseteq Shout /\ lost \subseteq Shout
           /\ \A s \in Shout : row[s] = None => doc[s] = None
  <1>1. TypeOK /\ MadeInv /\ \A s \in Shout : XInv(s)
    BY DEF ShoutsInv, TInv
  <1>2. worker \in InHand /\ worker.job.shout \in Shout
    BY <1>1, JobsTyped
  <1>3. /\ worker.job.kind = "index" =>
                 /\ worker.job \in IndexJob /\ worker.name \in Version /\ worker.tags \in SUBSET Request
                 /\ worker.phase \in {"tags", "save", "mark"}
        /\ worker.job.kind = "publish" =>
                 /\ worker.job \in PublishJob /\ worker.phase \in {"save", "copy", "enqueue"}
                 /\ worker.copy \in Copy \cup {None}
    BY <1>2 DEF InHand, IndexJob, PublishJob
  <1>4. QED
    BY <1>1, <1>2, <1>3 DEF TypeOK, MadeInv

LEMMA ReadTagsInv ==
    ASSUME ShoutsInv, ReadTags
    PROVE  ShoutsInv'
  <1>1. /\ worker # None /\ worker.job.kind = "index" /\ worker.phase = "tags"
        /\ UNCHANGED <<active, row, item, tags, doc, jobs, req, late, lost>>
    BY DEF ReadTags, Working, database, history
  <1>2. PICK t : t = worker.job.shout
    OBVIOUS
  <1>3. TypeOK /\ t \in Shout /\ row[t] # None /\ worker.job \in IndexJob /\ worker.name \in Version /\ tags[t] \in SUBSET Request
    BY <1>1, <1>2, Middle DEF TypeOK
  <1>4. PICK w : w = [worker EXCEPT !.phase = "save", !.tags = tags[t]]
    OBVIOUS
  <1>5. worker' = w
    BY <1>2, <1>4 DEF ReadTags
  <1>6. /\ w \in InHand /\ w.job = worker.job /\ w.phase = "save" /\ w.name = worker.name /\ w.tags = tags[t]
    BY <1>1, <1>3, <1>4, Middle DEF InHand, IndexJob, PublishJob
  <1>7. w # None
    BY <1>6, NotNone
  <1>8. ASSUME NEW s \in Shout
        PROVE  XInv(s)'
    <2>1. XInv(s) /\ SameRow(s)
      BY <1>1, Middle DEF SameRow
    <2>2. (Holds(jobs, s)' <=> Holds(jobs, s)) /\ (QueueFresh(s) => QueueFresh(s)')
      BY <1>1, <2>1, QueueStays
    <2>3. Indexing(s)' <=> Indexing(s)
      BY <1>1, <1>5, <1>6, <1>7 DEF Indexing
    <2>4. CASE s # t
      <3>1. ~ Indexing(s)
        BY <1>2, <2>4 DEF Indexing
      <3>2. QED
        BY <1>1, <2>1, <2>2, <2>3, <3>1, XWorks
    <2>5. CASE s = t
      <3>1. Indexing(s)
        BY <1>1, <1>2, <2>5 DEF Indexing
      <3>2. ItemKept(s) => ItemKept(s)'
        BY <1>1, <1>5, <1>6, <2>2, <2>3, <2>5, <3>1 DEF ItemKept
      <3>3. WorkerFresh(s) => WorkerFresh(s)'
        BY <1>5, <1>6, <2>1, CopySame DEF WorkerFresh
      <3>4. RowKept(s) => RowKept(s)'
        BY <2>2, <2>3, <3>1, <3>3 DEF RowKept
      <3>5. QED
        BY <1>1, <2>1, <3>2, <3>4, ChangingStays DEF XInv
    <2>6. QED
      BY <2>4, <2>5
  <1>9. \A s \in Shout : SameRow(s)
    BY <1>1 DEF SameRow
  <1>10. /\ worker' \in InHand /\ row[worker'.job.shout] # None /\ worker'.phase # "enqueue"
    BY <1>2, <1>3, <1>5, <1>6
  <1>11. QED
    BY <1>1, <1>8, <1>9, <1>10, Middle, Works

LEMMA SaveDocInv ==
    ASSUME ShoutsInv, SaveDoc
    PROVE  ShoutsInv'
  <1>1. /\ worker # None /\ worker.job.kind = "index" /\ worker.phase = "save"
        /\ UNCHANGED <<active, row, item, tags, jobs, req, late, lost>>
    BY DEF SaveDoc, Working, database, history
  <1>2. PICK t, copy : t = worker.job.shout /\ copy = worker.job.copy
    OBVIOUS
  <1>3. /\ t \in Shout /\ row[t] # None /\ worker.job \in IndexJob /\ copy \in Copy
        /\ worker.name \in Version /\ worker.tags \in SUBSET Request
    BY <1>1, <1>2, Middle DEF IndexJob
  <1>4. PICK d : d = [text |-> copy.text, muted |-> copy.muted, name |-> worker.name, tags |-> worker.tags]
    OBVIOUS
  <1>5. d \in Doc /\ d # None /\ d.text = copy.text /\ d.muted = copy.muted /\ d.name = worker.name /\ d.tags = worker.tags
    BY <1>3, <1>4, NotNone DEF Copy, Doc
  <1>6. doc' = [doc EXCEPT ![t] = d]
    BY <1>2, <1>4 DEF SaveDoc
  <1>7. /\ doc' \in [Shout -> Doc \cup {None}] /\ doc'[t] = d
        /\ \A s \in Shout \ {t} : doc'[s] = doc[s]
    BY <1>1, <1>3, <1>5, <1>6, Middle
  <1>8. PICK w : w = [worker EXCEPT !.phase = "mark"]
    OBVIOUS
  <1>9. worker' = w
    BY <1>8 DEF SaveDoc
  <1>10. w \in InHand /\ w.job = worker.job /\ w.phase = "mark"
    BY <1>1, <1>3, <1>8, Middle DEF InHand, IndexJob, PublishJob
  <1>11. ASSUME NEW s \in Shout
         PROVE  XInv(s)'
    <2>1. XInv(s) /\ SameRow(s)
      BY <1>1, Middle DEF SameRow
    <2>2. (Holds(jobs, s)' <=> Holds(jobs, s)) /\ (QueueFresh(s) => QueueFresh(s)')
      BY <1>1, <2>1, QueueStays
    <2>3. ~ Indexing(s)'
      BY <1>9, <1>10 DEF Indexing
    <2>4. CASE s # t
      <3>1. ~ Indexing(s) /\ doc'[s] = doc[s]
        BY <1>2, <1>7, <2>4 DEF Indexing
      <3>2. QED
        BY <1>1, <2>1, <2>2, <2>3, <3>1, XWorks
    <2>5. CASE s = t
      <3>1. Indexing(s)
        BY <1>1, <1>2, <2>5 DEF Indexing
      <3>2. ItemKept(s) => ItemKept(s)'
        BY <1>1, <1>5, <1>7, <2>2, <2>3, <2>5, <3>1 DEF ItemKept
      <3>3. WorkerFresh(s) => DocFresh(s)'
        BY <1>1, <1>2, <1>3, <1>5, <1>7, <2>5 DEF WorkerFresh, DocFresh, CopyOf
      <3>4. RowKept(s) => RowKept(s)'
        BY <2>2, <2>3, <3>1, <3>3 DEF RowKept
      <3>5. QED
        BY <1>1, <2>1, <3>2, <3>4, ChangingStays DEF XInv
    <2>6. QED
      BY <2>4, <2>5
  <1>12. \A s \in Shout : SameRow(s)
    BY <1>1 DEF SameRow
  <1>13. worker' \in InHand /\ row[worker'.job.shout] # None /\ worker'.phase # "enqueue"
    BY <1>2, <1>3, <1>9, <1>10
  <1>14. \A s \in Shout : row[s] = None => doc'[s] = None
    BY <1>1, <1>3, <1>7, Middle
  <1>15. QED
    BY <1>1, <1>7, <1>11, <1>12, <1>13, <1>14, Middle, Works

\* A step of the worker that saves no document and that neither takes nor enqueues a job.
LEMMA WorksAside ==
    ASSUME ShoutsInv, worker # None, UNCHANGED <<active, item, tags, doc, jobs, req, late, lost>>,
           row' \in [Shout -> Row \cup {None}], \A s \in Shout : SameRow(s),
           \A s \in Shout : ~ Indexing(s) /\ ~ Indexing(s)',
           worker' = None \/ /\ worker' \in InHand /\ row[worker'.job.shout] # None
                             /\ worker'.phase = "enqueue" => worker'.copy \in Copy
    PROVE  ShoutsInv'
  <1>1. ASSUME NEW s \in Shout
        PROVE  XInv(s)'
    <2>1. XInv(s) /\ SameRow(s)
      BY Middle
    <2>2. (Holds(jobs, s)' <=> Holds(jobs, s)) /\ (QueueFresh(s) => QueueFresh(s)')
      BY <2>1, QueueStays
    <2>3. QED
      BY <2>1, <2>2, XWorks
  <1>2. QED
    BY <1>1, Middle, Works

LEMMA MarkIndexedInv ==
    ASSUME ShoutsInv, MarkIndexed
    PROVE  ShoutsInv'
  <1>1. /\ worker # None /\ worker.phase = "mark" /\ worker' = None
        /\ UNCHANGED <<active, item, tags, doc, jobs, req, late, lost>>
    BY DEF MarkIndexed, Working, history
  <1>2. PICK t : t = worker.job.shout
    OBVIOUS
  <1>3. t \in Shout /\ row[t] \in Row /\ row \in [Shout -> Row \cup {None}] /\ row[t] # None
    BY <1>1, <1>2, Middle
  <1>4. PICK new : new = [row[t] EXCEPT !.indexed = TRUE]
    OBVIOUS
  <1>5. /\ new \in Row /\ new # None
        /\ new.text = row[t].text /\ new.muted = row[t].muted /\ new.disabled = row[t].disabled
    BY <1>3, <1>4, NotNone DEF Row
  <1>6. row' = [row EXCEPT ![t] = new]
    BY <1>2, <1>4 DEF MarkIndexed
  <1>7. row' \in [Shout -> Row \cup {None}] /\ \A s \in Shout : SameRow(s)
    BY <1>3, <1>5, <1>6 DEF SameRow
  <1>8. \A s \in Shout : ~ Indexing(s) /\ ~ Indexing(s)'
    BY <1>1 DEF Indexing
  <1>9. QED
    BY <1>1, <1>7, <1>8, WorksAside

LEMMA TakePublishJobInv ==
    ASSUME ShoutsInv, TakePublishJob
    PROVE  ShoutsInv'
  <1>1. TypeOK /\ MadeInv /\ worker = None /\ jobs # << >> /\ Head(jobs).kind = "publish" /\ jobs' = Tail(jobs)
    BY DEF ShoutsInv, TInv, TakePublishJob, IsNext
  <1>2. UNCHANGED <<active, row, item, tags, doc, req, late, lost>>
    BY DEF TakePublishJob, database, history
  <1>3. PICK job : job = Head(jobs)
    OBVIOUS
  <1>4. /\ job \in PublishJob /\ row[job.shout] # None
        /\ jobs' \in Seq(IndexJob \cup PublishJob)
        /\ \A i \in DOMAIN jobs' : row[jobs'[i].shout] # None
    <2>1. /\ job \in IndexJob \cup PublishJob /\ row[job.shout] # None
          /\ Tail(jobs) \in Seq(IndexJob \cup PublishJob)
          /\ \A i \in DOMAIN Tail(jobs) : row[Tail(jobs)[i].shout] # None
      BY <1>1, <1>3, NextJob
    <2>2. QED
      BY <1>1, <1>3, <2>1 DEF IndexJob
  <1>5. PICK w : w = [phase |-> "save", job |-> job, copy |-> None]
    OBVIOUS
  <1>6. w \in InHand /\ w.job = job /\ w.phase = "save" /\ w.job.kind = "publish"
    BY <1>1, <1>3, <1>4, <1>5 DEF InHand
  <1>7. worker' = None \/ worker' = w
    BY <1>1, <1>3, <1>5 DEF TakePublishJob
  <1>8. ASSUME NEW s \in Shout
        PROVE  XInv(s)'
    <2>1. XInv(s) /\ SameRow(s) /\ ~ IsIndex(Head(jobs), s)
      BY <1>1, <1>2 DEF ShoutsInv, SameRow, IsIndex
    <2>2. (Holds(jobs, s)' <=> Holds(jobs, s)) /\ (QueueFresh(s) => QueueFresh(s)')
      BY <1>1, <2>1, JobsTyped, QueueTail
    <2>3. ~ Indexing(s) /\ ~ Indexing(s)'
      BY <1>1, <1>6, <1>7 DEF Indexing
    <2>4. QED
      BY <1>2, <2>1, <2>2, <2>3, XWorks
  <1>9. /\ row' \in [Shout -> Row \cup {None}] /\ late' \subseteq Shout /\ lost' \subseteq Shout
        /\ doc' \in [Shout -> Doc \cup {None}] /\ \A s \in Shout : row[s] = None => doc'[s] = None
        /\ \A s \in Shout : SameRow(s)
    BY <1>1, <1>2 DEF TypeOK, SameRow, MadeInv
  <1>10. worker' = None \/ (worker' \in InHand /\ row[worker'.job.shout] # None /\ worker'.phase # "enqueue")
    BY <1>4, <1>6, <1>7
  <1>11. QED
    BY <1>2, <1>4, <1>8, <1>9, <1>10, Works

LEMMA SavePublishedInv ==
    ASSUME ShoutsInv, SavePublished
    PROVE  ShoutsInv'
  <1>1. /\ worker # None /\ worker.job.kind = "publish" /\ worker.phase = "save"
        /\ UNCHANGED <<active, item, tags, doc, jobs, req, late, lost>>
    BY DEF SavePublished, Working, history
  <1>2. PICK t : t = worker.job.shout
    OBVIOUS
  <1>3. t \in Shout /\ row[t] \in Row /\ row \in [Shout -> Row \cup {None}] /\ row[t] # None
    BY <1>1, <1>2, Middle
  <1>4. PICK new : new = [row[t] EXCEPT !.published = TRUE]
    OBVIOUS
  <1>5. /\ new \in Row /\ new # None
        /\ new.text = row[t].text /\ new.muted = row[t].muted /\ new.disabled = row[t].disabled
    BY <1>3, <1>4, NotNone DEF Row
  <1>6. row' = [row EXCEPT ![t] = new]
    BY <1>2, <1>4 DEF SavePublished
  <1>7. row' \in [Shout -> Row \cup {None}] /\ \A s \in Shout : SameRow(s)
    BY <1>3, <1>5, <1>6 DEF SameRow
  <1>8. PICK w : w = [worker EXCEPT !.phase = "copy"]
    OBVIOUS
  <1>9. w \in InHand /\ w.job = worker.job /\ w.phase = "copy"
    BY <1>1, <1>8, Middle DEF InHand, IndexJob, PublishJob
  <1>10. worker' = None \/ worker' = w
    BY <1>8 DEF SavePublished
  <1>11. \A s \in Shout : ~ Indexing(s) /\ ~ Indexing(s)'
    BY <1>1, <1>9, <1>10 DEF Indexing
  <1>12. worker' = None \/ (worker' \in InHand /\ row[worker'.job.shout] # None /\ worker'.phase # "enqueue")
    BY <1>2, <1>3, <1>9, <1>10
  <1>13. QED
    BY <1>1, <1>7, <1>11, <1>12, WorksAside

LEMMA PublishedCopyInv ==
    ASSUME ShoutsInv, PublishedCopy
    PROVE  ShoutsInv'
  <1>1. /\ worker # None /\ worker.job.kind = "publish" /\ worker.phase = "copy"
        /\ UNCHANGED <<active, row, item, tags, doc, jobs, req, late, lost>>
    BY DEF PublishedCopy, Working, database, history
  <1>2. PICK t : t = worker.job.shout
    OBVIOUS
  <1>3. t \in Shout /\ row[t] \in Row /\ row \in [Shout -> Row \cup {None}] /\ row[t] # None
    BY <1>1, <1>2, Middle
  <1>4. CopyOf(row[t]) \in Copy
    BY <1>3 DEF CopyOf, Copy, Row
  <1>5. PICK w : w = [worker EXCEPT !.phase = "enqueue", !.copy = CopyOf(row[t])]
    OBVIOUS
  <1>6. worker' = w
    BY <1>2, <1>5 DEF PublishedCopy
  <1>7. w \in InHand /\ w.job = worker.job /\ w.phase = "enqueue" /\ w.copy \in Copy
    BY <1>1, <1>4, <1>5, Middle DEF InHand, IndexJob, PublishJob
  <1>8. \A s \in Shout : ~ Indexing(s) /\ ~ Indexing(s)' /\ SameRow(s)
    BY <1>1, <1>6, <1>7 DEF Indexing, SameRow
  <1>9. row' \in [Shout -> Row \cup {None}] /\ worker' \in InHand /\ row[worker'.job.shout] # None /\ worker'.copy \in Copy
    BY <1>1, <1>2, <1>3, <1>6, <1>7
  <1>10. QED
    BY <1>1, <1>8, <1>9, WorksAside

LEMMA PublishedIndexInv ==
    ASSUME ShoutsInv, PublishedIndex
    PROVE  ShoutsInv'
  <1>1. /\ worker # None /\ worker.job.kind = "publish" /\ worker.phase = "enqueue" /\ worker' = None
        /\ UNCHANGED <<database, doc>> /\ UNCHANGED <<active, row, item, tags, req>>
    BY DEF PublishedIndex, Working, database
  <1>2. PICK t, copy : t = worker.job.shout /\ copy = worker.copy
    OBVIOUS
  <1>3. TypeOK /\ MadeInv /\ t \in Shout /\ row[t] # None /\ copy \in Copy
    BY <1>1, <1>2, Middle DEF MadeInv
  <1>4. EnqueueIndex(t, copy, FALSE)
    BY <1>2 DEF PublishedIndex
  <1>5. PICK job \in IndexJob : job.shout = t /\ jobs' = Append(jobs, job)
    <2>1. [kind |-> "index", shout |-> t, copy |-> copy, created |-> FALSE] \in IndexJob
      BY <1>3 DEF IndexJob
    <2>2. QED
      BY <1>4, <2>1 DEF EnqueueIndex
  <1>6. /\ jobs' \in Seq(IndexJob \cup PublishJob)
        /\ \A i \in DOMAIN jobs' : row[jobs'[i].shout] # None
    BY <1>3, <1>5, JobAppended
  <1>7. ASSUME NEW s \in Shout
        PROVE  XInv(s)'
    <2>1. ~ Indexing(s)' /\ ~ Indexing(s)
      BY <1>1 DEF Indexing
    <2>2. XInv(s) /\ FALSE \in BOOLEAN
      BY <1>1, Middle
    <2>3. QED
      BY <1>1, <1>3, <1>4, <2>1, <2>2, ChangingStays, XEnqueued
  <1>8. late' \subseteq Shout /\ lost' \subseteq Shout
    BY <1>3, <1>4 DEF EnqueueIndex, TypeOK
  <1>9. /\ row' \in [Shout -> Row \cup {None}]
        /\ doc' \in [Shout -> Doc \cup {None}] /\ \A s \in Shout : row[s] = None => doc'[s] = None
        /\ \A s \in Shout : SameRow(s)
    BY <1>1, Middle DEF SameRow
  <1>10. QED
    BY <1>1, <1>6, <1>7, <1>8, <1>9, Works

LEMMA JobFailsInv ==
    ASSUME ShoutsInv, JobFails
    PROVE  ShoutsInv'
  <1>1. /\ TypeOK /\ MadeInv /\ (\A s \in Shout : XInv(s))
        /\ UNCHANGED <<active, row, item, tags, doc, req, late>>
    BY DEF ShoutsInv, TInv, JobFails, database
  <1>2. /\ row' \in [Shout -> Row \cup {None}] /\ doc' \in [Shout -> Doc \cup {None}]
        /\ \A s \in Shout : row[s] = None => doc'[s] = None
        /\ late' \subseteq Shout
        /\ \A s \in Shout : SameRow(s)
    BY <1>1 DEF TypeOK, MadeInv, SameRow
  <1>3. CASE /\ worker = None /\ jobs # << >> /\ jobs' = Tail(jobs) /\ worker' = None
             /\ IF Head(jobs).kind = "index" THEN LosesIndex(Head(jobs).shout, Tail(jobs)) ELSE lost' = lost
    <2>1. PICK job, t : job = Head(jobs) /\ t = job.shout
      OBVIOUS
    <2>2. /\ job \in IndexJob \cup PublishJob /\ t \in Shout
          /\ jobs' \in Seq(IndexJob \cup PublishJob)
          /\ \A i \in DOMAIN jobs' : row[jobs'[i].shout] # None
      BY <1>1, <1>3, <2>1, NextJob
    <2>3. /\ lost' = lost \/ lost' = lost \cup {t}
          /\ job.kind = "index" /\ ~ Holds(Tail(jobs), t) => t \in lost'
      BY <1>3, <2>1 DEF LosesIndex
    <2>4. lost' \subseteq Shout
      BY <1>1, <2>2, <2>3 DEF TypeOK
    <2>5. ASSUME NEW s \in Shout
          PROVE  XInv(s)'
      <3>1. XInv(s) /\ SameRow(s) /\ ~ Indexing(s) /\ ~ Indexing(s)'
        BY <1>1, <1>2, <1>3 DEF Indexing
      <3>2. CASE ~ IsIndex(Head(jobs), s) \/ Holds(Tail(jobs), s)
        <4>1. (Holds(jobs, s)' <=> Holds(jobs, s)) /\ (QueueFresh(s) => QueueFresh(s)')
          BY <1>1, <1>3, <3>1, <3>2, JobsTyped, QueueTail
        <4>2. QED
          BY <1>1, <2>3, <3>1, <4>1, XWorks
      <3>3. CASE IsIndex(Head(jobs), s) /\ ~ Holds(Tail(jobs), s)
        <4>1. s \in lost'
          BY <2>1, <2>3, <3>3 DEF IsIndex
        <4>2. QED
          BY <4>1 DEF XInv
      <3>4. QED
        BY <3>2, <3>3
    <2>6. QED
      BY <1>1, <1>2, <1>3, <2>2, <2>4, <2>5, Works
  <1>4. CASE /\ worker # None /\ worker' = None /\ jobs' = jobs
             /\ IF worker.job.kind = "index" /\ worker.phase # "mark"
                THEN LosesIndex(worker.job.shout, jobs) ELSE lost' = lost
    <2>1. PICK t : t = worker.job.shout
      OBVIOUS
    <2>2. t \in Shout
      BY <1>4, <2>1, Middle
    <2>3. /\ lost' = lost \/ lost' = lost \cup {t}
          /\ worker.job.kind = "index" /\ worker.phase # "mark" /\ ~ Holds(jobs, t) => t \in lost'
      BY <1>4, <2>1 DEF LosesIndex
    <2>4. lost' \subseteq Shout
      BY <1>1, <2>2, <2>3 DEF TypeOK
    <2>5. ASSUME NEW s \in Shout
          PROVE  XInv(s)'
      <3>1. XInv(s) /\ SameRow(s) /\ ~ Indexing(s)'
        BY <1>1, <1>2, <1>4 DEF Indexing
      <3>2. (Holds(jobs, s)' <=> Holds(jobs, s)) /\ (QueueFresh(s) => QueueFresh(s)')
        BY <1>4, <3>1, QueueStays
      <3>3. CASE ~ Indexing(s)
        BY <1>1, <2>3, <3>1, <3>2, <3>3, XWorks
      <3>4. CASE Indexing(s) /\ ~ Holds(jobs, s)
        <4>1. s \in lost'
          BY <2>1, <2>3, <3>4 DEF Indexing
        <4>2. QED
          BY <4>1 DEF XInv
      <3>5. CASE Indexing(s) /\ Holds(jobs, s)
        <4>1. ItemKept(s)' /\ (RowKept(s) => RowKept(s)')
          BY <3>2, <3>5 DEF ItemKept, RowKept
        <4>2. QED
          BY <1>1, <2>3, <3>1, <4>1, ChangingStays DEF XInv
      <3>6. QED
        BY <3>3, <3>4, <3>5
    <2>6. jobs' \in Seq(IndexJob \cup PublishJob) /\ \A i \in DOMAIN jobs' : row[jobs'[i].shout] # None
      BY <1>4, Middle
    <2>7. QED
      BY <1>1, <1>2, <1>4, <2>4, <2>5, <2>6, Works
  <1>5. QED
    BY <1>3, <1>4 DEF JobFails
-----------------------------------------------------------------------------
LEMMA InitShouts == Init => ShoutsInv
  <1>1. SUFFICES ASSUME Init PROVE ShoutsInv
    OBVIOUS
  <1>2. PICK old \in SUBSET Shout :
          /\ row = [s \in Shout |-> IF s \in old THEN [NewRow EXCEPT !.indexed = TRUE] ELSE None]
          /\ item = [s \in Shout |-> IF s \in old THEN [name |-> 0, description |-> 0] ELSE None]
          /\ doc = [s \in Shout |-> IF s \in old
                                    THEN [text |-> 0, muted |-> FALSE, name |-> 0, tags |-> {}]
                                    ELSE None]
    BY <1>1 DEF Init
  <1>3. PICK aRow, anItem, aDoc :
          /\ aRow = [NewRow EXCEPT !.indexed = TRUE]
          /\ anItem = [name |-> 0, description |-> 0]
          /\ aDoc = [text |-> 0, muted |-> FALSE, name |-> 0, tags |-> {}]
    OBVIOUS
  <1>4. 0 \in Version
    BY NotNone DEF Version
  <1>5. /\ aRow \in Row /\ aRow.text = 0 /\ aRow.muted = FALSE /\ aRow.disabled = FALSE
        /\ anItem \in Item /\ anItem.name = 0
        /\ aDoc \in Doc /\ aDoc.text = 0 /\ aDoc.muted = FALSE /\ aDoc.name = 0 /\ aDoc.tags = {}
    BY <1>3, <1>4 DEF NewRow, Row, Item, Doc
  <1>6. aRow # None /\ anItem # None /\ aDoc # None
    BY <1>5, NotNone
  <1>7. /\ row \in [Shout -> Row \cup {None}] /\ item \in [Shout -> Item \cup {None}] /\ doc \in [Shout -> Doc \cup {None}]
        /\ \A s \in Shout :
              \/ row[s] = aRow /\ item[s] = anItem /\ doc[s] = aDoc
              \/ row[s] = None /\ item[s] = None /\ doc[s] = None
    <2>1. /\ row = [s \in Shout |-> IF s \in old THEN aRow ELSE None]
          /\ item = [s \in Shout |-> IF s \in old THEN anItem ELSE None]
          /\ doc = [s \in Shout |-> IF s \in old THEN aDoc ELSE None]
      BY <1>2, <1>3
    <2>2. QED
      BY <1>5, <2>1
  <1>8. /\ active = TRUE /\ tags = [s \in Shout |-> {}] /\ jobs = << >> /\ worker = None
        /\ req = [r \in Request |-> NotMade] /\ late = {} /\ lost = {}
    BY <1>1 DEF Init
  <1>9. TypeOK
    <2>1. jobs \in Seq(IndexJob \cup PublishJob) /\ tags \in [Shout -> SUBSET Request]
          /\ req \in [Request -> Call \cup Ended \cup {NotMade}]
      BY <1>8
    <2>2. \A s \in Shout : row[s] # None => item[s] # None
      BY <1>6, <1>7
    <2>3. QED
      BY <1>7, <1>8, <2>1, <2>2 DEF TypeOK
  <1>10. \A r \in Request : req[r].phase = "not_made"
    BY <1>8 DEF NotMade
  <1>11. DOMAIN jobs = {}
    BY <1>8
  <1>12. MadeInv
    <2>1. \A r \in Request : ReqOK(req[r])
      BY <1>10 DEF ReqOK, Having
    <2>2. \A s \in Shout : row[s] = None => doc[s] = None
      BY <1>6, <1>7
    <2>3. QED
      BY <1>8, <1>10, <1>11, <2>1, <2>2 DEF MadeInv
  <1>13. ASSUME NEW s \in Shout
         PROVE  XInv(s)
    <2>1. ~ Holds(jobs, s) /\ ~ Indexing(s)
      BY <1>8, <1>11 DEF Holds, Indexing
    <2>2. tags[s] = {}
      BY <1>8
    <2>3. ItemKept(s)
      BY <1>5, <1>6, <1>7, <2>1, <2>2 DEF ItemKept
    <2>4. DocFresh(s)
      BY <1>5, <1>6, <1>7 DEF DocFresh
    <2>5. QED
      BY <2>1, <2>3, <2>4 DEF XInv, RowKept
  <1>14. MuteInv
    <2>1. InFlight = {}
      BY <1>10 DEF InFlight
    <2>2. \A r \in Request : req[r].phase # "list" /\ ~ Listed(req[r])
      BY <1>10 DEF Listed
    <2>3. QED
      BY <2>1, <2>2, FS_EmptySet, NotNone DEF MuteInv
  <1>15. QED
    BY <1>9, <1>12, <1>13, <1>14 DEF ShoutsInv, TInv

LEMMA StepShouts == ShoutsInv /\ [Next]_vars => ShoutsInv'
  <1>1. SUFFICES ASSUME ShoutsInv, [Next]_vars PROVE ShoutsInv'
    OBVIOUS
  <1>2. ASSUME NEW r \in Request, Handle(r)
        PROVE  ShoutsInv'
    <2>1. CASE \E op \in ClientOp : Authenticate(r, op)
      BY <1>1, <2>1, AuthenticateInv
    <2>2. CASE \E s \in Shout : CreateItem(r, s) \/ GetShout(r, s) \/ MuteShout(r, s)
      BY <1>1, <2>2, CreateItemInv, GetShoutInv, MuteShoutInv
    <2>3. CASE InsertShout(r) \/ AddTags(r) \/ EditItem(r) \/ ClearTags(r) \/ SaveShout(r)
      BY <1>1, <2>3, InsertShoutInv, AddTagsInv, EditItemInv, ClearTagsInv, SaveShoutInv
    <2>4. CASE Deactivate(r) \/ ListShouts(r) \/ FinishMuting(r)
      BY <1>1, <2>4, DeactivateInv, ListShoutsInv, FinishMutingInv
    <2>5. CASE GetCopy(r) \/ SaveShoutIndex(r) \/ EnqueuePublish(r)
      BY <1>1, <2>5, GetCopyInv, SaveShoutIndexInv, EnqueuePublishInv
    <2>6. QED
      BY <1>2, <2>1, <2>2, <2>3, <2>4, <2>5 DEF Handle
  <1>3. CASE DefaultWorker
    <2>1. CASE TakeIndexJob \/ ReadTags \/ SaveDoc \/ MarkIndexed
      BY <1>1, <2>1, TakeIndexJobInv, ReadTagsInv, SaveDocInv, MarkIndexedInv
    <2>2. CASE TakePublishJob \/ SavePublished \/ PublishedCopy \/ PublishedIndex
      BY <1>1, <2>2, TakePublishJobInv, SavePublishedInv, PublishedCopyInv, PublishedIndexInv
    <2>3. CASE JobFails
      BY <1>1, <2>3, JobFailsInv
    <2>4. QED
      BY <1>3, <2>1, <2>2, <2>3 DEF DefaultWorker
  <1>4. ASSUME NEW r \in Request, Abort(r)
        PROVE  ShoutsInv'
    BY <1>1, <1>4, AbortInv
  <1>5. CASE UNCHANGED vars
    <2>1. UNCHANGED <<active, item, tags, req>> /\ UNCHANGED <<row, doc, jobs, worker, late, lost>>
      BY <1>5 DEF vars, database, queue, history
    <2>2. TypeOK /\ MadeInv
      BY <1>1 DEF ShoutsInv, TInv
    <2>3. ASSUME NEW s \in Shout
          PROVE  XInv(s)' /\ SameRow(s)
      <3>1. XInv(s) /\ SameRow(s)
        BY <1>1, <2>1 DEF ShoutsInv, SameRow
      <3>2. (Holds(jobs, s)' <=> Holds(jobs, s)) /\ (QueueFresh(s) => QueueFresh(s)')
        BY <2>1, <3>1, QueueStays
      <3>3. Indexing(s)' <=> Indexing(s)
        BY <2>1 DEF Indexing
      <3>4. QED
        BY <2>1, <3>1, <3>2, <3>3, XWorks
    <2>4. /\ row' \in [Shout -> Row \cup {None}] /\ doc' \in [Shout -> Doc \cup {None}]
          /\ jobs' \in Seq(IndexJob \cup PublishJob) /\ late' \subseteq Shout /\ lost' \subseteq Shout
          /\ \A i \in DOMAIN jobs' : row[jobs'[i].shout] # None
          /\ \A s \in Shout : row[s] = None => doc'[s] = None
          /\ worker' = None \/ /\ worker' \in InHand /\ row[worker'.job.shout] # None
                               /\ worker'.phase = "enqueue" => worker'.copy \in Copy
      BY <2>1, <2>2 DEF TypeOK, MadeInv
    <2>5. QED
      BY <1>1, <2>1, <2>3, <2>4, Works
  <1>6. QED
    BY <1>1, <1>2, <1>3, <1>4, <1>5 DEF Next
-----------------------------------------------------------------------------
\* What is known of a shout about which nothing is under way.
LEMMA QuietShout ==
    ASSUME ShoutsInv, NEW s \in Shout, Quiet(s), s \notin lost
    PROVE  /\ doc[s] # None => doc[s].name = item[s].name /\ doc[s].tags = tags[s]
           /\ s \notin late => DocFresh(s)
  <1>1. ~ Holds(jobs, s) /\ ~ Indexing(s) /\ ~ Changing(s)
    BY DEF Quiet, Indexing, Changing
  <1>2. XInv(s)
    BY DEF ShoutsInv
  <1>3. QED
    BY <1>1, <1>2 DEF XInv, ItemKept, RowKept

\* Rows, items, documents, jobs and requests are what the code makes of them, and a
\* shout refers to its item, whatever the shouts, requests and workers.
THEOREM ShoutsTypeOK == Spec => []TypeOK
  <1>1. ShoutsInv => TypeOK
    BY DEF ShoutsInv, TInv
  <1>2. QED
    BY InitShouts, StepShouts, <1>1, PTL DEF Spec

\* Once its jobs are done a shout has the document of its row, or none if it is
\* disabled, unless a change was lost or its last copy had been overtaken.
THEOREM ShoutsRowIndexed == Spec => []RowIndexed
  <1>1. ShoutsInv => RowIndexed
    BY QuietShout DEF RowIndexed, DocFresh
  <1>2. QED
    BY InitShouts, StepShouts, <1>1, PTL DEF Spec

\* Once its jobs are done the document shows the item and the tags as they are, even
\* if its copy of the row had been overtaken.
THEOREM ShoutsItemIndexed == Spec => []ItemIndexed
  <1>1. ShoutsInv => ItemIndexed
    BY QuietShout DEF ItemIndexed
  <1>2. QED
    BY InitShouts, StepShouts, <1>1, PTL DEF Spec

\* A deactivation that came to its end leaves fewer shouts unmuted than there are
\* workers: none if there is one.
THEOREM ShoutsUnmutedBounded == Spec => []UnmutedBounded
  <1>1. ShoutsInv => UnmutedBounded
    <2>1. SUFFICES ASSUME ShoutsInv, NEW r \in Request, req[r] = [phase |-> "done", op |-> "deactivate"]
                   PROVE  Cardinality({s \in Shout : row[s] # None /\ ~ row[s].muted}) < Workers
      BY DEF UnmutedBounded
    <2>2. Listed(req[r]) /\ Todo(req[r]) = {}
      BY <2>1 DEF Listed, Todo
    <2>3. IsFiniteSet(Left(r)) /\ Cardinality(Left(r)) + Cardinality(Writers) < Workers
      BY <2>1, <2>2 DEF ShoutsInv, MuteInv
    <2>4. Left(r) = Unmuted
      BY <2>2 DEF Left
    <2>5. IsFiniteSet(Writers)
      BY FiniteRequests, FS_Subset DEF Writers
    <2>6. Cardinality(Left(r)) \in Nat /\ Cardinality(Writers) \in Nat
      BY <2>3, <2>5, FS_CardinalityType
    <2>7. Cardinality(Unmuted) < Workers
      BY <2>3, <2>4, <2>6, NotNone
    <2>8. QED
      BY <2>7 DEF Unmuted
  <1>2. QED
    BY InitShouts, StepShouts, <1>1, PTL DEF Spec
=============================================================================
