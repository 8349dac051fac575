--------------------------- MODULE ShoutIndexing ---------------------------
(***************************************************************************)
(* The shouts of one owner: their rows, items and tags in the database,    *)
(* their documents in the search index, and the queue of jobs between the  *)
(* two.                                                                    *)
(*                                                                         *)
(* A job of _save_shout_index carries a pickled copy of the row, and reads *)
(* the item and the tags when it runs.  Requests run at once and each ORM  *)
(* statement commits by itself; the default queue has one rqworker.        *)
(*                                                                         *)
(* What a request writes is told apart by the request's number, and 0 is   *)
(* what was there before.  `text` stands for all the columns of the row    *)
(* that the document shows and an edit sets, `name` for those of the item. *)
(***************************************************************************)
EXTENDS Naturals, Sequences, FiniteSets

CONSTANTS
    Shout,      \* the shouts there are or will be
    Requests,   \* how many API requests the owner makes
    ClientOp,   \* the operations they call
    Edits,      \* the sets of attributes that an edit may name
    Linked,     \* whether shouts can be published on the owner's Facebook account
    Workers,    \* how many requests are handled at a time
    None        \* no row, no item, no document, no job in hand

Op == {"create", "edit", "delete", "deactivate"}

ASSUME ShoutIndexingAssumption ==
    /\ ClientOp \subseteq Op
    /\ Edits \subseteq SUBSET {"title", "text", "filters"}
    /\ Linked \in BOOLEAN
    /\ Requests \in Nat
    /\ Workers \in Nat \ {0}

VARIABLES
    active,     \* User.is_active of the owner
    row,        \* the row of each shout
    item,       \* the row of its item
    tags,       \* the requests that added the rows of Shout.tags
    doc,        \* its document in the index
    jobs,       \* the default queue
    worker,     \* the job its worker is in the middle of
    req,        \* the state of each request
    late,       \* history: shouts whose last copy on the queue was not their row
    lost        \* history: shouts with a change that no job was left to index

database == <<active, row, item, tags>>

queue == <<jobs, worker>>

history == <<late, lost>>

vars == <<database, doc, queue, req, history>>

\* Requests are numbered in the order in which they arrive.
Request == 1..Requests

Version == 0..Requests

Row == [text: Version, muted: BOOLEAN, disabled: BOOLEAN, indexed: BOOLEAN, published: BOOLEAN]

Item == [name: Version, description: Version]

\* What _save_shout_index reads of the row it was given.
Copy == [text: Version, muted: BOOLEAN, disabled: BOOLEAN]

CopyOf(shout) == [text |-> shout.text, muted |-> shout.muted, disabled |-> shout.disabled]

Doc == [text: Version, muted: BOOLEAN, name: Version, tags: SUBSET Request]

IndexJob == [kind: {"index"}, shout: Shout, copy: Copy, created: BOOLEAN]

\* reindex: the pickled shout lacks the mark that create_shout leaves on it, so that
\* saving it enqueues an index job.
PublishJob == [kind: {"publish"}, shout: Shout, reindex: BOOLEAN]

\* An index job with what was read for it, or a publish job with the copy to enqueue.
InHand ==
    [phase: {"tags", "save", "mark"}, job: IndexJob, name: Version, tags: SUBSET Request]
        \cup [phase: {"save", "copy", "enqueue"}, job: PublishJob, copy: Copy \cup {None}]

NotMade == [phase |-> "not_made"]

Ended == [phase: {"done", "aborted"}, op: Op]

\* changes: the attributes given; row, item: the objects that were read; copy: the
\* copy to enqueue; todo: the shouts that mute_shouts has yet to come to.
Call == [phase: {"authenticated", "insert", "item", "clear", "tags", "save", "list", "mute",
                 "copy", "enqueue", "publish"},
         op: Op, shout: Shout \cup {None}, changes: SUBSET {"title", "text", "filters"},
         publish: BOOLEAN, row: Row \cup {None}, item: Item \cup {None},
         copy: Copy \cup {None}, todo: SUBSET Shout]

\* None is none of what may be there instead.
ASSUME NoneAssumption == None \notin Row \cup Item \cup Copy \cup Doc \cup InHand

\* A shout refers to its item.
TypeOK ==
    /\ active \in BOOLEAN
    /\ row \in [Shout -> Row \cup {None}]
    /\ item \in [Shout -> Item \cup {None}]
    /\ \A s \in Shout : row[s] # None => item[s] # None
    /\ tags \in [Shout -> SUBSET Request]
    /\ doc \in [Shout -> Doc \cup {None}]
    /\ jobs \in Seq(IndexJob \cup PublishJob)
    /\ worker \in InHand \cup {None}
    /\ req \in [Request -> Call \cup Ended \cup {NotMade}]
    /\ late \subseteq Shout /\ lost \subseteq Shout
-----------------------------------------------------------------------------
At(r, phase) == req[r].phase = phase

InFlight == {r \in Request : req[r].phase \notin {"not_made", "done", "aborted"}}

Goto(r, phase) == req' = [req EXCEPT ![r].phase = phase]

End(r, how) == req' = [req EXCEPT ![r] = [phase |-> how, op |-> req[r].op]]

NewRow == [text |-> 0, muted |-> FALSE, disabled |-> FALSE, indexed |-> FALSE, published |-> FALSE]

\* Some shouts exist and are in the index.
Init ==
    /\ active = TRUE
    /\ \E old \in SUBSET Shout :
          /\ row = [s \in Shout |-> IF s \in old THEN [NewRow EXCEPT !.indexed = TRUE] ELSE None]
          /\ item = [s \in Shout |-> IF s \in old THEN [name |-> 0, description |-> 0] ELSE None]
          /\ doc = [s \in Shout |-> IF s \in old
                                    THEN [text |-> 0, muted |-> FALSE, name |-> 0, tags |-> {}]
                                    ELSE None]
    /\ tags = [s \in Shout |-> {}]
    /\ jobs = << >> /\ worker = None
    /\ req = [r \in Request |-> NotMade]
    /\ late = {} /\ lost = {}

\* Only an active user is authenticated.
Authenticate(r, op) ==
    /\ req[r] = NotMade
    /\ r > 1 => req[r - 1] # NotMade
    /\ Cardinality(InFlight) < Workers
    /\ active
    /\ req' = [req EXCEPT ![r] = [phase |-> "authenticated", op |-> op, shout |-> None,
                                  changes |-> {}, publish |-> FALSE, row |-> None,
                                  item |-> None, copy |-> None, todo |-> {}]]
    /\ UNCHANGED <<database, doc, queue, history>>
-----------------------------------------------------------------------------
\* create_item, for a shout that has no row yet.
CreateItem(r, s) ==
    /\ At(r, "authenticated") /\ req[r].op = "create"
    /\ item[s] = None
    /\ item' = [item EXCEPT ![s] = [name |-> r, description |-> r]]
    /\ \E given \in SUBSET {"filters"}, publish \in BOOLEAN :
          req' = [req EXCEPT ![r].phase = "insert", ![r].shout = s, ![r].changes = given,
                             ![r].publish = publish]
    /\ UNCHANGED <<active, row, tags, doc, queue, history>>

\* The tags are added if the request has filters; then the shout is indexed.
AfterInsert(r) == IF "filters" \in req[r].changes THEN "tags" ELSE "copy"

\* Mutant: the item is deleted whatever the insert came to.
InsertShout_DeleteItem(r) ==
    LET s == req[r].shout
    IN  /\ At(r, "insert")
        /\ item' = [item EXCEPT ![s] = None]
        /\ \/ /\ row' = [row EXCEPT ![s] = [NewRow EXCEPT !.text = r]]
              /\ Goto(r, IF req[r].publish THEN "publish" ELSE AfterInsert(r))
           \/ End(r, "done") /\ UNCHANGED row
        /\ UNCHANGED <<active, tags, doc, queue, history>>

\* shout.save with save_shout_index unset.  When it is refused the item is deleted.
InsertShout(r) ==
    LET s == req[r].shout
    IN  /\ At(r, "insert")
        /\ \/ /\ row' = [row EXCEPT ![s] = [NewRow EXCEPT !.text = r]]
              /\ Goto(r, IF req[r].publish THEN "publish" ELSE AfterInsert(r))
              /\ UNCHANGED item
           \/ /\ item' = [item EXCEPT ![s] = None]
              /\ End(r, "done")
              /\ UNCHANGED row
        /\ UNCHANGED <<active, tags, doc, queue, history>>

\* shout.tags.add, from the filters of the request.
AddTags(r) ==
    /\ At(r, "tags")
    /\ tags' = [tags EXCEPT ![req[r].shout] = @ \cup {r}]
    /\ Goto(r, IF req[r].op = "create" THEN "copy" ELSE "save")
    /\ UNCHANGED <<active, row, item, doc, queue, history>>
-----------------------------------------------------------------------------
\* get_object finds a shout that is neither disabled nor muted, and its item.
GetShout(r, s) ==
    /\ At(r, "authenticated") /\ req[r].op \in {"edit", "delete"}
    /\ row[s] # None
    /\ ~ row[s].disabled /\ ~ row[s].muted
    /\ IF req[r].op = "delete"
       THEN req' = [req EXCEPT ![r].phase = "save", ![r].shout = s, ![r].row = row[s]]
       ELSE \E changes \in Edits, publish \in BOOLEAN :
               req' = [req EXCEPT ![r].phase = "item", ![r].shout = s, ![r].changes = changes,
                                  ![r].publish = publish, ![r].row = row[s], ![r].item = item[s]]
    /\ UNCHANGED <<database, doc, queue, history>>

\* edit_item writes all columns of the item; what the request does not give is as it
\* was read, and the text goes into the description too.
EditItem(r) ==
    LET c == req[r]
    IN  /\ At(r, "item")
        /\ item' = [item EXCEPT ![c.shout] =
                       [name        |-> IF "title" \in c.changes THEN r ELSE c.item.name,
                        description |-> IF "text" \in c.changes THEN r ELSE c.item.description]]
        /\ Goto(r, IF "filters" \in c.changes THEN "clear" ELSE "save")
        /\ UNCHANGED <<active, row, tags, doc, queue, history>>

\* shout.tags.clear.
ClearTags(r) ==
    /\ At(r, "clear")
    /\ tags' = [tags EXCEPT ![req[r].shout] = {}]
    /\ Goto(r, "tags")
    /\ UNCHANGED <<active, row, item, doc, queue, history>>

\* edit_shout and delete_post save all columns of the row they read.  A text that is
\* not given comes from the description that was read.
SaveShout(r) ==
    LET c == req[r]
    IN  /\ At(r, "save")
        /\ row' = [row EXCEPT ![c.shout] =
                     IF c.op = "delete" THEN [c.row EXCEPT !.disabled = TRUE]
                     ELSE [c.row EXCEPT !.text = IF "text" \in c.changes THEN r
                                                 ELSE c.item.description]]
        /\ Goto(r, "copy")
        /\ UNCHANGED <<active, item, tags, doc, queue, history>>
-----------------------------------------------------------------------------
\* user.update(is_active=False) ...
Deactivate(r) ==
    /\ At(r, "authenticated") /\ req[r].op = "deactivate"
    /\ active' = FALSE
    /\ Goto(r, "list")
    /\ UNCHANGED <<row, item, tags, doc, queue, history>>

\* ... whose post_save runs mute_shouts: all shouts of the user are read at once ...
ListShouts(r) ==
    /\ At(r, "list")
    /\ req' = [req EXCEPT ![r].phase = "mute", ![r].todo = {s \in Shout : row[s] # None}]
    /\ UNCHANGED <<database, doc, queue, history>>

\* Mutant: the loop ends with its first shout.
MuteShout_First(r, s) ==
    /\ At(r, "mute") /\ s \in req[r].todo
    /\ row' = [row EXCEPT ![s].muted = TRUE]
    /\ req' = [req EXCEPT ![r].phase = "copy", ![r].shout = s, ![r].todo = {}]
    /\ UNCHANGED <<active, item, tags, doc, queue, history>>

\* ... and muted one by one, is_muted being the only column written.
MuteShout(r, s) ==
    /\ At(r, "mute") /\ s \in req[r].todo
    /\ row' = [row EXCEPT ![s].muted = TRUE]
    /\ req' = [req EXCEPT ![r].phase = "copy", ![r].shout = s, ![r].todo = @ \ {s}]
    /\ UNCHANGED <<active, item, tags, doc, queue, history>>

FinishMuting(r) ==
    /\ At(r, "mute") /\ req[r].todo = {}
    /\ End(r, "done")
    /\ UNCHANGED <<database, doc, queue, history>>
-----------------------------------------------------------------------------
\* save_shout_index reads the row again ...
GetCopy(r) ==
    /\ At(r, "copy")
    /\ req' = [req EXCEPT ![r].phase = "enqueue", ![r].copy = CopyOf(row[req[r].shout])]
    /\ UNCHANGED <<database, doc, queue, history>>

\* What the document will be taken from is the row, unless that has changed since, or
\* the shout, being new, is indexed although it is disabled.
EnqueueIndex(s, copy, created) ==
    /\ jobs' = Append(jobs, [kind |-> "index", shout |-> s, copy |-> copy, created |-> created])
    /\ lost' = lost \ {s}
    /\ late' = IF copy = CopyOf(row[s]) /\ ~ (created /\ copy.disabled)
               THEN late \ {s} ELSE late \cup {s}

\* ... and enqueues the job.
SaveShoutIndex(r) ==
    LET c == req[r]
    IN  /\ At(r, "enqueue")
        /\ EnqueueIndex(c.shout, c.copy, c.op = "create")
        /\ CASE c.op = "deactivate" -> Goto(r, "mute")
             [] c.op = "edit" /\ c.publish /\ ~ c.row.published -> Goto(r, "publish")
             [] OTHER -> End(r, "done")
        /\ UNCHANGED <<database, doc, worker>>

\* shout_post_save enqueues the shout as it was saved.  create_shout has yet to add the
\* tags then.
EnqueuePublish(r) ==
    /\ At(r, "publish")
    /\ jobs' = Append(jobs, [kind |-> "publish", shout |-> req[r].shout,
                             reindex |-> req[r].op = "edit"])
    /\ IF req[r].op = "create" THEN Goto(r, AfterInsert(r)) ELSE End(r, "done")
    /\ UNCHANGED <<database, doc, worker, history>>

\* Request r has changed s and has yet to enqueue the job for it.
Unindexed(r, s) ==
    /\ r \in InFlight /\ req[r].shout = s
    /\ \/ req[r].phase \in {"clear", "tags", "copy", "enqueue"}
       \/ req[r].phase = "save" /\ req[r].op = "edit"
       \/ req[r].phase = "publish" /\ req[r].op = "create"

\* A request dies at gunicorn's timeout or of an exception.
Abort(r) ==
    /\ r \in InFlight
    /\ lost' = lost \cup {s \in Shout : Unindexed(r, s)}
    /\ End(r, "aborted")
    /\ UNCHANGED <<database, doc, queue, late>>
-----------------------------------------------------------------------------
IsNext(kind) == worker = None /\ jobs # << >> /\ Head(jobs).kind = kind

\* Mutant: a disabled shout is indexed like any other.
TakeIndexJob_Disabled ==
    LET job == Head(jobs)
    IN  /\ IsNext("index")
        /\ jobs' = Tail(jobs)
        /\ worker' = [phase |-> "tags", job |-> job, name |-> item[job.shout].name, tags |-> {}]
        /\ UNCHANGED <<database, doc, req, history>>

\* _save_shout_index takes the document of a disabled shout out of the index, unless
\* the shout is new.  For any other it reads the item ...
TakeIndexJob ==
    LET job == Head(jobs)
    IN  /\ IsNext("index")
        /\ jobs' = Tail(jobs)
        /\ IF job.copy.disabled /\ ~ job.created
           THEN doc' = [doc EXCEPT ![job.shout] = None] /\ UNCHANGED worker
           ELSE /\ worker' = [phase |-> "tags", job |-> job, name |-> item[job.shout].name,
                              tags |-> {}]
                /\ UNCHANGED doc
        /\ UNCHANGED <<database, req, history>>

Working(kind, phase) == worker # None /\ worker.job.kind = kind /\ worker.phase = phase

\* ... and the tags, ...
ReadTags ==
    /\ Working("index", "tags")
    /\ worker' = [worker EXCEPT !.phase = "save", !.tags = tags[worker.job.shout]]
    /\ UNCHANGED <<database, doc, jobs, req, history>>

\* Mutant: the tags of a document that exists are left as they are.
SaveDoc_OldTags ==
    LET s == worker.job.shout
    IN  /\ Working("index", "save")
        /\ doc' = [doc EXCEPT ![s] =
              [text |-> worker.job.copy.text, muted |-> worker.job.copy.muted,
               name |-> worker.name, tags |-> IF doc[s] = None THEN worker.tags ELSE doc[s].tags]]
        /\ worker' = [worker EXCEPT !.phase = "mark"]
        /\ UNCHANGED <<database, jobs, req, history>>

\* ... saves the document, and ...
SaveDoc ==
    /\ Working("index", "save")
    /\ doc' = [doc EXCEPT ![worker.job.shout] =
          [text |-> worker.job.copy.text, muted |-> worker.job.copy.muted,
           name |-> worker.name, tags |-> worker.tags]]
    /\ worker' = [worker EXCEPT !.phase = "mark"]
    /\ UNCHANGED <<database, jobs, req, history>>

\* ... sets is_indexed, that column only, without another job.
MarkIndexed ==
    /\ Working("index", "mark")
    /\ row' = [row EXCEPT ![worker.job.shout].indexed = TRUE]
    /\ worker' = None
    /\ UNCHANGED <<active, item, tags, doc, jobs, req, history>>

\* publish_shout_to_facebook posts the shout if the owner's account allows it and, if
\* Facebook answers with an id, ...
TakePublishJob ==
    /\ IsNext("publish")
    /\ jobs' = Tail(jobs)
    /\ \/ Linked /\ worker' = [phase |-> "save", job |-> Head(jobs), copy |-> None]
       \/ UNCHANGED worker
    /\ UNCHANGED <<database, doc, req, history>>

\* ... saves it, in published_on only.  After an edit this indexes the shout again.
SavePublished ==
    /\ Working("publish", "save")
    /\ row' = [row EXCEPT ![worker.job.shout].published = TRUE]
    /\ worker' = IF worker.job.reindex THEN [worker EXCEPT !.phase = "copy"] ELSE None
    /\ UNCHANGED <<active, item, tags, doc, jobs, req, history>>

PublishedCopy ==
    /\ Working("publish", "copy")
    /\ worker' = [worker EXCEPT !.phase = "enqueue", !.copy = CopyOf(row[worker.job.shout])]
    /\ UNCHANGED <<database, doc, jobs, req, history>>

PublishedIndex ==
    /\ Working("publish", "enqueue")
    /\ EnqueueIndex(worker.job.shout, worker.copy, FALSE)
    /\ worker' = None
    /\ UNCHANGED <<database, doc, req>>

\* The queue q holds an index job for s.
Holds(q, s) == \E i \in DOMAIN q : q[i].kind = "index" /\ q[i].shout = s

\* A job for s fails; no other is left to index what it should have.
LosesIndex(s, left) == lost' = IF Holds(left, s) THEN lost ELSE lost \cup {s}

\* A job raises an exception or its worker is killed, before it has done anything or
\* later: rq never runs it again.
JobFails ==
    /\ \/ /\ worker = None /\ jobs # << >>
          /\ jobs' = Tail(jobs)
          /\ IF Head(jobs).kind = "index" THEN LosesIndex(Head(jobs).shout, Tail(jobs)) ELSE UNCHANGED lost
          /\ UNCHANGED worker
       \/ /\ worker # None
          /\ worker' = None
          /\ UNCHANGED jobs
          /\ IF worker.job.kind = "index" /\ worker.phase # "mark"
             THEN LosesIndex(worker.job.shout, jobs) ELSE UNCHANGED lost
    /\ UNCHANGED <<database, doc, req, late>>
-----------------------------------------------------------------------------
Handle(r) ==
    \/ \E op \in ClientOp : Authenticate(r, op)
    \/ \E s \in Shout : CreateItem(r, s) \/ GetShout(r, s) \/ MuteShout(r, s)
    \/ InsertShout(r) \/ AddTags(r)
    \/ EditItem(r) \/ ClearTags(r) \/ SaveShout(r)
    \/ Deactivate(r) \/ ListShouts(r) \/ FinishMuting(r)
    \/ GetCopy(r) \/ SaveShoutIndex(r) \/ EnqueuePublish(r)

DefaultWorker ==
    \/ TakeIndexJob \/ ReadTags \/ SaveDoc \/ MarkIndexed
    \/ TakePublishJob \/ SavePublished \/ PublishedCopy \/ PublishedIndex
    \/ JobFails

Next == DefaultWorker \/ \E r \in Request : Handle(r) \/ Abort(r)

Spec == Init /\ [][Next]_vars
-----------------------------------------------------------------------------
\* All that was written of s has been indexed, or is lost.
Quiet(s) ==
    /\ ~ Holds(jobs, s)
    /\ worker # None => worker.job.kind = "publish" \/ worker.job.shout # s \/ worker.phase = "mark"
    /\ \A r \in Request : ~ Unindexed(r, s)

\* Once its jobs are done, a shout that is not disabled has the document that its row
\* makes, and a disabled shout has none, in whatever order requests and jobs came:
\* unless a change was lost, or the last copy to be enqueued had been overtaken by a
\* write between its reading and its enqueueing.
RowIndexed ==
    \A s \in Shout : Quiet(s) /\ s \notin late \cup lost =>
       IF row[s] = None \/ row[s].disabled THEN doc[s] = None
       ELSE doc[s] # None /\ doc[s].text = row[s].text /\ doc[s].muted = row[s].muted

\* Item and tags are read by the job itself, so the document shows the last ones
\* written even when its copy of the row had been overtaken.
ItemIndexed ==
    \A s \in Shout : Quiet(s) /\ s \notin lost /\ doc[s] # None =>
       doc[s].name = item[s].name /\ doc[s].tags = tags[s]

\* After a deactivation that came to its end, at most the shouts of the requests that
\* overlapped it can be unmuted, one for each other worker: none if there is one
\* worker.
UnmutedBounded ==
    (\E r \in Request : req[r] = [phase |-> "done", op |-> "deactivate"]) =>
       Cardinality({s \in Shout : row[s] # None /\ ~ row[s].muted}) < Workers
=============================================================================
