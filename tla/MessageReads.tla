---------------------------- MODULE MessageReads ----------------------------
(***************************************************************************)
(* What is read and what is announced in one conversation: its messages,   *)
(* who has read them, the notifications of the members, the queues of jobs *)
(* and the badge on each member's iOS device.                              *)
(*                                                                         *)
(* Requests run at once and each ORM statement commits by itself, so each  *)
(* action is the code between two statements, or between a statement and   *)
(* the enqueueing of a job.  The rqworker of the default queue and that of *)
(* the push queue are one process each and take their jobs in order.       *)
(*                                                                         *)
(* The lists of blocked profiles and admins are Conversation's.  The       *)
(* events sent over Pusher are left out: nothing in the database or on a   *)
(* queue modelled here depends on them.                                    *)
(***************************************************************************)
EXTENDS Naturals, Sequences, FiniteSets, SequencesExt

CONSTANTS
    User,       \* the members of the conversation when it starts
    Device,     \* those of them who have an iOS device
    Requests,   \* how many API requests are made on the conversation
    ClientOp,   \* the operations that the requests, after the first, call
    Workers,    \* how many requests are handled at a time
    Null        \* the author of a system message

Op == {"reply", "leave", "read_all", "unread", "read_one", "unread_one"}

ASSUME MessageReadsAssumption ==
    /\ Device \subseteq User
    /\ ClientOp \subseteq Op
    /\ Requests \in Nat \ {0}
    /\ Workers \in Nat
    /\ Null \notin User \cup [user: Device, badge: {0, 1}]

VARIABLES
    users,      \* the rows of Conversation.users
    author,     \* author[m] is the user of message m, in order of creation
    reads,      \* the MessageRead rows of each user, in order of created_at
    notified,   \* <<u, m>> for each Notification of message m to u
    is_read,    \* those of them whose is_read is set
    jobs,       \* the default queue: notify_user(u) of message m as <<u, m>>
    worker,     \* the user whose job the default worker is in the middle of
    failed,     \* the jobs that died before their notification was saved
    push,       \* the push queue: set_ios_badge(u) as u
    pushing,    \* the badge the push worker is about to send
    badge,      \* the badge that each user's device shows
    req,        \* the state of each request
    asked,      \* history: <<u, m>> if u asked to read m; m = 0 is all of it
    answered,   \* history: the messages there were when u was told all is read
    unmarked,   \* history: <<u, m>> if u ever marked m as unread
    enqueued,   \* history: the jobs that were ever on the default queue
    missed      \* history: users whose last change never reached the badge

database == <<users, author, reads, notified, is_read>>

queues == <<jobs, worker, failed, push, pushing, badge>>

history == <<asked, answered, unmarked, enqueued, missed>>

vars == <<database, queues, req, history>>

\* Requests are numbered in the order in which they arrive.
Request == 1..Requests

\* A MessageRead row; by tells it from another row of the same message.
Read == [message: Nat \ {0}, by: Request]

Phase == {"send", "add_sender", "notify", "query", "read_notes", "stats", "create_reads",
          "remove", "system", "last_read", "delete", "create_read", "delete_read"}

NextPhase ==
    [op \in Op |->
        CASE op = "reply"      -> "send"
          [] op = "unread"     -> "last_read"
          [] op = "read_one"   -> "create_read"
          [] op = "unread_one" -> "delete_read"
          [] OTHER             -> "query"]

NotMade == [phase |-> "not_made"]

Done == [phase |-> "done"]

\* to: whom the sender has yet to notify; unread: the queryset of mark_as_read;
\* message: the message sent, the one to read or unread, or the number of
\* messages at the query; by: the row to delete is that request's.
Call == [phase: Phase, op: Op, actor: User, message: Nat,
         to: SUBSET User, unread: SUBSET (Nat \ {0}), by: Request]

TypeOK ==
    /\ users \subseteq User
    /\ author \in Seq(User \cup {Null})
    /\ reads \in [User -> Seq(Read)]
    /\ notified \subseteq User \X Nat /\ is_read \subseteq notified
    /\ jobs \in Seq(User \X Nat) /\ failed \subseteq User \X Nat
    /\ worker \in User \cup {Null}
    /\ push \in Seq(Device)
    /\ pushing \in {Null} \cup [user: Device, badge: {0, 1}]
    /\ badge \in [Device -> {0, 1}]
    /\ req \in [Request -> Call \cup {NotMade, Done}]
    /\ asked \subseteq User \X Nat
    /\ answered \in [User -> Nat]
    /\ unmarked \cup enqueued \subseteq User \X Nat
    /\ missed \subseteq Device

-----------------------------------------------------------------------------
Messages == 1..Len(author)

InFlight == {r \in Request : req[r] \notin {NotMade, Done}}

At(r, phase) == req[r].phase = phase

Goto(r, phase) == req' = [req EXCEPT ![r].phase = phase]

Finish(r) == req' = [req EXCEPT ![r] = Done]

HasRead(u, m) == \E i \in DOMAIN reads[u] : reads[u][i].message = m

\* Conversation.unread_messages.
UnreadMessages(u) == {m \in Messages : author[m] \notin {u, Null} /\ ~ HasRead(u, m)}

\* get_unread_conversations_count: the conversations, here one, that have an
\* unread notification.
UnreadCount(u) == IF \E m \in Messages : <<u, m>> \in notified \ is_read THEN 1 ELSE 0

\* set_ios_badge is enqueued; for a user without a device it does nothing, and is
\* left out.
Badge(u) == push' = IF u \in Device THEN Append(push, u) ELSE push

NewCall(r, op, u, m) ==
    [phase |-> NextPhase[op], op |-> op, actor |-> u, message |-> m,
     to |-> {}, unread |-> {}, by |-> r]

\* The conversation has been created, its first message was sent and everybody
\* was notified of it; its author sends another one.
Init ==
    /\ users = User
    /\ \E u \in User :
          /\ author = <<u>>
          /\ notified = (User \ {u}) \X {1}
          /\ badge = [d \in Device |-> IF d = u THEN 0 ELSE 1]
          /\ req = [r \in Request |-> IF r = 1 THEN NewCall(1, "reply", u, 0) ELSE NotMade]
    /\ reads = [u \in User |-> << >>]
    /\ is_read = {}
    /\ jobs = << >> /\ worker = Null /\ failed = {}
    /\ push = << >> /\ pushing = Null
    /\ asked = {} /\ unmarked = {} /\ enqueued = {} /\ missed = {}
    /\ answered = [u \in User |-> 0]

Arrives(r) ==
    /\ req[r] = NotMade
    /\ r > 1 => req[r - 1] # NotMade
    /\ Cardinality(InFlight) < Workers

\* get_object on the conversation, with the check that the user contributes.
GetConversation(r, op, u) ==
    /\ Arrives(r)
    /\ u \in users
    /\ req' = [req EXCEPT ![r] = NewCall(r, op, u, 0)]
    /\ asked' = IF op \in {"read_all", "leave"} THEN asked \cup {<<u, 0>>} ELSE asked
    /\ UNCHANGED <<database, queues, answered, unmarked, missed, enqueued>>

\* The read endpoint of a message, which skips the user's own messages.
GetMessage(r, op, u, m) ==
    /\ Arrives(r)
    /\ u \in users
    /\ author[m] # u
    /\ req' = [req EXCEPT ![r] = NewCall(r, op, u, m)]
    /\ asked' = IF op = "read_one" THEN asked \cup {<<u, m>>} ELSE asked
    /\ UNCHANGED <<database, queues, answered, unmarked, missed, enqueued>>
-----------------------------------------------------------------------------
\* Message.save inserts the row.
SendMessage(r) ==
    /\ At(r, "send")
    /\ author' = Append(author, req[r].actor)
    /\ req' = [req EXCEPT ![r].phase = "add_sender", ![r].message = Len(author')]
    /\ UNCHANGED <<users, reads, notified, is_read, queues, history>>

\* post_save_message adds the author and reads the contributors to notify.
AddSender(r) ==
    /\ At(r, "add_sender")
    /\ users' = users \cup {req[r].actor}
    /\ req' = [req EXCEPT ![r].phase = "notify", ![r].to = users' \ {req[r].actor}]
    /\ UNCHANGED <<author, reads, notified, is_read, queues, history>>

\* Mutant: the loop does not get on after a job.
NotifyContributor_Again(r, u) ==
    /\ At(r, "notify") /\ u \in req[r].to
    /\ jobs' = Append(jobs, <<u, req[r].message>>)
    /\ enqueued' = enqueued \cup {<<u, req[r].message>>}
    /\ UNCHANGED <<database, worker, failed, push, pushing, badge, req, asked, answered,
                   unmarked, missed>>

\* One turn of the loop over the contributors.
NotifyContributor(r, u) ==
    /\ At(r, "notify") /\ u \in req[r].to
    /\ jobs' = Append(jobs, <<u, req[r].message>>)
    /\ req' = [req EXCEPT ![r].to = @ \ {u}]
    /\ enqueued' = enqueued \cup {<<u, req[r].message>>}
    /\ UNCHANGED <<database, worker, failed, push, pushing, badge, asked, answered,
                   unmarked, missed>>

FinishReply(r) ==
    /\ At(r, "notify") /\ req[r].to = {}
    /\ Finish(r)
    /\ UNCHANGED <<database, queues, history>>
-----------------------------------------------------------------------------
\* Conversation.mark_as_read returns; mark_as_deleted goes on from there.
ReadReturns(r, last) ==
    /\ IF req[r].op = "leave" THEN Goto(r, "remove") ELSE Finish(r)
    /\ answered' = [answered EXCEPT ![req[r].actor] = IF last > @ THEN last ELSE @]

\* Conversation.mark_as_read evaluates its queryset once.  When it is empty the
\* method returns at once.
QueryUnread(r) ==
    LET unread == UnreadMessages(req[r].actor)
    IN  /\ At(r, "query")
        /\ IF unread = {}
           THEN ReadReturns(r, Len(author))
           ELSE /\ req' = [req EXCEPT ![r].phase = "read_notes", ![r].unread = unread,
                                      ![r].message = Len(author)]
                /\ UNCHANGED answered
        /\ UNCHANGED <<database, queues, asked, unmarked, missed, enqueued>>

\* Mutant: the filter on to_user is gone.
ReadNotifications_OfAll(r) ==
    /\ At(r, "read_notes")
    /\ is_read' = is_read \cup
         {n \in notified : req[r].op = "read_one" => n[2] = req[r].message}
    /\ Goto(r, "stats")
    /\ UNCHANGED <<users, author, reads, notified, queues, history>>

\* Mutant: a notification is taken to exist for every message that was unread.
ReadNotifications_OfMessages(r) ==
    /\ At(r, "read_notes")
    /\ is_read' = is_read \cup
         ({req[r].actor} \X (IF req[r].op = "read_one" THEN {req[r].message} ELSE req[r].unread))
    /\ Goto(r, "stats")
    /\ UNCHANGED <<users, author, reads, notified, queues, history>>

\* The notifications of the conversation, or of the one message read, that exist
\* by now are marked as read.
ReadNotifications(r) ==
    /\ At(r, "read_notes")
    /\ is_read' = is_read \cup
         {n \in notified : /\ n[1] = req[r].actor
                           /\ req[r].op = "read_one" => n[2] = req[r].message}
    /\ Goto(r, "stats")
    /\ UNCHANGED <<users, author, reads, notified, queues, history>>

\* trigger_stats_update enqueues set_ios_badge.
TriggerStatsUpdate(r) ==
    /\ At(r, "stats")
    /\ Badge(req[r].actor)
    /\ IF req[r].op = "read_one" THEN Finish(r) ELSE Goto(r, "create_reads")
    /\ UNCHANGED <<database, jobs, worker, failed, pushing, badge, history>>

\* One row for each unread message, in the order the database returned them.
InsertReads(r) ==
    \E order \in SetToSeqs(req[r].unread) :
       reads' = [reads EXCEPT ![req[r].actor] =
                    @ \o [i \in DOMAIN order |-> [message |-> order[i], by |-> r]]]

\* Mutant: what violates the constraint is passed over, as mark_as_deleted does.
CreateReads_PassOver(r) ==
    LET u == req[r].actor
    IN  /\ At(r, "create_reads")
        /\ IF \E m \in req[r].unread : HasRead(u, m)
           THEN UNCHANGED reads
           ELSE InsertReads(r)
        /\ ReadReturns(r, req[r].message)
        /\ UNCHANGED <<users, author, notified, is_read, queues, asked, unmarked, missed, enqueued>>

\* bulk_create violates the unique constraint when one of the messages was read
\* in the meantime: no row is created and the request ends with an error.
CreateReads(r) ==
    LET u == req[r].actor
    IN  /\ At(r, "create_reads")
        /\ IF \E m \in req[r].unread : HasRead(u, m)
           THEN UNCHANGED <<reads, answered>> /\ Finish(r)
           ELSE InsertReads(r) /\ ReadReturns(r, req[r].message)
        /\ UNCHANGED <<users, author, notified, is_read, queues, asked, unmarked, missed, enqueued>>

\* The rest of mark_as_deleted.
RemoveUser(r) ==
    /\ At(r, "remove")
    /\ users' = users \ {req[r].actor}
    /\ Goto(r, "system")
    /\ UNCHANGED <<author, reads, notified, is_read, queues, history>>

SystemMessage(r) ==
    /\ At(r, "system")
    /\ author' = Append(author, Null)
    /\ Finish(r)
    /\ UNCHANGED <<users, reads, notified, is_read, queues, history>>
-----------------------------------------------------------------------------
\* Conversation.mark_as_unread looks for the newest row of the user ...
LastRead(r) ==
    LET rows == reads[req[r].actor]
    IN  /\ At(r, "last_read")
        /\ IF rows = << >>
           THEN Finish(r)
           ELSE req' = [req EXCEPT ![r].phase = "delete", ![r].message = Last(rows).message,
                                   ![r].by = Last(rows).by]
        /\ UNCHANGED <<database, queues, history>>

\* The rows of u at the positions in matching are deleted: the unique constraint
\* on user and message leaves at most one.
DeleteRow(u, matching) ==
    reads' = [reads EXCEPT ![u] =
                 IF matching = {} THEN @ ELSE RemoveAt(@, CHOOSE i \in matching : TRUE)]

\* ... and deletes it.  The notification stays as it is.
DeleteLastRead(r) ==
    LET u   == req[r].actor
        row == [message |-> req[r].message, by |-> req[r].by]
    IN  /\ At(r, "delete")
        /\ DeleteRow(u, {i \in DOMAIN reads[u] : reads[u][i] = row})
        /\ unmarked' = unmarked \cup {<<u, row.message>>}
        /\ Finish(r)
        /\ UNCHANGED <<users, author, notified, is_read, queues, asked, answered, missed, enqueued>>

\* Message.mark_as_read: the insert is refused if the row exists.
CreateRead(r) ==
    LET u == req[r].actor
        m == req[r].message
    IN  /\ At(r, "create_read")
        /\ IF HasRead(u, m)
           THEN UNCHANGED reads /\ Finish(r)
           ELSE /\ reads' = [reads EXCEPT ![u] = Append(@, [message |-> m, by |-> r])]
                /\ Goto(r, "read_notes")
        /\ UNCHANGED <<users, author, notified, is_read, queues, history>>

\* Message.mark_as_unread.
DeleteRead(r) ==
    LET u == req[r].actor
        m == req[r].message
    IN  /\ At(r, "delete_read")
        /\ DeleteRow(u, {i \in DOMAIN reads[u] : reads[u][i].message = m})
        /\ unmarked' = unmarked \cup {<<u, m>>}
        /\ Finish(r)
        /\ UNCHANGED <<users, author, notified, is_read, queues, asked, answered, missed, enqueued>>

\* A request dies at gunicorn's timeout or of an exception.
Abort(r) ==
    /\ r \in InFlight
    /\ Finish(r)
    /\ missed' = IF At(r, "stats") THEN missed \cup ({req[r].actor} \cap Device) ELSE missed
    /\ UNCHANGED <<database, queues, asked, answered, unmarked, enqueued>>
-----------------------------------------------------------------------------
\* Mutant: a user who has an unread notification gets no other.
NotifyUser_OneUnread ==
    LET u == Head(jobs)[1]
    IN  /\ worker = Null /\ jobs # << >>
        /\ jobs' = Tail(jobs)
        /\ notified' = IF UnreadCount(u) = 1 THEN notified ELSE notified \cup {Head(jobs)}
        /\ worker' = u
        /\ UNCHANGED <<users, author, reads, is_read, failed, push, pushing, badge, req,
                       history>>

\* notify_user saves the notification, unread, ...
NotifyUser ==
    /\ worker = Null /\ jobs # << >>
    /\ jobs' = Tail(jobs)
    /\ notified' = notified \cup {Head(jobs)}
    /\ worker' = Head(jobs)[1]
    /\ UNCHANGED <<users, author, reads, is_read, failed, push, pushing, badge, req,
                   history>>

\* Mutant: no stats update follows the notification.
WorkerStatsUpdate_None ==
    /\ worker # Null
    /\ worker' = Null
    /\ UNCHANGED <<database, jobs, failed, push, pushing, badge, req, history>>

\* ... and triggers the stats update.
WorkerStatsUpdate ==
    /\ worker # Null
    /\ Badge(worker)
    /\ worker' = Null
    /\ UNCHANGED <<database, jobs, failed, pushing, badge, req, history>>

\* A job raises an exception or its worker is killed: rq moves the job to its
\* failed queue and never runs it again.
NotifyUserFails ==
    /\ \/ /\ worker = Null /\ jobs # << >>
          /\ jobs' = Tail(jobs) /\ failed' = failed \cup {Head(jobs)}
          /\ UNCHANGED <<worker, missed>>
       \/ /\ worker # Null
          /\ worker' = Null /\ missed' = missed \cup ({worker} \cap Device)
          /\ UNCHANGED <<jobs, failed>>
    /\ UNCHANGED <<database, push, pushing, badge, req, asked, answered, unmarked, enqueued>>

\* set_ios_badge counts ...
CountUnread ==
    /\ pushing = Null /\ push # << >>
    /\ push' = Tail(push)
    /\ pushing' = [user |-> Head(push), badge |-> UnreadCount(Head(push))]
    /\ missed' = missed \ {Head(push)}
    /\ UNCHANGED <<database, jobs, worker, failed, badge, req, asked, answered, unmarked, enqueued>>

\* ... and sends the count to the device; an APNSError is logged, no more.
SendBadge ==
    /\ pushing # Null
    /\ pushing' = Null
    /\ \/ badge' = [badge EXCEPT ![pushing.user] = pushing.badge] /\ UNCHANGED missed
       \/ missed' = missed \cup {pushing.user} /\ UNCHANGED badge
    /\ UNCHANGED <<database, jobs, worker, failed, push, req, asked, answered, unmarked, enqueued>>
-----------------------------------------------------------------------------
Start(r) ==
    \E u \in User :
       \/ \E op \in ClientOp \ {"read_one", "unread_one"} : GetConversation(r, op, u)
       \/ \E op \in ClientOp \cap {"read_one", "unread_one"}, m \in Messages : GetMessage(r, op, u, m)

Handle(r) ==
    \/ SendMessage(r) \/ AddSender(r) \/ FinishReply(r)
    \/ \E u \in User : NotifyContributor(r, u)
    \/ QueryUnread(r) \/ ReadNotifications(r) \/ TriggerStatsUpdate(r) \/ CreateReads(r)
    \/ RemoveUser(r) \/ SystemMessage(r)
    \/ LastRead(r) \/ DeleteLastRead(r)
    \/ CreateRead(r) \/ DeleteRead(r)

DefaultWorker == NotifyUser \/ WorkerStatsUpdate \/ NotifyUserFails

PushWorker == CountUnread \/ SendBadge

Next ==
    \/ \E r \in Request : Start(r) \/ Handle(r) \/ Abort(r)
    \/ DefaultWorker
    \/ PushWorker

Spec == Init /\ [][Next]_vars

\* circus keeps one rqworker per queue running, and restarts it when it dies.
FairSpec == Spec /\ WF_vars(DefaultWorker) /\ WF_vars(PushWorker)
-----------------------------------------------------------------------------
\* A member who is told that the conversation, up to its last message, is read
\* has a row for each of those messages until he marks it as unread himself:
\* a row created meanwhile by another request makes the call fail, it is never
\* taken for the rows that are missing.
AcknowledgedReads ==
    \A u \in User : \A m \in 1..answered[u] :
       author[m] \in {u, Null} \/ HasRead(u, m) \/ <<u, m>> \in unmarked

\* Nobody is notified twice of a message, whatever fails in between.
NotifiedOnce ==
    /\ \A i, j \in DOMAIN jobs : jobs[i] = jobs[j] => i = j
    /\ \A i \in DOMAIN jobs : jobs[i] \notin notified \cup failed

\* A notification is read only if its user asked to read the conversation, or
\* that message.
ReadByItsUser == \A n \in is_read : n \in asked \/ <<n[1], 0>> \in asked

\* Once the queues are empty, the badge of a member is his unread count, in
\* whatever order the changes, the jobs and the counts came, unless the update
\* of his last change was lost.
Settled(u) ==
    /\ u \notin missed
    /\ worker # u
    /\ \A i \in DOMAIN push : push[i] # u
    /\ pushing # Null => pushing.user # u
    /\ \A r \in Request : At(r, "stats") => req[r].actor # u

BadgeSettles == \A u \in Device : Settled(u) => badge[u] = UnreadCount(u)

\* Every notification that a sender enqueued is saved in the end, or its job has
\* failed: once no more messages are sent, none is outstanding.
NotificationsDelivered == []<>(enqueued \subseteq notified \cup failed)

\* A request to read the conversation that finds nothing unread, when no job of
\* the member is queued, leaves him no unread notification of it.
ReadLeavesNoNotification ==
    [][\A r \in Request :
         LET u == req[r].actor
         IN  (QueryUnread(r) /\ UnreadMessages(u) = {} /\ \A i \in DOMAIN jobs : jobs[i][1] # u)
               => UnreadCount(u) = 0]_vars
=============================================================================
