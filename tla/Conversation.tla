---------------------------- MODULE Conversation ----------------------------
(***************************************************************************)
(* One conversation of shoutit and the API requests that change it.        *)
(*                                                                         *)
(* A request is handled by one gunicorn worker, several run at once, and   *)
(* the database commits every ORM statement by itself (no transaction      *)
(* spans a request).  A request therefore works on a Python object that    *)
(* holds the conversation's row as it was when get_object read it: the     *)
(* field snap of the request.  Each action below is the code between two   *)
(* database statements.                                                    *)
(*                                                                         *)
(* The ArrayFields admins and blocked are sets here: every append in the   *)
(* code is guarded by "not in" on the very array that is written back, so  *)
(* no written array holds an element twice.  Rows of ConversationDelete    *)
(* are left out (nothing reads them but the admin site), and so are the    *)
(* notifications of a message, which MessageReads models.                  *)
(***************************************************************************)
EXTENDS Naturals, FiniteSets

CONSTANTS
    User,           \* profiles, and pages, that hold API tokens
    Request,        \* the API requests on the conversation, each made once
    Creator,        \* the profile that starts the conversation
    Participants,   \* the to_users of the first message, the creator included
    Listening,      \* <<u, v>> is in it iff u listens to v
    Subject,        \* values of the subject and icon fields
    Workers         \* how many requests are handled at a time

ASSUME ConversationAssumption ==
    /\ Participants \subseteq User
    /\ Creator \in Participants
    /\ Listening \subseteq User \X User
    /\ Workers \in Nat

VARIABLES
    type,       \* the conversation's type; about_shout behaves as chat
    row,        \* the conversation's row in the database
    users,      \* the rows of the many-to-many table Conversation.users
    messages,   \* how many messages the conversation has
    req,        \* the state of each request
    everUser,   \* history: who has been in users, or created the conversation
    everAdmin   \* history: who has been in row.admins

vars == <<type, row, users, messages, req, everUser, everAdmin>>

Type == {"chat", "public_chat"}

Row == [admins: SUBSET User, blocked: SUBSET User, subject: Subject, last_message: Nat]

ProfileOp == {"add", "remove", "promote", "block", "unblock"}

Op == ProfileOp \cup {"reply", "update", "destroy", "create"}

\* What a request does next.
Phase == {"validate", "write", "update", "leave",
          "create", "announce", "first_save", "join",
          "send", "add_sender", "save"}

\* The first step of an operation after get_object.
NextPhase ==
    [op \in Op \ {"create"} |->
        CASE op = "reply"   -> "send"
          [] op = "destroy" -> "leave"
          [] op = "update"  -> "update"
          [] OTHER          -> "validate"]

NotMade == [phase |-> "not_made"]

Done == [phase |-> "done"]

Call == [phase: Phase, op: Op, actor: User, profile: User, snap: Row, message: Nat]

TypeOK ==
    /\ type \in Type
    /\ row \in Row
    /\ users \subseteq User
    /\ messages \in Nat
    /\ req \in [Request -> Call \cup {NotMade, Done}]
    /\ everUser \subseteq User
    /\ everAdmin \subseteq User

-----------------------------------------------------------------------------
Finish(r) == req' = [req EXCEPT ![r] = Done]

InFlight == {r \in Request : req[r] \notin {NotMade, Done}}

Goto(r, phase) == req' = [req EXCEPT ![r].phase = phase]

\* The conversation has just been inserted by the creator's request, whose
\* object is the row: the pre_save handler made the creator an admin.
Init ==
    /\ type \in Type
    /\ \E s \in Subject :
          row = [admins |-> {Creator}, blocked |-> {}, subject |-> s, last_message |-> 0]
    /\ users = {}
    /\ messages = 0
    /\ \E r \in Request :
          req = [q \in Request |->
                   IF q = r
                   THEN [phase |-> IF type = "chat" THEN "create" ELSE "announce", op |-> "create",
                         actor |-> Creator, profile |-> Creator, snap |-> row, message |-> 0]
                   ELSE NotMade]
    /\ everUser = {Creator}
    /\ everAdmin = {Creator}

\* send_message on a conversation it has just created: users.add(*to_users).
CreateChat(r) ==
    /\ req[r].phase = "create"
    /\ users' = users \cup Participants
    /\ Goto(r, "send")
    /\ UNCHANGED <<type, row, messages>>

\* post_save_conversation on a new public chat: the system message, saved
\* with skip_post_save.
AnnouncePublicChat(r) ==
    /\ req[r].phase = "announce"
    /\ messages' = messages + 1
    /\ req' = [req EXCEPT ![r].message = messages + 1, ![r].phase = "first_save"]
    /\ UNCHANGED <<type, row, users>>

\* Its second half: last_message is set and the whole object is saved.
SavePublicChat(r) ==
    /\ req[r].phase = "first_save"
    /\ row' = [req[r].snap EXCEPT !.last_message = req[r].message]
    /\ Goto(r, "join")
    /\ UNCHANGED <<type, users, messages>>

\* The end of create_public_chat: conversation.users.add(creator).
JoinPublicChat(r) ==
    /\ req[r].phase = "join"
    /\ users' = users \cup {Creator}
    /\ Finish(r)
    /\ UNCHANGED <<type, row, messages>>
-----------------------------------------------------------------------------
\* Mutant: anyone who is not blocked may write in a private conversation.
CanContribute_AnyoneUnblocked(c, u) == u \notin c.blocked

\* contributors and can_contribute, asked of an object whose row was read as c:
\* the blocked list is the object's, the users are read now.
Contributors(c) == users \ c.blocked

CanContribute(c, u) ==
    IF type = "public_chat" THEN u \notin c.blocked ELSE u \in Contributors(c)

IsAdmin(c, u) == u \in c.admins

HasObjectPermission(q) ==
    IF q.op = "update" THEN IsAdmin(q.snap, q.actor) ELSE CanContribute(q.snap, q.actor)

\* get_object: get_queryset leaves out the conversations whose blocked holds the
\* user, check_object_permissions follows at once.  The two reads, of the row and
\* of users, are taken as one.  A request that is refused changes nothing.
GetObject(r, op, actor, profile) ==
    LET q == [phase |-> NextPhase[op], op |-> op, actor |-> actor, profile |-> profile,
              snap |-> row, message |-> 0]
    IN  /\ req[r] = NotMade /\ Cardinality(InFlight) < Workers
        /\ actor \notin row.blocked
        /\ HasObjectPermission(q)
        /\ req' = [req EXCEPT ![r] = q]
        /\ UNCHANGED <<type, row, users, messages>>

\* Mutant: blocking does not ask whether the profile is in the conversation.
BlockCondition_Anyone(q) == TRUE

\* The condition of each ConversationProfileActionSerializer.
AddCondition(q) == <<q.profile, q.actor>> \in Listening

RemoveCondition(q) == q.profile \in users

PromoteCondition(q) == q.profile \in users

BlockCondition(q) == q.profile \in users

UnblockCondition(q) == q.profile \in q.snap.blocked

Condition(q) ==
    CASE q.op = "add"     -> AddCondition(q)
      [] q.op = "remove"  -> RemoveCondition(q)
      [] q.op = "promote" -> PromoteCondition(q)
      [] q.op = "block"   -> BlockCondition(q)
      [] OTHER            -> UnblockCondition(q)

\* Mutant: the check against acting on one's own profile is gone.
Validate_OwnProfile(r) ==
    /\ req[r].phase = "validate"
    /\ IsAdmin(req[r].snap, req[r].actor)
    /\ Condition(req[r])
    /\ Goto(r, "write")
    /\ UNCHANGED <<type, row, users, messages>>

\* to_internal_value of a profile action.
Validate(r) ==
    /\ req[r].phase = "validate"
    /\ IsAdmin(req[r].snap, req[r].actor)
    /\ req[r].actor # req[r].profile
    /\ Condition(req[r])
    /\ Goto(r, "write")
    /\ UNCHANGED <<type, row, users, messages>>
-----------------------------------------------------------------------------
\* AddProfileSerializer.create and add_profile: adding a row that exists does
\* nothing, so the check before it only chooses the response.
AddProfile(r) ==
    /\ req[r].phase = "write" /\ req[r].op = "add"
    /\ users' = users \cup {req[r].profile}
    /\ Finish(r)
    /\ UNCHANGED <<type, row, messages>>

\* remove_profile leaves admins as it is.
RemoveProfile(r) ==
    /\ req[r].phase = "write" /\ req[r].op = "remove"
    /\ users' = users \ {req[r].profile}
    /\ Finish(r)
    /\ UNCHANGED <<type, row, messages>>

\* promote_admin writes the admins column from the object.
PromoteAdmin(r) ==
    LET c == req[r].snap
        p == req[r].profile
    IN  /\ req[r].phase = "write" /\ req[r].op = "promote"
        /\ row' = IF p \in c.admins THEN row ELSE [row EXCEPT !.admins = c.admins \cup {p}]
        /\ Finish(r)
        /\ UNCHANGED <<type, users, messages>>

\* Mutant: a blocked admin keeps his admin rights.
BlockProfile_StaysAdmin(r) ==
    LET c == req[r].snap
        p == req[r].profile
    IN  /\ req[r].phase = "write" /\ req[r].op = "block"
        /\ row' = IF p \in c.blocked THEN row ELSE [row EXCEPT !.blocked = c.blocked \cup {p}]
        /\ Finish(r)
        /\ UNCHANGED <<type, users, messages>>

\* block_profile writes the columns admins and blocked from the object.
BlockProfile(r) ==
    LET c == req[r].snap
        p == req[r].profile
    IN  /\ req[r].phase = "write" /\ req[r].op = "block"
        /\ row' = IF p \in c.blocked
                  THEN row
                  ELSE [row EXCEPT !.admins = c.admins \ {p}, !.blocked = c.blocked \cup {p}]
        /\ Finish(r)
        /\ UNCHANGED <<type, users, messages>>

\* Mutant: every column is written from the object.
UnblockProfile_AllColumns(r) ==
    /\ req[r].phase = "write" /\ req[r].op = "unblock"
    /\ row' = [req[r].snap EXCEPT !.blocked = req[r].snap.blocked \ {req[r].profile}]
    /\ Finish(r)
    /\ UNCHANGED <<type, users, messages>>

\* unblock_profile writes the column blocked from the object.
UnblockProfile(r) ==
    /\ req[r].phase = "write" /\ req[r].op = "unblock"
    /\ row' = [row EXCEPT !.blocked = req[r].snap.blocked \ {req[r].profile}]
    /\ Finish(r)
    /\ UNCHANGED <<type, users, messages>>

\* PATCH: save(update_fields=['subject', 'icon']).
UpdateSubject(r, s) ==
    /\ req[r].phase = "update"
    /\ row' = [row EXCEPT !.subject = s]
    /\ Finish(r)
    /\ UNCHANGED <<type, users, messages>>

\* DELETE: mark_as_deleted removes a contributor from users and goes on to
\* create a system message.
Leave(r) ==
    /\ req[r].phase = "leave"
    /\ users' = IF req[r].actor \in Contributors(req[r].snap)
                THEN users \ {req[r].actor} ELSE users
    /\ Goto(r, "send")
    /\ UNCHANGED <<type, row, messages>>
-----------------------------------------------------------------------------
\* The chat endpoint of a profile: send_message looks for a conversation of
\* exactly these two users.  Neither blocked nor any permission is consulted.
ContinueChat(r, actor, profile) ==
    /\ req[r] = NotMade /\ Cardinality(InFlight) < Workers
    /\ type = "chat"
    /\ actor # profile
    /\ users = {actor, profile}
    /\ req' = [req EXCEPT ![r] = [phase |-> "send", op |-> "reply", actor |-> actor,
                                  profile |-> actor, snap |-> row, message |-> 0]]
    /\ UNCHANGED <<type, row, users, messages>>

\* Message.save: the row of the message is inserted.
SendMessage(r) ==
    /\ req[r].phase = "send"
    /\ messages' = messages + 1
    /\ req' = [req EXCEPT ![r].message = messages + 1, ![r].phase = "add_sender"]
    /\ UNCHANGED <<type, row, users>>

\* Mutant: the null author of a system message is added like any other.
AddSender_NullAuthor(r) ==
    /\ req[r].phase = "add_sender"
    /\ users' = users \cup {IF req[r].op = "destroy" THEN "null" ELSE req[r].actor}
    /\ Goto(r, "save")
    /\ UNCHANGED <<type, row, messages>>

\* post_save_message adds the author; a system message has none, its insert
\* fails and is rolled back.
AddSender(r) ==
    /\ req[r].phase = "add_sender"
    /\ users' = IF req[r].op = "destroy" THEN users ELSE users \cup {req[r].actor}
    /\ Goto(r, "save")
    /\ UNCHANGED <<type, row, messages>>

\* post_save_message ends with conversation.save(): every column of the object
\* is written, admins and blocked with the values get_object read.
SaveConversation(r) ==
    /\ req[r].phase = "save"
    /\ row' = [req[r].snap EXCEPT !.last_message = req[r].message]
    /\ Finish(r)
    /\ UNCHANGED <<type, users, messages>>

\* A request ends early: 403, 404 or 400 of a check above, an exception, or the
\* worker killed at gunicorn's timeout.  What is committed stays.
Abort(r) ==
    /\ r \in InFlight
    /\ Finish(r)
    /\ UNCHANGED <<type, row, users, messages>>
-----------------------------------------------------------------------------
Start(r) ==
    \/ \E op \in {"reply", "update", "destroy"}, u \in User : GetObject(r, op, u, u)
    \/ \E op \in ProfileOp, u, p \in User : GetObject(r, op, u, p)
    \/ \E u, p \in User : ContinueChat(r, u, p)

Handle(r) ==
    \/ CreateChat(r) \/ AnnouncePublicChat(r) \/ SavePublicChat(r) \/ JoinPublicChat(r)
    \/ Validate(r)
    \/ AddProfile(r) \/ RemoveProfile(r)
    \/ PromoteAdmin(r) \/ BlockProfile(r) \/ UnblockProfile(r)
    \/ \E s \in Subject : UpdateSubject(r, s)
    \/ Leave(r)
    \/ SendMessage(r) \/ AddSender(r) \/ SaveConversation(r)

Remember ==
    /\ everUser' = everUser \cup users'
    /\ everAdmin' = everAdmin \cup row'.admins

Next == \E r \in Request : (Start(r) \/ Handle(r) \/ Abort(r)) /\ Remember

Spec == Init /\ [][Next]_vars
-----------------------------------------------------------------------------
\* The conversation never loses its last admin: whoever blocks an admin is an
\* admin in the object he writes back, however old that object is.  Two admins
\* who block each other at once cannot leave it without one.
AdminsNeverEmpty == row.admins # {}

\* Promoting and blocking ask first that the profile is in users; a removal, a
\* departure or an older object written back meanwhile cannot put in admins or
\* blocked a profile that never was in the conversation.
ListsHoldMembers == row.admins \cup row.blocked \subseteq everUser

\* Nobody talks himself into a private conversation: whoever ever was in it was
\* a participant from the start or listens to someone who was its admin.
PrivateMembership ==
    type = "chat" =>
        \A u \in everUser \ Participants : \E a \in everAdmin : <<u, a>> \in Listening

\* Handled one at a time (Workers = 1), the requests, which may end anywhere,
\* implement the access list that AccessList states: every write of the row that
\* goes by the object of the request is then as good as one made at once.
ACL == INSTANCE AccessList WITH
    members <- users, admins <- row.admins, blocked <- row.blocked,
    subject <- row.subject, last <- row.last_message

ImplementsAccessList == ACL!Spec

\* However many requests overlap, what each writes is what its operation makes of
\* one version of the row, which was the current one when some request in flight
\* began: see SharedAccessList.
Shared == INSTANCE SharedAccessList WITH
    members <- users, list <- row, views <- {row} \cup {req[r].snap : r \in InFlight},
    been <- everUser

ImplementsSharedList == Shared!Spec

\* Blocking a profile lasts until some admin unblocks that profile.
BlockLasts ==
    [][\A p \in row.blocked \ row'.blocked :
         \E r \in Request : UnblockProfile(r) /\ req[r].profile = p]_vars
=============================================================================
