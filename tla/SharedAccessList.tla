-------------------------- MODULE SharedAccessList --------------------------
(***************************************************************************)
(* What a conversation promises about who is in it, who administers it and *)
(* who is blocked when its requests overlap.  Whoever changes it looks at  *)
(* it first, and acts on what he has seen: a version of the list, which    *)
(* may be old.  What he writes is what his operation makes of that version *)
(* and of nothing else: the columns of the operation, the others staying   *)
(* as they are now; or, with a message, the version as a whole.            *)
(***************************************************************************)
EXTENDS Naturals

CONSTANTS User, Creator, Participants, Listening, Subject

VARIABLES
    type, members,
    list,       \* admins, blocked, subject and last_message, as they are
    views,      \* the versions of list that somebody may act on
    been        \* who has been a member, or created the conversation

vars == <<type, members, list, views, been>>

Init ==
    /\ type \in {"chat", "public_chat"}
    /\ members = {}
    /\ \E s \in Subject :
          list = [admins |-> {Creator}, blocked |-> {}, subject |-> s, last_message |-> 0]
    /\ views = {list}
    /\ been = {Creator}

\* In the version that a has seen he is an admin and not blocked.
Administers(v, a, p) == a \in v.admins \ v.blocked /\ a # p

\* Everybody may look at the list and forget what he has seen; nobody goes on to
\* act on a version that was replaced before he looked.
Look ==
    /\ views' \subseteq views \cup {list'}
    /\ list' \in views'
    /\ been' = been \cup members'

ListStays == UNCHANGED <<type, list>>

Idle == ListStays /\ UNCHANGED members

Open ==
    /\ members' = members \cup (IF type = "chat" THEN Participants ELSE {Creator})
    /\ ListStays

\* Writing makes its author a member: in a private conversation whoever was one
\* when he began, in a public one whoever was not blocked.
Join(v, u) ==
    /\ IF type = "chat" THEN u \in been ELSE u \notin v.blocked
    /\ members' = members \cup {u}
    /\ ListStays

Leave(v, u) ==
    /\ u \in members \ v.blocked
    /\ members' = members \ {u}
    /\ ListStays

Add(v, a, p) ==
    /\ Administers(v, a, p) /\ <<p, a>> \in Listening
    /\ members' = members \cup {p}
    /\ ListStays

Remove(v, a, p) ==
    /\ Administers(v, a, p) /\ p \in members
    /\ members' = members \ {p}
    /\ ListStays

\* Each of these writes what p becomes in the version that a has seen.
Promote(v, a, p) ==
    /\ Administers(v, a, p) /\ p \in been \ v.admins
    /\ list' = [list EXCEPT !.admins = v.admins \cup {p}]
    /\ UNCHANGED <<type, members>>

Block(v, a, p) ==
    /\ Administers(v, a, p) /\ p \in been \ v.blocked
    /\ list' = [list EXCEPT !.admins = v.admins \ {p}, !.blocked = v.blocked \cup {p}]
    /\ UNCHANGED <<type, members>>

Unblock(v, a, p) ==
    /\ Administers(v, a, p) /\ p \in v.blocked
    /\ list' = [list EXCEPT !.blocked = v.blocked \ {p}]
    /\ UNCHANGED <<type, members>>

Rename(v, s) ==
    /\ v.admins \ v.blocked # {}
    /\ list' = [list EXCEPT !.subject = s]
    /\ UNCHANGED <<type, members>>

\* A message brings the version that its author has seen back, with a newer last
\* message than it had.
Post(v) ==
    /\ list'.last_message \in Nat /\ list'.last_message > v.last_message
    /\ list' = [v EXCEPT !.last_message = list'.last_message]
    /\ UNCHANGED <<type, members>>

Act(v) ==
    \/ \E u \in User : Join(v, u) \/ Leave(v, u)
    \/ \E a, p \in User :
          \/ Add(v, a, p) \/ Remove(v, a, p)
          \/ Promote(v, a, p) \/ Block(v, a, p) \/ Unblock(v, a, p)
    \/ \E s \in Subject : Rename(v, s)
    \/ Post(v)

Next == (Idle \/ Open \/ \E v \in views : Act(v)) /\ Look

Spec == Init /\ [][Next]_vars
=============================================================================
