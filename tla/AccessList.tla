----------------------------- MODULE AccessList -----------------------------
(***************************************************************************)
(* What a conversation promises about who is in it, who administers it and *)
(* who is blocked, every operation taken as one step.  Conversation        *)
(* implements it when its requests do not overlap.                         *)
(***************************************************************************)
EXTENDS Naturals

CONSTANTS User, Creator, Participants, Listening, Subject

VARIABLES type, members, admins, blocked, subject, last

vars == <<type, members, admins, blocked, subject, last>>

Init ==
    /\ type \in {"chat", "public_chat"}
    /\ members = {}
    /\ admins = {Creator}
    /\ blocked = {}
    /\ subject \in Subject
    /\ last = 0

\* Blocked profiles are out; a private conversation is for its members.
Insider(u) == u \notin blocked /\ (type = "chat" => u \in members)

Administers(a, p) == Insider(a) /\ a \in admins /\ a # p

Open ==
    /\ members' = members \cup (IF type = "chat" THEN Participants ELSE {Creator})
    /\ UNCHANGED <<type, admins, blocked, subject, last>>

\* Writing in a public chat makes its author a member.
Join(u) ==
    /\ type = "public_chat" /\ Insider(u)
    /\ members' = members \cup {u}
    /\ UNCHANGED <<type, admins, blocked, subject, last>>

Leave(u) ==
    /\ u \in members /\ Insider(u)
    /\ members' = members \ {u}
    /\ UNCHANGED <<type, admins, blocked, subject, last>>

\* The last message is replaced by a newer one only.
Post ==
    /\ last' \in Nat /\ last' > last
    /\ UNCHANGED <<type, members, admins, blocked, subject>>

Add(a, p) ==
    /\ Administers(a, p) /\ <<p, a>> \in Listening
    /\ members' = members \cup {p}
    /\ UNCHANGED <<type, admins, blocked, subject, last>>

Remove(a, p) ==
    /\ Administers(a, p) /\ p \in members
    /\ members' = members \ {p}
    /\ UNCHANGED <<type, admins, blocked, subject, last>>

Promote(a, p) ==
    /\ Administers(a, p) /\ p \in members
    /\ admins' = admins \cup {p}
    /\ UNCHANGED <<type, members, blocked, subject, last>>

\* Blocking takes the admin rights away with it; a blocked profile stays a member.
Block(a, p) ==
    /\ Administers(a, p) /\ p \in members \ blocked
    /\ admins' = admins \ {p}
    /\ blocked' = blocked \cup {p}
    /\ UNCHANGED <<type, members, subject, last>>

Unblock(a, p) ==
    /\ Administers(a, p) /\ p \in blocked
    /\ blocked' = blocked \ {p}
    /\ UNCHANGED <<type, members, admins, subject, last>>

Rename(s) ==
    /\ \E a \in admins : a \notin blocked
    /\ subject' = s
    /\ UNCHANGED <<type, members, admins, blocked, last>>

Next ==
    \/ Open
    \/ Post
    \/ \E u \in User : Join(u) \/ Leave(u)
    \/ \E a, p \in User :
          Add(a, p) \/ Remove(a, p) \/ Promote(a, p) \/ Block(a, p) \/ Unblock(a, p)
    \/ \E s \in Subject : Rename(s)

Spec == Init /\ [][Next]_vars
=============================================================================
