---------------------------- MODULE MessagePages ----------------------------
(***************************************************************************)
(* A client walks through the messages of a conversation page by page:     *)
(* DateTimePagination as the messages endpoint uses it, and the messages   *)
(* that the user has deleted for himself.                                  *)
(*                                                                         *)
(* Time is counted in ticks, Tick of them to the second.  Messages are     *)
(* stored with their tick; the links of a page carry whole seconds.        *)
(***************************************************************************)
EXTENDS Integers, Sequences, SequencesExt, FiniteSets

CONSTANTS
    Tick,           \* ticks in a second
    PageSize,       \* the client's page_size
    MaxMessages,    \* bound on the messages of the conversation
    Gap             \* the ticks there may be from a message to the next

ASSUME MessagePagesAssumption ==
    /\ Tick \in Nat \ {0}
    /\ PageSize \in Nat \ {0}
    /\ MaxMessages \in Nat
    /\ Gap \subseteq Nat \ {0}

VARIABLES
    created,    \* created_at of the messages, in order
    hidden,     \* the MessageDelete rows of the user
    page,       \* the messages on the page that the client got last
    links,      \* the seconds in its next and previous links, or NoLink
    walk,       \* which way the client has walked since the first page
    seen,       \* history: the messages shown since the first page
    newest      \* history: the last message there was at the first page

store == <<created, hidden>>

vars == <<store, page, links, walk, seen, newest>>

Messages == DOMAIN created

NoLink == -1

NoLinks == [next |-> NoLink, previous |-> NoLink]

TypeOK ==
    /\ created \in Seq(Nat)
    /\ hidden \subseteq Messages
    /\ page \in Seq(Messages) /\ Len(page) <= PageSize
    /\ links \in [next: Nat \cup {NoLink}, previous: Nat \cup {NoLink}]
    /\ walk \in {"none", "first", "back", "forth", "both"}
    /\ seen \subseteq Messages
    /\ newest \in Nat

-----------------------------------------------------------------------------
\* date_unix: created_at_unix of message m.
Unix(m) == created[m] \div Tick

\* The messages that each form of the query asks for.
All == Messages

Before(t) == {m \in Messages : created[m] < (t - 1) * Tick}

\* Mutant: the second of the timestamp itself is included.
After_SameSecond(t) == {m \in Messages : created[m] > t * Tick}

After(t) == {m \in Messages : created[m] > (t + 1) * Tick}

\* The numbers in S, in order: before the i-th there are i - 1.
Sorted(S) ==
    [i \in 1..Cardinality(S) |-> CHOOSE n \in S : Cardinality({k \in S : k < n}) = i - 1]

\* Mutant: the page is not turned around.
LastOf_NewestFirst(S) ==
    LET s == Sorted(S)
        n == Len(s)
    IN  Reverse(SubSeq(s, IF n > PageSize THEN n - PageSize + 1 ELSE 1, n))

\* order_by('-created_at'), the first page of it, reversed.
LastOf(S) ==
    LET s == Sorted(S)
        n == Len(s)
    IN  SubSeq(s, IF n > PageSize THEN n - PageSize + 1 ELSE 1, n)

\* Mutant: everything after the timestamp is returned.
FirstOf_Unlimited(S) == Sorted(S)

\* order_by('created_at'), the first page of it.
FirstOf(S) ==
    LET s == Sorted(S)
    IN  SubSeq(s, 1, IF Len(s) > PageSize THEN PageSize ELSE Len(s))

\* The loop that takes the deleted messages from the list while it runs over it:
\* what follows a message it takes moves up one place and is passed over.
Visited(s) ==
    LET visited[i \in DOMAIN s] ==
          i = 1 \/ ~ (visited[i - 1] /\ s[i - 1] \in hidden)
    IN  {i \in DOMAIN s : visited[i]}

\* What is left of s when it keeps the places in K.
Keep(s, K) == [j \in 1..Cardinality(K) |-> s[Sorted(K)[j]]]

KeepNotDeleted(s) ==
    LET taken == {s[i] : i \in Visited(s)} \cap hidden
    IN  Keep(s, {i \in DOMAIN s : s[i] \notin taken})

\* Mutant: a full page has no links.
LinksOf_OverFull(s) ==
    IF Len(s) <= PageSize
    THEN NoLinks
    ELSE [next |-> Unix(Last(s)), previous |-> Unix(Head(s))]

\* get_next_link and get_previous_link: none unless the page is full.
LinksOf(s) ==
    IF Len(s) < PageSize
    THEN NoLinks
    ELSE [next |-> Unix(Last(s)), previous |-> Unix(Head(s))]

Show(s) ==
    /\ page' = KeepNotDeleted(s)
    /\ links' = LinksOf(page')
    /\ UNCHANGED store
-----------------------------------------------------------------------------
Init ==
    /\ created = << >> /\ hidden = {}
    /\ page = << >> /\ links = NoLinks
    /\ walk = "none" /\ seen = {} /\ newest = 0

\* Some member writes a message, at least a tick after the one before.
Post(gap) ==
    /\ Len(created) < MaxMessages
    /\ created' = Append(created, gap + IF created = << >> THEN 0 ELSE Last(created))
    /\ UNCHANGED <<hidden, page, links, walk, seen, newest>>

\* hide_message_from_user: a second MessageDelete row is refused.
Hide(m) ==
    /\ hidden' = hidden \cup {m}
    /\ UNCHANGED <<created, page, links, walk, seen, newest>>

\* The messages endpoint without parameters.
FirstPage ==
    /\ Show(LastOf(All))
    /\ walk' = "first"
    /\ seen' = ToSet(page')
    /\ newest' = Len(created)

\* With before.
PreviousPage ==
    /\ links.previous # NoLink
    /\ Show(LastOf(Before(links.previous)))
    /\ walk' = IF walk \in {"first", "back"} THEN "back" ELSE "both"
    /\ seen' = seen \cup ToSet(page')
    /\ UNCHANGED newest

\* With after.
NextPage ==
    /\ links.next # NoLink
    /\ Show(FirstOf(After(links.next)))
    /\ walk' = IF walk \in {"first", "forth"} THEN "forth" ELSE "both"
    /\ seen' = seen \cup ToSet(page')
    /\ UNCHANGED newest

Next ==
    \/ \E gap \in Gap : Post(gap)
    \/ \E m \in Messages \ hidden : Hide(m)
    \/ FirstPage \/ PreviousPage \/ NextPage

Spec == Init /\ [][Next]_vars
-----------------------------------------------------------------------------
\* Every page is in order, oldest first, whichever way it was queried.
PageInOrder == \A i, j \in DOMAIN page : i < j => created[page[i]] < created[page[j]]

\* The page before a page is all older than it, the page after it all newer,
\* though the links know whole seconds only: no message is shown twice.
NoRepeats ==
    [][/\ PreviousPage => \A m \in ToSet(page), k \in ToSet(page') : k < m
       /\ NextPage     => \A m \in ToSet(page), k \in ToSet(page') : k > m]_vars

\* When no two messages are less than two seconds apart and the user has deleted
\* none, a walk back that has come to its end has shown every message there was.
Apart == \A m \in Messages \ {1} : created[m] - created[m - 1] >= 2 * Tick

SpacedWalkComplete ==
    (walk \in {"first", "back"} /\ links.previous = NoLink /\ Apart /\ hidden = {})
       => 1..newest \subseteq seen

\* Deleted messages are not on the page.
DeletedNotShown == [][FirstPage => ToSet(page') \cap hidden = {}]_vars
=============================================================================
