------------------------------ MODULE Presence ------------------------------
(***************************************************************************)
(* Who is subscribed to which presence channel of Pusher, as far as the    *)
(* database knows.  Pusher sends the joins and leaves to the webhook in    *)
(* batches; each batch is a request of its own, and requests run at once.  *)
(* send_push takes whoever has joined his channel for being in the app.    *)
(*                                                                         *)
(* A channel whose last member leaves is deleted with whatever refers to   *)
(* it, so rows of the same name are told apart by a number.                *)
(***************************************************************************)
EXTENDS Integers, Sequences, FiniteSets

CONSTANTS
    Subscribable,   \* <<c, u>>: channel c is one that user u may subscribe to
    Webhooks,       \* bound on the webhook requests, which are numbered as they arrive
    Workers,        \* how many requests are handled at a time
    MaxChanges      \* bound on the joins and leaves

\* Assumed in Push.
PresenceAssumption ==
    /\ \A s \in Subscribable : s = <<s[1], s[2]>>
    /\ Webhooks \in Nat /\ Workers \in Nat \ {0} /\ MaxChanges \in Nat

Webhook == 1..Webhooks

Channel == {s[1] : s \in Subscribable}

Name == {"member_added", "member_removed"}

Event == [name: Name, at: Subscribable]

VARIABLES
    online,         \* the subscriptions there are, as Pusher sees them
    outbox,         \* the events that Pusher has not sent yet
    changes,        \* how many events there were
    channels,       \* channels[c]: the number of the PusherChannel row, 0 if there is none
    rows,           \* how many PusherChannel rows were created
    joins,          \* the PusherChannelJoin rows: <<number of the channel row, u>>
    hook,           \* the state of each webhook request
    met,            \* history: <<c, u, v>>: events of u and v on c were handled at once
    resorted,       \* history: subscriptions left and renewed within one batch
    dropped         \* history: subscriptions of which an event was lost

presenceVars == <<online, outbox, changes, channels, rows, joins, hook, met, resorted, dropped>>

NotReceived == [phase |-> "not_received"]

Answered == [phase |-> "answered"]

\* events is the batch as it was received, left the places of those not handled yet.
Handling ==
    [phase: {"event", "join", "delete_join", "find_joins", "delete_channel"},
     events: Seq(Event), left: SUBSET (Nat \ {0}), row: Nat]

PresenceTypeOK ==
    /\ online \subseteq Subscribable
    /\ outbox \in Seq(Event)
    /\ changes \in 0..MaxChanges
    /\ channels \in [Channel -> Nat]
    /\ rows \in Nat
    /\ \A j \in joins : \E s \in Subscribable : j = <<channels[s[1]], s[2]>> /\ j[1] > 0
    /\ hook \in [Webhook -> Handling \cup {NotReceived, Answered}]
    /\ resorted \cup dropped \subseteq Subscribable

PresenceInit ==
    /\ online = {} /\ outbox = << >> /\ changes = 0
    /\ channels = [c \in Channel |-> 0] /\ rows = 0 /\ joins = {}
    /\ hook = [w \in Webhook |-> NotReceived]
    /\ met = {} /\ resorted = {} /\ dropped = {}
-----------------------------------------------------------------------------
Joined(s) == <<channels[s[1]], s[2]>> \in joins

Receiving == {w \in Webhook : hook[w] \notin {NotReceived, Answered}}

Elements(events) == {events[i].at : i \in DOMAIN events}

Left(w) == {hook[w].events[i].at : i \in hook[w].left}

\* Some event of the subscription is still to be handled.
Pending(s) == s \in Elements(outbox) \/ \E w \in Receiving : s \in Left(w)

In(w, phase) == hook[w].phase = phase

GoOn(w, phase) == hook' = [hook EXCEPT ![w].phase = phase]

\* Mutant: the removals come first.
Earlier_Reverse(d, i, e, j) ==
    \/ d.name = "member_removed" /\ e.name = "member_added"
    \/ d.name = e.name /\ i < j

\* events.sort(key=name): d, received as number i, is handled before e, number j.
Earlier(d, i, e, j) ==
    \/ d.name = "member_added" /\ e.name = "member_removed"
    \/ d.name = e.name /\ i < j

Earliest(events, left) ==
    CHOOSE i \in left : \A j \in left \ {i} : Earlier(events[i], i, events[j], j)

Current(w) == Earliest(hook[w].events, hook[w].left)

EventOf(w) == hook[w].events[Current(w)]

Of(w, phase, name) == In(w, phase) /\ EventOf(w).name = name

Row(w) == channels[EventOf(w).at[1]]

NextEvent(w) ==
    LET left == hook[w].left \ {Current(w)}
    IN  hook' = [hook EXCEPT ![w] =
           IF left = {} THEN Answered
           ELSE [@ EXCEPT !.left = left, !.phase = "event", !.row = 0]]
-----------------------------------------------------------------------------
\* A client of u subscribes to c, or the last one of them leaves it.
Change(s) ==
    /\ changes < MaxChanges
    /\ changes' = changes + 1
    /\ \/ /\ s \notin online
          /\ online' = online \cup {s}
          /\ outbox' = Append(outbox, [name |-> "member_added", at |-> s])
       \/ /\ s \in online
          /\ online' = online \ {s}
          /\ outbox' = Append(outbox, [name |-> "member_removed", at |-> s])
    /\ UNCHANGED <<channels, rows, joins, hook, met, resorted, dropped>>

Batch(n) == SubSeq(outbox, 1, n)

Rest(n) == SubSeq(outbox, n + 1, Len(outbox))

Renewed(events) ==
    {events[j].at : j \in {k \in DOMAIN events : \E i \in 1..k-1 :
        /\ events[i] = [name |-> "member_removed", at |-> events[k].at]
        /\ events[k].name = "member_added"}}

\* The subscriptions of a batch that meet those of the batches being handled.
Meeting(events) ==
    LET others == UNION {Left(w) : w \in Receiving}
        pairs == {p \in (Elements(events) \X others) : p[1][1] = p[2][1]}
    IN  {<<p[1][1], p[1][2], p[2][2]>> : p \in pairs}
           \cup {<<p[1][1], p[2][2], p[1][2]>> : p \in pairs}

Receive(w) ==
    /\ hook[w] = NotReceived /\ \A x \in 1..w-1 : hook[x] # NotReceived
    /\ Cardinality(Receiving) < Workers
    /\ \E n \in 1..Len(outbox) :
          /\ hook' = [hook EXCEPT ![w] =
               [phase |-> "event", events |-> Batch(n), left |-> 1..n, row |-> 0]]
          /\ outbox' = Rest(n)
          /\ met' = met \cup Meeting(Batch(n))
          /\ resorted' = resorted \cup Renewed(Batch(n))
    /\ UNCHANGED <<online, changes, channels, rows, joins, dropped>>

\* A batch does not arrive, or has an event of a channel among it, which has no
\* user_id: uuid.UUID(None) raises a TypeError before the first event is handled.
DropBatch ==
    \E n \in 1..Len(outbox) :
       /\ outbox' = Rest(n)
       /\ dropped' = dropped \cup Elements(Batch(n))
       /\ UNCHANGED <<online, changes, channels, rows, joins, hook, met, resorted>>

\* add_member: create_channel, which is a get_or_create, ...
GetChannel(w) ==
    LET row == IF Row(w) # 0 THEN Row(w) ELSE rows + 1
    IN  /\ Of(w, "event", "member_added")
        /\ channels' = [channels EXCEPT ![EventOf(w).at[1]] = row]
        /\ rows' = IF Row(w) # 0 THEN rows ELSE rows + 1
        /\ hook' = [hook EXCEPT ![w].phase = "join", ![w].row = row]
        /\ UNCHANGED <<online, outbox, changes, joins, met, resorted, dropped>>

\* Mutant: nothing in the database keeps a join from referring to no channel.
StillThere_Unchecked(w) == TRUE

StillThere(w) == Row(w) = hook[w].row

\* ... and the join, unless "another call has deleted the channel already".
AddMember(w) ==
    /\ In(w, "join")
    /\ joins' = IF StillThere(w)
                THEN joins \cup {<<hook[w].row, EventOf(w).at[2]>>} ELSE joins
    /\ NextEvent(w)
    /\ UNCHANGED <<online, outbox, changes, channels, rows, met, resorted, dropped>>

\* remove_member: nothing to do unless the join exists.
FindJoin(w) ==
    /\ Of(w, "event", "member_removed")
    /\ IF Joined(EventOf(w).at) THEN GoOn(w, "delete_join") ELSE NextEvent(w)
    /\ UNCHANGED <<online, outbox, changes, channels, rows, joins, met, resorted, dropped>>

DeleteJoin(w) ==
    /\ In(w, "delete_join")
    /\ joins' = joins \ {<<Row(w), EventOf(w).at[2]>>}
    /\ GoOn(w, "find_joins")
    /\ UNCHANGED <<online, outbox, changes, channels, rows, met, resorted, dropped>>

\* Mutant: the channel is deleted whoever is left.
Empty_Always(row) == TRUE

Empty(row) == \A j \in joins : j[1] # row

\* delete_channel: it is deleted if it is found empty, ...
FindJoins(w) ==
    /\ In(w, "find_joins")
    /\ IF Empty(Row(w)) THEN GoOn(w, "delete_channel") ELSE NextEvent(w)
    /\ UNCHANGED <<online, outbox, changes, channels, rows, joins, met, resorted, dropped>>

\* ... with the joins that were added since, unless the database refuses to.
DeleteChannel(w) ==
    /\ In(w, "delete_channel")
    /\ \/ /\ channels' = [channels EXCEPT ![EventOf(w).at[1]] = 0]
          /\ joins' = {j \in joins : j[1] # Row(w)}
       \/ ~Empty(Row(w)) /\ UNCHANGED <<channels, joins>>
    /\ NextEvent(w)
    /\ UNCHANGED <<online, outbox, changes, rows, met, resorted, dropped>>

AbortWebhook(w) ==
    /\ w \in Receiving
    /\ hook' = [hook EXCEPT ![w] = Answered]
    /\ dropped' = dropped \cup Left(w)
    /\ UNCHANGED <<online, outbox, changes, channels, rows, joins, met, resorted>>

PresenceNext ==
    \/ \E s \in Subscribable : Change(s)
    \/ DropBatch
    \/ \E w \in Webhook :
          \/ Receive(w)
          \/ GetChannel(w) \/ AddMember(w)
          \/ FindJoin(w) \/ DeleteJoin(w) \/ FindJoins(w) \/ DeleteChannel(w)
          \/ AbortWebhook(w)
-----------------------------------------------------------------------------
\* Whoever has left a channel is not taken for present, and so gets no pushes
\* that look for him there, longer than the event takes; unless the event got
\* lost or was handled while another one about him on that channel was.
NoGhost ==
    \A s \in Subscribable :
       Joined(s) /\ s \notin online => Pending(s) \/ s \in dropped \/ <<s[1], s[2], s[2]>> \in met

\* Whoever is present is found; unless, besides, he left and came back within
\* one batch, which is handled sorted by name, or the events of another member
\* of the channel were handled at once with his.
NotForgotten ==
    \A s \in online :
       \/ Joined(s) \/ Pending(s)
       \/ s \in dropped \cup resorted
       \/ \E m \in met : m[1] = s[1] /\ m[2] = s[2]
=============================================================================
