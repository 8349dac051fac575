--------------------------- MODULE PresenceProofs ---------------------------
(***************************************************************************)
(* Proofs about Presence: its invariant holds in the states in which       *)
(* nobody, or one person, is in the app, and every step keeps it.          *)
(* PushProofs draws the conclusions for the behaviours of Push.            *)
(***************************************************************************)
EXTENDS Presence, SequenceTheorems, FiniteSetTheorems, WellFoundedInduction, TLAPS

Phase == {"event", "join", "delete_join", "find_joins", "delete_channel"}

HookState == Handling \cup {NotReceived, Answered}

\* Of the numbers up to one, a set has a smallest.
LEMMA Smallest ==
    ASSUME NEW n \in Nat, NEW S \in SUBSET (1..n), S # {}
    PROVE  \E i \in S : \A j \in S : i <= j
  <1> DEFINE T == 1..n
             B == {1..i : i \in S}
  <1>1. IsFiniteSet(T)
    BY FS_Interval
  <1>2. B \in SUBSET SUBSET T /\ B # {}
    <2>1. \A i \in S : 1..i \subseteq 1..n
      OBVIOUS
    <2>2. QED
      BY <2>1
  <1> HIDE DEF T
  <1>3. IsWellFoundedOn(StrictSubsetOrdering(T), SUBSET T)
    BY <1>1, FS_StrictSubsetOrderingWellFounded, FS_FiniteSubsetsOfFinite
  <1>4. \E s \in B : \A t \in B : ~ (<<t, s>> \in StrictSubsetOrdering(T))
    <2> HIDE DEF B
    <2>1. QED
      BY <1>2, <1>3, WFMin
  <1>5. PICK i \in S : \A j \in S : ~ (<<1..j, 1..i>> \in StrictSubsetOrdering(T))
    BY <1>4
  <1>6. ASSUME NEW j \in S, j < i PROVE FALSE
    <2>1. i \in 1..n /\ j \in 1..n
      BY <1>6
    <2>2. 1..j \subseteq 1..i /\ 1..j # 1..i /\ 1..i \subseteq T /\ 1..j \subseteq T
      BY <1>6, <2>1 DEF T
    <2>3. <<1..j, 1..i>> \in StrictSubsetOrdering(T)
      BY <2>2 DEF StrictSubsetOrdering
    <2>4. QED
      BY <1>5, <2>3
  <1>7. QED
    BY <1>6

\* The request that is not answered and what it has left to do.
HookOK(w) ==
    LET h == hook[w]
    IN  /\ h.left # {} /\ h.left \subseteq DOMAIN h.events
        /\ h.phase = "join" => EventOf(w).name = "member_added" /\ h.row \in 1..rows
        /\ h.phase \in {"delete_join", "find_joins", "delete_channel"} => EventOf(w).name = "member_removed"

\* The rows of two channels have different numbers.
RowsOK ==
    /\ \A c \in Channel : channels[c] <= rows
    /\ \A c, d \in Channel : channels[c] = channels[d] /\ channels[c] # 0 => c = d

TInv == PresenceTypeOK /\ RowsOK /\ \A w \in Webhook : hook[w].phase \in Phase => HookOK(w)

\* w is still to handle an event of that name of s.
Has(w, name, s) ==
    /\ hook[w].phase \in Phase
    /\ \E i \in hook[w].left : hook[w].events[i].name = name /\ hook[w].events[i].at = s

Holds(w, s) == \E name \in Name : Has(w, name, s)

\* Requests that handle events of one channel at once are known to.
MInv ==
    \A w, x \in Webhook : \A s, t \in Subscribable :
       w # x /\ Holds(w, s) /\ Holds(x, t) /\ s[1] = t[1] => <<s[1], s[2], t[2]>> \in met

\* The last event of s that Pusher has not sent tells whether s is online.
LastTells ==
    \A i \in DOMAIN outbox :
       (\A j \in DOMAIN outbox : j > i => outbox[j].at # outbox[i].at)
          => (outbox[i].name = "member_added" <=> outbox[i].at \in online)

\* Two events about s were handled at once, or one got lost.
Ghostly(s) == s \in dropped \/ <<s[1], s[2], s[2]>> \in met

\* The removal of whoever left comes after he was found to have joined.
GInv ==
    \A s \in Subscribable :
       /\ s \notin online /\ (Joined(s) \/ \E w \in Webhook : Has(w, "member_added", s)) =>
             \/ Ghostly(s) \/ s \in Elements(outbox)
             \/ \E w \in Webhook : Has(w, "member_removed", s)
       /\ \A w \in Webhook :
             hook[w].phase \in {"find_joins", "delete_channel"} /\ EventOf(w).at = s /\ Joined(s) => Ghostly(s)

\* Somebody's events on the channel were handled with those of s, or one got lost.
Forgettable(s) ==
    \/ s \in dropped \cup resorted
    \/ \E m \in met : m[1] = s[1] /\ m[2] = s[2]

\* Whoever is online has joined or is about to; and nobody is about to remove him.
NInv ==
    /\ \A s \in online :
          /\ \/ Forgettable(s) \/ Joined(s) \/ s \in Elements(outbox)
             \/ \E w \in Webhook : Has(w, "member_added", s)
          /\ \A w \in Webhook :
                Has(w, "member_removed", s) => Forgettable(s) \/ s \in Elements(outbox)
    /\ \A w \in Webhook : \A s \in Subscribable :
          /\ hook[w].phase = "join" /\ EventOf(w).at = s => Forgettable(s) \/ StillThere(w)
          /\ hook[w].phase = "delete_channel" /\ EventOf(w).at[1] = s[1] /\ Joined(s) => Forgettable(s)

PresenceInv == TInv /\ MInv /\ LastTells /\ GInv /\ NInv
-----------------------------------------------------------------------------
LEMMA Phases ==
    ASSUME NEW h \in HookState
    PROVE  /\ h \in Handling <=> h.phase \in Phase
           /\ h \notin {NotReceived, Answered} <=> h.phase \in Phase
           /\ h = NotReceived <=> h.phase = "not_received"
           /\ h = Answered <=> h.phase = "answered"
  BY DEF HookState, Handling, NotReceived, Answered, Phase

LEMMA PutTyped ==
    ASSUME PresenceTypeOK, NEW w \in Webhook, NEW h \in HookState, hook' = [hook EXCEPT ![w] = h]
    PROVE  /\ hook' \in [Webhook -> HookState] /\ hook'[w] = h
           /\ \A x \in Webhook \ {w} : hook'[x] = hook[x]
  BY DEF PresenceTypeOK, HookState

\* The events that are left have an earliest, and removals come after the others.
LEMMA CurrentIs ==
    ASSUME TInv, NEW w \in Webhook, hook[w].phase \in Phase
    PROVE  /\ Current(w) \in hook[w].left
           /\ EventOf(w) \in Event
           /\ \A i \in hook[w].left : hook[w].events[i] \in Event
           /\ EventOf(w).name = "member_removed" =>
                 \A i \in hook[w].left : hook[w].events[i].name = "member_removed"
  <1> DEFINE L == hook[w].left
             e == hook[w].events
             A == {i \in L : e[i].name = "member_added"}
  <1>1. hook[w] \in Handling /\ HookOK(w)
    BY Phases DEF TInv, PresenceTypeOK, HookState
  <1>2. e \in Seq(Event) /\ L \subseteq DOMAIN e /\ L # {}
    BY <1>1 DEF Handling, HookOK
  <1>3. Len(e) \in Nat /\ DOMAIN e = 1..Len(e) /\ \A i \in DOMAIN e : e[i] \in Event
    BY <1>2, LenProperties, ElementOfSeq
  <1>4. \A i \in L : e[i] \in Event /\ i \in Int
    BY <1>2, <1>3
  <1>5. \E i \in L : \A j \in L \ {i} : Earlier(e[i], i, e[j], j)
    <2>1. CASE A = {}
      <3>1. PICK i \in L : \A j \in L : i <= j
        BY <1>2, <1>3, Smallest
      <3>2. \A j \in L : e[j].name = "member_removed"
        BY <1>4, <2>1 DEF Event, Name
      <3>3. QED
        BY <1>4, <3>1, <3>2 DEF Earlier
    <2>2. CASE A # {}
      <3>1. A \in SUBSET (1..Len(e))
        BY <1>2, <1>3
      <3>2. PICK i \in A : \A j \in A : i <= j
        BY <1>3, <2>2, <3>1, Smallest
      <3>3. \A j \in L : e[j].name \in Name
        BY <1>4 DEF Event
      <3>4. QED
        BY <1>4, <3>2, <3>3 DEF Earlier, Name
    <2>3. QED
      BY <2>1, <2>2
  <1>6. Current(w) \in L /\ \A j \in L \ {Current(w)} : Earlier(e[Current(w)], Current(w), e[j], j)
    BY <1>5 DEF Current, Earliest
  <1>7. QED
    BY <1>4, <1>6 DEF EventOf, Earlier

\* A request goes on to the next statement about its event ...
LEMMA GoOnDoes ==
    ASSUME TInv, NEW w \in Webhook, hook[w].phase \in Phase, NEW phase \in Phase, NEW row \in Nat,
           \/ GoOn(w, phase) /\ row = hook[w].row
           \/ hook' = [hook EXCEPT ![w].phase = phase, ![w].row = row]
    PROVE  /\ hook' \in [Webhook -> HookState]
           /\ \A x \in Webhook \ {w} : hook'[x] = hook[x]
           /\ hook'[w].phase = phase /\ hook'[w].row = row
           /\ hook'[w].events = hook[w].events /\ hook'[w].left = hook[w].left
  <1> DEFINE h == [hook[w] EXCEPT !.phase = phase, !.row = row]
  <1>1. hook \in [Webhook -> HookState] /\ hook[w] \in Handling /\ PresenceTypeOK
    BY Phases DEF TInv, PresenceTypeOK, HookState
  <1>2. /\ h \in HookState /\ h.phase = phase /\ h.row = row
        /\ h.events = hook[w].events /\ h.left = hook[w].left
    BY <1>1 DEF Handling, HookState, Phase
  <1>3. hook' = [hook EXCEPT ![w] = h]
    <2>1. row = hook[w].row => h = [hook[w] EXCEPT !.phase = phase]
      BY <1>1 DEF Handling
    <2>2. QED
      BY <1>1, <2>1 DEF GoOn
  <1> HIDE DEF h
  <1>4. QED
    BY <1>1, <1>2, <1>3, PutTyped

\* ... or to the next event, or answers.
LEMMA NextDoes ==
    ASSUME TInv, NEW w \in Webhook, hook[w].phase \in Phase, NextEvent(w)
    PROVE  /\ hook' \in [Webhook -> HookState]
           /\ \A x \in Webhook \ {w} : hook'[x] = hook[x]
           /\ \/ hook[w].left = {Current(w)} /\ hook'[w].phase = "answered"
              \/ /\ hook[w].left # {Current(w)}
                 /\ hook'[w].phase = "event" /\ hook'[w].events = hook[w].events
                 /\ hook'[w].left = hook[w].left \ {Current(w)}
  <1> DEFINE l == hook[w].left \ {Current(w)}
             h == [hook[w] EXCEPT !.left = l, !.phase = "event", !.row = 0]
  <1>1. hook \in [Webhook -> HookState] /\ hook[w] \in Handling /\ PresenceTypeOK
    BY Phases DEF TInv, PresenceTypeOK, HookState
  <1>2. Current(w) \in hook[w].left
    BY CurrentIs
  <1>3. hook' = [hook EXCEPT ![w] = IF l = {} THEN Answered ELSE h]
    BY <1>1 DEF NextEvent
  <1>4. CASE l = {}
    <2>1. hook' = [hook EXCEPT ![w] = Answered] /\ Answered \in HookState /\ Answered.phase = "answered"
      BY <1>3, <1>4 DEF HookState, Answered
    <2>2. hook[w].left = {Current(w)}
      BY <1>2, <1>4
    <2>3. QED
      BY <1>1, <2>1, <2>2, PutTyped
  <1>5. CASE l # {}
    <2>1. hook' = [hook EXCEPT ![w] = h]
      BY <1>3, <1>5
    <2>2. /\ h \in HookState /\ h.phase = "event" /\ h.events = hook[w].events
          /\ h.left = l
      BY <1>1 DEF Handling, HookState
    <2>3. hook[w].left # {Current(w)}
      BY <1>5
    <2> HIDE DEF h
    <2>4. QED
      BY <1>1, <2>1, <2>2, <2>3, PutTyped
  <1>6. QED
    BY <1>4, <1>5

\* What the requests that do not move have to handle.
LEMMA SameHook ==
    ASSUME NEW x \in Webhook,
           \/ hook'[x] = hook[x]
           \/ /\ hook[x].phase \in Phase /\ hook'[x].phase \in Phase
              /\ hook'[x].events = hook[x].events /\ hook'[x].left = hook[x].left
    PROVE  /\ EventOf(x)' = EventOf(x)
           /\ \A name, s : Has(x, name, s)' <=> Has(x, name, s)
  BY DEF EventOf, Current, Has

\* The next event is not handled yet.
LEMMA NextHas ==
    ASSUME TInv, NEW w \in Webhook, hook[w].phase \in Phase, NextEvent(w)
    PROVE  /\ \A name, s : Has(w, name, s)' => Has(w, name, s)
           /\ \A name, s : Has(w, name, s) /\ ~(name = EventOf(w).name /\ s = EventOf(w).at) => Has(w, name, s)'
           /\ Has(w, EventOf(w).name, EventOf(w).at)
           /\ EventOf(w).name = "member_removed" => \A s : ~Has(w, "member_added", s)
  <1>1. /\ Current(w) \in hook[w].left
        /\ EventOf(w).name = "member_removed" =>
              \A i \in hook[w].left : hook[w].events[i].name = "member_removed"
    BY CurrentIs
  <1>2. \/ hook[w].left = {Current(w)} /\ hook'[w].phase = "answered"
        \/ /\ hook[w].left # {Current(w)}
           /\ hook'[w].phase = "event" /\ hook'[w].events = hook[w].events
           /\ hook'[w].left = hook[w].left \ {Current(w)}
    BY NextDoes
  <1>3. EventOf(w) = hook[w].events[Current(w)]
    BY DEF EventOf
  <1>4. QED
    BY <1>1, <1>2, <1>3 DEF Has, Phase

\* Who handles s is about to be found doing so.
LEMMA HoldsIs ==
    ASSUME TInv, NEW w \in Webhook
    PROVE  /\ \A s : Holds(w, s) <=> hook[w].phase \in Phase /\ s \in Left(w)
           /\ hook[w].phase \in Phase <=> w \in Receiving
           /\ hook[w].phase \in Phase => /\ EventOf(w).at \in Subscribable /\ EventOf(w).name \in Name
                                         /\ Has(w, EventOf(w).name, EventOf(w).at) /\ Holds(w, EventOf(w).at)
           /\ \A s, name : Has(w, name, s) => s \in Subscribable /\ name \in Name /\ Holds(w, s)
  <1>1. hook[w].phase \in Phase <=> w \in Receiving
    BY Phases DEF TInv, PresenceTypeOK, HookState, Receiving
  <1>2. ASSUME hook[w].phase \in Phase
        PROVE  /\ Current(w) \in hook[w].left /\ EventOf(w) = hook[w].events[Current(w)]
               /\ \A i \in hook[w].left : hook[w].events[i] \in Event
    BY <1>2, CurrentIs DEF EventOf
  <1>3. \A s : Holds(w, s) <=> hook[w].phase \in Phase /\ s \in Left(w)
    BY <1>2 DEF Holds, Has, Left, Event
  <1>4. QED
    BY <1>1, <1>2, <1>3 DEF Holds, Has, Event
-----------------------------------------------------------------------------
\* The number of the row and the subscription tell one another.
LEMMA JoinedIs ==
    ASSUME TInv, PresenceAssumption
    PROVE  /\ \A s \in Subscribable : Joined(s) => channels[s[1]] # 0
           /\ \A j \in joins : \E s \in Subscribable : Joined(s) /\ j = <<channels[s[1]], s[2]>> /\ j[1] > 0
           /\ \A s, t \in Subscribable :
                 channels[s[1]] = channels[t[1]] /\ channels[s[1]] # 0 /\ s[2] = t[2] => s = t
  <1>1. \A s \in Subscribable : s = <<s[1], s[2]>> /\ s[1] \in Channel
    BY DEF PresenceAssumption, Channel
  <1>2. \A j \in joins : \E s \in Subscribable : j = <<channels[s[1]], s[2]>> /\ j[1] > 0
    BY DEF TInv, PresenceTypeOK
  <1>3. \A s \in Subscribable : channels[s[1]] \in Nat
    BY <1>1 DEF TInv, PresenceTypeOK
  <1>4. \A s, t \in Subscribable :
           channels[s[1]] = channels[t[1]] /\ channels[s[1]] # 0 /\ s[2] = t[2] => s = t
    BY <1>1 DEF TInv, RowsOK
  <1>5. \A s \in Subscribable : Joined(s) => channels[s[1]] # 0
    BY <1>2, <1>3 DEF Joined
  <1>6. QED
    BY <1>2, <1>4, <1>5 DEF Joined
-----------------------------------------------------------------------------
\* Nobody meets anybody new when no batch is received.
LEMMA MInvKept ==
    ASSUME MInv, met \subseteq met',
           \A w \in Webhook : \A name, s : Has(w, name, s)' => Has(w, name, s)
    PROVE  MInv'
  <1>1. \A w \in Webhook : \A s : Holds(w, s)' => Holds(w, s)
    BY DEF Holds
  <1>2. QED
    BY <1>1 DEF MInv

\* The removals still come when request w makes a step.
LEMMA GInvKept ==
    ASSUME TInv, MInv, GInv, NEW w \in Webhook, UNCHANGED <<online, outbox, met>>, dropped \subseteq dropped',
           \A x \in Webhook \ {w} : hook'[x] = hook[x],
           \A name, s : Has(w, name, s)' => Has(w, name, s),
           \A s \in Subscribable : Joined(s)' => Joined(s) \/ Has(w, "member_added", s),
           \A s \in Subscribable : Has(w, "member_removed", s) /\ ~Has(w, "member_removed", s)'
              => Ghostly(s)' \/ (~Has(w, "member_added", s) /\ ~Joined(s)'),
           \A s \in Subscribable :
              hook'[w].phase \in {"find_joins", "delete_channel"} /\ EventOf(w)'.at = s /\ Joined(s)' => Ghostly(s)'
    PROVE  GInv'
  <1>1. \A s : Ghostly(s) => Ghostly(s)'
    BY DEF Ghostly
  <1>2. \A x \in Webhook \ {w} : EventOf(x)' = EventOf(x) /\ \A name, s : Has(x, name, s)' <=> Has(x, name, s)
    BY SameHook
  <1>3. \A x \in Webhook \ {w} : \A s \in Subscribable : \A name, other \in Name :
           Has(x, name, s) /\ Has(w, other, s) => Ghostly(s)'
    BY <1>1 DEF MInv, Holds, Ghostly
  <1>4. ASSUME NEW s \in Subscribable, s \notin online',
               Joined(s)' \/ \E x \in Webhook : Has(x, "member_added", s)'
        PROVE  Ghostly(s)' \/ s \in Elements(outbox)' \/ \E x \in Webhook : Has(x, "member_removed", s)'
    <2>1. s \notin online /\ Elements(outbox)' = Elements(outbox)
      BY <1>4 DEF Elements
    <2>2. Joined(s) \/ \E x \in Webhook : Has(x, "member_added", s)
      BY <1>2, <1>4
    <2>3. \/ Ghostly(s) \/ s \in Elements(outbox)
          \/ \E x \in Webhook : Has(x, "member_removed", s)
      BY <2>1, <2>2 DEF GInv
    <2>4. ASSUME NEW x \in Webhook, Has(x, "member_removed", s)
          PROVE  Ghostly(s)' \/ \E y \in Webhook : Has(y, "member_removed", s)'
      <3>1. CASE x # w
        BY <1>2, <2>4, <3>1
      <3>2. CASE x = w /\ ~Has(w, "member_removed", s)'
        <4>1. Ghostly(s)' \/ (~Has(w, "member_added", s) /\ ~Joined(s)')
          BY <2>4, <3>2
        <4>2. ASSUME NEW y \in Webhook, Has(y, "member_added", s)', ~Has(w, "member_added", s)
              PROVE  Ghostly(s)'
          <5>1. y \in Webhook \ {w} /\ Has(y, "member_added", s)
            BY <1>2, <4>2
          <5>2. Has(w, "member_removed", s)
            BY <2>4, <3>2
          <5>3. QED
            BY <1>3, <5>1, <5>2 DEF Name
        <4>3. QED
          BY <1>4, <4>1, <4>2
      <3>3. QED
        BY <3>1, <3>2
    <2>5. QED
      BY <1>1, <2>1, <2>3, <2>4
  <1>5. ASSUME NEW s \in Subscribable, NEW x \in Webhook,
               hook'[x].phase \in {"find_joins", "delete_channel"}, EventOf(x)'.at = s, Joined(s)'
        PROVE  Ghostly(s)'
    <2>1. CASE x = w
      BY <1>5, <2>1
    <2>2. CASE x # w
      <3>1. hook[x].phase \in {"find_joins", "delete_channel"} /\ EventOf(x).at = s
        BY <1>2, <1>5, <2>2
      <3>2. CASE Joined(s)
        BY <1>1, <3>1, <3>2 DEF GInv
      <3>3. CASE Has(w, "member_added", s)
        <4>1. EventOf(x).name \in Name /\ Has(x, EventOf(x).name, s)
          BY <3>1, HoldsIs DEF Phase
        <4>2. QED
          BY <1>3, <2>2, <3>3, <4>1 DEF Name
      <3>4. QED
        BY <1>5, <3>2, <3>3
    <2>3. QED
      BY <2>1, <2>2
  <1>6. QED
    BY <1>4, <1>5 DEF GInv

\* Nobody is forgotten when request w makes a step.
LEMMA NInvKept ==
    ASSUME TInv, MInv, NInv, NEW w \in Webhook, UNCHANGED <<online, outbox, met, resorted>>,
           dropped \subseteq dropped', online \subseteq Subscribable,
           \A x \in Webhook \ {w} : hook'[x] = hook[x],
           \A name, s : Has(w, name, s)' => Has(w, name, s),
           \A s \in Subscribable : Joined(s)' => Joined(s) \/ Has(w, "member_added", s),
           \A s \in Subscribable : Joined(s) /\ ~Joined(s)' /\ s \in online =>
              Forgettable(s)' \/ s \in Elements(outbox),
           \A s \in Subscribable : Has(w, "member_added", s) /\ ~Has(w, "member_added", s)' =>
              Forgettable(s)' \/ Joined(s)',
           \A s \in Subscribable : hook'[w].phase = "join" /\ EventOf(w)'.at = s => Forgettable(s)' \/ StillThere(w)',
           \A x \in Webhook \ {w} : \A s \in Subscribable :
              hook[x].phase = "join" /\ EventOf(x).at = s /\ StillThere(x) => Forgettable(s)' \/ StillThere(x)',
           \A s \in Subscribable : hook'[w].phase = "delete_channel" /\ EventOf(w)'.at[1] = s[1] /\ Joined(s)' =>
              Forgettable(s)'
    PROVE  NInv'
  <1>1. \A s : Forgettable(s) => Forgettable(s)'
    BY DEF Forgettable
  <1>2. \A x \in Webhook \ {w} : EventOf(x)' = EventOf(x) /\ \A name, s : Has(x, name, s)' <=> Has(x, name, s)
    BY SameHook
  <1>3. Elements(outbox)' = Elements(outbox) /\ online' = online
    BY DEF Elements
  <1>4. ASSUME NEW s \in online
        PROVE  Forgettable(s)' \/ Joined(s)' \/ s \in Elements(outbox)
                  \/ \E x \in Webhook : Has(x, "member_added", s)'
    <2>1. Forgettable(s) \/ Joined(s) \/ s \in Elements(outbox) \/ \E x \in Webhook : Has(x, "member_added", s)
      BY DEF NInv
    <2>2. ASSUME NEW x \in Webhook, Has(x, "member_added", s)
          PROVE  Forgettable(s)' \/ Joined(s)' \/ Has(x, "member_added", s)'
      BY <1>2, <2>2
    <2>3. QED
      BY <1>1, <2>1, <2>2
  <1>5. ASSUME NEW s \in online, NEW x \in Webhook, Has(x, "member_removed", s)'
        PROVE  Forgettable(s)' \/ s \in Elements(outbox)
    <2>1. Has(x, "member_removed", s)
      BY <1>2, <1>5
    <2>2. QED
      BY <1>1, <2>1 DEF NInv
  <1>6. ASSUME NEW x \in Webhook, NEW s \in Subscribable, hook'[x].phase = "join", EventOf(x)'.at = s
        PROVE  Forgettable(s)' \/ StillThere(x)'
    <2>1. CASE x = w
      BY <1>6, <2>1
    <2>2. CASE x # w
      <3>1. hook[x].phase = "join" /\ EventOf(x).at = s
        BY <1>2, <1>6, <2>2
      <3>2. Forgettable(s) \/ StillThere(x)
        BY <3>1 DEF NInv
      <3>3. QED
        BY <1>1, <2>2, <3>1, <3>2
    <2>3. QED
      BY <2>1, <2>2
  <1>7. ASSUME NEW x \in Webhook, NEW s \in Subscribable,
               hook'[x].phase = "delete_channel", EventOf(x)'.at[1] = s[1], Joined(s)'
        PROVE  Forgettable(s)'
    <2>1. CASE x = w
      BY <1>7, <2>1
    <2>2. CASE x # w
      <3>1. hook[x].phase = "delete_channel" /\ EventOf(x).at[1] = s[1]
        BY <1>2, <1>7, <2>2
      <3>2. CASE Joined(s)
        BY <1>1, <3>1, <3>2 DEF NInv
      <3>3. CASE Has(w, "member_added", s)
        <4>1. Holds(x, EventOf(x).at) /\ EventOf(x).at \in Subscribable
          BY <3>1, HoldsIs DEF Phase
        <4>2. Holds(w, s)
          BY <3>3 DEF Holds, Name
        <4>3. <<s[1], s[2], EventOf(x).at[2]>> \in met
          BY <2>2, <3>1, <4>1, <4>2 DEF MInv
        <4>4. Forgettable(s)
          BY <4>3 DEF Forgettable
        <4>5. QED
          BY <1>1, <4>4
      <3>4. QED
        BY <1>7, <3>2, <3>3
    <2>3. QED
      BY <2>1, <2>2
  <1>8. QED
    BY <1>3, <1>4, <1>5, <1>6, <1>7 DEF NInv
-----------------------------------------------------------------------------
JoinsOK == \A j \in joins : \E s \in Subscribable : j = <<channels[s[1]], s[2]>> /\ j[1] > 0

\* The types are kept when request w makes a step.
LEMMA TInvKept ==
    ASSUME TInv, NEW w \in Webhook, online' \subseteq Subscribable, outbox' \in Seq(Event),
           changes' \in 0..MaxChanges, resorted' \cup dropped' \subseteq Subscribable,
           channels' \in [Channel -> Nat], rows' \in Nat, rows <= rows', RowsOK', JoinsOK',
           hook' \in [Webhook -> HookState], \A x \in Webhook \ {w} : hook'[x] = hook[x],
           hook'[w].phase \in Phase => HookOK(w)'
    PROVE  TInv'
  <1>1. rows \in Nat
    BY DEF TInv, PresenceTypeOK
  <1>2. ASSUME NEW x \in Webhook \ {w}, hook'[x].phase \in Phase
        PROVE  HookOK(x)'
    <2>1. HookOK(x) /\ hook'[x] = hook[x]
      BY <1>2 DEF TInv
    <2>2. EventOf(x)' = EventOf(x)
      BY <2>1, SameHook
    <2>3. QED
      BY <1>1, <2>1, <2>2 DEF HookOK
  <1>3. QED
    BY <1>2 DEF TInv, PresenceTypeOK, JoinsOK, HookState

LEMMA Types ==
    ASSUME TInv, PresenceAssumption
    PROVE  /\ online \subseteq Subscribable /\ outbox \in Seq(Event)
           /\ changes \in 0..MaxChanges /\ resorted \cup dropped \subseteq Subscribable
           /\ channels \in [Channel -> Nat] /\ rows \in Nat /\ RowsOK /\ JoinsOK
           /\ hook \in [Webhook -> HookState]
           /\ \A w \in Webhook : hook[w].phase \in Phase =>
                 /\ hook[w] \in Handling /\ HookOK(w) /\ hook[w].row \in Nat
                 /\ EventOf(w).at \in Subscribable /\ EventOf(w).at[1] \in Channel /\ Row(w) \in Nat
           /\ \A s \in Subscribable : s[1] \in Channel /\ channels[s[1]] \in Nat
  <1>1. PresenceTypeOK /\ RowsOK /\ \A w \in Webhook : hook[w].phase \in Phase => HookOK(w)
    BY DEF TInv
  <1>2. \A s \in Subscribable : s[1] \in Channel /\ channels[s[1]] \in Nat
    BY <1>1 DEF PresenceTypeOK, Channel
  <1>3. ASSUME NEW w \in Webhook, hook[w].phase \in Phase
        PROVE  hook[w] \in Handling /\ hook[w].row \in Nat /\ EventOf(w).at \in Subscribable
    <2>1. hook[w] \in Handling
      BY <1>1, <1>3, Phases DEF PresenceTypeOK, HookState
    <2>2. QED
      BY <1>3, <2>1, HoldsIs DEF Handling
  <1>4. QED
    BY <1>1, <1>2, <1>3 DEF PresenceTypeOK, JoinsOK, HookState, Row

\* The hook of a request that has the same events to handle.
LEMMA HookOKKept ==
    ASSUME TInv, PresenceAssumption, NEW w \in Webhook, hook[w].phase \in Phase, hook'[w].phase \in Phase,
           hook'[w].events = hook[w].events, hook'[w].left = hook[w].left,
           hook'[w].phase = "join" => EventOf(w).name = "member_added" /\ hook'[w].row \in 1..rows',
           hook'[w].phase \in {"delete_join", "find_joins", "delete_channel"} => EventOf(w).name = "member_removed"
    PROVE  HookOK(w)'
  <1>1. EventOf(w)' = EventOf(w)
    BY SameHook
  <1>2. HookOK(w)
    BY DEF TInv
  <1>3. QED
    BY <1>1, <1>2 DEF HookOK

LEMMA HookOKNext ==
    ASSUME TInv, PresenceAssumption, NEW w \in Webhook, hook[w].phase \in Phase, NextEvent(w)
    PROVE  hook'[w].phase \in Phase => HookOK(w)'
  <1>1. /\ hook[w].left # {} /\ hook[w].left \subseteq DOMAIN hook[w].events
        /\ Current(w) \in hook[w].left
    BY CurrentIs DEF TInv, HookOK
  <1>2. \/ hook[w].left = {Current(w)} /\ hook'[w].phase = "answered"
        \/ /\ hook[w].left # {Current(w)}
           /\ hook'[w].phase = "event" /\ hook'[w].events = hook[w].events
           /\ hook'[w].left = hook[w].left \ {Current(w)}
    BY NextDoes
  <1>3. QED
    BY <1>1, <1>2 DEF HookOK, Phase
-----------------------------------------------------------------------------
LEMMA LastKept ==
    ASSUME LastTells, UNCHANGED <<online, outbox>>
    PROVE  LastTells'
  BY DEF LastTells

LEMMA GetChannelKeeps ==
    ASSUME PresenceAssumption, PresenceInv, NEW w \in Webhook, GetChannel(w)
    PROVE  PresenceInv'
  <1> DEFINE at == EventOf(w).at
             c == at[1]
             row == IF Row(w) # 0 THEN Row(w) ELSE rows + 1
  <1>1. TInv /\ MInv /\ LastTells /\ GInv /\ NInv
    BY DEF PresenceInv
  <1>2. /\ hook[w].phase = "event" /\ EventOf(w).name = "member_added"
        /\ channels' = [channels EXCEPT ![c] = row]
        /\ rows' = IF Row(w) # 0 THEN rows ELSE rows + 1
        /\ hook' = [hook EXCEPT ![w].phase = "join", ![w].row = row]
        /\ UNCHANGED <<online, outbox, changes, joins, met, resorted, dropped>>
    BY DEF GetChannel, Of, In
  <1>3. hook[w].phase \in Phase /\ "join" \in Phase
    BY <1>2 DEF Phase
  <1>4. /\ channels \in [Channel -> Nat] /\ rows \in Nat /\ at \in Subscribable /\ c \in Channel
        /\ Row(w) \in Nat /\ Row(w) = channels[c] /\ RowsOK /\ JoinsOK
        /\ \A s \in Subscribable : s[1] \in Channel /\ channels[s[1]] \in Nat
    BY <1>1, <1>3, Types DEF Row
  <1>5. /\ row \in Nat /\ row \in 1..rows' /\ rows' \in Nat /\ rows <= rows'
        /\ channels' \in [Channel -> Nat] /\ channels'[c] = row
        /\ \A d \in Channel \ {c} : channels'[d] = channels[d]
        /\ channels[c] # 0 => channels' = channels
    BY <1>2, <1>4 DEF RowsOK
  <1> HIDE DEF row
  <1>6. RowsOK'
    <2>1. CASE Row(w) # 0
      <3>1. channels' = channels /\ rows' = rows
        BY <1>2, <1>4, <1>5, <2>1
      <3>2. QED
        BY <1>4, <3>1 DEF RowsOK
    <2>2. CASE Row(w) = 0
      <3>1. row = rows + 1 /\ rows' = rows + 1
        BY <1>2, <2>2 DEF row
      <3>2. \A d \in Channel \ {c} : channels'[d] <= rows /\ channels'[d] \in Nat
        BY <1>4, <1>5 DEF RowsOK
      <3>3. QED
        BY <1>4, <1>5, <3>1, <3>2 DEF RowsOK
    <2>3. QED
      BY <2>1, <2>2
  <1>7. \A s \in Subscribable : channels[s[1]] # 0 => channels'[s[1]] = channels[s[1]]
    BY <1>4, <1>5
  <1>8. JoinsOK'
    <2>1. ASSUME NEW j \in joins
          PROVE  \E s \in Subscribable : j = <<channels'[s[1]], s[2]>> /\ j[1] > 0
      <3>1. PICK s \in Subscribable : j = <<channels[s[1]], s[2]>> /\ j[1] > 0
        BY <1>4 DEF JoinsOK
      <3>2. channels'[s[1]] = channels[s[1]]
        BY <1>4, <1>7, <3>1
      <3>3. QED
        BY <3>1, <3>2
    <2>2. QED
      BY <1>2, <2>1 DEF JoinsOK
  <1>9. /\ hook' \in [Webhook -> HookState]
        /\ \A x \in Webhook \ {w} : hook'[x] = hook[x]
        /\ hook'[w].phase = "join" /\ hook'[w].row = row
        /\ hook'[w].events = hook[w].events /\ hook'[w].left = hook[w].left
    BY <1>1, <1>2, <1>3, <1>5, GoOnDoes
  <1>10. EventOf(w)' = EventOf(w) /\ \A name, s : Has(w, name, s)' <=> Has(w, name, s)
    BY <1>3, <1>9, SameHook
  <1>11. TInv'
    <2>1. HookOK(w)'
      BY <1>1, <1>2, <1>3, <1>5, <1>9, HookOKKept
    <2>2. online' \subseteq Subscribable /\ outbox' \in Seq(Event) /\ changes' \in 0..MaxChanges /\ resorted' \cup dropped' \subseteq Subscribable
      BY <1>1, <1>2, Types
    <2>3. QED
      BY <1>1, <1>5, <1>6, <1>8, <1>9, <2>1, <2>2, TInvKept
  <1>12. MInv' /\ LastTells'
    <2>1. \A x \in Webhook \ {w} : \A name, s : Has(x, name, s)' <=> Has(x, name, s)
      BY <1>9, SameHook
    <2>2. QED
      BY <1>1, <1>2, <1>10, <2>1, MInvKept, LastKept
  <1>13. \A s \in Subscribable : Joined(s)' <=> Joined(s)
    <2>1. TAKE s \in Subscribable
    <2>2. CASE channels[s[1]] # 0
      BY <1>2, <1>7, <2>2 DEF Joined
    <2>3. CASE channels[s[1]] = 0
      <3>1. ~Joined(s)
        BY <1>1, <2>3, JoinedIs
      <3>2. channels'[s[1]] = 0 \/ channels'[s[1]] = rows + 1
        BY <1>4, <1>5, <2>3 DEF row
      <3>3. \A j \in joins : j[1] # 0 /\ j[1] <= rows
        BY <1>4 DEF JoinsOK, RowsOK
      <3>4. QED
        BY <1>2, <1>4, <3>1, <3>2, <3>3 DEF Joined
    <2>4. QED
      BY <2>2, <2>3
  <1>14. GInv'
    BY <1>1, <1>2, <1>9, <1>10, <1>13, GInvKept
  <1>15. StillThere(w)'
    BY <1>5, <1>9, <1>10 DEF StillThere, Row
  <1>16. ASSUME NEW x \in Webhook \ {w}, hook[x].phase = "join", StillThere(x)
         PROVE  StillThere(x)'
    <2>1. hook[x].phase \in Phase
      BY <1>16 DEF Phase
    <2>2. EventOf(x)' = EventOf(x) /\ hook'[x] = hook[x]
      BY <1>9, SameHook
    <2>3. hook[x].row # 0 /\ EventOf(x).at \in Subscribable
      BY <1>1, <1>16, <2>1, Types DEF HookOK
    <2>4. QED
      BY <1>7, <1>16, <2>2, <2>3 DEF StillThere, Row
  <1>17. online \subseteq Subscribable /\ dropped \subseteq dropped'
    BY <1>1, <1>2, Types
  <1>18. NInv'
    BY <1>1, <1>2, <1>9, <1>10, <1>13, <1>15, <1>16, <1>17, NInvKept
  <1>19. QED
    BY <1>11, <1>12, <1>14, <1>18 DEF PresenceInv
-----------------------------------------------------------------------------
Removing == {"delete_join", "find_joins", "delete_channel"}

\* What every step of a request about its event keeps.
LEMMA MoveKeeps ==
    ASSUME PresenceAssumption, PresenceInv, NEW w \in Webhook, hook[w].phase \in Phase,
           \/ NextEvent(w)
           \/ EventOf(w).name = "member_removed" /\ \E phase \in Removing : GoOn(w, phase),
           UNCHANGED <<online, outbox, changes, rows, met, resorted, dropped>>,
           channels' \in [Channel -> Nat], RowsOK', JoinsOK'
    PROVE  /\ TInv' /\ MInv' /\ LastTells'
           /\ \A x \in Webhook \ {w} : hook'[x] = hook[x]
           /\ \A name, s : Has(w, name, s)' => Has(w, name, s)
  <1>1. TInv /\ MInv /\ LastTells
    BY DEF PresenceInv
  <1>2. /\ hook' \in [Webhook -> HookState]
        /\ \A x \in Webhook \ {w} : hook'[x] = hook[x]
        /\ hook'[w].phase \in Phase => HookOK(w)'
        /\ \A name, s : Has(w, name, s)' => Has(w, name, s)
    <2>1. CASE NextEvent(w)
      BY <1>1, <2>1, NextDoes, NextHas, HookOKNext
    <2>2. ASSUME NEW phase \in Removing, GoOn(w, phase), EventOf(w).name = "member_removed"
          PROVE  <1>2
      <3>1. hook[w].row \in Nat
        BY <1>1, Types
      <3>2. phase \in Phase
        BY DEF Phase, Removing
      <3>3. /\ hook' \in [Webhook -> HookState]
            /\ \A x \in Webhook \ {w} : hook'[x] = hook[x]
            /\ hook'[w].phase = phase
            /\ hook'[w].events = hook[w].events /\ hook'[w].left = hook[w].left
        BY <1>1, <2>2, <3>1, <3>2, GoOnDoes
      <3>4. \A name, s : Has(w, name, s)' <=> Has(w, name, s)
        BY <3>2, <3>3, SameHook
      <3>5. phase # "join"
        BY DEF Removing
      <3>6. HookOK(w)'
        BY <1>1, <2>2, <3>2, <3>3, <3>5, HookOKKept
      <3>7. QED
        BY <3>3, <3>4, <3>6
    <2>3. QED
      BY <2>1, <2>2
  <1>3. /\ online' \subseteq Subscribable /\ outbox' \in Seq(Event) /\ changes' \in 0..MaxChanges
        /\ resorted' \cup dropped' \subseteq Subscribable /\ rows' \in Nat /\ rows <= rows'
    BY <1>1, Types
  <1>4. TInv'
    BY <1>1, <1>2, <1>3, TInvKept
  <1>5. \A x \in Webhook \ {w} : \A name, s : Has(x, name, s)' <=> Has(x, name, s)
    BY <1>2, SameHook
  <1>6. QED
    BY <1>1, <1>2, <1>4, <1>5, MInvKept, LastKept

LEMMA AddMemberKeeps ==
    ASSUME PresenceAssumption, PresenceInv, NEW w \in Webhook, AddMember(w)
    PROVE  PresenceInv'
  <1>0. PICK at : at = EventOf(w).at
    OBVIOUS
  <1> DEFINE j == <<hook[w].row, at[2]>>
  <1>1. TInv /\ MInv /\ LastTells /\ GInv /\ NInv
    BY DEF PresenceInv
  <1>2. /\ hook[w].phase = "join" /\ NextEvent(w)
        /\ joins' = IF StillThere(w) THEN joins \cup {j} ELSE joins
        /\ UNCHANGED <<online, outbox, changes, channels, rows, met, resorted, dropped>>
    BY <1>0 DEF AddMember, In
  <1>3. hook[w].phase \in Phase
    BY <1>2 DEF Phase
  <1>4. /\ channels \in [Channel -> Nat] /\ rows \in Nat /\ at \in Subscribable /\ RowsOK /\ JoinsOK
        /\ EventOf(w).name = "member_added" /\ hook[w].row \in 1..rows
        /\ online \subseteq Subscribable
    BY <1>0, <1>1, <1>2, <1>3, Types DEF HookOK
  <1>5. StillThere(w) => j = <<channels[at[1]], at[2]>> /\ j[1] > 0
    BY <1>0, <1>4 DEF StillThere, Row
  <1>6. RowsOK' /\ JoinsOK' /\ channels' \in [Channel -> Nat]
    BY <1>2, <1>4, <1>5 DEF RowsOK, JoinsOK
  <1>7. /\ TInv' /\ MInv' /\ LastTells'
        /\ \A x \in Webhook \ {w} : hook'[x] = hook[x]
        /\ \A name, s : Has(w, name, s)' => Has(w, name, s)
    BY <1>2, <1>3, <1>6, MoveKeeps
  <1>8. /\ Has(w, "member_added", at)
        /\ \A s : Has(w, "member_removed", s) => Has(w, "member_removed", s)'
        /\ \A s : Has(w, "member_added", s) /\ s # at => Has(w, "member_added", s)'
    BY <1>0, <1>1, <1>2, <1>3, <1>4, NextHas
  <1>9. \A s \in Subscribable : Joined(s)' => Joined(s) \/ Has(w, "member_added", s)
    <2>1. ASSUME NEW s \in Subscribable, <<channels[s[1]], s[2]>> = j, StillThere(w)
          PROVE  s = at
      BY <1>1, <1>4, <1>5, <2>1, JoinedIs
    <2>2. QED
      BY <1>2, <1>8, <2>1 DEF Joined
  <1>10. \A s : Joined(s) => Joined(s)'
    BY <1>2 DEF Joined
  <1>11. hook'[w].phase \in {"answered", "event"}
    BY <1>1, <1>2, <1>3, NextDoes
  <1>12. GInv'
    BY <1>1, <1>2, <1>7, <1>8, <1>9, <1>11, GInvKept
  <1>13. Forgettable(at) \/ Joined(at)'
    <2>1. Forgettable(at) \/ StillThere(w)
      BY <1>0, <1>1, <1>2, <1>4 DEF NInv
    <2>2. StillThere(w) => Joined(at)'
      BY <1>2, <1>5 DEF Joined
    <2>3. QED
      BY <2>1, <2>2
  <1>14. \A s : Forgettable(s) => Forgettable(s)'
    BY <1>2 DEF Forgettable
  <1>15. ASSUME NEW x \in Webhook \ {w}, StillThere(x)
         PROVE  StillThere(x)'
    <2>1. EventOf(x)' = EventOf(x) /\ hook'[x] = hook[x]
      BY <1>7, SameHook
    <2>2. QED
      BY <1>2, <1>15, <2>1 DEF StillThere, Row
  <1>16. \A s \in Subscribable : Has(w, "member_added", s) /\ ~Has(w, "member_added", s)' =>
              Forgettable(s)' \/ Joined(s)'
    BY <1>8, <1>13, <1>14
  <1>17. NInv'
    BY <1>1, <1>2, <1>4, <1>7, <1>9, <1>10, <1>11, <1>15, <1>16, NInvKept
  <1>18. QED
    BY <1>7, <1>12, <1>17 DEF PresenceInv

\* A request that finds nothing to remove: the join, or another on the channel.
LEMMA FindJoinKeeps ==
    ASSUME PresenceAssumption, PresenceInv, NEW w \in Webhook, FindJoin(w)
    PROVE  PresenceInv'
  <1> DEFINE at == EventOf(w).at
  <1>1. TInv /\ MInv /\ LastTells /\ GInv /\ NInv
    BY DEF PresenceInv
  <1>2. /\ hook[w].phase = "event" /\ EventOf(w).name = "member_removed"
        /\ IF Joined(at) THEN GoOn(w, "delete_join") ELSE NextEvent(w)
        /\ UNCHANGED <<online, outbox, changes, channels, rows, joins, met, resorted, dropped>>
    BY DEF FindJoin, Of, In
  <1>3. hook[w].phase \in Phase
    BY <1>2 DEF Phase
  <1>4. /\ RowsOK' /\ JoinsOK' /\ channels' \in [Channel -> Nat] /\ at \in Subscribable
        /\ online \subseteq Subscribable /\ hook[w].row \in Nat
    BY <1>1, <1>2, <1>3, Types DEF RowsOK, JoinsOK
  <1>5. \/ NextEvent(w)
        \/ EventOf(w).name = "member_removed" /\ \E phase \in Removing : GoOn(w, phase)
    BY <1>2 DEF Removing
  <1>6. /\ TInv' /\ MInv' /\ LastTells'
        /\ \A x \in Webhook \ {w} : hook'[x] = hook[x]
        /\ \A name, s : Has(w, name, s)' => Has(w, name, s)
    BY <1>2, <1>3, <1>4, <1>5, MoveKeeps
  <1>7. \A s : Joined(s)' <=> Joined(s)
    BY <1>2 DEF Joined
  <1>8. hook'[w].phase \in {"answered", "event", "delete_join"}
    <2>1. GoOn(w, "delete_join") => hook'[w].phase = "delete_join"
      BY <1>1, <1>3, <1>4, GoOnDoes DEF Phase
    <2>2. QED
      BY <1>1, <1>2, <1>3, <2>1, NextDoes
  <1>9. \A s : Has(w, "member_removed", s) /\ ~Has(w, "member_removed", s)' => ~Has(w, "member_added", s) /\ ~Joined(s)'
    <2>1. CASE Joined(at)
      <3>1. hook'[w].phase = "delete_join" /\ hook'[w].events = hook[w].events /\ hook'[w].left = hook[w].left
        BY <1>1, <1>2, <1>3, <1>4, <2>1, GoOnDoes DEF Phase
      <3>2. \A name, s : Has(w, name, s)' <=> Has(w, name, s)
        BY <1>3, <3>1, SameHook DEF Phase
      <3>3. QED
        BY <3>2
    <2>2. CASE ~Joined(at)
      BY <1>1, <1>2, <1>3, <1>7, <2>2, NextHas
    <2>3. QED
      BY <2>1, <2>2
  <1>10. GInv'
    BY <1>1, <1>2, <1>6, <1>7, <1>8, <1>9, GInvKept
  <1>11. ASSUME NEW x \in Webhook \ {w}, StillThere(x)
         PROVE  StillThere(x)'
    <2>1. EventOf(x)' = EventOf(x) /\ hook'[x] = hook[x]
      BY <1>6, SameHook
    <2>2. QED
      BY <1>2, <1>11, <2>1 DEF StillThere, Row
  <1>12. \A s : Has(w, "member_added", s) => Has(w, "member_added", s)'
    <2>1. CASE Joined(at)
      <3>1. hook'[w].phase = "delete_join" /\ hook'[w].events = hook[w].events /\ hook'[w].left = hook[w].left
        BY <1>1, <1>2, <1>3, <1>4, <2>1, GoOnDoes DEF Phase
      <3>2. QED
        BY <1>3, <3>1, SameHook DEF Phase
    <2>2. CASE ~Joined(at)
      BY <1>1, <1>2, <1>3, <2>2, NextHas
    <2>3. QED
      BY <2>1, <2>2
  <1>13. NInv'
    BY <1>1, <1>2, <1>4, <1>6, <1>7, <1>8, <1>11, <1>12, NInvKept
  <1>14. QED
    BY <1>6, <1>10, <1>13 DEF PresenceInv

LEMMA DeleteJoinKeeps ==
    ASSUME PresenceAssumption, PresenceInv, NEW w \in Webhook, DeleteJoin(w)
    PROVE  PresenceInv'
  <1>0. PICK at : at = EventOf(w).at
    OBVIOUS
  <1>1. TInv /\ MInv /\ LastTells /\ GInv /\ NInv
    BY DEF PresenceInv
  <1>2. /\ hook[w].phase = "delete_join" /\ GoOn(w, "find_joins")
        /\ joins' = joins \ {<<channels[at[1]], at[2]>>}
        /\ UNCHANGED <<online, outbox, changes, channels, rows, met, resorted, dropped>>
    BY <1>0 DEF DeleteJoin, In, Row
  <1>3. hook[w].phase \in Phase /\ "find_joins" \in Phase
    BY <1>2 DEF Phase
  <1>4. /\ RowsOK' /\ JoinsOK' /\ channels' \in [Channel -> Nat] /\ at \in Subscribable
        /\ online \subseteq Subscribable /\ hook[w].row \in Nat /\ EventOf(w).name = "member_removed"
    BY <1>0, <1>1, <1>2, <1>3, Types DEF RowsOK, JoinsOK, HookOK
  <1>5. /\ TInv' /\ MInv' /\ LastTells'
        /\ \A x \in Webhook \ {w} : hook'[x] = hook[x]
        /\ \A name, s : Has(w, name, s)' => Has(w, name, s)
    <2>1. EventOf(w).name = "member_removed" /\ \E phase \in Removing : GoOn(w, phase)
      BY <1>2, <1>4 DEF Removing
    <2>2. QED
      BY <1>2, <1>3, <1>4, <2>1, MoveKeeps
  <1>6. hook'[w].phase = "find_joins" /\ hook'[w].events = hook[w].events /\ hook'[w].left = hook[w].left
    BY <1>1, <1>2, <1>3, <1>4, GoOnDoes
  <1>7. EventOf(w)' = EventOf(w) /\ \A name, s : Has(w, name, s)' <=> Has(w, name, s)
    BY <1>3, <1>6, SameHook
  <1>8. (\A s : Joined(s)' => Joined(s)) /\ ~Joined(at)'
    BY <1>2 DEF Joined
  <1>9. \A s \in Subscribable : Joined(s) /\ ~Joined(s)' => s = at
    <2>1. TAKE s \in Subscribable
    <2>2. HAVE Joined(s) /\ ~Joined(s)'
    <2>3. <<channels[s[1]], s[2]>> = <<channels[at[1]], at[2]>>
      BY <1>2, <2>2 DEF Joined
    <2>4. QED
      BY <1>1, <1>4, <2>2, <2>3, JoinedIs
  <1>10. GInv'
    BY <1>0, <1>1, <1>2, <1>5, <1>6, <1>7, <1>8, GInvKept
  <1>11. ASSUME NEW x \in Webhook \ {w}, StillThere(x)
         PROVE  StillThere(x)'
    <2>1. EventOf(x)' = EventOf(x) /\ hook'[x] = hook[x]
      BY <1>5, SameHook
    <2>2. QED
      BY <1>2, <1>11, <2>1 DEF StillThere, Row
  <1>12. at \in online => Forgettable(at)' \/ at \in Elements(outbox)
    <2>1. Has(w, "member_removed", at)
      BY <1>0, <1>1, <1>3, <1>4, HoldsIs
    <2>2. Forgettable(at) => Forgettable(at)'
      BY <1>2 DEF Forgettable
    <2>3. QED
      BY <1>1, <2>1, <2>2 DEF NInv
  <1>13. \A s \in Subscribable : Joined(s) /\ ~Joined(s)' /\ s \in online =>
              Forgettable(s)' \/ s \in Elements(outbox)
    BY <1>9, <1>12
  <1>14. NInv'
    BY <1>1, <1>2, <1>4, <1>5, <1>6, <1>7, <1>8, <1>11, <1>13, NInvKept
  <1>15. QED
    BY <1>5, <1>10, <1>14 DEF PresenceInv

LEMMA FindJoinsKeeps ==
    ASSUME PresenceAssumption, PresenceInv, NEW w \in Webhook, FindJoins(w)
    PROVE  PresenceInv'
  <1>0. PICK at : at = EventOf(w).at
    OBVIOUS
  <1>1. TInv /\ MInv /\ LastTells /\ GInv /\ NInv
    BY DEF PresenceInv
  <1>2. /\ hook[w].phase = "find_joins"
        /\ IF Empty(channels[at[1]]) THEN GoOn(w, "delete_channel") ELSE NextEvent(w)
        /\ UNCHANGED <<online, outbox, changes, channels, rows, joins, met, resorted, dropped>>
    BY <1>0 DEF FindJoins, In, Row
  <1>3. hook[w].phase \in Phase
    BY <1>2 DEF Phase
  <1>4. /\ RowsOK' /\ JoinsOK' /\ channels' \in [Channel -> Nat] /\ at \in Subscribable
        /\ online \subseteq Subscribable /\ hook[w].row \in Nat /\ EventOf(w).name = "member_removed"
    BY <1>0, <1>1, <1>2, <1>3, Types DEF RowsOK, JoinsOK, HookOK
  <1>5. /\ TInv' /\ MInv' /\ LastTells'
        /\ \A x \in Webhook \ {w} : hook'[x] = hook[x]
        /\ \A name, s : Has(w, name, s)' => Has(w, name, s)
    <2>1. NextEvent(w) \/ (EventOf(w).name = "member_removed" /\ \E phase \in Removing : GoOn(w, phase))
      BY <1>2, <1>4 DEF Removing
    <2>2. QED
      BY <1>2, <1>3, <1>4, <2>1, MoveKeeps
  <1>6. \A s : Joined(s)' <=> Joined(s)
    BY <1>2 DEF Joined
  <1>7. \A s : Ghostly(s)' <=> Ghostly(s)
    BY <1>2 DEF Ghostly
  <1>8. Joined(at) => Ghostly(at)
    BY <1>0, <1>1, <1>2, <1>4 DEF GInv
  <1>9. ASSUME GoOn(w, "delete_channel"), Empty(channels[at[1]])
        PROVE  /\ hook'[w].phase = "delete_channel" /\ EventOf(w)' = EventOf(w)
               /\ \A name, s : Has(w, name, s)' <=> Has(w, name, s)
               /\ \A s : s[1] = at[1] => ~Joined(s)
    <2>1. hook'[w].phase = "delete_channel" /\ hook'[w].events = hook[w].events /\ hook'[w].left = hook[w].left
      BY <1>1, <1>3, <1>4, <1>9, GoOnDoes DEF Phase
    <2>2. \A s : s[1] = at[1] => ~Joined(s)
      BY <1>9 DEF Joined, Empty
    <2>3. QED
      BY <1>3, <2>1, <2>2, SameHook DEF Phase
  <1>10. ASSUME NextEvent(w)
         PROVE  /\ hook'[w].phase \in {"answered", "event"}
                /\ \A s : Has(w, "member_added", s) => Has(w, "member_added", s)'
                /\ \A s : Has(w, "member_removed", s) /\ ~Has(w, "member_removed", s)' =>
                      ~Has(w, "member_added", s) /\ s = at
    BY <1>0, <1>1, <1>3, <1>4, <1>10, NextDoes, NextHas
  <1>11. \A s \in Subscribable : Has(w, "member_removed", s) /\ ~Has(w, "member_removed", s)'
              => Ghostly(s)' \/ (~Has(w, "member_added", s) /\ ~Joined(s)')
    BY <1>2, <1>6, <1>7, <1>8, <1>9, <1>10
  <1>12. \A s \in Subscribable :
              hook'[w].phase \in {"find_joins", "delete_channel"} /\ EventOf(w)'.at = s /\ Joined(s)' => Ghostly(s)'
    BY <1>0, <1>2, <1>6, <1>9, <1>10
  <1>13. GInv'
    BY <1>1, <1>2, <1>5, <1>6, <1>11, <1>12, GInvKept
  <1>14. ASSUME NEW x \in Webhook \ {w}, StillThere(x)
         PROVE  StillThere(x)'
    <2>1. EventOf(x)' = EventOf(x) /\ hook'[x] = hook[x]
      BY <1>5, SameHook
    <2>2. QED
      BY <1>2, <1>14, <2>1 DEF StillThere, Row
  <1>15. /\ \A s : Has(w, "member_added", s) => Has(w, "member_added", s)'
         /\ hook'[w].phase # "join"
         /\ \A s \in Subscribable : hook'[w].phase = "delete_channel" /\ EventOf(w)'.at[1] = s[1] => ~Joined(s)'
    BY <1>0, <1>2, <1>6, <1>9, <1>10
  <1>16. NInv'
    BY <1>1, <1>2, <1>4, <1>5, <1>6, <1>14, <1>15, NInvKept
  <1>17. QED
    BY <1>5, <1>13, <1>16 DEF PresenceInv

\* The channel goes with its joins, which are not many unless requests met.
LEMMA DeleteChannelKeeps ==
    ASSUME PresenceAssumption, PresenceInv, NEW w \in Webhook, DeleteChannel(w)
    PROVE  PresenceInv'
  <1>0. PICK at : at = EventOf(w).at
    OBVIOUS
  <1>1. TInv /\ MInv /\ LastTells /\ GInv /\ NInv
    BY DEF PresenceInv
  <1>2. /\ hook[w].phase = "delete_channel" /\ NextEvent(w)
        /\ \/ /\ channels' = [channels EXCEPT ![at[1]] = 0]
              /\ joins' = {j \in joins : j[1] # channels[at[1]]}
           \/ UNCHANGED <<channels, joins>>
        /\ UNCHANGED <<online, outbox, changes, rows, met, resorted, dropped>>
    BY <1>0 DEF DeleteChannel, In, Row
  <1>3. hook[w].phase \in Phase
    BY <1>2 DEF Phase
  <1>4. /\ channels \in [Channel -> Nat] /\ RowsOK /\ JoinsOK /\ rows \in Nat
        /\ at \in Subscribable /\ at[1] \in Channel
        /\ online \subseteq Subscribable /\ EventOf(w).name = "member_removed"
        /\ \A s \in Subscribable : s[1] \in Channel /\ channels[s[1]] \in Nat
    BY <1>0, <1>1, <1>2, <1>3, Types DEF HookOK
  <1>5. /\ channels' \in [Channel -> Nat]
        /\ \A c \in Channel \ {at[1]} : channels'[c] = channels[c]
        /\ channels'[at[1]] = channels[at[1]] \/ channels'[at[1]] = 0
    BY <1>2, <1>4
  <1>6. RowsOK'
    BY <1>2, <1>4, <1>5 DEF RowsOK
  <1>7. JoinsOK'
    <2>1. CASE UNCHANGED <<channels, joins>>
      BY <1>4, <2>1 DEF JoinsOK
    <2>2. CASE joins' = {j \in joins : j[1] # channels[at[1]]}
      <3>1. ASSUME NEW j \in joins, j[1] # channels[at[1]]
            PROVE  \E s \in Subscribable : j = <<channels'[s[1]], s[2]>> /\ j[1] > 0
        <4>1. PICK s \in Subscribable : j = <<channels[s[1]], s[2]>> /\ j[1] > 0
          BY <1>4 DEF JoinsOK
        <4>2. channels'[s[1]] = channels[s[1]]
          BY <1>4, <1>5, <3>1, <4>1
        <4>3. QED
          BY <4>1, <4>2
      <3>2. QED
        BY <2>2, <3>1 DEF JoinsOK
    <2>3. QED
      BY <1>2, <2>1, <2>2
  <1>8. /\ TInv' /\ MInv' /\ LastTells'
        /\ \A x \in Webhook \ {w} : hook'[x] = hook[x]
        /\ \A name, s : Has(w, name, s)' => Has(w, name, s)
    BY <1>2, <1>3, <1>5, <1>6, <1>7, MoveKeeps
  <1>9. \A s \in Subscribable : Joined(s)' => Joined(s)
    <2>1. \A j \in joins : j[1] # 0
      BY <1>4 DEF JoinsOK
    <2>2. TAKE s \in Subscribable
    <2>3. channels'[s[1]] = channels[s[1]] \/ channels'[s[1]] = 0
      BY <1>4, <1>5
    <2>4. joins' \subseteq joins
      BY <1>2
    <2>5. QED
      BY <2>1, <2>3, <2>4 DEF Joined
  <1>10. \A s \in Subscribable : Joined(s) /\ ~Joined(s)' => s[1] = at[1]
    <2>1. TAKE s \in Subscribable
    <2>2. HAVE Joined(s) /\ ~Joined(s)'
    <2>3. SUFFICES ASSUME s[1] # at[1] PROVE FALSE
      OBVIOUS
    <2>4. channels'[s[1]] = channels[s[1]] /\ channels[s[1]] # 0
      BY <1>1, <1>4, <1>5, <2>2, <2>3, JoinedIs
    <2>5. channels[s[1]] # channels[at[1]]
      BY <1>4, <2>3, <2>4 DEF RowsOK
    <2>6. QED
      BY <1>2, <2>2, <2>4, <2>5 DEF Joined
  <1>11. \A s : (Ghostly(s)' <=> Ghostly(s)) /\ (Forgettable(s)' <=> Forgettable(s))
    BY <1>2 DEF Ghostly, Forgettable
  <1>12. Joined(at) => Ghostly(at)
    BY <1>0, <1>1, <1>2, <1>4 DEF GInv
  <1>13. /\ hook'[w].phase \in {"answered", "event"}
         /\ \A s : Has(w, "member_added", s) => Has(w, "member_added", s)'
         /\ \A s : Has(w, "member_removed", s) /\ ~Has(w, "member_removed", s)' =>
               ~Has(w, "member_added", s) /\ s = at
    BY <1>0, <1>1, <1>2, <1>3, <1>4, NextDoes, NextHas
  <1>14. \A s \in Subscribable : Has(w, "member_removed", s) /\ ~Has(w, "member_removed", s)'
              => Ghostly(s)' \/ (~Has(w, "member_added", s) /\ ~Joined(s)')
    BY <1>9, <1>11, <1>12, <1>13
  <1>15. GInv'
    BY <1>1, <1>2, <1>8, <1>9, <1>13, <1>14, GInvKept
  <1>16. ASSUME NEW x \in Webhook \ {w}, NEW s \in Subscribable,
                hook[x].phase = "join", EventOf(x).at = s, StillThere(x)
         PROVE  Forgettable(s)' \/ StillThere(x)'
    <2>1. EventOf(x)' = EventOf(x) /\ hook'[x] = hook[x]
      BY <1>8, SameHook
    <2>2. CASE s[1] # at[1]
      <3>1. channels'[s[1]] = channels[s[1]]
        BY <1>4, <1>5, <2>2
      <3>2. QED
        BY <1>16, <2>1, <3>1 DEF StillThere, Row
    <2>3. CASE s[1] = at[1]
      <3>1. Holds(x, s)
        BY <1>1, <1>16, HoldsIs DEF Phase
      <3>2. Holds(w, at)
        BY <1>0, <1>1, <1>3, HoldsIs
      <3>3. <<s[1], s[2], at[2]>> \in met
        BY <1>1, <1>4, <2>3, <3>1, <3>2 DEF MInv
      <3>4. Forgettable(s)
        BY <3>3 DEF Forgettable
      <3>5. QED
        BY <1>11, <3>4
    <2>4. QED
      BY <2>2, <2>3
  <1>17. \A s \in Subscribable : Joined(s) /\ ~Joined(s)' /\ s \in online =>
              Forgettable(s)' \/ s \in Elements(outbox)
    <2>1. TAKE s \in Subscribable
    <2>2. HAVE Joined(s) /\ ~Joined(s)' /\ s \in online
    <2>3. EventOf(w).at[1] = s[1]
      BY <1>0, <1>10, <2>2
    <2>4. Forgettable(s)
      BY <1>1, <1>2, <2>2, <2>3 DEF NInv
    <2>5. QED
      BY <1>11, <2>4
  <1>18. NInv'
    BY <1>1, <1>2, <1>4, <1>8, <1>9, <1>13, <1>16, <1>17, NInvKept
  <1>19. QED
    BY <1>8, <1>15, <1>18 DEF PresenceInv

\* What a request that is aborted was still to handle is known to be lost.
LEMMA AbortWebhookKeeps ==
    ASSUME PresenceAssumption, PresenceInv, NEW w \in Webhook, AbortWebhook(w)
    PROVE  PresenceInv'
  <1>1. TInv /\ MInv /\ LastTells /\ GInv /\ NInv
    BY DEF PresenceInv
  <1>2. /\ w \in Receiving
        /\ hook' = [hook EXCEPT ![w] = Answered] /\ dropped' = dropped \cup Left(w)
        /\ UNCHANGED <<online, outbox, changes, channels, rows, joins, met, resorted>>
    BY DEF AbortWebhook
  <1>3. /\ channels \in [Channel -> Nat] /\ rows \in Nat /\ rows <= rows /\ RowsOK' /\ JoinsOK'
        /\ online \subseteq Subscribable /\ outbox \in Seq(Event) /\ changes \in 0..MaxChanges
        /\ resorted \cup dropped \subseteq Subscribable
    BY <1>1, <1>2, Types DEF RowsOK, JoinsOK
  <1>4. hook[w].phase \in Phase /\ \A s : Holds(w, s) <=> s \in Left(w)
    BY <1>1, <1>2, HoldsIs
  <1>5. Left(w) \subseteq Subscribable
    <2>1. \A i \in hook[w].left : hook[w].events[i] \in Event
      BY <1>1, <1>4, CurrentIs
    <2>2. QED
      BY <2>1 DEF Left, Event
  <1>6. /\ hook' \in [Webhook -> HookState] /\ hook'[w] = Answered
        /\ \A x \in Webhook \ {w} : hook'[x] = hook[x]
    <2>1. Answered \in HookState /\ PresenceTypeOK
      BY <1>1 DEF HookState, TInv
    <2>2. QED
      BY <1>2, <2>1, PutTyped
  <1>7. hook'[w].phase = "answered" /\ hook'[w].phase \notin Phase
    BY <1>6 DEF Answered, Phase
  <1>8. TInv'
    BY <1>1, <1>2, <1>3, <1>5, <1>6, <1>7, TInvKept
  <1>9. \A name, s : ~Has(w, name, s)'
    BY <1>7 DEF Has
  <1>10. \A x \in Webhook \ {w} : \A name, s : Has(x, name, s)' <=> Has(x, name, s)
    BY <1>6, SameHook
  <1>11. MInv' /\ LastTells'
    BY <1>1, <1>2, <1>9, <1>10, MInvKept, LastKept
  <1>12. \A s, name : Has(w, name, s) => Ghostly(s)' /\ Forgettable(s)'
    <2>1. \A s, name : Has(w, name, s) => s \in dropped'
      BY <1>1, <1>2, <1>4, HoldsIs
    <2>2. QED
      BY <2>1 DEF Ghostly, Forgettable
  <1>13. \A s : Joined(s)' <=> Joined(s)
    BY <1>2 DEF Joined
  <1>14. GInv'
    BY <1>1, <1>2, <1>6, <1>7, <1>9, <1>12, <1>13, GInvKept
  <1>15. ASSUME NEW x \in Webhook \ {w}, StillThere(x)
         PROVE  StillThere(x)'
    <2>1. EventOf(x)' = EventOf(x) /\ hook'[x] = hook[x]
      BY <1>6, SameHook
    <2>2. QED
      BY <1>2, <1>15, <2>1 DEF StillThere, Row
  <1>16. NInv'
    BY <1>1, <1>2, <1>3, <1>6, <1>7, <1>9, <1>12, <1>13, <1>15, NInvKept
  <1>17. QED
    BY <1>8, <1>11, <1>14, <1>16 DEF PresenceInv
-----------------------------------------------------------------------------
\* The events of a batch and those after it.
LEMMA CutIs ==
    ASSUME TInv, PresenceAssumption, NEW n \in 1..Len(outbox)
    PROVE  /\ n \in Nat /\ Len(outbox) \in Nat /\ DOMAIN outbox = 1..Len(outbox)
           /\ Batch(n) \in Seq(Event) /\ DOMAIN Batch(n) = 1..n
           /\ \A i \in 1..n : Batch(n)[i] = outbox[i] /\ outbox[i] \in Event
           /\ Rest(n) \in Seq(Event) /\ DOMAIN Rest(n) = 1..(Len(outbox) - n)
           /\ \A i \in 1..(Len(outbox) - n) : Rest(n)[i] = outbox[n + i]
           /\ \A s \in Elements(outbox) : s \in Elements(Batch(n)) \cup Elements(Rest(n))
           /\ Elements(Batch(n)) \cup Elements(Rest(n)) \subseteq Elements(outbox) \cap Subscribable
  <1>1. outbox \in Seq(Event)
    BY Types
  <1>2. Len(outbox) \in Nat /\ DOMAIN outbox = 1..Len(outbox) /\ \A i \in 1..Len(outbox) : outbox[i] \in Event
    BY <1>1, LenProperties, ElementOfSeq
  <1>3. n \in Nat /\ n \in Int /\ n >= 1 /\ n <= Len(outbox)
    BY <1>2
  <1>4. \A i \in 1..n : outbox[i] \in Event
    BY <1>2, <1>3
  <1>5. /\ Batch(n) \in Seq(Event) /\ Len(Batch(n)) = n
        /\ \A i \in 1..n : Batch(n)[i] = outbox[i]
    <2>1. /\ SubSeq(outbox, 1, n) \in Seq(Event)
          /\ Len(SubSeq(outbox, 1, n)) = IF 1 <= n THEN n - 1 + 1 ELSE 0
          /\ \A i \in 1..n-1+1 : SubSeq(outbox, 1, n)[i] = outbox[1 + i - 1]
      BY <1>3, <1>4, SubSeqProperties
    <2>2. \A i \in 1..n : i \in 1..n-1+1 /\ 1 + i - 1 = i
      BY <1>3
    <2>3. QED
      BY <1>3, <2>1, <2>2 DEF Batch
  <1>6. /\ Rest(n) \in Seq(Event) /\ Len(Rest(n)) = Len(outbox) - n
        /\ \A i \in 1..(Len(outbox) - n) : Rest(n)[i] = outbox[n + i]
    <2>1. \A i \in (n+1)..Len(outbox) : outbox[i] \in Event
      BY <1>2, <1>3
    <2>2. n + 1 \in Int /\ Len(outbox) \in Int
      BY <1>2, <1>3
    <2>3. /\ SubSeq(outbox, n + 1, Len(outbox)) \in Seq(Event)
          /\ Len(SubSeq(outbox, n + 1, Len(outbox))) = IF n + 1 <= Len(outbox) THEN Len(outbox) - (n + 1) + 1 ELSE 0
          /\ \A i \in 1..Len(outbox)-(n+1)+1 : SubSeq(outbox, n + 1, Len(outbox))[i] = outbox[n + 1 + i - 1]
      BY <2>1, <2>2, SubSeqProperties
    <2>4. ASSUME NEW i \in 1..(Len(outbox) - n)
          PROVE  Rest(n)[i] = outbox[n + i]
      <3>1. i \in 1..Len(outbox)-(n+1)+1 /\ n + 1 + i - 1 = n + i
        BY <1>2, <1>3
      <3>2. SubSeq(outbox, n + 1, Len(outbox))[i] = outbox[n + 1 + i - 1]
        BY SMTT(30), <2>3, <3>1
      <3>3. QED
        BY <3>1, <3>2 DEF Rest
    <2>5. (IF n + 1 <= Len(outbox) THEN Len(outbox) - (n + 1) + 1 ELSE 0) = Len(outbox) - n
      <3>1. \A m \in Nat : n <= m => (IF n + 1 <= m THEN m - (n + 1) + 1 ELSE 0) = m - n
        BY <1>3
      <3>2. QED
        BY <1>2, <1>3, <3>1
    <2>6. QED
      BY <2>3, <2>4, <2>5 DEF Rest
  <1>7. DOMAIN Batch(n) = 1..n /\ DOMAIN Rest(n) = 1..(Len(outbox) - n)
    BY <1>5, <1>6, LenProperties
  <1>8. \A s \in Elements(outbox) : s \in Elements(Batch(n)) \cup Elements(Rest(n))
    <2>1. TAKE s \in Elements(outbox)
    <2>2. PICK i \in 1..Len(outbox) : s = outbox[i].at
      BY <1>2 DEF Elements
    <2>3. CASE i <= n
      <3>1. i \in 1..n
        BY <1>2, <1>3, <2>2, <2>3
      <3>2. QED
        BY <1>5, <1>7, <2>2, <3>1 DEF Elements
    <2>4. CASE i > n
      <3>1. i - n \in 1..(Len(outbox) - n) /\ n + (i - n) = i
        BY <1>2, <1>3, <2>2, <2>4
      <3>2. Rest(n)[i - n] = outbox[i]
        BY <1>6, <3>1
      <3>3. QED
        BY <1>7, <2>2, <3>1, <3>2 DEF Elements
    <2>5. QED
      BY <1>2, <1>3, <2>3, <2>4
  <1>9. Elements(Batch(n)) \cup Elements(Rest(n)) \subseteq Elements(outbox) \cap Subscribable
    <2>1. \A i \in 1..n : i \in 1..Len(outbox)
      BY <1>2, <1>3
    <2>2. \A i \in 1..(Len(outbox) - n) : n + i \in 1..Len(outbox)
      BY <1>2, <1>3
    <2>3. \A i \in 1..Len(outbox) : outbox[i].at \in Elements(outbox) \cap Subscribable
      BY <1>2 DEF Elements, Event
    <2>4. Elements(Batch(n)) \subseteq Elements(outbox) \cap Subscribable
      BY <1>5, <1>7, <2>1, <2>3 DEF Elements
    <2>5. Elements(Rest(n)) \subseteq Elements(outbox) \cap Subscribable
      BY <1>6, <1>7, <2>2, <2>3 DEF Elements
    <2>6. QED
      BY <2>4, <2>5
  <1>10. QED
    BY <1>2, <1>3, <1>4, <1>5, <1>6, <1>7, <1>8, <1>9

\* The last event of a batch about s tells whether s is online, if no later one is about s.
LEMMA LastOf ==
    ASSUME TInv, PresenceAssumption, LastTells, NEW n \in 1..Len(outbox),
           NEW s, s \in Elements(Batch(n)), s \notin Elements(Rest(n))
    PROVE  \E i \in 1..n :
              /\ Batch(n)[i].at = s
              /\ \A j \in 1..n : j > i => Batch(n)[j].at # s
              /\ Batch(n)[i].name = "member_added" <=> s \in online
  <1>1. /\ n \in Nat /\ Len(outbox) \in Nat /\ DOMAIN outbox = 1..Len(outbox)
        /\ DOMAIN Batch(n) = 1..n /\ DOMAIN Rest(n) = 1..(Len(outbox) - n)
        /\ \A i \in 1..n : Batch(n)[i] = outbox[i]
        /\ \A i \in 1..(Len(outbox) - n) : Rest(n)[i] = outbox[n + i]
    BY CutIs
  <1> DEFINE S == {i \in 1..n : outbox[i].at = s}
             T == {k \in 1..n : n + 1 - k \in S}
  <1>2. PICK k \in T : \A j \in T : k <= j
    <2>1. PICK i \in 1..n : outbox[i].at = s
      BY <1>1 DEF Elements
    <2>2. n + 1 - i \in 1..n /\ n + 1 - (n + 1 - i) = i
      BY <1>1, <2>1
    <2>3. n + 1 - i \in T
      BY <2>1, <2>2
    <2>4. T \in SUBSET (1..n) /\ T # {}
      BY <2>3
    <2> HIDE DEF T
    <2>5. QED
      BY <1>1, <2>4, Smallest
  <1>3. PICK i \in 1..n : i = n + 1 - k /\ outbox[i].at = s
    BY <1>2
  <1>4. \A j \in 1..n : j > i => outbox[j].at # s
    <2>1. SUFFICES ASSUME NEW j \in 1..n, j > i, outbox[j].at = s PROVE FALSE
      OBVIOUS
    <2>2. n + 1 - j \in 1..n /\ n + 1 - (n + 1 - j) = j /\ j \in S
      BY <1>1, <2>1
    <2>3. n + 1 - j \in T
      BY <2>2
    <2>4. k \in 1..n
      BY <1>2
    <2> HIDE DEF T
    <2>5. k <= n + 1 - j
      BY <1>2, <2>3
    <2>6. QED
      BY <1>1, <1>3, <2>1, <2>4, <2>5
  <1>5. \A j \in DOMAIN outbox : j > i => outbox[j].at # outbox[i].at
    <2>1. SUFFICES ASSUME NEW j \in 1..Len(outbox), j > i, outbox[j].at = s PROVE FALSE
      BY <1>1, <1>3
    <2>2. j > n
      BY <1>1, <1>4, <2>1
    <2>3. j - n \in 1..(Len(outbox) - n) /\ n + (j - n) = j
      BY <1>1, <2>1, <2>2
    <2>4. Rest(n)[j - n] = outbox[j]
      BY <1>1, <2>3
    <2>5. QED
      BY <1>1, <2>1, <2>3, <2>4 DEF Elements
  <1>6. i \in DOMAIN outbox
    BY <1>1
  <1>7. outbox[i].name = "member_added" <=> outbox[i].at \in online
    BY <1>5, <1>6 DEF LastTells
  <1>8. QED
    BY <1>1, <1>3, <1>4, <1>7

LEMMA LastRest ==
    ASSUME TInv, PresenceAssumption, LastTells, NEW n \in 1..Len(outbox), outbox' = Rest(n), online' = online
    PROVE  LastTells'
  <1>1. /\ n \in Nat /\ Len(outbox) \in Nat /\ DOMAIN outbox = 1..Len(outbox)
        /\ DOMAIN Rest(n) = 1..(Len(outbox) - n)
        /\ \A i \in 1..(Len(outbox) - n) : Rest(n)[i] = outbox[n + i]
    BY CutIs
  <1>2. ASSUME NEW i \in 1..(Len(outbox) - n),
               \A j \in 1..(Len(outbox) - n) : j > i => outbox[n + j].at # outbox[n + i].at
        PROVE  outbox[n + i].name = "member_added" <=> outbox[n + i].at \in online
    <2>1. n + i \in 1..Len(outbox)
      BY <1>1
    <2>2. ASSUME NEW j \in 1..Len(outbox), j > n + i
          PROVE  outbox[j].at # outbox[n + i].at
      <3>1. j - n \in 1..(Len(outbox) - n) /\ j - n > i /\ n + (j - n) = j
        BY <1>1, <2>2
      <3>2. outbox[n + (j - n)].at # outbox[n + i].at
        BY <1>2, <3>1
      <3>3. QED
        BY <3>1, <3>2
    <2>3. QED
      BY <1>1, <2>1, <2>2 DEF LastTells
  <1>3. /\ DOMAIN outbox' = 1..(Len(outbox) - n)
        /\ \A i \in 1..(Len(outbox) - n) : outbox'[i] = outbox[n + i]
    BY <1>1
  <1>4. ASSUME NEW i \in DOMAIN outbox',
               \A j \in DOMAIN outbox' : j > i => outbox'[j].at # outbox'[i].at
        PROVE  outbox'[i].name = "member_added" <=> outbox'[i].at \in online'
    <2>1. i \in 1..(Len(outbox) - n) /\ outbox'[i] = outbox[n + i]
      BY <1>3, <1>4
    <2>2. \A j \in 1..(Len(outbox) - n) : j > i => outbox[n + j].at # outbox[n + i].at
      BY <1>3, <1>4, <2>1
    <2>3. QED
      BY <1>2, <2>1, <2>2
  <1>5. QED
    BY <1>4 DEF LastTells
-----------------------------------------------------------------------------
\* The requests are as they were.
LEMMA SameHooks ==
    ASSUME TInv, UNCHANGED hook, UNCHANGED <<channels, rows, joins>>
    PROVE  /\ RowsOK' /\ (JoinsOK => JoinsOK')
           /\ \A w \in Webhook : hook[w].phase \in Phase => HookOK(w)'
           /\ \A w \in Webhook : EventOf(w)' = EventOf(w) /\ (StillThere(w)' <=> StillThere(w))
           /\ \A w \in Webhook : \A name, s : Has(w, name, s)' <=> Has(w, name, s)
           /\ \A s : Joined(s)' <=> Joined(s)
  <1>1. \A w \in Webhook : EventOf(w)' = EventOf(w)
    BY SameHook
  <1>2. \A w \in Webhook : \A name, s : Has(w, name, s)' <=> Has(w, name, s)
    BY SameHook
  <1>3. \A w \in Webhook : Row(w)' = Row(w)
    BY <1>1 DEF Row
  <1>4. QED
    BY <1>1, <1>2, <1>3 DEF TInv, HookOK, RowsOK, JoinsOK, StillThere, Joined

\* Pusher notes that somebody joined or left.
LEMMA ChangeKeeps ==
    ASSUME PresenceAssumption, PresenceInv, NEW s \in Subscribable, Change(s)
    PROVE  PresenceInv'
  <1>1. TInv /\ MInv /\ LastTells /\ GInv /\ NInv
    BY DEF PresenceInv
  <1>2. /\ changes < MaxChanges /\ changes' = changes + 1
        /\ UNCHANGED <<channels, rows, joins, hook, met, resorted, dropped>>
    BY DEF Change
  <1>3. /\ online \subseteq Subscribable /\ outbox \in Seq(Event) /\ changes \in 0..MaxChanges
        /\ resorted \cup dropped \subseteq Subscribable /\ channels \in [Channel -> Nat] /\ rows \in Nat
        /\ JoinsOK /\ hook \in [Webhook -> HookState]
    BY <1>1, Types
  <1>4. PICK e \in Event : /\ outbox' = Append(outbox, e) /\ e.at = s
                           /\ online' = IF e.name = "member_added" THEN online \cup {s} ELSE online \ {s}
    BY DEF Change, Event, Name
  <1>5. /\ RowsOK' /\ JoinsOK' /\ \A w \in Webhook : hook[w].phase \in Phase => HookOK(w)'
        /\ \A w \in Webhook : EventOf(w)' = EventOf(w) /\ (StillThere(w)' <=> StillThere(w))
        /\ \A w \in Webhook : \A name, t : Has(w, name, t)' <=> Has(w, name, t)
        /\ \A t : Joined(t)' <=> Joined(t)
    BY <1>1, <1>2, <1>3, SameHooks
  <1>6. /\ Len(outbox) \in Nat /\ DOMAIN outbox = 1..Len(outbox) /\ outbox' \in Seq(Event)
        /\ DOMAIN outbox' = 1..(Len(outbox) + 1) /\ outbox'[Len(outbox) + 1] = e
        /\ \A i \in 1..Len(outbox) : outbox'[i] = outbox[i]
    <2>1. /\ Append(outbox, e) \in Seq(Event) /\ Len(Append(outbox, e)) = Len(outbox) + 1
          /\ \A i \in 1..Len(outbox) : Append(outbox, e)[i] = outbox[i]
          /\ Append(outbox, e)[Len(outbox) + 1] = e
      BY <1>3, AppendProperties
    <2>2. QED
      BY <1>3, <1>4, <2>1, LenProperties
  <1>7. Elements(outbox)' = Elements(outbox) \cup {s}
    <2>1. 1..(Len(outbox) + 1) = 1..Len(outbox) \cup {Len(outbox) + 1}
      BY <1>6
    <2>2. QED
      BY <1>4, <1>6, <2>1 DEF Elements
  <1>8. TInv'
    <2>1. changes' \in 0..MaxChanges
      BY <1>2, <1>3 DEF PresenceAssumption
    <2>2. PresenceTypeOK'
      BY <1>2, <1>3, <1>4, <1>5, <1>6, <2>1 DEF PresenceTypeOK, JoinsOK, HookState
    <2>3. QED
      BY <1>2, <1>5, <2>2 DEF TInv
  <1>9. MInv'
    BY <1>1, <1>2, <1>5, MInvKept
  <1>10. LastTells'
    <2>1. ASSUME NEW i \in DOMAIN outbox',
                 \A j \in DOMAIN outbox' : j > i => outbox'[j].at # outbox'[i].at
          PROVE  outbox'[i].name = "member_added" <=> outbox'[i].at \in online'
      <3>1. CASE i = Len(outbox) + 1
        BY <1>4, <1>6, <3>1
      <3>2. CASE i # Len(outbox) + 1
        <4>1. i \in 1..Len(outbox) /\ i < Len(outbox) + 1
          BY <1>6, <3>2
        <4>2. outbox'[i] = outbox[i] /\ outbox[i].at # s
          <5>1. Len(outbox) + 1 \in DOMAIN outbox'
            BY <1>6
          <5>2. QED
            BY <1>4, <1>6, <2>1, <4>1, <5>1
        <4>3. \A j \in DOMAIN outbox : j > i => outbox[j].at # outbox[i].at
          <5>1. \A j \in 1..Len(outbox) : j \in 1..(Len(outbox) + 1)
            BY <1>6
          <5>2. QED
            BY <1>6, <2>1, <4>2, <5>1
        <4>4. outbox[i].name = "member_added" <=> outbox[i].at \in online
          BY <1>1, <1>6, <4>1, <4>3 DEF LastTells
        <4>5. QED
          BY <1>4, <4>2, <4>4
      <3>3. QED
        BY <3>1, <3>2
    <2>2. QED
      BY <2>1 DEF LastTells
  <1>11. \A t : (Ghostly(t)' <=> Ghostly(t)) /\ (Forgettable(t)' <=> Forgettable(t))
    BY <1>2 DEF Ghostly, Forgettable
  <1>12. \A t : t # s => (t \in online' <=> t \in online)
    BY <1>4
  <1>13. GInv'
    BY <1>1, <1>2, <1>5, <1>7, <1>11, <1>12 DEF GInv
  <1>14. NInv'
    BY <1>1, <1>2, <1>5, <1>7, <1>11, <1>12 DEF NInv
  <1>15. QED
    BY <1>8, <1>9, <1>10, <1>13, <1>14 DEF PresenceInv

LEMMA DropBatchKeeps ==
    ASSUME PresenceAssumption, PresenceInv, DropBatch
    PROVE  PresenceInv'
  <1>1. TInv /\ MInv /\ LastTells /\ GInv /\ NInv
    BY DEF PresenceInv
  <1>2. PICK n \in 1..Len(outbox) : outbox' = Rest(n) /\ dropped' = dropped \cup Elements(Batch(n))
    BY DEF DropBatch
  <1>3. UNCHANGED <<online, changes, channels, rows, joins, hook, met, resorted>>
    BY DEF DropBatch
  <1>4. /\ online \subseteq Subscribable /\ changes \in 0..MaxChanges
        /\ resorted \cup dropped \subseteq Subscribable /\ channels \in [Channel -> Nat] /\ rows \in Nat
        /\ JoinsOK /\ hook \in [Webhook -> HookState]
    BY <1>1, Types
  <1>5. /\ RowsOK' /\ JoinsOK' /\ \A w \in Webhook : hook[w].phase \in Phase => HookOK(w)'
        /\ \A w \in Webhook : EventOf(w)' = EventOf(w) /\ (StillThere(w)' <=> StillThere(w))
        /\ \A w \in Webhook : \A name, t : Has(w, name, t)' <=> Has(w, name, t)
        /\ \A t : Joined(t)' <=> Joined(t)
    BY <1>1, <1>3, <1>4, SameHooks
  <1>6. /\ outbox' \in Seq(Event) /\ dropped' \subseteq Subscribable
        /\ \A s : s \in Elements(outbox) => s \in dropped' \/ s \in Elements(outbox)'
    <2>1. Elements(outbox)' = Elements(Rest(n))
      BY <1>2 DEF Elements
    <2>2. QED
      BY <1>1, <1>2, <1>4, <2>1, CutIs
  <1>7. TInv'
    <2>1. PresenceTypeOK'
      BY <1>3, <1>4, <1>5, <1>6 DEF PresenceTypeOK, JoinsOK, HookState
    <2>2. QED
      BY <1>3, <1>5, <2>1 DEF TInv
  <1>8. MInv' /\ LastTells'
    BY <1>1, <1>2, <1>3, <1>5, MInvKept, LastRest
  <1>9. \A s : (Ghostly(s) => Ghostly(s)') /\ (Forgettable(s) => Forgettable(s)')
    BY <1>2, <1>3 DEF Ghostly, Forgettable
  <1>10. \A s : s \in dropped' => Ghostly(s)' /\ Forgettable(s)'
    BY DEF Ghostly, Forgettable
  <1>11. GInv'
    BY <1>1, <1>3, <1>5, <1>6, <1>9, <1>10 DEF GInv
  <1>12. NInv'
    BY <1>1, <1>3, <1>5, <1>6, <1>9, <1>10 DEF NInv
  <1>13. QED
    BY <1>7, <1>8, <1>11, <1>12 DEF PresenceInv

\* Request w receives the first n events.
Received(w, n) ==
    /\ hook[w] = NotReceived
    /\ hook' = [hook EXCEPT ![w] = [phase |-> "event", events |-> Batch(n), left |-> 1..n, row |-> 0]]

InBatch(n, name, s) == \E i \in 1..n : Batch(n)[i].name = name /\ Batch(n)[i].at = s

\* What is known then.
LEMMA ReceiveDoes ==
    ASSUME PresenceAssumption, PresenceInv, NEW w \in Webhook, NEW n \in 1..Len(outbox), Received(w, n)
    PROVE  /\ hook' \in [Webhook -> HookState] /\ HookOK(w)'
           /\ \A x \in Webhook \ {w} : hook'[x] = hook[x]
           /\ hook'[w].phase = "event"
           /\ \A name, s : Has(w, name, s)' <=> InBatch(n, name, s)
           /\ \A s : Holds(w, s)' <=> s \in Elements(Batch(n))
           /\ \A name, s : ~Has(w, name, s)
  <1> DEFINE h == [phase |-> "event", events |-> Batch(n), left |-> 1..n, row |-> 0]
  <1>1. TInv /\ PresenceTypeOK
    BY DEF PresenceInv, TInv
  <1>2. /\ n \in Nat /\ Len(outbox) \in Nat /\ Batch(n) \in Seq(Event) /\ DOMAIN Batch(n) = 1..n
        /\ \A i \in 1..n : Batch(n)[i] = outbox[i] /\ outbox[i] \in Event
    BY <1>1, CutIs
  <1>3. 1..n \in SUBSET (Nat \ {0}) /\ 1..n # {}
    <2>1. n >= 1
      BY <1>2
    <2>2. 1 \in 1..n
      BY <1>2, <2>1
    <2>3. \A i \in 1..n : i \in Nat \ {0}
      BY <1>2
    <2>4. QED
      BY <2>2, <2>3
  <1>4. h \in HookState
    BY <1>2, <1>3 DEF HookState, Handling
  <1>5. h.phase = "event" /\ h.events = Batch(n) /\ h.left = 1..n
    OBVIOUS
  <1> HIDE DEF h
  <1>6. /\ hook' \in [Webhook -> HookState] /\ hook'[w] = h
        /\ \A x \in Webhook \ {w} : hook'[x] = hook[x]
    <2>1. hook' = [hook EXCEPT ![w] = h]
      BY DEF h, Received
    <2>2. QED
      BY <1>1, <1>4, <2>1, PutTyped
  <1>7. HookOK(w)'
    BY <1>2, <1>3, <1>5, <1>6 DEF HookOK
  <1>8. \A name, s : Has(w, name, s)' <=> InBatch(n, name, s)
    BY <1>5, <1>6 DEF Has, Phase, InBatch
  <1>9. \A name, s : ~Has(w, name, s)
    BY DEF Has, Phase, NotReceived, Received
  <1>10. \A i \in 1..n : Batch(n)[i].name \in Name
    BY <1>2 DEF Event
  <1>11. \A s : Holds(w, s)' <=> s \in Elements(Batch(n))
    BY <1>2, <1>8, <1>10 DEF Holds, Elements, InBatch
  <1>12. QED
    BY <1>5, <1>6, <1>7, <1>8, <1>9, <1>11

\* The last event about s of a batch is handled by the request that received it;
\* a removal before it is known to be one of the subscriptions renewed.
LEMMA LastReceived ==
    ASSUME PresenceAssumption, PresenceInv, NEW w \in Webhook, NEW n \in 1..Len(outbox), Received(w, n),
           NEW s, s \in Elements(Batch(n)), s \notin Elements(Rest(n))
    PROVE  /\ s \notin online => Has(w, "member_removed", s)'
           /\ s \in online => Has(w, "member_added", s)'
           /\ s \in online /\ Has(w, "member_removed", s)' => s \in Renewed(Batch(n))
  <1>1. TInv /\ LastTells
    BY DEF PresenceInv
  <1>2. /\ n \in Nat /\ Batch(n) \in Seq(Event) /\ DOMAIN Batch(n) = 1..n
        /\ \A i \in 1..n : Batch(n)[i] \in Event
    BY <1>1, CutIs
  <1>3. \A name : Has(w, name, s)' <=> \E i \in 1..n : Batch(n)[i].name = name /\ Batch(n)[i].at = s
    <2>1. \A name : Has(w, name, s)' <=> InBatch(n, name, s)
      BY ReceiveDoes
    <2>2. QED
      BY <2>1 DEF InBatch
  <1>4. PICK i \in 1..n :
              /\ Batch(n)[i].at = s
              /\ \A j \in 1..n : j > i => Batch(n)[j].at # s
              /\ Batch(n)[i].name = "member_added" <=> s \in online
    BY <1>1, LastOf
  <1>5. s \notin online => Has(w, "member_removed", s)'
    BY <1>2, <1>3, <1>4 DEF Event, Name
  <1>6. s \in online => Has(w, "member_added", s)'
    BY <1>3, <1>4
  <1>7. ASSUME s \in online, Has(w, "member_removed", s)'
        PROVE  s \in Renewed(Batch(n))
    <2>1. PICK k \in 1..n : Batch(n)[k].name = "member_removed" /\ Batch(n)[k].at = s
      BY <1>3, <1>7
    <2>2. Batch(n)[k] = [name |-> "member_removed", at |-> s]
      BY <1>2, <2>1 DEF Event
    <2>3. k < i
      BY <1>2, <1>4, <1>7, <2>1
    <2>4. k \in 1..i-1
      BY <1>2, <2>3
    <2>5. i \in {m \in DOMAIN Batch(n) : \E l \in 1..m-1 :
             /\ Batch(n)[l] = [name |-> "member_removed", at |-> Batch(n)[m].at]
             /\ Batch(n)[m].name = "member_added"}
      BY <1>2, <1>4, <1>7, <2>2, <2>4
    <2>6. QED
      BY <1>4, <2>5 DEF Renewed
  <1>8. QED
    BY <1>5, <1>6, <1>7

\* A request that receives a batch meets those that handle events of the same channels.
LEMMA ReceiveMeets ==
    ASSUME PresenceAssumption, PresenceInv, NEW w \in Webhook, NEW n \in 1..Len(outbox), Received(w, n),
           met' = met \cup Meeting(Batch(n))
    PROVE  MInv'
  <1>1. TInv /\ MInv
    BY DEF PresenceInv
  <1>2. /\ \A x \in Webhook \ {w} : hook'[x] = hook[x]
        /\ \A s : Holds(w, s)' <=> s \in Elements(Batch(n))
    BY ReceiveDoes
  <1>3. \A x \in Webhook \ {w} : \A s : Holds(x, s)' <=> Holds(x, s)
    BY <1>2, SameHook DEF Holds
  <1>4. ASSUME NEW x \in Webhook, NEW s \in Elements(Batch(n)), NEW t, Holds(x, t), s[1] = t[1]
        PROVE  <<s[1], s[2], t[2]>> \in met' /\ <<t[1], t[2], s[2]>> \in met'
    <2> DEFINE others == UNION {Left(y) : y \in Receiving}
               pairs == {p \in (Elements(Batch(n)) \X others) : p[1][1] = p[2][1]}
    <2>1. t \in Left(x) /\ x \in Receiving
      BY <1>1, <1>4, HoldsIs
    <2>2. <<s, t>> \in pairs
      BY <1>4, <2>1
    <2>3. Meeting(Batch(n)) = {<<p[1][1], p[1][2], p[2][2]>> : p \in pairs}
                                 \cup {<<p[1][1], p[2][2], p[1][2]>> : p \in pairs}
      BY DEF Meeting
    <2> HIDE DEF pairs
    <2>4. <<s[1], s[2], t[2]>> \in {<<p[1][1], p[1][2], p[2][2]>> : p \in pairs}
      BY <2>2
    <2>5. <<s[1], t[2], s[2]>> \in {<<p[1][1], p[2][2], p[1][2]>> : p \in pairs}
      BY <2>2
    <2>6. QED
      BY <1>4, <2>3, <2>4, <2>5
  <1>5. ASSUME NEW x \in Webhook, NEW y \in Webhook, NEW s \in Subscribable, NEW t \in Subscribable,
               x # y, Holds(x, s)', Holds(y, t)', s[1] = t[1]
        PROVE  <<s[1], s[2], t[2]>> \in met'
    <2>1. CASE x # w /\ y # w
      <3>1. Holds(x, s) /\ Holds(y, t)
        BY <1>3, <1>5, <2>1
      <3>2. QED
        BY <1>1, <1>5, <3>1 DEF MInv
    <2>2. CASE x = w
      <3>1. s \in Elements(Batch(n)) /\ Holds(y, t)
        BY <1>2, <1>3, <1>5, <2>2
      <3>2. QED
        BY <1>4, <1>5, <3>1
    <2>3. CASE y = w
      <3>1. t \in Elements(Batch(n)) /\ Holds(x, s)
        BY <1>2, <1>3, <1>5, <2>3
      <3>2. <<s[1], s[2], t[2]>> \in met'
        BY <1>4, <1>5, <3>1
      <3>3. QED
        BY <3>2
    <2>4. QED
      BY <2>1, <2>2, <2>3
  <1>6. QED
    BY <1>5 DEF MInv

LEMMA ReceiveKeeps ==
    ASSUME PresenceAssumption, PresenceInv, NEW w \in Webhook, Receive(w)
    PROVE  PresenceInv'
  <1>1. TInv /\ MInv /\ LastTells /\ GInv /\ NInv
    BY DEF PresenceInv
  <1>2. PICK n \in 1..Len(outbox) :
           /\ Received(w, n)
           /\ outbox' = Rest(n) /\ met' = met \cup Meeting(Batch(n))
           /\ resorted' = resorted \cup Renewed(Batch(n))
    BY DEF Receive, Received
  <1>3. hook[w] = NotReceived /\ UNCHANGED <<online, changes, channels, rows, joins, dropped>>
    BY DEF Receive
  <1>4. /\ hook' \in [Webhook -> HookState] /\ HookOK(w)' /\ hook'[w].phase = "event"
        /\ \A x \in Webhook \ {w} : hook'[x] = hook[x]
        /\ \A s : Holds(w, s)' <=> s \in Elements(Batch(n))
        /\ \A name, s : Has(w, name, s)' <=> InBatch(n, name, s)
        /\ \A name, s : ~Has(w, name, s)
    BY <1>2, <1>3, ReceiveDoes
  <1>5. /\ online \subseteq Subscribable /\ changes \in 0..MaxChanges
        /\ resorted \cup dropped \subseteq Subscribable /\ channels \in [Channel -> Nat] /\ rows \in Nat /\ rows <= rows
        /\ JoinsOK /\ RowsOK /\ hook \in [Webhook -> HookState]
    BY <1>1, Types
  <1>6. /\ Rest(n) \in Seq(Event) /\ DOMAIN Batch(n) = 1..n
        /\ \A s \in Elements(outbox) : s \in Elements(Batch(n)) \cup Elements(Rest(n))
        /\ Elements(Batch(n)) \cup Elements(Rest(n)) \subseteq Elements(outbox) \cap Subscribable
    BY <1>1, CutIs
  <1>7. Elements(outbox)' = Elements(Rest(n))
    BY <1>2 DEF Elements
  <1>8. TInv'
    <2>1. RowsOK' /\ JoinsOK'
      BY <1>3, <1>5 DEF RowsOK, JoinsOK
    <2>2. Renewed(Batch(n)) \subseteq Elements(Batch(n))
      BY DEF Renewed, Elements
    <2>3. resorted' \cup dropped' \subseteq Subscribable
      BY <1>2, <1>3, <1>5, <1>6, <2>2
    <2>4. outbox' \in Seq(Event) /\ online' \subseteq Subscribable /\ changes' \in 0..MaxChanges
          /\ channels' \in [Channel -> Nat] /\ rows' \in Nat /\ rows <= rows'
      BY <1>2, <1>3, <1>5, <1>6
    <2>5. QED
      BY <1>1, <1>4, <2>1, <2>3, <2>4, TInvKept
  <1>9. MInv' /\ LastTells'
    <2>1. MInv'
      BY <1>2, <1>3, ReceiveMeets
    <2>2. LastTells'
      BY <1>1, <1>2, <1>3, LastRest
    <2>3. QED
      BY <2>1, <2>2
  <1>10. \A x \in Webhook \ {w} :
            /\ EventOf(x)' = EventOf(x) /\ (StillThere(x)' <=> StillThere(x))
            /\ \A name, s : Has(x, name, s)' <=> Has(x, name, s)
    <2>1. \A x \in Webhook \ {w} : EventOf(x)' = EventOf(x) /\ \A name, s : Has(x, name, s)' <=> Has(x, name, s)
      BY <1>4, SameHook
    <2>2. QED
      BY <1>3, <1>4, <2>1 DEF StillThere, Row
  <1>11. \A s : Joined(s)' <=> Joined(s)
    BY <1>3 DEF Joined
  <1>12. \A s : (Ghostly(s) => Ghostly(s)') /\ (Forgettable(s) => Forgettable(s)')
    BY <1>2, <1>3 DEF Ghostly, Forgettable
  <1>13. \A s : s \in Elements(Batch(n)) /\ s \notin Elements(Rest(n)) =>
            /\ s \notin online => Has(w, "member_removed", s)'
            /\ s \in online => Has(w, "member_added", s)'
            /\ s \in online /\ Has(w, "member_removed", s)' => s \in resorted'
    BY <1>2, <1>3, LastReceived
  <1>14. GInv'
    <2>1. ASSUME NEW s \in Subscribable, s \notin online,
                 Joined(s) \/ \E x \in Webhook : Has(x, "member_added", s)'
          PROVE  \/ Ghostly(s)' \/ s \in Elements(Rest(n))
                 \/ \E x \in Webhook : Has(x, "member_removed", s)'
      <3>1. CASE s \in Elements(outbox)
        BY <1>6, <1>13, <2>1, <3>1
      <3>2. CASE s \notin Elements(outbox)
        <4>1. \A name : ~Has(w, name, s)'
          BY <1>4, <1>6, <3>2 DEF Elements, InBatch
        <4>2. Joined(s) \/ \E x \in Webhook : Has(x, "member_added", s)
          BY <1>10, <2>1, <4>1
        <4>3. Ghostly(s) \/ \E x \in Webhook : Has(x, "member_removed", s)
          BY <1>1, <2>1, <3>2, <4>2 DEF GInv
        <4>4. ASSUME NEW x \in Webhook, Has(x, "member_removed", s)
              PROVE  Has(x, "member_removed", s)'
          BY <1>4, <1>10, <4>4
        <4>5. QED
          BY <1>12, <4>3, <4>4
      <3>3. QED
        BY <3>1, <3>2
    <2>2. ASSUME NEW s \in Subscribable, NEW x \in Webhook,
                 hook'[x].phase \in {"find_joins", "delete_channel"}, EventOf(x)'.at = s, Joined(s)
          PROVE  Ghostly(s)'
      <3>1. x # w
        BY <1>4, <2>2
      <3>2. hook[x].phase \in {"find_joins", "delete_channel"} /\ EventOf(x).at = s
        BY <1>4, <1>10, <2>2, <3>1
      <3>3. QED
        BY <1>1, <1>12, <2>2, <3>2 DEF GInv
    <2>3. QED
      BY <1>3, <1>7, <1>11, <2>1, <2>2 DEF GInv
  <1>15. NInv'
    <2>1. ASSUME NEW s \in online
          PROVE  \/ Forgettable(s)' \/ Joined(s) \/ s \in Elements(Rest(n))
                 \/ \E x \in Webhook : Has(x, "member_added", s)'
      <3>1. CASE s \in Elements(outbox)
        BY <1>6, <1>13, <3>1
      <3>2. CASE s \notin Elements(outbox)
        <4>1. Forgettable(s) \/ Joined(s) \/ \E x \in Webhook : Has(x, "member_added", s)
          BY <1>1, <3>2 DEF NInv
        <4>2. ASSUME NEW x \in Webhook, Has(x, "member_added", s)
              PROVE  Has(x, "member_added", s)'
          BY <1>4, <1>10, <4>2
        <4>3. QED
          BY <1>12, <4>1, <4>2
      <3>3. QED
        BY <3>1, <3>2
    <2>2. ASSUME NEW s \in online, NEW x \in Webhook, Has(x, "member_removed", s)'
          PROVE  Forgettable(s)' \/ s \in Elements(Rest(n))
      <3>1. s \in Subscribable
        BY <1>5
      <3>2. CASE s \in Elements(Rest(n))
        BY <3>2
      <3>3. CASE s \in Elements(Batch(n)) /\ s \notin Elements(Rest(n))
        <4>1. CASE x = w
          BY <1>13, <2>2, <3>3, <4>1 DEF Forgettable
        <4>2. CASE x # w
          <5>1. Holds(x, s)' /\ Holds(w, s)'
            BY <1>4, <2>2, <3>3 DEF Holds, Name
          <5>2. <<s[1], s[2], s[2]>> \in met'
            BY <1>9, <3>1, <4>2, <5>1 DEF MInv
          <5>3. QED
            BY <5>2 DEF Forgettable
        <4>3. QED
          BY <4>1, <4>2
      <3>4. CASE s \notin Elements(outbox)
        <4>1. x # w
          BY <1>4, <1>6, <2>2, <3>4 DEF Holds, Name
        <4>2. Has(x, "member_removed", s)
          BY <1>10, <2>2, <4>1
        <4>3. Forgettable(s)
          BY <1>1, <3>4, <4>2 DEF NInv
        <4>4. QED
          BY <1>12, <4>3
      <3>5. QED
        BY <1>6, <3>2, <3>3, <3>4
    <2>3. ASSUME NEW x \in Webhook, NEW s \in Subscribable
          PROVE  /\ hook'[x].phase = "join" /\ EventOf(x)'.at = s => Forgettable(s)' \/ StillThere(x)'
                 /\ hook'[x].phase = "delete_channel" /\ EventOf(x)'.at[1] = s[1] /\ Joined(s) => Forgettable(s)'
      <3>1. CASE x = w
        BY <1>4, <3>1
      <3>2. CASE x # w
        <4>1. hook'[x] = hook[x] /\ EventOf(x)' = EventOf(x) /\ (StillThere(x)' <=> StillThere(x))
          BY <1>4, <1>10, <3>2
        <4>2. QED
          BY <1>1, <1>12, <4>1 DEF NInv
      <3>3. QED
        BY <3>1, <3>2
    <2>4. QED
      BY <1>3, <1>7, <1>11, <2>1, <2>2, <2>3 DEF NInv
  <1>16. QED
    BY <1>8, <1>9, <1>14, <1>15 DEF PresenceInv
-----------------------------------------------------------------------------
\* Nobody is there, or one person is who has joined the only channel there is.
LEMMA StillPresenceInv ==
    ASSUME PresenceAssumption, PresenceTypeOK, RowsOK, outbox = << >>,
           \A w \in Webhook : hook[w] = NotReceived,
           \A s \in Subscribable : s \in online <=> Joined(s)
    PROVE  PresenceInv
  <1>1. \A w \in Webhook : hook[w].phase \notin Phase /\ hook[w].phase = "not_received"
    BY DEF NotReceived, Phase
  <1>2. \A w \in Webhook : \A name, s : ~Has(w, name, s)
    BY <1>1 DEF Has
  <1>3. DOMAIN outbox = {} /\ online \subseteq Subscribable
    BY DEF PresenceTypeOK
  <1>4. TInv
    BY <1>1 DEF TInv
  <1>5. MInv
    BY <1>2 DEF MInv, Holds
  <1>6. LastTells
    BY <1>3 DEF LastTells
  <1>7. GInv
    BY <1>1, <1>2 DEF GInv
  <1>8. NInv
    BY <1>1, <1>2, <1>3 DEF NInv
  <1>9. QED
    BY <1>4, <1>5, <1>6, <1>7, <1>8 DEF PresenceInv

LEMMA InitPresenceInv ==
    ASSUME PresenceAssumption, PresenceInit
    PROVE  PresenceInv
  <1>1. PresenceTypeOK
    BY EmptySeq DEF PresenceInit, PresenceTypeOK, PresenceAssumption
  <1>2. RowsOK /\ (\A w \in Webhook : hook[w] = NotReceived) /\ outbox = << >>
    BY DEF PresenceInit, RowsOK
  <1>3. \A s \in Subscribable : s \in online <=> Joined(s)
    BY DEF PresenceInit, Joined
  <1>4. QED
    BY <1>1, <1>2, <1>3, StillPresenceInv

LEMMA AlonePresenceInv ==
    ASSUME PresenceAssumption, NEW s \in Subscribable,
           channels = [c \in Channel |-> IF c = s[1] THEN 1 ELSE 0],
           rows = 1, joins = {<<1, s[2]>>}, online = {s}, outbox = << >>, changes = 0,
           hook = [w \in Webhook |-> NotReceived], resorted = {}, dropped = {}
    PROVE  PresenceInv
  <1>1. s[1] \in Channel /\ channels[s[1]] = 1 /\ \A t \in Subscribable : t[1] \in Channel /\ t = <<t[1], t[2]>>
    BY DEF Channel, PresenceAssumption
  <1>2. \A j \in joins : \E t \in Subscribable : j = <<channels[t[1]], t[2]>> /\ j[1] > 0
    BY <1>1
  <1>3. PresenceTypeOK
    BY <1>2, EmptySeq DEF PresenceTypeOK, PresenceAssumption
  <1>4. RowsOK /\ \A w \in Webhook : hook[w] = NotReceived
    BY DEF RowsOK
  <1>5. \A t \in Subscribable : t \in online <=> Joined(t)
    BY <1>1 DEF Joined
  <1>6. QED
    BY <1>3, <1>4, <1>5, StillPresenceInv

LEMMA StepPresenceInv ==
    ASSUME PresenceAssumption, PresenceInv, PresenceNext
    PROVE  PresenceInv'
  BY ChangeKeeps, DropBatchKeeps, ReceiveKeeps, GetChannelKeeps, AddMemberKeeps, FindJoinKeeps,
     DeleteJoinKeeps, FindJoinsKeeps, DeleteChannelKeeps, AbortWebhookKeeps DEF PresenceNext

LEMMA UnchangedPresenceInv ==
    ASSUME PresenceInv, UNCHANGED presenceVars
    PROVE  PresenceInv'
  <1>1. UNCHANGED <<online, outbox, changes, channels, rows, joins, hook, met, resorted, dropped>>
    BY DEF presenceVars
  <1>2. TInv /\ MInv /\ LastTells /\ GInv /\ NInv
    BY DEF PresenceInv
  <1>3. /\ RowsOK' /\ \A w \in Webhook : hook[w].phase \in Phase => HookOK(w)'
        /\ \A w \in Webhook : EventOf(w)' = EventOf(w) /\ (StillThere(w)' <=> StillThere(w))
        /\ \A w \in Webhook : \A name, s : Has(w, name, s)' <=> Has(w, name, s)
        /\ \A s : Joined(s)' <=> Joined(s)
    BY <1>1, <1>2, SameHooks
  <1>4. TInv'
    BY <1>1, <1>2, <1>3 DEF TInv, PresenceTypeOK
  <1>5. MInv' /\ LastTells'
    BY <1>1, <1>2, <1>3, MInvKept, LastKept
  <1>6. /\ \A s : (Ghostly(s)' <=> Ghostly(s)) /\ (Forgettable(s)' <=> Forgettable(s))
        /\ Elements(outbox)' = Elements(outbox)
    BY <1>1 DEF Ghostly, Forgettable, Elements
  <1>7. GInv' /\ NInv'
    BY <1>1, <1>2, <1>3, <1>6 DEF GInv, NInv
  <1>8. QED
    BY <1>4, <1>5, <1>7 DEF PresenceInv

\* What the invariant is for.
LEMMA PresenceInvHolds ==
    ASSUME PresenceInv
    PROVE  PresenceTypeOK /\ NoGhost /\ NotForgotten
  <1>1. TInv /\ GInv /\ NInv
    BY DEF PresenceInv
  <1>2. \A w \in Webhook : \A name, s : Has(w, name, s) => w \in Receiving /\ s \in Left(w)
    BY <1>1, HoldsIs
  <1>3. \A s : (\E w \in Webhook : \E name : Has(w, name, s)) => Pending(s)
    BY <1>2 DEF Pending
  <1>4. \A s : s \in Elements(outbox) => Pending(s)
    BY DEF Pending
  <1>5. NoGhost
    BY <1>1, <1>3, <1>4 DEF NoGhost, GInv, Ghostly
  <1>6. NotForgotten
    BY <1>1, <1>3, <1>4 DEF NotForgotten, NInv, Forgettable
  <1>7. QED
    BY <1>1, <1>5, <1>6 DEF TInv
=============================================================================
