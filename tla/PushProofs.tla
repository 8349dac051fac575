------------------------------ MODULE PushProofs ------------------------------
(***************************************************************************)
(* Proofs about Push.  What a step of the pages keeps is shown first, what *)
(* one of the presence channels keeps in PresenceProofs; both are put      *)
(* together for the behaviours of Push, and the devices and the pushes     *)
(* proved about.                                                           *)
(***************************************************************************)
EXTENDS Push, FiniteSetTheorems, SequenceTheorems, TLAPS

PO == INSTANCE PresenceProofs
-----------------------------------------------------------------------------
LEMMA Assumed ==
    /\ P!PagesAssumption /\ PO!PresenceAssumption /\ D!PushTokensAssumption
    /\ Own \subseteq Subscribable /\ IsFiniteSet(Version)
  BY PushAssumption DEF P!PagesAssumption, O!PresenceAssumption, PO!PresenceAssumption,
     P!Profile

\* The module's definitions, by either name.
LEMMA PresenceSame ==
    /\ O!PresenceInit => PO!PresenceInit
    /\ O!PresenceNext => PO!PresenceNext
    /\ PO!PresenceTypeOK => O!PresenceTypeOK
    /\ PO!NoGhost => O!NoGhost
    /\ PO!NotForgotten => O!NotForgotten
    /\ O!Channel = PO!Channel /\ O!Webhook = PO!Webhook /\ O!NotReceived = PO!NotReceived
  <1>1. O!Channel = PO!Channel /\ O!Webhook = PO!Webhook /\ O!NotReceived = PO!NotReceived
    BY DEF O!Channel, PO!Channel, O!Webhook, PO!Webhook, O!NotReceived, PO!NotReceived
  <1>2. O!PresenceInit => PO!PresenceInit
    BY SMTT(30), <1>1 DEF O!PresenceInit, PO!PresenceInit
  <1>3. O!PresenceNext => PO!PresenceNext
    BY DEF O!PresenceNext, PO!PresenceNext, O!Webhook, PO!Webhook, O!NotReceived, PO!NotReceived,
           O!Answered, PO!Answered, O!Receiving, PO!Receiving, O!Elements, PO!Elements, O!Left, PO!Left,
           O!In, PO!In, O!GoOn, PO!GoOn, O!Earlier, PO!Earlier, O!Earliest, PO!Earliest, O!Current, PO!Current,
           O!EventOf, PO!EventOf, O!Of, PO!Of, O!Row, PO!Row, O!NextEvent, PO!NextEvent, O!Change, PO!Change,
           O!Batch, PO!Batch, O!Rest, PO!Rest, O!Renewed, PO!Renewed, O!Meeting, PO!Meeting,
           O!Receive, PO!Receive, O!DropBatch, PO!DropBatch, O!GetChannel, PO!GetChannel,
           O!StillThere, PO!StillThere, O!AddMember, PO!AddMember, O!Joined, PO!Joined, O!FindJoin, PO!FindJoin,
           O!DeleteJoin, PO!DeleteJoin, O!Empty, PO!Empty, O!FindJoins, PO!FindJoins,
           O!DeleteChannel, PO!DeleteChannel, O!AbortWebhook, PO!AbortWebhook,
           O!Cardinality, PO!Cardinality
  <1>4. PO!PresenceTypeOK => O!PresenceTypeOK
    BY <1>1 DEF O!PresenceTypeOK, PO!PresenceTypeOK, O!Event, PO!Event, O!Name, PO!Name, O!Handling, PO!Handling,
           O!Answered, PO!Answered
  <1>5. PO!NoGhost => O!NoGhost
    BY DEF O!NoGhost, PO!NoGhost, O!Joined, PO!Joined, O!Pending, PO!Pending, O!Elements, PO!Elements,
           O!Left, PO!Left, O!Receiving, PO!Receiving, O!Webhook, PO!Webhook, O!NotReceived, PO!NotReceived,
           O!Answered, PO!Answered
  <1>6. PO!NotForgotten => O!NotForgotten
    BY DEF O!NotForgotten, PO!NotForgotten, O!Joined, PO!Joined, O!Pending, PO!Pending, O!Elements, PO!Elements,
           O!Left, PO!Left, O!Receiving, PO!Receiving, O!Webhook, PO!Webhook, O!NotReceived, PO!NotReceived,
           O!Answered, PO!Answered
  <1>7. QED
    BY <1>1, <1>2, <1>3, <1>4, <1>5, <1>6

LEMMA CardinalitySame ==
    ASSUME NEW S
    PROVE  D!Cardinality(S) = Cardinality(S) /\ P!Cardinality(S) = Cardinality(S)
  BY DEF D!Cardinality, P!Cardinality, Cardinality
-----------------------------------------------------------------------------
PagesPhase == {"insert", "own", "check", "add", "remove", "activate", "pages", "page"}

CallState == P!PageCall \cup {P!NotSent, P!Responded}

\* What is known of a request by how far it has come.
PagesFieldsOK(c) ==
    /\ c.phase \in {"insert", "own"} => c.actor \in Account \cup P!Existing
    /\ c.phase \in {"own", "check", "add", "remove"} => c.page \in P!Existing
    /\ c.phase \in {"check", "add", "remove"} => c.whom \in Account \cup P!Existing
    /\ c.phase = "own" /\ c.seen => c.page \in activated
    /\ c.phase = "remove" => c.whom \notin {c.by, c.actor}
    /\ c.phase = "page" => c.pages \subseteq P!Existing

PagesTInv == P!PagesTypeOK /\ \A r \in P!Request : PagesFieldsOK(call[r])

\* A page that is being created has no admins, and no other request is about it.
Unowned(r) ==
    /\ \A a \in admins : a[1] # call[r].page
    /\ \A q \in P!Request \ {r} : call[q].phase \in {"own", "check", "add", "remove"} => call[q].page # call[r].page

\* The requests that are going to make x an admin of p.
Adding(p, x) == {r \in P!Request : call[r].phase = "add" /\ call[r].page = p /\ call[r].whom = x}

PagesBInv ==
    /\ Cardinality(P!Serving) <= Workers
    /\ \A r \in P!Request : call[r].phase = "own" => Unowned(r)
    /\ \A p \in Page, x \in P!Profile : Cardinality(P!RowsOf(p, x)) + Cardinality(Adding(p, x)) <= Workers

\* r is going to activate p for u.
ComesBy(r, p, u) ==
    /\ call[r].phase \in {"pages", "page"} /\ call[r].by = u
    /\ call[r].phase = "page" => p \in call[r].pages

PagesComing(p, u) == \E r \in P!Request : ComesBy(r, p, u)

PagesFInv ==
    \A p \in Page, u \in Account :
       P!HasRow(p, u) /\ u \in activated /\ <<p, u>> \notin outrun => p \in activated \/ PagesComing(p, u)

RowsFinite == \A p \in Page : IsFiniteSet({a \in admins : a[1] = p})

\* Whoever a removal rests on is an admin, unless he was removed meanwhile.
PagesKInv ==
    /\ P!AdminKept
    /\ \A r \in P!Request :
          call[r].phase = "remove" /\ call[r].page \notin contested => P!HasRow(call[r].page, P!Entitled(r))
    /\ Workers = 1 => contested = {}

PagesInv == PagesTInv /\ RowsFinite /\ PagesBInv /\ PagesKInv /\ PagesFInv
-----------------------------------------------------------------------------
LEMMA PagesPhases ==
    ASSUME NEW c \in CallState
    PROVE  /\ c \in P!PageCall <=> c.phase \in PagesPhase
           /\ c \notin {P!NotSent, P!Responded} <=> c.phase \in PagesPhase
           /\ c = P!NotSent <=> c.phase = "not_sent"
           /\ c = P!Responded <=> c.phase = "responded"
  BY DEF CallState, P!PageCall, P!NotSent, P!Responded, PagesPhase

LEMMA PutTyped ==
    ASSUME P!PagesTypeOK, NEW r \in P!Request, NEW c \in CallState, call' = [call EXCEPT ![r] = c]
    PROVE  /\ call' \in [P!Request -> CallState] /\ call'[r] = c
           /\ \A q \in P!Request \ {r} : call'[q] = call[q]
  BY DEF P!PagesTypeOK, CallState

\* A request that goes on ...
LEMMA GoneOn ==
    ASSUME P!PagesTypeOK, NEW r \in P!Request, call[r].phase \in PagesPhase, NEW phase \in PagesPhase, P!GoOn(r, phase)
    PROVE  /\ call' \in [P!Request -> CallState]
           /\ \A q \in P!Request \ {r} : call'[q] = call[q]
           /\ call'[r] \in P!PageCall /\ call'[r].phase = phase /\ call'[r].page = call[r].page
           /\ call'[r].by = call[r].by /\ call'[r].actor = call[r].actor
           /\ call'[r].seen = call[r].seen /\ call'[r].whom = call[r].whom
  <1> DEFINE c == [call[r] EXCEPT !.phase = phase]
  <1>0. call \in [P!Request -> CallState]
    BY DEF P!PagesTypeOK, CallState
  <1>1. call[r] \in P!PageCall
    BY <1>0, PagesPhases
  <1>2. /\ c \in P!PageCall /\ c \in CallState /\ c.phase = phase /\ c.page = call[r].page
        /\ c.by = call[r].by /\ c.actor = call[r].actor /\ c.seen = call[r].seen /\ c.whom = call[r].whom
    BY <1>1 DEF P!PageCall, CallState, PagesPhase
  <1>3. call' = [call EXCEPT ![r] = c]
    BY <1>0 DEF P!GoOn
  <1> HIDE DEF c
  <1>4. QED
    BY <1>2, <1>3, PutTyped

\* ... with the page that it has created, ...
LEMMA InsertPageDoes ==
    ASSUME P!PagesTypeOK, NEW r \in P!Request, P!InsertPage(r)
    PROVE  \E p \in Page \ P!Existing :
             /\ call[r].phase = "insert" /\ call[r] \in P!PageCall
             /\ creator' = [creator EXCEPT ![p] = call[r].actor]
             /\ activated' = IF call[r].seen THEN activated \cup {p} ELSE activated
             /\ UNCHANGED <<admins, set, contested, outrun>>
             /\ call' \in [P!Request -> CallState]
             /\ \A q \in P!Request \ {r} : call'[q] = call[q]
             /\ call'[r].phase = "own" /\ call'[r].page = p
             /\ call'[r].actor = call[r].actor /\ call'[r].seen = call[r].seen
  <1>1. PICK p \in Page \ P!Existing :
           /\ creator' = [creator EXCEPT ![p] = call[r].actor]
           /\ activated' = IF call[r].seen THEN activated \cup {p} ELSE activated
           /\ call' = [call EXCEPT ![r].phase = "own", ![r].page = p]
    BY DEF P!InsertPage, P!Inherited
  <1> DEFINE c == [call[r] EXCEPT !.phase = "own", !.page = p]
  <1>0. call \in [P!Request -> CallState] /\ call[r].phase = "insert"
    BY DEF P!PagesTypeOK, CallState, P!InsertPage, P!In
  <1>2. call[r] \in P!PageCall
    BY <1>0, PagesPhases DEF PagesPhase
  <1>3. /\ c \in P!PageCall /\ c \in CallState /\ c.phase = "own" /\ c.page = p
        /\ c.actor = call[r].actor /\ c.seen = call[r].seen
    BY <1>2 DEF P!PageCall, CallState
  <1>4. call' = [call EXCEPT ![r] = c]
    BY <1>0, <1>1
  <1> HIDE DEF c
  <1>5. /\ call' \in [P!Request -> CallState] /\ call'[r] = c
        /\ \A q \in P!Request \ {r} : call'[q] = call[q]
    BY <1>3, <1>4, PutTyped
  <1>6. QED
    BY <1>0, <1>1, <1>2, <1>3, <1>5 DEF P!InsertPage

\* ... or the pages that it has got to activate.
LEMMA PagesNoted ==
    ASSUME P!PagesTypeOK, NEW r \in P!Request, call[r].phase \in {"pages", "page"}, NEW s, s \subseteq Page,
           \/ call' = [call EXCEPT ![r].phase = "page", ![r].pages = s]
           \/ call[r].phase = "page" /\ call' = [call EXCEPT ![r].pages = s]
    PROVE  /\ call' \in [P!Request -> CallState]
           /\ \A q \in P!Request \ {r} : call'[q] = call[q]
           /\ call'[r].phase = "page" /\ call'[r].pages = s /\ call'[r].by = call[r].by
  <1> DEFINE c == [call[r] EXCEPT !.phase = "page", !.pages = s]
  <1>0. call \in [P!Request -> CallState]
    BY DEF P!PagesTypeOK, CallState
  <1>2. call[r] \in P!PageCall
    BY <1>0, PagesPhases DEF PagesPhase
  <1>3. /\ c \in P!PageCall /\ c \in CallState /\ c.phase = "page" /\ c.pages = s /\ c.by = call[r].by
    BY <1>2 DEF P!PageCall, CallState
  <1>4. call' = [call EXCEPT ![r] = c]
    <2>1. call[r].phase = "page" => c = [call[r] EXCEPT !.pages = s]
      BY <1>2 DEF P!PageCall
    <2>2. QED
      BY <1>0, <2>1
  <1> HIDE DEF c
  <1>5. QED
    BY <1>3, <1>4, PutTyped

\* What is known of a request stays true while pages come and none is deactivated.
LEMMA FieldsKept ==
    ASSUME NEW c, PagesFieldsOK(c), P!Existing \subseteq P!Existing',
           activated \cap Page \subseteq activated'
    PROVE  PagesFieldsOK(c)'
  BY DEF PagesFieldsOK, P!Existing

\* A request that arrives.
LEMMA SendDoes ==
    ASSUME P!PagesAssumption, PagesTInv, NEW r \in P!Request, P!Arrives(r), NEW phase \in PagesPhase, NEW u \in Account,
           NEW x \in P!Profile, NEW p, NEW v, p \in Page \cup {Nil}, v \in P!Profile \cup {Nil},
           P!Send(r, phase, u, x, p, v)
    PROVE  /\ call[r].phase = "not_sent" /\ x \in Account \cup P!Existing
           /\ x = u \/ P!HasRow(x, u)
           /\ call' \in [P!Request -> CallState]
           /\ \A q \in P!Request \ {r} : call'[q] = call[q]
           /\ call'[r] \in P!PageCall /\ call'[r].phase = phase /\ call'[r].by = u /\ call'[r].actor = x
           /\ call'[r].page = p /\ call'[r].whom = v
  <1> DEFINE c == [phase |-> phase, by |-> u, actor |-> x, seen |-> x \in activated, page |-> p,
                   whom |-> v, pages |-> {}]
  <1>1. c \in P!PageCall /\ c \in CallState
    BY DEF P!PageCall, CallState, PagesPhase
  <1>2. call' = [call EXCEPT ![r] = c] /\ P!PagesTypeOK
    BY DEF P!Send, PagesTInv
  <1>3. /\ c.phase = phase /\ c.by = u /\ c.actor = x /\ c.page = p /\ c.whom = v
    OBVIOUS
  <1>4. call[r].phase = "not_sent" /\ x \in Account \cup P!Existing /\ (x = u \/ P!HasRow(x, u))
    BY DEF P!Arrives, P!NotSent, P!Send
  <1> HIDE DEF c
  <1>5. QED
    BY <1>1, <1>2, <1>3, <1>4, PutTyped

\* What is left to show for TInv when a request changes.
LEMMA PagesTInvKept ==
    ASSUME PagesTInv, NEW r \in P!Request, call' \in [P!Request -> CallState],
           \A q \in P!Request \ {r} : call'[q] = call[q], PagesFieldsOK(call[r])',
           creator' \in [Page -> P!Profile \cup {Nil}], P!Existing \subseteq P!Existing',
           activated \cap Page \subseteq activated', activated' \subseteq Account \cup P!Existing',
           admins' \subseteq P!Existing' \X (Account \cup P!Existing') \X (0..Requests),
           set' \cup contested' \subseteq P!Existing', outrun' \subseteq P!Existing' \X P!Profile
    PROVE  PagesTInv'
  <1>1. ASSUME NEW q \in P!Request PROVE PagesFieldsOK(call[q])'
    <2>1. CASE q = r
      BY <2>1
    <2>2. CASE q # r
      <3>1. PICK c : c = call[q]
        OBVIOUS
      <3>2. PagesFieldsOK(c) /\ call'[q] = c
        BY <2>2, <3>1 DEF PagesTInv
      <3>3. PagesFieldsOK(c)'
        BY <3>2, FieldsKept
      <3>4. QED
        BY <3>2, <3>3 DEF PagesFieldsOK
    <2>3. QED
      BY <2>1, <2>2
  <1>2. P!PagesTypeOK'
    BY DEF P!PagesTypeOK, CallState
  <1>3. QED
    BY <1>1, <1>2 DEF PagesTInv

LEMMA InitPagesTInv == P!PagesAssumption /\ P!PagesInit => PagesTInv
  <1> SUFFICES ASSUME P!PagesAssumption, P!PagesInit PROVE PagesTInv
    OBVIOUS
  <1>1. PICK u \in {Founder, Nil} : creator = [p \in Page |-> u]
    BY DEF P!PagesInit
  <1>2. /\ creator \in [Page -> P!Profile \cup {Nil}]
        /\ \A p \in P!Existing : creator[p] = Founder
    BY <1>1 DEF P!PagesAssumption, P!Profile, P!Existing
  <1>3. 0 \in 0..Requests /\ Founder \in Account
    BY DEF P!PagesAssumption
  <1>4. activated \subseteq Account \cup P!Existing /\ admins \subseteq P!Existing \X (Account \cup P!Existing) \X (0..Requests)
    BY <1>2, <1>3 DEF P!PagesInit
  <1>5. call \in [P!Request -> CallState] /\ \A r \in P!Request : call[r].phase = "not_sent"
    BY DEF P!PagesInit, P!NotSent, CallState
  <1>6. QED
    BY <1>2, <1>4, <1>5 DEF P!PagesInit, PagesTInv, P!PagesTypeOK, PagesFieldsOK, CallState

\* What happens to the types of all and to a request that arrives.
LEMMA StepPagesTInv == P!PagesAssumption /\ PagesTInv /\ P!PagesNext => PagesTInv'
  <1> SUFFICES ASSUME P!PagesAssumption, PagesTInv, P!PagesNext PROVE PagesTInv'
    OBVIOUS
  <1>0. /\ P!PagesTypeOK /\ P!Existing \subseteq Page /\ Account \cap Page = {}
        /\ call \in [P!Request -> CallState]
    BY DEF PagesTInv, P!Existing, P!PagesAssumption, P!PagesTypeOK, CallState
  <1>a. /\ activated \subseteq Account \cup P!Existing /\ creator \in [Page -> P!Profile \cup {Nil}]
        /\ admins \subseteq P!Existing \X (Account \cup P!Existing) \X (0..Requests)
        /\ set \cup contested \subseteq P!Existing /\ outrun \subseteq P!Existing \X P!Profile
    BY <1>0 DEF P!PagesTypeOK
  <1>b. ASSUME creator' = creator PROVE P!Existing' = P!Existing
    BY <1>b DEF P!Existing
  <1>1. ASSUME NEW r \in P!Request, P!Arrives(r), NEW u \in Account,
               \/ P!StartActivation(r, u)
               \/ \E x \in P!Profile : P!CreatePage(r, u, x)
               \/ \E x, v \in P!Profile, p \in Page : P!AddAdmin(r, u, x, p, v) \/ P!RemoveAdmin(r, u, x, p, v)
        PROVE  PagesTInv'
    <2>1. ASSUME NEW phase \in {"insert", "check", "remove", "activate"},
                 NEW x \in P!Profile, NEW p, NEW v, p \in Page \cup {Nil}, v \in P!Profile \cup {Nil},
                 P!Send(r, phase, u, x, p, v),
                 UNCHANGED <<activated, creator, admins, set, contested, outrun>>,
                 phase \in {"check", "remove"} => p \in P!Existing /\ v \in Account \cup P!Existing,
                 phase = "remove" => v \notin {u, x}
          PROVE  PagesTInv'
      <3>1. /\ x \in Account \cup P!Existing /\ call' \in [P!Request -> CallState]
            /\ \A q \in P!Request \ {r} : call'[q] = call[q]
            /\ call'[r].phase = phase /\ call'[r].by = u /\ call'[r].actor = x
            /\ call'[r].page = p /\ call'[r].whom = v
        BY <1>1, <2>1, SendDoes DEF PagesPhase
      <3>2. PagesFieldsOK(call[r])'
        BY <2>1, <3>1, <1>b DEF PagesFieldsOK
      <3>3. QED
        BY <2>1, <3>1, <3>2, <1>a, <1>b, PagesTInvKept
    <2>2. CASE P!StartActivation(r, u)
      BY <2>2, <2>1 DEF P!StartActivation, P!Profile
    <2>3. ASSUME NEW x \in P!Profile, P!CreatePage(r, u, x) PROVE PagesTInv'
      BY <2>3, <2>1 DEF P!CreatePage
    <2>4. ASSUME NEW x \in P!Profile, NEW v \in P!Profile, NEW p \in Page, P!AddAdmin(r, u, x, p, v) PROVE PagesTInv'
      <3>1. p \in P!Existing /\ v \in Account \cup P!Existing
        BY <2>4, <1>0 DEF P!AddAdmin
      <3>2. QED
        BY <2>1, <2>4, <3>1 DEF P!AddAdmin
    <2>5. ASSUME NEW x \in P!Profile, NEW v \in P!Profile, NEW p \in Page, P!RemoveAdmin(r, u, x, p, v) PROVE PagesTInv'
      <3>1. p \in P!Existing /\ v \in Account \cup P!Existing /\ v \notin {u, x}
        BY <2>5, <1>0 DEF P!RemoveAdmin, P!NotOneself
      <3>2. QED
        BY <2>1, <2>5, <3>1 DEF P!RemoveAdmin
    <2>6. QED
      BY <1>1, <2>2, <2>3, <2>4, <2>5
  <1>2. ASSUME NEW r \in P!Request, P!InsertPage(r) PROVE PagesTInv'
    <2>1. PICK p \in Page \ P!Existing :
             /\ call[r].phase = "insert" /\ call[r] \in P!PageCall
             /\ creator' = [creator EXCEPT ![p] = call[r].actor]
             /\ activated' = IF call[r].seen THEN activated \cup {p} ELSE activated
             /\ UNCHANGED <<admins, set, contested, outrun>>
             /\ call' \in [P!Request -> CallState]
             /\ \A q \in P!Request \ {r} : call'[q] = call[q]
             /\ call'[r].phase = "own" /\ call'[r].page = p
             /\ call'[r].actor = call[r].actor /\ call'[r].seen = call[r].seen
      BY <1>2, <1>0, InsertPageDoes
    <2>3. call[r].actor \in Account \cup P!Existing
      BY <2>1 DEF PagesTInv, PagesFieldsOK
    <2>5. creator' \in [Page -> P!Profile \cup {Nil}] /\ P!Existing' = P!Existing \cup {p}
      BY <2>1, <2>3, <1>a, <1>0 DEF P!Existing, P!Profile, P!PagesAssumption
    <2>6. PagesFieldsOK(call[r])'
      BY <2>1, <2>3, <2>5 DEF PagesFieldsOK
    <2>7. /\ activated \cap Page \subseteq activated' /\ activated' \subseteq Account \cup P!Existing'
          /\ admins' \subseteq P!Existing' \X (Account \cup P!Existing') \X (0..Requests)
          /\ set' \cup contested' \subseteq P!Existing' /\ outrun' \subseteq P!Existing' \X P!Profile
      BY <2>1, <2>5, <1>a
    <2>8. QED
      BY <2>1, <2>5, <2>6, <2>7, PagesTInvKept
  \* A request that responds.
  <1>3. ASSUME NEW r \in P!Request, P!Respond(r), creator' = creator,
               activated \cap Page \subseteq activated', activated' \subseteq Account \cup P!Existing,
               admins' \subseteq P!Existing \X (Account \cup P!Existing) \X (0..Requests),
               set' \cup contested' \subseteq P!Existing, outrun' \subseteq P!Existing \X P!Profile
        PROVE  PagesTInv'
    <2>1. P!Responded \in CallState /\ P!Responded.phase = "responded"
      BY DEF CallState, P!Responded
    <2>2. /\ call' \in [P!Request -> CallState] /\ call'[r] = P!Responded
          /\ \A q \in P!Request \ {r} : call'[q] = call[q]
      BY <1>3, <2>1, <1>0, PutTyped DEF P!Respond
    <2>3. PagesFieldsOK(call[r])'
      BY <2>1, <2>2 DEF PagesFieldsOK
    <2>4. QED
      BY <1>3, <2>2, <2>3, <1>a, <1>b, PagesTInvKept
  <1>4. ASSUME NEW r \in P!Request, P!OwnPage(r) PROVE PagesTInv'
    <2>1. call[r].phase = "own" /\ P!Respond(r) /\ UNCHANGED <<activated, creator, contested>>
      BY <1>4 DEF P!OwnPage, P!In
    <2>2. call[r].actor \in Account \cup P!Existing /\ call[r].page \in P!Existing
      BY <2>1 DEF PagesTInv, PagesFieldsOK
    <2>3. /\ admins' = admins \cup {<<call[r].page, call[r].actor, r>>} /\ set' = set \cup {call[r].page}
          /\ outrun' \subseteq outrun \cup {<<call[r].page, call[r].actor>>}
      BY <1>4 DEF P!OwnPage
    <2>4. r \in 0..Requests
      BY DEF P!Request, P!PagesAssumption
    <2>5. QED
      BY <2>1, <2>2, <2>3, <2>4, <1>0, <1>a, <1>3 DEF P!Profile
  \* A request that goes on.
  <1>5. ASSUME NEW r \in P!Request, NEW phase \in PagesPhase, P!GoOn(r, phase), call[r].phase \in PagesPhase, phase \notin {"own", "page"},
               phase \in {"check", "add", "remove"} => call[r].phase = "check" /\ phase = "add",
               UNCHANGED <<creator, admins, set, contested, outrun>>, phase # "insert",
               activated \subseteq activated', activated' \subseteq Account \cup P!Existing
        PROVE  PagesTInv'
    <2>1. /\ call' \in [P!Request -> CallState] /\ \A q \in P!Request \ {r} : call'[q] = call[q]
          /\ call'[r].phase = phase /\ call'[r].page = call[r].page /\ call'[r].whom = call[r].whom
      BY <1>5, <1>0, GoneOn
    <2>2. PagesFieldsOK(call[r]) /\ P!Existing' = P!Existing
      BY <1>5, <1>b DEF PagesTInv
    <2>3. PagesFieldsOK(call[r])'
      BY <1>5, <2>1, <2>2 DEF PagesFieldsOK
    <2>4. QED
      BY <1>5, <2>1, <2>2, <2>3, <1>a, PagesTInvKept
  <1>6. ASSUME NEW r \in P!Request, P!CheckAdmin(r) PROVE PagesTInv'
    <2>1. /\ call[r].phase = "check" /\ UNCHANGED <<activated, creator, admins, set, contested, outrun>>
          /\ P!Respond(r) \/ P!GoOn(r, "add")
      BY <1>6 DEF P!CheckAdmin, P!In
    <2>2. QED
      BY <2>1, <1>3, <1>5, <1>a DEF PagesPhase
  <1>7. ASSUME NEW r \in P!Request, P!InsertAdmin(r) PROVE PagesTInv'
    <2>1. call[r].phase = "add" /\ P!Respond(r) /\ UNCHANGED <<activated, creator, set, contested>>
      BY <1>7 DEF P!InsertAdmin, P!In
    <2>2. call[r].whom \in Account \cup P!Existing /\ call[r].page \in P!Existing
      BY <2>1 DEF PagesTInv, PagesFieldsOK
    <2>3. /\ admins' = admins \cup {<<call[r].page, call[r].whom, r>>}
          /\ outrun' \subseteq outrun \cup {<<call[r].page, call[r].whom>>}
      BY <1>7 DEF P!InsertAdmin
    <2>4. r \in 0..Requests
      BY DEF P!Request, P!PagesAssumption
    <2>5. QED
      BY <2>1, <2>2, <2>3, <2>4, <1>0, <1>a, <1>3 DEF P!Profile
  <1>8. ASSUME NEW r \in P!Request, P!DeleteAdmin(r) PROVE PagesTInv'
    <2>1. call[r].phase = "remove" /\ P!Respond(r) /\ UNCHANGED <<activated, creator, set, outrun>>
      BY <1>8 DEF P!DeleteAdmin, P!In
    <2>2. call[r].page \in P!Existing
      BY <2>1 DEF PagesTInv, PagesFieldsOK
    <2>3. admins' \subseteq admins /\ contested' \subseteq contested \cup {call[r].page}
      BY <1>8 DEF P!DeleteAdmin
    <2>4. QED
      BY <2>1, <2>2, <2>3, <1>a, <1>3
  <1>9. ASSUME NEW r \in P!Request, P!ActivateUser(r) PROVE PagesTInv'
    <2>1. /\ call[r].phase = "activate" /\ P!GoOn(r, "pages") /\ UNCHANGED <<creator, admins, set, contested, outrun>>
          /\ activated' = activated \cup {call[r].by}
      BY <1>9 DEF P!ActivateUser, P!In
    <2>2. call[r].by \in Account
      BY <2>1, <1>0, PagesPhases DEF PagesPhase, P!PageCall
    <2>3. QED
      BY <2>1, <2>2, <1>5, <1>a DEF PagesPhase
  <1>10. ASSUME NEW r \in P!Request, P!FindPages(r) PROVE PagesTInv'
    <2>1. call[r].phase = "pages" /\ UNCHANGED <<activated, creator, admins, set, contested, outrun>>
      BY <1>10 DEF P!FindPages, P!In
    <2>2. CASE P!Respond(r)
      BY <2>1, <2>2, <1>3, <1>a
    <2>3. CASE call' = [call EXCEPT ![r].phase = "page", ![r].pages = {p \in Page \ activated : P!HasRow(p, call[r].by)}]
      <3>1. PICK s : s = {p \in Page \ activated : P!HasRow(p, call[r].by)}
        OBVIOUS
      <3>2. s \subseteq P!Existing
        BY <3>1, <1>a DEF P!HasRow
      <3>3. s \subseteq Page /\ call' = [call EXCEPT ![r].phase = "page", ![r].pages = s]
        BY <2>3, <3>1
      <3>4. /\ call' \in [P!Request -> CallState] /\ \A q \in P!Request \ {r} : call'[q] = call[q]
            /\ call'[r].phase = "page" /\ call'[r].pages = s
        BY <2>1, <3>3, <1>0, PagesNoted
      <3>5. PagesFieldsOK(call[r])'
        BY <2>1, <3>2, <3>4, <1>b DEF PagesFieldsOK
      <3>6. QED
        BY <2>1, <3>4, <3>5, <1>a, <1>b, PagesTInvKept
    <2>4. QED
      BY <1>10, <2>2, <2>3 DEF P!FindPages
  <1>11. ASSUME NEW r \in P!Request, P!ActivatePage(r) PROVE PagesTInv'
    <2>1. call[r].phase = "page" /\ UNCHANGED <<creator, admins, set, contested, outrun>>
      BY <1>11 DEF P!ActivatePage, P!In
    <2>2. PICK p \in call[r].pages :
             /\ activated' = activated \cup {p}
             /\ P!Respond(r) \/ call' = [call EXCEPT ![r].pages = @ \ {p}]
      BY <1>11 DEF P!ActivatePage
    <2>3. call[r].pages \subseteq P!Existing
      BY <2>1 DEF PagesTInv, PagesFieldsOK
    <2>4. CASE P!Respond(r)
      BY <2>1, <2>2, <2>3, <2>4, <1>3, <1>a
    <2>5. CASE call' = [call EXCEPT ![r].pages = @ \ {p}]
      <3>1. PICK s : s = call[r].pages \ {p}
        OBVIOUS
      <3>2. s \subseteq P!Existing /\ s \in SUBSET Page
        BY <2>3, <3>1, <1>0
      <3>4. call' = [call EXCEPT ![r].pages = s]
        BY <2>5, <3>1, <1>0
      <3>5. /\ call' \in [P!Request -> CallState] /\ \A q \in P!Request \ {r} : call'[q] = call[q]
            /\ call'[r].phase = "page" /\ call'[r].pages = s
        BY <2>1, <3>2, <3>4, <1>0, PagesNoted
      <3>6. PagesFieldsOK(call[r])'
        BY <2>1, <3>2, <3>5, <1>b DEF PagesFieldsOK
      <3>7. QED
        BY <2>1, <2>2, <2>3, <3>5, <3>6, <1>a, <1>b, PagesTInvKept
    <2>6. QED
      BY <2>2, <2>4, <2>5
  <1>12. ASSUME NEW r \in P!Request, P!AbortCall(r) PROVE PagesTInv'
    <2>1. P!Respond(r) /\ UNCHANGED <<activated, creator, admins, set, contested>> /\ call[r].phase \in PagesPhase
      BY <1>12, <1>0, PagesPhases DEF P!AbortCall, P!Serving
    <2>2. call[r].by \in P!Profile /\ P!Left(r) \subseteq P!Existing
      BY <2>1, <1>0, PagesPhases DEF P!Left, P!In, PagesTInv, PagesFieldsOK, P!PageCall, P!Profile
    <2>3. outrun' = outrun \cup {<<p, call[r].by>> : p \in P!Left(r)}
      BY <1>12 DEF P!AbortCall
    <2>4. QED
      BY <2>1, <2>2, <2>3, <1>a, <1>3
  <1>13. ASSUME NEW u \in Account, P!DeactivateUser(u) PROVE PagesTInv'
    <2>1. /\ UNCHANGED <<creator, admins, call, set, contested, outrun>> /\ activated' = activated \ {u}
          /\ u \notin Page
      BY <1>13, <1>0 DEF P!DeactivateUser
    <2>2. \A r \in P!Request : PagesFieldsOK(call[r])'
      BY <2>1, <1>0, <1>b DEF PagesTInv, PagesFieldsOK
    <2>3. QED
      BY <2>1, <2>2, <1>a, <1>b DEF PagesTInv, P!PagesTypeOK
  <1>14. QED
    BY <1>1, <1>2, <1>4, <1>6, <1>7, <1>8, <1>9, <1>10, <1>11, <1>12, <1>13 DEF P!PagesNext
-----------------------------------------------------------------------------
\* What every step leaves alone but for the actions named.
LEMMA Arriving ==
    ASSUME P!PagesAssumption, PagesTInv, NEW r \in P!Request, P!Arrives(r), NEW u \in Account,
           \/ P!StartActivation(r, u)
           \/ \E x \in P!Profile : P!CreatePage(r, u, x)
           \/ \E x, v \in P!Profile, p \in Page : P!AddAdmin(r, u, x, p, v) \/ P!RemoveAdmin(r, u, x, p, v)
    PROVE  /\ UNCHANGED <<activated, creator, admins, set, contested, outrun>>
           /\ call' \in [P!Request -> CallState]
           /\ call[r].phase = "not_sent" /\ call'[r].phase \in {"activate", "insert", "check", "remove"}
           /\ call'[r].phase \in {"check", "remove"} => P!HasRow(call'[r].page, P!Entitled(r)')
           /\ \A q \in P!Request \ {r} : call'[q] = call[q]
  <1>1. ASSUME NEW phase \in {"insert", "check", "remove", "activate"},
               NEW x \in P!Profile, NEW p, NEW v, p \in Page \cup {Nil}, v \in P!Profile \cup {Nil},
               P!Send(r, phase, u, x, p, v)
        PROVE  /\ call' \in [P!Request -> CallState] /\ call[r].phase = "not_sent"
               /\ call'[r].phase = phase /\ call'[r].page = p
               /\ call'[r].by = u /\ call'[r].actor = x
               /\ \A q \in P!Request \ {r} : call'[q] = call[q]
    BY <1>1, SendDoes DEF PagesPhase
  <1>2. CASE P!StartActivation(r, u)
    BY <1>1, <1>2 DEF P!StartActivation, P!Profile
  <1>3. CASE \E x \in P!Profile : P!CreatePage(r, u, x)
    BY <1>1, <1>3 DEF P!CreatePage
  \* A page counts as its own admin, but whoever acts for it is one of its admins.
  <1>4. ASSUME NEW x \in P!Profile, NEW p \in Page, P!IsAdmin(p, x), x = u \/ P!HasRow(x, u)
        PROVE  P!HasRow(p, IF x = p THEN u ELSE x)
    BY <1>4 DEF P!IsAdmin, P!PagesAssumption, P!Profile
  <1>5. ASSUME NEW x \in P!Profile, NEW v \in P!Profile, NEW p \in Page,
               P!AddAdmin(r, u, x, p, v) \/ P!RemoveAdmin(r, u, x, p, v)
        PROVE  /\ UNCHANGED <<activated, creator, admins, set, contested, outrun>>
               /\ call' \in [P!Request -> CallState]
               /\ call[r].phase = "not_sent" /\ call'[r].phase \in {"check", "remove"}
               /\ P!HasRow(call'[r].page, P!Entitled(r)')
               /\ \A q \in P!Request \ {r} : call'[q] = call[q]
    <2>1. P!IsAdmin(p, x) /\ (x = u \/ P!HasRow(x, u))
      BY <1>5 DEF P!AddAdmin, P!RemoveAdmin, P!Send
    <2>2. PICK y : y = IF x = p THEN u ELSE x
      OBVIOUS
    <2>3. P!HasRow(p, y)
      BY <1>4, <2>1, <2>2
    <2>4. /\ UNCHANGED <<activated, creator, admins, set, contested, outrun>>
          /\ call' \in [P!Request -> CallState]
          /\ call[r].phase = "not_sent" /\ call'[r].phase \in {"check", "remove"}
          /\ call'[r].page = p /\ call'[r].by = u /\ call'[r].actor = x
          /\ \A q \in P!Request \ {r} : call'[q] = call[q]
      BY <1>1, <1>5 DEF P!AddAdmin, P!RemoveAdmin
    <2>5. P!Entitled(r)' = y
      BY <2>2, <2>4 DEF P!Entitled
    <2>6. QED
      BY <2>3, <2>4, <2>5
  <1>6. QED
    BY <1>2, <1>3, <1>5
-----------------------------------------------------------------------------
LEMMA InitKept == P!PagesAssumption /\ P!PagesInit => PagesKInv
  <1> SUFFICES ASSUME P!PagesAssumption, P!PagesInit PROVE PagesKInv
    OBVIOUS
  <1>1. ASSUME NEW p \in P!Existing PROVE \E x \in P!Profile : P!HasRow(p, x)
    <2>1. 0 \in 0..Requests /\ <<p, creator[p], 0>> \in admins
      BY DEF P!PagesInit, P!PagesAssumption
    <2>2. creator[p] \in P!Profile
      BY InitPagesTInv DEF PagesTInv, P!PagesTypeOK, P!Existing
    <2>3. QED
      BY <2>1, <2>2 DEF P!HasRow
  <1>2. \A r \in P!Request : call[r].phase = "not_sent"
    BY DEF P!PagesInit, P!NotSent
  <1>3. set = P!Existing /\ contested = {}
    BY DEF P!PagesInit
  <1>4. QED
    BY <1>1, <1>2, <1>3 DEF PagesKInv, P!AdminKept

\* What is left to show where no admin is removed and no removal begins.
LEMMA PagesKInvKept ==
    ASSUME PagesKInv, admins \subseteq admins', contested' = contested,
           \A p \in set' \ set : \E x \in P!Profile : P!HasRow(p, x)',
           \A q \in P!Request : call'[q].phase = "remove" =>
              \/ call'[q] = call[q]
              \/ P!HasRow(call'[q].page, P!Entitled(q)')
    PROVE  PagesKInv'
  <1>1. \A p, x : P!HasRow(p, x) => P!HasRow(p, x)'
    BY DEF P!HasRow
  <1>2. P!AdminKept'
    BY <1>1 DEF PagesKInv, P!AdminKept
  <1>3. ASSUME NEW q \in P!Request, call'[q].phase = "remove", call'[q].page \notin contested'
        PROVE  P!HasRow(call[q].page, P!Entitled(q))'
    <2>1. PICK p, x : p = call'[q].page /\ x = P!Entitled(q)'
      OBVIOUS
    <2>2. call'[q] = call[q] => p = call[q].page /\ x = P!Entitled(q)
      BY <2>1 DEF P!Entitled
    <2>3. P!HasRow(p, x)
      BY <1>3, <2>1, <2>2 DEF PagesKInv
    <2>4. P!HasRow(p, x)'
      BY <1>1, <2>3
    <2>5. QED
      BY <2>1, <2>4 DEF P!HasRow
  <1>4. QED
    BY <1>2, <1>3 DEF PagesKInv

\* The one who removes an admin is an admin, not the one he removes, and no other
\* removal rests on that one.
LEMMA DeleteAdminKeeps ==
    ASSUME P!PagesAssumption, PagesTInv, PagesBInv, PagesKInv, NEW r \in P!Request, P!DeleteAdmin(r)
    PROVE  PagesKInv'
  <1>1. PICK p, v : p = call[r].page /\ v = call[r].whom
    OBVIOUS
  <1>2. /\ call[r].phase = "remove" /\ set' = set
        /\ admins' = admins \ P!RowsOf(p, v)
        /\ contested' = IF P!RestOn(r, p, v) = {} THEN contested ELSE contested \cup {p}
    BY <1>1 DEF P!DeleteAdmin, P!In
  <1>3. PICK x : x = P!Entitled(r)
    OBVIOUS
  <1>4. call \in [P!Request -> CallState]
    BY DEF PagesTInv, P!PagesTypeOK, CallState
  <1>5. x \in P!Profile /\ x # v
    <2>1. call[r] \in P!PageCall
      BY <1>2, <1>4, PagesPhases DEF PagesPhase
    <2>2. v \notin {call[r].by, call[r].actor}
      BY <1>1, <1>2 DEF PagesTInv, PagesFieldsOK
    <2>3. QED
      BY <1>3, <2>1, <2>2 DEF P!Entitled, P!PageCall, P!Profile
  <1>6. ASSUME NEW q, NEW y, P!HasRow(q, y), q # p \/ y # v
        PROVE  P!HasRow(q, y)'
    <2>1. PICK i \in 0..Requests : <<q, y, i>> \in admins
      BY <1>6 DEF P!HasRow
    <2>2. <<q, y, i>> \in admins'
      BY <1>2, <1>6, <2>1 DEF P!RowsOf
    <2>3. QED
      BY <2>1, <2>2 DEF P!HasRow
  <1>7. contested \subseteq contested'
    BY <1>2
  <1>8. P!AdminKept'
    <2>1. ASSUME NEW q \in set' \ contested' PROVE \E y \in P!Profile : P!HasRow(q, y)'
      <3>1. CASE q = p
        <4>1. P!HasRow(p, x)
          BY <1>1, <1>2, <1>3, <1>7, <2>1, <3>1 DEF PagesKInv
        <4>2. QED
          BY <1>5, <1>6, <3>1, <4>1
      <3>2. CASE q # p
        <4>1. PICK y \in P!Profile : P!HasRow(q, y)
          BY <1>2, <1>7, <2>1 DEF PagesKInv, P!AdminKept
        <4>2. QED
          BY <1>6, <3>2, <4>1
      <3>3. QED
        BY <3>1, <3>2
    <2>2. QED
      BY <2>1 DEF P!AdminKept
  <1>9. call' = [call EXCEPT ![r] = P!Responded]
    BY DEF P!DeleteAdmin, P!Respond
  <1>10. /\ \A q \in P!Request \ {r} : call'[q] = call[q]
         /\ call'[r].phase # "remove"
    BY <1>4, <1>9 DEF P!Responded
  <1>11. ASSUME NEW q \in P!Request, call'[q].phase = "remove", call'[q].page \notin contested'
         PROVE  P!HasRow(call[q].page, P!Entitled(q))'
    <2>1. q # r /\ call'[q] = call[q]
      BY <1>10, <1>11
    <2>2. PICK o, y : o = call[q].page /\ y = P!Entitled(q)
      OBVIOUS
    <2>3. P!HasRow(o, y)
      BY <1>7, <1>11, <2>1, <2>2 DEF PagesKInv
    <2>4. o # p \/ y # v
      <3>1. SUFFICES ASSUME o = p PROVE y # v
        OBVIOUS
      <3>2. P!RestOn(r, p, v) = {}
        BY <1>2, <1>11, <2>1, <2>2, <3>1
      <3>3. q \in P!Serving \ {r} /\ call[q].phase = "remove"
        BY <1>4, <1>11, <2>1, PagesPhases DEF P!Serving, PagesPhase
      <3>4. QED
        BY <2>2, <3>1, <3>2, <3>3 DEF P!RestOn, P!In
    <2>5. P!HasRow(o, y)'
      BY <1>6, <2>3, <2>4
    <2>6. call'[q].page = o /\ P!Entitled(q)' = y
      BY <2>1, <2>2 DEF P!Entitled
    <2>7. QED
      BY <2>5, <2>6 DEF P!HasRow
  <1>12. ASSUME Workers = 1 PROVE contested' = {}
    <2>1. P!RestOn(r, p, v) = {}
      <3>1. SUFFICES ASSUME NEW q \in P!RestOn(r, p, v) PROVE FALSE
        OBVIOUS
      <3>2. q \in P!Serving /\ q # r
        BY <3>1 DEF P!RestOn
      <3>3. r \in P!Serving
        BY <1>2, <1>4, PagesPhases DEF P!Serving, PagesPhase
      <3>4. IsFiniteSet(P!Request) /\ P!Serving \subseteq P!Request
        BY FS_Interval DEF P!Request, P!PagesAssumption, P!Serving
      <3>5. IsFiniteSet(P!Serving)
        BY <3>4, FS_Subset
      <3>6. Cardinality(P!Serving) \in Nat /\ Cardinality(P!Serving) <= 1
        BY <1>12, <3>5, FS_CardinalityType DEF PagesBInv
      <3>7. IsFiniteSet(P!Serving \ {q}) /\ Cardinality(P!Serving \ {q}) = Cardinality(P!Serving) - 1
        BY <3>2, <3>5, FS_RemoveElement
      <3>8. P!Serving \ {q} = {}
        BY <3>6, <3>7, FS_CardinalityType, FS_EmptySet
      <3>9. QED
        BY <3>2, <3>3, <3>8
    <2>2. QED
      BY <1>2, <1>12, <2>1 DEF PagesKInv
  <1>13. QED
    BY <1>8, <1>11, <1>12 DEF PagesKInv

LEMMA StepKept == P!PagesAssumption /\ PagesTInv /\ PagesBInv /\ PagesKInv /\ P!PagesNext => PagesKInv'
  <1> SUFFICES ASSUME P!PagesAssumption, PagesTInv, PagesBInv, PagesKInv, P!PagesNext PROVE PagesKInv'
    OBVIOUS
  <1>0. call \in [P!Request -> CallState] /\ P!PagesTypeOK
    BY DEF PagesTInv, P!PagesTypeOK, CallState
  <1>1. ASSUME NEW r \in P!Request, \A q \in P!Request \ {r} : call'[q] = call[q], call'[r].phase # "remove",
               admins \subseteq admins', set' = set, contested' = contested
        PROVE  PagesKInv'
    BY <1>1, PagesKInvKept
  <1>2. ASSUME NEW r \in P!Request, P!Respond(r)
        PROVE  (\A q \in P!Request \ {r} : call'[q] = call[q]) /\ call'[r].phase # "remove"
    BY <1>0, <1>2 DEF P!Respond, P!Responded
  <1>3. ASSUME NEW r \in P!Request, P!OwnPage(r) PROVE PagesKInv'
    <2>1. /\ call[r].phase = "own" /\ contested' = contested /\ set' = set \cup {call[r].page}
          /\ admins' = admins \cup {<<call[r].page, call[r].actor, r>>} /\ P!Respond(r)
      BY <1>3 DEF P!OwnPage, P!In
    <2>2. call[r].actor \in P!Profile
      BY <2>1 DEF PagesTInv, PagesFieldsOK, P!Profile, P!Existing
    <2>3. r \in 0..Requests
      BY DEF P!Request, P!PagesAssumption
    <2>4. PICK p : p = call[r].page
      OBVIOUS
    <2>5. \E x \in P!Profile : \E q \in 0..Requests : <<p, x, q>> \in admins'
      BY <2>1, <2>2, <2>3, <2>4
    <2>6. \A o \in set' \ set : \E x \in P!Profile : P!HasRow(o, x)'
      BY <2>1, <2>4, <2>5 DEF P!HasRow
    <2>7. QED
      BY <1>2, <2>1, <2>6, PagesKInvKept
  <1>4. ASSUME NEW r \in P!Request, P!Arrives(r), NEW u \in Account,
               \/ P!StartActivation(r, u)
               \/ \E x \in P!Profile : P!CreatePage(r, u, x)
               \/ \E x, v \in P!Profile, p \in Page : P!AddAdmin(r, u, x, p, v) \/ P!RemoveAdmin(r, u, x, p, v)
        PROVE  PagesKInv'
    <2>1. /\ UNCHANGED <<admins, set, contested>>
          /\ call'[r].phase = "remove" => P!HasRow(call'[r].page, P!Entitled(r)')
          /\ \A q \in P!Request \ {r} : call'[q] = call[q]
      BY <1>4, Arriving
    <2>2. QED
      BY <2>1, PagesKInvKept
  <1>5. ASSUME NEW r \in P!Request,
               P!InsertPage(r) \/ P!CheckAdmin(r) \/ P!InsertAdmin(r) \/ P!ActivateUser(r)
                  \/ P!FindPages(r) \/ P!ActivatePage(r) \/ P!AbortCall(r)
        PROVE  PagesKInv'
    <2>1. admins \subseteq admins' /\ set' = set /\ contested' = contested
      BY <1>5 DEF P!InsertPage, P!CheckAdmin, P!InsertAdmin, P!ActivateUser, P!FindPages, P!ActivatePage, P!AbortCall
    <2>2. ASSUME NEW phase \in PagesPhase \ {"remove"}, call[r].phase \in PagesPhase, P!GoOn(r, phase)
          PROVE  (\A q \in P!Request \ {r} : call'[q] = call[q]) /\ call'[r].phase # "remove"
      BY <1>0, <2>2, GoneOn
    <2>3. (\A q \in P!Request \ {r} : call'[q] = call[q]) /\ call'[r].phase # "remove"
      <3>1. CASE P!InsertPage(r)
        BY <1>0, <3>1, InsertPageDoes
      <3>2. CASE P!CheckAdmin(r)
        BY <1>2, <2>2, <3>2 DEF P!CheckAdmin, P!In, PagesPhase
      <3>3. CASE P!InsertAdmin(r)
        BY <1>2, <3>3 DEF P!InsertAdmin
      <3>4. CASE P!ActivateUser(r)
        BY <2>2, <3>4 DEF P!ActivateUser, P!In, PagesPhase
      <3>5. CASE P!FindPages(r)
        <4>1. PICK s : s = {p \in Page \ activated : P!HasRow(p, call[r].by)}
          OBVIOUS
        <4>2. /\ call[r].phase = "pages" /\ s \subseteq Page
              /\ P!Respond(r) \/ call' = [call EXCEPT ![r].phase = "page", ![r].pages = s]
          BY <3>5, <4>1 DEF P!FindPages, P!In
        <4>3. CASE P!Respond(r)
          BY <1>2, <4>3
        <4>4. CASE call' = [call EXCEPT ![r].phase = "page", ![r].pages = s]
          BY <1>0, <4>2, <4>4, PagesNoted
        <4>5. QED
          BY <4>2, <4>3, <4>4
      <3>6. CASE P!ActivatePage(r)
        <4>1. PICK p \in call[r].pages : P!Respond(r) \/ call' = [call EXCEPT ![r].pages = @ \ {p}]
          BY <3>6 DEF P!ActivatePage
        <4>2. PICK s : s = call[r].pages \ {p}
          OBVIOUS
        <4>3. call[r].phase = "page" /\ s \subseteq Page
          <5>1. call[r].phase = "page"
            BY <3>6 DEF P!ActivatePage, P!In
          <5>2. call[r].pages \subseteq P!Existing
            BY <5>1 DEF PagesTInv, PagesFieldsOK
          <5>3. QED
            BY <4>2, <5>1, <5>2 DEF P!Existing
        <4>4. CASE P!Respond(r)
          BY <1>2, <4>4
        <4>5. CASE call' = [call EXCEPT ![r].pages = @ \ {p}]
          <5>1. call' = [call EXCEPT ![r].pages = s]
            BY <1>0, <4>2, <4>5
          <5>2. QED
            BY <1>0, <4>3, <5>1, PagesNoted
        <4>6. QED
          BY <4>1, <4>4, <4>5
      <3>7. CASE P!AbortCall(r)
        BY <1>2, <3>7 DEF P!AbortCall
      <3>8. QED
        BY <1>5, <3>1, <3>2, <3>3, <3>4, <3>5, <3>6, <3>7
    <2>4. QED
      BY <1>1, <2>1, <2>3
  <1>6. ASSUME NEW u \in Account, P!DeactivateUser(u) PROVE PagesKInv'
    <2>1. UNCHANGED <<admins, set, contested, call>>
      BY <1>6 DEF P!DeactivateUser
    <2>2. QED
      BY <2>1, PagesKInvKept
  <1>7. ASSUME NEW r \in P!Request, P!DeleteAdmin(r) PROVE PagesKInv'
    BY <1>7, DeleteAdminKeeps
  <1>8. QED
    BY <1>3, <1>4, <1>5, <1>6, <1>7 DEF P!PagesNext
-----------------------------------------------------------------------------
LEMMA InitPagesFInv == P!PagesAssumption /\ P!PagesInit => PagesFInv
  <1> SUFFICES ASSUME P!PagesAssumption, P!PagesInit, NEW p \in Page, NEW u \in Account, P!HasRow(p, u), u \in activated
               PROVE  p \in activated
    BY DEF PagesFInv
  <1>1. p \in P!Existing /\ creator[p] = u
    BY DEF P!HasRow, P!PagesInit, P!Existing
  <1>2. PICK a \in {{}, {Founder}} : activated = a \cup {q \in P!Existing : creator[q] \in a}
    BY DEF P!PagesInit
  <1>3. u \notin P!Existing
    BY DEF P!PagesAssumption, P!Existing
  <1>4. QED
    BY <1>1, <1>2, <1>3

\* What is left to show for FInv when a request changes.
LEMMA PagesFInvKept ==
    ASSUME PagesFInv, NEW r \in P!Request, \A q \in P!Request \ {r} : call'[q] = call[q],
           \A p \in Page, u \in Account :
              P!HasRow(p, u)' /\ u \in activated' /\ <<p, u>> \notin outrun' /\ p \notin activated' =>
                 \/ ComesBy(r, p, u)'
                 \/ /\ P!HasRow(p, u) /\ u \in activated /\ <<p, u>> \notin outrun /\ p \notin activated
                    /\ ~ComesBy(r, p, u)
    PROVE  PagesFInv'
  <1> SUFFICES ASSUME NEW p \in Page, NEW u \in Account,
                      P!HasRow(p, u)', u \in activated', <<p, u>> \notin outrun', p \notin activated'
               PROVE  PagesComing(p, u)'
    BY DEF PagesFInv
  <1>1. CASE ComesBy(r, p, u)'
    BY <1>1 DEF PagesComing
  <1>2. CASE ~ComesBy(r, p, u)'
    <2>1. PICK q \in P!Request : ComesBy(q, p, u)
      BY <1>2 DEF PagesFInv, PagesComing
    <2>2. q # r
      BY <1>2, <2>1
    <2>3. ComesBy(q, p, u)'
      BY <2>1, <2>2 DEF ComesBy
    <2>4. QED
      BY <2>3 DEF PagesComing
  <1>3. QED
    BY <1>1, <1>2

\* Whoever is made an admin of a page is not activated, or the page is or is outrun;
\* whoever is activated has a request that finds and activates his pages.
LEMMA StepPagesFInv == P!PagesAssumption /\ PagesTInv /\ PagesFInv /\ P!PagesNext => PagesFInv'
  <1> SUFFICES ASSUME P!PagesAssumption, PagesTInv, PagesFInv, P!PagesNext PROVE PagesFInv'
    OBVIOUS
  <1>0. /\ P!PagesTypeOK /\ call \in [P!Request -> CallState] /\ Account \cap Page = {}
        /\ admins \subseteq P!Existing \X (Account \cup P!Existing) \X (0..Requests)
    BY DEF PagesTInv, P!PagesTypeOK, CallState, P!PagesAssumption
  <1>1. ASSUME NEW r \in P!Request, P!Arrives(r), NEW u \in Account,
               \/ P!StartActivation(r, u)
               \/ \E x \in P!Profile : P!CreatePage(r, u, x)
               \/ \E x, v \in P!Profile, p \in Page : P!AddAdmin(r, u, x, p, v) \/ P!RemoveAdmin(r, u, x, p, v)
        PROVE  PagesFInv'
    <2>1. /\ UNCHANGED <<activated, admins, outrun>> /\ \A q \in P!Request \ {r} : call'[q] = call[q]
          /\ call[r].phase = "not_sent"
      BY <1>1, Arriving
    <2>2. \A p, v : (P!HasRow(p, v)' <=> P!HasRow(p, v)) /\ ~ComesBy(r, p, v)
      BY <2>1 DEF P!HasRow, ComesBy
    <2>3. QED
      BY <2>1, <2>2, PagesFInvKept
  \* A request that goes on to "phase" or responds.
  <1>2. ASSUME NEW r \in P!Request, NEW phase \in PagesPhase, P!GoOn(r, phase) \/ P!Respond(r), call[r].phase \in PagesPhase
        PROVE  /\ \A q \in P!Request \ {r} : call'[q] = call[q]
               /\ P!GoOn(r, phase) => call'[r].phase = phase /\ call'[r].by = call[r].by
    BY <1>2, <1>0, GoneOn, PutTyped DEF P!Respond, CallState
  <1>3. ASSUME NEW r \in P!Request, P!InsertPage(r) PROVE PagesFInv'
    <2>1. PICK p \in Page \ P!Existing :
             /\ call[r].phase = "insert"
             /\ activated' = IF call[r].seen THEN activated \cup {p} ELSE activated
             /\ UNCHANGED <<admins, outrun>>
             /\ \A q \in P!Request \ {r} : call'[q] = call[q]
      BY <1>3, <1>0, InsertPageDoes
    <2>2. \A q, v : (P!HasRow(q, v)' <=> P!HasRow(q, v)) /\ ~ComesBy(r, q, v)
      BY <2>1 DEF P!HasRow, ComesBy
    <2>3. \A v \in Account : v \in activated' => v \in activated
      BY <2>1, <1>0
    <2>4. QED
      BY <2>1, <2>2, <2>3, PagesFInvKept
  <1>4. ASSUME NEW r \in P!Request, P!OwnPage(r) PROVE PagesFInv'
    <2>1. PICK p, x : p = call[r].page /\ x = call[r].actor
      OBVIOUS
    <2>2. /\ call[r].phase = "own" /\ activated' = activated /\ P!Respond(r)
          /\ admins' = admins \cup {<<p, x, r>>}
          /\ outrun' = IF x \in activated /\ ~call[r].seen THEN outrun \cup {<<p, x>>} ELSE outrun
      BY <1>4, <2>1 DEF P!OwnPage, P!In
    <2>3. call[r].seen => p \in activated
      BY <2>1, <2>2 DEF PagesTInv, PagesFieldsOK
    <2>4. \A q \in P!Request \ {r} : call'[q] = call[q]
      BY <2>2, <1>2 DEF PagesPhase
    <2>5. \A q, v : ~ComesBy(r, q, v) /\ (P!HasRow(q, v)' => P!HasRow(q, v) \/ (q = p /\ v = x))
      BY <2>2 DEF ComesBy, P!HasRow
    <2>6. call[r].seen \in BOOLEAN
      BY <2>2, <1>0, PagesPhases DEF PagesPhase, P!PageCall
    <2>7. QED
      BY <2>2, <2>3, <2>4, <2>5, <2>6, PagesFInvKept
  <1>5. ASSUME NEW r \in P!Request, P!CheckAdmin(r) PROVE PagesFInv'
    <2>1. /\ call[r].phase = "check" /\ UNCHANGED <<activated, admins, outrun>>
          /\ P!Respond(r) \/ P!GoOn(r, "add")
      BY <1>5 DEF P!CheckAdmin, P!In
    <2>2. \A q \in P!Request \ {r} : call'[q] = call[q]
      BY <2>1, <1>2 DEF PagesPhase
    <2>3. \A q, v : (P!HasRow(q, v)' <=> P!HasRow(q, v)) /\ ~ComesBy(r, q, v)
      BY <2>1 DEF P!HasRow, ComesBy
    <2>4. QED
      BY <2>1, <2>2, <2>3, PagesFInvKept
  <1>6. ASSUME NEW r \in P!Request, P!InsertAdmin(r) PROVE PagesFInv'
    <2>1. PICK p, x : p = call[r].page /\ x = call[r].whom
      OBVIOUS
    <2>2. /\ call[r].phase = "add" /\ activated' = activated /\ P!Respond(r)
          /\ admins' = admins \cup {<<p, x, r>>}
          /\ outrun' = IF x \in activated /\ p \notin activated THEN outrun \cup {<<p, x>>} ELSE outrun
      BY <1>6, <2>1 DEF P!InsertAdmin, P!In
    <2>3. \A q \in P!Request \ {r} : call'[q] = call[q]
      BY <2>2, <1>2 DEF PagesPhase
    <2>4. \A q, v : ~ComesBy(r, q, v) /\ (P!HasRow(q, v)' => P!HasRow(q, v) \/ (q = p /\ v = x))
      BY <2>2 DEF ComesBy, P!HasRow
    <2>5. QED
      BY <2>2, <2>3, <2>4, PagesFInvKept
  <1>7. ASSUME NEW r \in P!Request, P!DeleteAdmin(r) PROVE PagesFInv'
    <2>1. /\ call[r].phase = "remove" /\ UNCHANGED <<activated, outrun>> /\ P!Respond(r) /\ admins' \subseteq admins
      BY <1>7 DEF P!DeleteAdmin, P!In
    <2>2. \A q \in P!Request \ {r} : call'[q] = call[q]
      BY <2>1, <1>2 DEF PagesPhase
    <2>3. \A q, v : (P!HasRow(q, v)' => P!HasRow(q, v)) /\ ~ComesBy(r, q, v)
      BY <2>1 DEF P!HasRow, ComesBy
    <2>4. QED
      BY <2>1, <2>2, <2>3, PagesFInvKept
  <1>8. ASSUME NEW r \in P!Request, P!ActivateUser(r) PROVE PagesFInv'
    <2>1. /\ call[r].phase = "activate" /\ P!GoOn(r, "pages") /\ UNCHANGED <<admins, outrun>>
          /\ activated' = activated \cup {call[r].by}
      BY <1>8 DEF P!ActivateUser, P!In
    <2>2. /\ \A q \in P!Request \ {r} : call'[q] = call[q]
          /\ call'[r].phase = "pages" /\ call'[r].by = call[r].by
      BY <2>1, <1>2 DEF PagesPhase
    <2>3. \A q, v : (P!HasRow(q, v)' <=> P!HasRow(q, v)) /\ ~ComesBy(r, q, v) /\ (v = call[r].by => ComesBy(r, q, v)')
      BY <2>1, <2>2 DEF P!HasRow, ComesBy
    <2>4. QED
      BY <2>1, <2>2, <2>3, PagesFInvKept
  <1>9. ASSUME NEW r \in P!Request, P!FindPages(r) PROVE PagesFInv'
    <2>1. PICK u, s : u = call[r].by /\ s = {p \in Page \ activated : P!HasRow(p, u)}
      OBVIOUS
    <2>2. /\ call[r].phase = "pages" /\ UNCHANGED <<activated, admins, outrun>>
          /\ \/ s = {} /\ P!Respond(r)
             \/ call' = [call EXCEPT ![r].phase = "page", ![r].pages = s]
      BY <1>9, <2>1 DEF P!FindPages, P!In
    <2>3. \A q, v : P!HasRow(q, v)' <=> P!HasRow(q, v)
      BY <2>2 DEF P!HasRow
    <2>4. \A q \in Page : \A v : ComesBy(r, q, v) /\ P!HasRow(q, v) /\ q \notin activated => v = u /\ q \in s
      BY <2>1, <2>2 DEF ComesBy
    <2>5. CASE s = {} /\ P!Respond(r)
      <3>1. \A q \in P!Request \ {r} : call'[q] = call[q]
        BY <2>2, <2>5, <1>2 DEF PagesPhase
      <3>2. QED
        BY <2>2, <2>3, <2>4, <2>5, <3>1, PagesFInvKept
    <2>6. CASE call' = [call EXCEPT ![r].phase = "page", ![r].pages = s]
      <3>1. s \subseteq Page
        BY <2>1
      <3>2. /\ \A q \in P!Request \ {r} : call'[q] = call[q]
            /\ call'[r].phase = "page" /\ call'[r].pages = s /\ call'[r].by = u
        BY <2>1, <2>2, <2>6, <3>1, <1>0, PagesNoted
      <3>3. \A q \in s : ComesBy(r, q, u)'
        BY <3>2 DEF ComesBy
      <3>4. QED
        BY <2>2, <2>3, <2>4, <3>2, <3>3, PagesFInvKept
    <2>7. QED
      BY <2>2, <2>5, <2>6
  <1>10. ASSUME NEW r \in P!Request, P!ActivatePage(r) PROVE PagesFInv'
    <2>1. PICK s : s = call[r].pages
      OBVIOUS
    <2>2. call[r].phase = "page" /\ UNCHANGED <<admins, outrun>>
      BY <1>10 DEF P!ActivatePage, P!In
    <2>3. PICK p \in s :
             /\ activated' = activated \cup {p}
             /\ IF s = {p} THEN P!Respond(r) ELSE call' = [call EXCEPT ![r].pages = @ \ {p}]
      BY <1>10, <2>1 DEF P!ActivatePage
    <2>4. s \subseteq Page
      BY <2>1, <2>2 DEF PagesTInv, PagesFieldsOK, P!Existing
    <2>5. /\ \A q, v : P!HasRow(q, v)' <=> P!HasRow(q, v)
          /\ \A v \in Account : v \in activated' => v \in activated
      BY <2>2, <2>3, <2>4, <1>0 DEF P!HasRow
    <2>6. CASE s = {p}
      <3>1. \A q \in P!Request \ {r} : call'[q] = call[q]
        BY <2>2, <2>3, <2>6, <1>2 DEF PagesPhase
      <3>2. \A q, v : ComesBy(r, q, v) => q \in activated'
        BY <2>1, <2>2, <2>3, <2>6 DEF ComesBy
      <3>3. QED
        BY <2>2, <2>3, <2>5, <3>1, <3>2, PagesFInvKept
    <2>7. CASE s # {p}
      <3>1. PICK t : t = s \ {p}
        OBVIOUS
      <3>2. t \subseteq Page /\ call' = [call EXCEPT ![r].pages = t]
        BY <2>1, <2>3, <2>4, <2>7, <3>1, <1>0
      <3>3. /\ \A q \in P!Request \ {r} : call'[q] = call[q]
            /\ call'[r].phase = "page" /\ call'[r].pages = t /\ call'[r].by = call[r].by
        BY <2>2, <3>2, <1>0, PagesNoted
      <3>4. \A q, v : ComesBy(r, q, v) => q \in activated' \/ ComesBy(r, q, v)'
        BY <2>1, <2>2, <2>3, <3>1, <3>3 DEF ComesBy
      <3>5. QED
        BY <2>2, <2>3, <2>5, <3>3, <3>4, PagesFInvKept
    <2>8. QED
      BY <2>6, <2>7
  <1>11. ASSUME NEW r \in P!Request, P!AbortCall(r) PROVE PagesFInv'
    <2>1. /\ P!Respond(r) /\ UNCHANGED <<activated, admins>> /\ call[r].phase \in PagesPhase
          /\ outrun' = outrun \cup {<<p, call[r].by>> : p \in P!Left(r)}
      BY <1>11, <1>0, PagesPhases DEF P!AbortCall, P!Serving
    <2>2. \A q \in P!Request \ {r} : call'[q] = call[q]
      BY <2>1, <1>2
    <2>3. \A q, v : P!HasRow(q, v)' <=> P!HasRow(q, v)
      BY <2>1 DEF P!HasRow
    <2>4. \A q \in Page : \A v : P!HasRow(q, v) /\ ComesBy(r, q, v) => <<q, v>> \in outrun'
      <3>1. \A q, v : P!HasRow(q, v) => q \in P!Existing
        BY <1>0 DEF P!HasRow
      <3>2. QED
        BY <2>1, <3>1 DEF ComesBy, P!Left, P!In
    <2>5. QED
      BY <2>1, <2>2, <2>3, <2>4, PagesFInvKept
  <1>12. ASSUME NEW u \in Account, P!DeactivateUser(u) PROVE PagesFInv'
    <2>1. UNCHANGED <<admins, call, outrun>> /\ activated' = activated \ {u} /\ u \notin Page
      BY <1>12, <1>0 DEF P!DeactivateUser
    <2>2. \A q, v : (P!HasRow(q, v)' <=> P!HasRow(q, v)) /\ (PagesComing(q, v) => PagesComing(q, v)')
      BY <2>1 DEF P!HasRow, PagesComing, ComesBy
    <2>3. QED
      BY <2>1, <2>2 DEF PagesFInv
  <1>13. QED
    BY <1>1, <1>3, <1>4, <1>5, <1>6, <1>7, <1>8, <1>9, <1>10, <1>11, <1>12 DEF P!PagesNext
-----------------------------------------------------------------------------
\* Two sets that shrink have fewer elements ...
LEMMA Shrink ==
    ASSUME NEW S, NEW T, NEW W \in Nat, IsFiniteSet(S), IsFiniteSet(T),
           Cardinality(S) + Cardinality(T) <= W,
           NEW S1 \in SUBSET S, NEW T1 \in SUBSET T
    PROVE  IsFiniteSet(S1) /\ Cardinality(S1) + Cardinality(T1) <= W
  <1>1. IsFiniteSet(S1) /\ IsFiniteSet(T1) /\ Cardinality(S1) <= Cardinality(S) /\ Cardinality(T1) <= Cardinality(T)
    BY FS_Subset
  <1>2. Cardinality(S) \in Nat /\ Cardinality(T) \in Nat /\ Cardinality(S1) \in Nat /\ Cardinality(T1) \in Nat
    BY <1>1, FS_CardinalityType
  <1>3. QED
    BY <1>1, <1>2

\* ... and so have two of which one gains what the other loses.
LEMMA Exchange ==
    ASSUME NEW S, NEW T, NEW W \in Nat, IsFiniteSet(S), IsFiniteSet(T),
           Cardinality(S) + Cardinality(T) <= W, NEW x, NEW y \in T,
           NEW S1 \in SUBSET (S \cup {x}), NEW T1 \in SUBSET (T \ {y})
    PROVE  IsFiniteSet(S1) /\ Cardinality(S1) + Cardinality(T1) <= W
  <1>1. /\ IsFiniteSet(S \cup {x}) /\ IsFiniteSet(T \ {y})
        /\ Cardinality(S \cup {x}) <= Cardinality(S) + 1
        /\ Cardinality(T \ {y}) = Cardinality(T) - 1
    <2>1. Cardinality(S) \in Nat /\ Cardinality(T) \in Nat
      BY FS_CardinalityType
    <2>2. IsFiniteSet(S \cup {x}) /\ Cardinality(S \cup {x}) <= Cardinality(S) + 1
      <3>1. /\ IsFiniteSet(S \cup {x})
            /\ Cardinality(S \cup {x}) = IF x \in S THEN Cardinality(S) ELSE Cardinality(S) + 1
        BY FS_AddElement
      <3>2. QED
        BY <2>1, <3>1
    <2>3. IsFiniteSet(T \ {y}) /\ Cardinality(T \ {y}) = Cardinality(T) - 1
      BY FS_RemoveElement
    <2>4. QED
      BY <2>2, <2>3
  <1>2. Cardinality(S) \in Nat /\ Cardinality(T) \in Nat /\ Cardinality(S \cup {x}) \in Nat
    BY <1>1, FS_CardinalityType
  <1>3. Cardinality(S \cup {x}) + Cardinality(T \ {y}) <= W
    BY <1>1, <1>2
  <1>4. QED
    BY <1>1, <1>3, Shrink

LEMMA InitRows == P!PagesInit => RowsFinite
  <1> SUFFICES ASSUME P!PagesInit, NEW p \in Page PROVE IsFiniteSet({a \in admins : a[1] = p})
    BY DEF RowsFinite
  <1>1. {a \in admins : a[1] = p} \in SUBSET {<<p, creator[p], 0>>}
    BY DEF P!PagesInit
  <1>2. IsFiniteSet({<<p, creator[p], 0>>})
    BY FS_Singleton
  <1>3. QED
    BY <1>1, <1>2, FS_Subset

\* A step adds one row at most.
LEMMA StepRows == RowsFinite /\ P!PagesAssumption /\ PagesTInv /\ P!PagesNext => RowsFinite'
  <1> SUFFICES ASSUME RowsFinite, P!PagesAssumption, PagesTInv, P!PagesNext PROVE RowsFinite'
    OBVIOUS
  <1>1. \E t : admins' \subseteq admins \cup {t}
    <2>1. ASSUME NEW r \in P!Request, P!Arrives(r), NEW u \in Account,
               \/ P!StartActivation(r, u)
               \/ \E x \in P!Profile : P!CreatePage(r, u, x)
               \/ \E x, v \in P!Profile, p \in Page : P!AddAdmin(r, u, x, p, v) \/ P!RemoveAdmin(r, u, x, p, v)
          PROVE  admins' = admins
      BY <2>1, Arriving
    <2>2. ASSUME NEW r \in P!Request, P!OwnPage(r) PROVE admins' = admins \cup {<<call[r].page, call[r].actor, r>>}
      BY <2>2 DEF P!OwnPage
    <2>3. ASSUME NEW r \in P!Request, P!InsertAdmin(r) PROVE admins' = admins \cup {<<call[r].page, call[r].whom, r>>}
      BY <2>3 DEF P!InsertAdmin
    <2>4. ASSUME NEW r \in P!Request, P!InsertPage(r) \/ P!CheckAdmin(r) \/ P!DeleteAdmin(r) \/ P!ActivateUser(r)
                                    \/ P!FindPages(r) \/ P!ActivatePage(r) \/ P!AbortCall(r)
          PROVE  admins' \subseteq admins
      BY <2>4 DEF P!InsertPage, P!CheckAdmin, P!DeleteAdmin, P!ActivateUser, P!FindPages, P!ActivatePage, P!AbortCall
    <2>5. ASSUME NEW u \in Account, P!DeactivateUser(u) PROVE admins' = admins
      BY <2>5 DEF P!DeactivateUser
    <2>6. QED
      BY <2>1, <2>2, <2>3, <2>4, <2>5 DEF P!PagesNext
  <1>2. PICK t : admins' \subseteq admins \cup {t}
    BY <1>1
  <1>3. ASSUME NEW p \in Page PROVE IsFiniteSet({a \in admins' : a[1] = p})
    <2> DEFINE A == {a \in admins : a[1] = p}
               B == {a \in admins' : a[1] = p}
    <2>1. IsFiniteSet(A) /\ B \in SUBSET (A \cup {t})
      BY <1>2 DEF RowsFinite
    <2> HIDE DEF A, B
    <2>2. IsFiniteSet(A \cup {t})
      BY <2>1, FS_AddElement
    <2>3. IsFiniteSet(B)
      BY <2>1, <2>2, FS_Subset
    <2>4. QED
      BY <2>3 DEF B
  <1>4. QED
    BY <1>3 DEF RowsFinite
-----------------------------------------------------------------------------
LEMMA FiniteSets ==
    ASSUME P!PagesAssumption, PagesTInv, RowsFinite, NEW p \in Page, NEW x
    PROVE  /\ IsFiniteSet(P!RowsOf(p, x)) /\ IsFiniteSet(Adding(p, x)) /\ IsFiniteSet(P!Serving)
           /\ Adding(p, x) \in SUBSET P!Serving
           /\ P!Serving = {r \in P!Request : call[r].phase \in PagesPhase}
  <1>1. IsFiniteSet(P!Request)
    BY FS_Interval DEF P!Request, P!PagesAssumption
  <1>2. \A r \in P!Request : call[r] \notin {P!NotSent, P!Responded} <=> call[r].phase \in PagesPhase
    BY PagesPhases DEF PagesTInv, P!PagesTypeOK, CallState
  <1>3. /\ P!Serving = {r \in P!Request : call[r].phase \in PagesPhase} /\ P!Serving \in SUBSET P!Request
        /\ Adding(p, x) \in SUBSET P!Serving
    BY <1>2 DEF P!Serving, Adding, PagesPhase
  <1>4. IsFiniteSet(P!Serving)
    BY <1>1, <1>3, FS_Subset
  <1>5. IsFiniteSet(Adding(p, x))
    BY <1>3, <1>4, FS_Subset
  <1>6. P!RowsOf(p, x) \in SUBSET {a \in admins : a[1] = p} /\ IsFiniteSet({a \in admins : a[1] = p})
    BY DEF P!RowsOf, RowsFinite
  <1>7. IsFiniteSet(P!RowsOf(p, x))
    BY <1>6, FS_Subset
  <1>8. QED
    BY <1>3, <1>4, <1>5, <1>7

LEMMA InitPagesBInv == P!PagesAssumption /\ P!PagesInit => PagesBInv
  <1> SUFFICES ASSUME P!PagesAssumption, P!PagesInit PROVE PagesBInv
    OBVIOUS
  <1>1. \A r \in P!Request : call[r].phase = "not_sent" /\ call[r] = P!NotSent
    BY DEF P!PagesInit, P!NotSent
  <1>2. P!Serving = {} /\ \A p, x : Adding(p, x) = {}
    BY <1>1 DEF P!Serving, Adding
  <1>3. Cardinality({}) = 0 /\ Workers \in Nat \ {0}
    BY FS_EmptySet DEF P!PagesAssumption
  <1>4. ASSUME NEW p \in Page, NEW x \in P!Profile PROVE Cardinality(P!RowsOf(p, x)) <= Workers
    <2> DEFINE t == <<p, creator[p], 0>>
    <2>1. P!RowsOf(p, x) \in SUBSET {t}
      BY DEF P!RowsOf, P!PagesInit
    <2> HIDE DEF t
    <2>2. IsFiniteSet({t}) /\ Cardinality({t}) = 1
      BY FS_Singleton
    <2>3. IsFiniteSet(P!RowsOf(p, x)) /\ Cardinality(P!RowsOf(p, x)) <= 1
      BY <2>1, <2>2, FS_Subset
    <2>4. Cardinality(P!RowsOf(p, x)) \in Nat
      BY <2>3, FS_CardinalityType
    <2>5. QED
      BY <2>3, <2>4, <1>3
  <1>5. ASSUME NEW p \in Page, NEW x \in P!Profile PROVE Cardinality(P!RowsOf(p, x)) \in Nat
    <2>1. P!RowsOf(p, x) \in SUBSET {a \in admins : a[1] = p} /\ IsFiniteSet({a \in admins : a[1] = p})
      BY InitRows DEF P!RowsOf, RowsFinite
    <2>2. IsFiniteSet(P!RowsOf(p, x))
      BY <2>1, FS_Subset
    <2>3. QED
      BY <2>2, FS_CardinalityType
  <1>6. Cardinality(P!Serving) <= Workers
    BY <1>2, <1>3
  <1>7. \A r \in P!Request : call[r].phase # "own"
    BY <1>1
  <1>8. \A p \in Page, x \in P!Profile : Cardinality(P!RowsOf(p, x)) + Cardinality(Adding(p, x)) <= Workers
    BY <1>2, <1>3, <1>4, <1>5
  <1>9. QED
    BY <1>6, <1>7, <1>8 DEF PagesBInv

\* What is left to show for BInv when a request changes.
LEMMA PagesBInvKept ==
    ASSUME P!PagesAssumption, PagesTInv, RowsFinite, PagesBInv, PagesTInv', RowsFinite', NEW r \in P!Request,
           \A q \in P!Request \ {r} : call'[q] = call[q],
           call[r].phase \in PagesPhase \/ Cardinality(P!Serving) < Workers,
           call'[r].phase = "own" => Unowned(r)',
           \A a \in admins' : a \in admins \/ (call[r].phase \in {"own", "add"} /\ a[1] = call[r].page),
           call'[r].phase \in {"check", "add", "remove"} =>
              \/ call[r].phase \in {"check", "add", "remove"} /\ call'[r].page = call[r].page
              \/ \E x \in P!Profile : P!HasRow(call'[r].page, x),
           \A p \in Page, x \in P!Profile :
              \/ Cardinality(P!RowsOf(p, x)') + Cardinality(Adding(p, x)') <= Workers
              \/ P!RowsOf(p, x)' \subseteq P!RowsOf(p, x) /\ Adding(p, x)' \subseteq Adding(p, x)
    PROVE  PagesBInv'
  <1>0. Workers \in Nat
    BY DEF P!PagesAssumption
  <1>1. ASSUME NEW p \in Page, NEW x \in P!Profile
        PROVE  Cardinality(P!RowsOf(p, x)') + Cardinality(Adding(p, x)') <= Workers
    <2>1. /\ IsFiniteSet(P!RowsOf(p, x)) /\ IsFiniteSet(Adding(p, x))
          /\ Cardinality(P!RowsOf(p, x)) + Cardinality(Adding(p, x)) <= Workers
      BY <1>1, FiniteSets DEF PagesBInv
    <2>2. ASSUME P!RowsOf(p, x)' \in SUBSET P!RowsOf(p, x), Adding(p, x)' \in SUBSET Adding(p, x)
          PROVE  Cardinality(P!RowsOf(p, x)') + Cardinality(Adding(p, x)') <= Workers
      BY <2>1, <2>2, <1>0, Shrink
    <2>3. QED
      BY <1>1, <2>2
  <1>2. Cardinality(P!Serving') <= Workers
    <2>1. /\ P!Serving = {q \in P!Request : call[q].phase \in PagesPhase}
          /\ P!Serving' = {q \in P!Request : call'[q].phase \in PagesPhase}
          /\ IsFiniteSet(P!Serving)
      <3>1. /\ \A q \in P!Request : call[q] \notin {P!NotSent, P!Responded} <=> call[q].phase \in PagesPhase
            /\ \A q \in P!Request : call'[q] \notin {P!NotSent, P!Responded} <=> call'[q].phase \in PagesPhase
        BY PagesPhases DEF PagesTInv, P!PagesTypeOK, CallState
      <3>2. IsFiniteSet(P!Request)
        BY FS_Interval DEF P!Request, P!PagesAssumption
      <3>3. P!Serving \in SUBSET P!Request
        BY DEF P!Serving
      <3>4. IsFiniteSet(P!Serving)
        BY <3>2, <3>3, FS_Subset
      <3>5. QED
        BY <3>1, <3>4 DEF P!Serving
    <2>2. CASE call[r].phase \in PagesPhase
      <3>1. P!Serving' \in SUBSET P!Serving
        BY <2>1, <2>2
      <3>2. IsFiniteSet(P!Serving') /\ Cardinality(P!Serving') <= Cardinality(P!Serving)
        BY <2>1, <3>1, FS_Subset
      <3>3. Cardinality(P!Serving') \in Nat /\ Cardinality(P!Serving) \in Nat /\ Cardinality(P!Serving) <= Workers
        BY <2>1, <3>2, FS_CardinalityType DEF PagesBInv
      <3>4. QED
        BY <3>2, <3>3, <1>0
    <2>3. CASE Cardinality(P!Serving) < Workers
      <3>1. P!Serving' \in SUBSET (P!Serving \cup {r})
        BY <2>1
      <3>2. /\ IsFiniteSet(P!Serving \cup {r})
            /\ Cardinality(P!Serving \cup {r}) = IF r \in P!Serving THEN Cardinality(P!Serving) ELSE Cardinality(P!Serving) + 1
        BY <2>1, FS_AddElement
      <3>3. IsFiniteSet(P!Serving') /\ Cardinality(P!Serving') <= Cardinality(P!Serving \cup {r})
        BY <3>1, <3>2, FS_Subset
      <3>4. Cardinality(P!Serving') \in Nat /\ Cardinality(P!Serving) \in Nat
        BY <2>1, <3>3, FS_CardinalityType
      <3>5. QED
        BY <2>3, <3>2, <3>3, <3>4, <1>0
    <2>4. QED
      BY <2>2, <2>3
  <1>3. ASSUME NEW q \in P!Request, call'[q].phase = "own" PROVE Unowned(q)'
    <2>1. CASE q = r
      BY <1>3, <2>1
    <2>2. CASE q # r
      <3>1. call'[q] = call[q] /\ Unowned(q)
        BY <1>3, <2>2 DEF PagesBInv
      <3>2. ASSUME NEW a \in admins' PROVE a[1] # call[q].page
        BY <2>2, <3>1, <3>2 DEF Unowned
      <3>3. ASSUME NEW w \in P!Request \ {q}, call'[w].phase \in {"own", "check", "add", "remove"}
            PROVE  call'[w].page # call[q].page
        <4>1. CASE w # r
          BY <3>1, <3>3, <4>1 DEF Unowned
        <4>2. CASE w = r /\ call'[r].phase = "own"
          BY <1>3, <2>2, <4>2 DEF Unowned
        <4>3. CASE w = r /\ call[r].phase \in {"check", "add", "remove"} /\ call'[r].page = call[r].page
          BY <3>1, <3>3, <4>3 DEF Unowned
        <4>4. CASE w = r /\ \E x \in P!Profile : P!HasRow(call'[r].page, x)
          BY <3>1, <3>3, <4>4 DEF Unowned, P!HasRow
        <4>5. QED
          BY <3>3, <4>1, <4>2, <4>3, <4>4
      <3>4. QED
        BY <3>1, <3>2, <3>3 DEF Unowned
    <2>3. QED
      BY <2>1, <2>2
  <1>4. QED
    BY <1>1, <1>2, <1>3 DEF PagesBInv

\* A row is inserted in place of a request that was going to, and such requests
\* come up only while there is no row.
LEMMA StepPagesBInv == P!PagesAssumption /\ PagesTInv /\ RowsFinite /\ PagesBInv /\ P!PagesNext => PagesBInv'
  <1> SUFFICES ASSUME P!PagesAssumption, PagesTInv, RowsFinite, PagesBInv, P!PagesNext PROVE PagesBInv'
    OBVIOUS
  <1>0. /\ P!PagesTypeOK /\ call \in [P!Request -> CallState] /\ PagesTInv' /\ RowsFinite'
        /\ admins \subseteq P!Existing \X (Account \cup P!Existing) \X (0..Requests)
    BY StepPagesTInv, StepRows DEF PagesTInv, P!PagesTypeOK, CallState
  \* A step that adds no row and no request that is to.
  <1>1. ASSUME NEW r \in P!Request, \A q \in P!Request \ {r} : call'[q] = call[q],
               call[r].phase \in PagesPhase \/ Cardinality(P!Serving) < Workers,
               admins' \subseteq admins, call'[r].phase \notin {"own", "add"},
               call'[r].phase \in {"check", "remove"} => \E x : P!HasRow(call'[r].page, x)
        PROVE  PagesBInv'
    <2>1. \A p, x : P!RowsOf(p, x)' \subseteq P!RowsOf(p, x) /\ Adding(p, x)' \subseteq Adding(p, x)
      BY <1>1 DEF P!RowsOf, Adding
    <2>2. \A p, x : P!HasRow(p, x) => x \in P!Profile
      BY <1>0 DEF P!HasRow, P!Profile, P!Existing
    <2>3. call'[r].phase \in {"check", "remove"} => \E x \in P!Profile : P!HasRow(call'[r].page, x)
      BY <1>1, <2>2
    <2>4. QED
      BY <1>0, <1>1, <2>1, <2>3, PagesBInvKept
  <1>2. ASSUME NEW r \in P!Request, P!Respond(r)
        PROVE  /\ \A q \in P!Request \ {r} : call'[q] = call[q]
               /\ call'[r].phase = "responded"
    BY <1>2, <1>0, PutTyped DEF P!Respond, CallState, P!Responded
  <1>3. ASSUME NEW r \in P!Request, P!Arrives(r), NEW u \in Account,
               \/ P!StartActivation(r, u)
               \/ \E x \in P!Profile : P!CreatePage(r, u, x)
               \/ \E x, v \in P!Profile, p \in Page : P!AddAdmin(r, u, x, p, v) \/ P!RemoveAdmin(r, u, x, p, v)
        PROVE  PagesBInv'
    <2>1. /\ admins' = admins
          /\ call'[r].phase \in {"activate", "insert", "check", "remove"}
          /\ call'[r].phase \in {"check", "remove"} => \E x : P!HasRow(call'[r].page, x)
          /\ \A q \in P!Request \ {r} : call'[q] = call[q]
      BY <1>3, Arriving
    <2>2. Cardinality(P!Serving) < Workers
      BY <1>3, CardinalitySame DEF P!Arrives
    <2>3. QED
      BY <2>1, <2>2, <1>1
  <1>4. ASSUME NEW r \in P!Request, P!InsertPage(r) PROVE PagesBInv'
    <2>1. PICK p \in Page \ P!Existing :
             /\ call[r].phase = "insert" /\ admins' = admins
             /\ \A q \in P!Request \ {r} : call'[q] = call[q]
             /\ call'[r].phase = "own" /\ call'[r].page = p
      BY <1>4, <1>0, InsertPageDoes
    <2>2. Unowned(r)'
      <3>1. \A a \in admins' : a[1] # p
        BY <2>1, <1>0
      <3>2. \A q \in P!Request \ {r} : call'[q].phase \in {"own", "check", "add", "remove"} => call'[q].page # p
        BY <2>1 DEF PagesTInv, PagesFieldsOK
      <3>3. QED
        BY <2>1, <3>1, <3>2 DEF Unowned
    <2>3. \A q, x : P!RowsOf(q, x)' \subseteq P!RowsOf(q, x) /\ Adding(q, x)' \subseteq Adding(q, x)
      BY <2>1 DEF P!RowsOf, Adding
    <2>4. QED
      BY <1>0, <2>1, <2>2, <2>3, PagesBInvKept DEF PagesPhase
  <1>5. ASSUME NEW r \in P!Request, P!OwnPage(r) PROVE PagesBInv'
    <2>1. PICK p, u : p = call[r].page /\ u = call[r].actor
      OBVIOUS
    <2>2. call[r].phase = "own" /\ P!Respond(r) /\ admins' = admins \cup {<<p, u, r>>}
      BY <1>5, <2>1 DEF P!OwnPage, P!In
    <2>3. /\ \A q \in P!Request \ {r} : call'[q] = call[q]
          /\ call'[r].phase = "responded"
      BY <2>2, <1>2
    <2>4. Unowned(r)
      BY <2>2 DEF PagesBInv
    <2>5. ASSUME NEW q \in Page, NEW x \in P!Profile
          PROVE  \/ Cardinality(P!RowsOf(q, x)') + Cardinality(Adding(q, x)') <= Workers
                 \/ P!RowsOf(q, x)' \subseteq P!RowsOf(q, x) /\ Adding(q, x)' \subseteq Adding(q, x)
      <3>1. CASE q = p /\ x = u
        <4> DEFINE t == <<p, u, r>>
        <4>1. P!RowsOf(q, x)' = {t}
          BY <2>1, <2>2, <2>4, <3>1 DEF P!RowsOf, Unowned
        <4>2. Adding(q, x)' = {}
          BY <2>1, <2>3, <2>4, <3>1 DEF Adding, Unowned
        <4>3. Cardinality({}) = 0 /\ Cardinality({t}) = 1
          BY FS_EmptySet, FS_Singleton
        <4>4. QED
          BY <4>1, <4>2, <4>3 DEF P!PagesAssumption
      <3>2. CASE ~(q = p /\ x = u)
        BY <2>2, <2>3, <3>2 DEF P!RowsOf, Adding
      <3>3. QED
        BY <3>1, <3>2
    <2>6. QED
      BY <1>0, <2>1, <2>2, <2>3, <2>5, PagesBInvKept DEF PagesPhase
  <1>6. ASSUME NEW r \in P!Request, P!CheckAdmin(r) PROVE PagesBInv'
    <2>1. call[r].phase = "check" /\ admins' = admins
      BY <1>6 DEF P!CheckAdmin, P!In
    <2>2. CASE P!Respond(r)
      BY <2>1, <2>2, <1>1, <1>2 DEF PagesPhase
    <2>3. CASE P!GoOn(r, "add") /\ ~P!AlreadyAdmin(r)
      <3>1. PICK p, x : p = call[r].page /\ x = call[r].whom
        OBVIOUS
      <3>2. /\ \A q \in P!Request \ {r} : call'[q] = call[q]
            /\ call'[r].phase = "add" /\ call'[r].page = p /\ call'[r].whom = x
            /\ call'[r].page = call[r].page
        BY <2>1, <2>3, <3>1, <1>0, GoneOn DEF PagesPhase
      <3>3. ~P!HasRow(p, x) /\ p \in Page
        BY <2>1, <2>3, <3>1 DEF P!AlreadyAdmin, P!IsAdmin, PagesTInv, PagesFieldsOK, P!Existing
      <3>4. P!RowsOf(p, x)' = {}
        <4>1. ASSUME NEW a \in admins, a[1] = p, a[2] = x PROVE FALSE
          <5>1. a = <<p, x, a[3]>> /\ a[3] \in 0..Requests
            BY <4>1, <1>0
          <5>2. QED
            BY <3>3, <4>1, <5>1 DEF P!HasRow
        <4>2. QED
          BY <2>1, <4>1 DEF P!RowsOf
      <3>5. ASSUME NEW q \in Page, NEW y \in P!Profile
            PROVE  \/ Cardinality(P!RowsOf(q, y)') + Cardinality(Adding(q, y)') <= Workers
                   \/ P!RowsOf(q, y)' \subseteq P!RowsOf(q, y) /\ Adding(q, y)' \subseteq Adding(q, y)
        <4>1. CASE q = p /\ y = x
          <5>1. /\ IsFiniteSet(P!Serving) /\ Cardinality(P!Serving) <= Workers /\ P!Serving = {w \in P!Request : call[w].phase \in PagesPhase}
            BY <3>3, FiniteSets DEF PagesBInv
          <5>2. Adding(q, y)' \in SUBSET P!Serving
            BY <2>1, <3>2, <5>1 DEF Adding, PagesPhase
          <5>3. IsFiniteSet(Adding(q, y)') /\ Cardinality(Adding(q, y)') <= Cardinality(P!Serving)
            BY <5>1, <5>2, FS_Subset
          <5>4. Cardinality(Adding(q, y)') \in Nat /\ Cardinality(P!Serving) \in Nat /\ Workers \in Nat
            BY <5>1, <5>3, FS_CardinalityType DEF P!PagesAssumption
          <5>5. Cardinality({}) = 0
            BY FS_EmptySet
          <5>6. Cardinality(P!RowsOf(q, y)') = 0
            BY <3>4, <4>1, <5>5
          <5>7. QED
            BY <5>1, <5>3, <5>4, <5>6
        <4>2. CASE ~(q = p /\ y = x)
          BY <2>1, <3>2, <4>2 DEF P!RowsOf, Adding
        <4>3. QED
          BY <4>1, <4>2
      <3>6. QED
        BY <1>0, <2>1, <3>2, <3>5, PagesBInvKept DEF PagesPhase
    <2>4. QED
      BY <1>6, <2>2, <2>3 DEF P!CheckAdmin
  <1>7. ASSUME NEW r \in P!Request, P!InsertAdmin(r) PROVE PagesBInv'
    <2>1. PICK p, u : p = call[r].page /\ u = call[r].whom
      OBVIOUS
    <2>2. call[r].phase = "add" /\ P!Respond(r) /\ admins' = admins \cup {<<p, u, r>>}
      BY <1>7, <2>1 DEF P!InsertAdmin, P!In
    <2>3. /\ \A q \in P!Request \ {r} : call'[q] = call[q]
          /\ call'[r].phase = "responded"
      BY <2>2, <1>2
    <2>4. ASSUME NEW q \in Page, NEW x \in P!Profile
          PROVE  \/ Cardinality(P!RowsOf(q, x)') + Cardinality(Adding(q, x)') <= Workers
                 \/ P!RowsOf(q, x)' \subseteq P!RowsOf(q, x) /\ Adding(q, x)' \subseteq Adding(q, x)
      <3>1. CASE q = p /\ x = u
        <4> DEFINE t == <<p, u, r>>
                   S == P!RowsOf(q, x)  T == Adding(q, x)  S1 == P!RowsOf(q, x)'  T1 == Adding(q, x)'
        <4>1. S1 \in SUBSET (S \cup {t})
          BY <2>2 DEF P!RowsOf
        <4>2. T1 \in SUBSET (T \ {r}) /\ r \in T
          BY <2>1, <2>2, <2>3, <3>1 DEF Adding
        <4>3. /\ IsFiniteSet(S) /\ IsFiniteSet(T) /\ Cardinality(S) + Cardinality(T) <= Workers /\ Workers \in Nat
          BY FiniteSets DEF PagesBInv, P!PagesAssumption
        <4> HIDE DEF S, T, S1, T1, t
        <4>4. Cardinality(S1) + Cardinality(T1) <= Workers
          BY <4>1, <4>2, <4>3, Exchange
        <4>5. QED
          BY <4>4 DEF S1, T1
      <3>2. CASE ~(q = p /\ x = u)
        BY <2>2, <2>3, <3>2 DEF P!RowsOf, Adding
      <3>3. QED
        BY <3>1, <3>2
    <2>5. QED
      BY <1>0, <2>1, <2>2, <2>3, <2>4, PagesBInvKept DEF PagesPhase
  <1>8. ASSUME NEW r \in P!Request, P!DeleteAdmin(r) PROVE PagesBInv'
    <2>1. call[r].phase = "remove" /\ P!Respond(r) /\ admins' \subseteq admins
      BY <1>8 DEF P!DeleteAdmin, P!In
    <2>2. QED
      BY <2>1, <1>1, <1>2 DEF PagesPhase
  <1>9. ASSUME NEW r \in P!Request, P!ActivateUser(r) PROVE PagesBInv'
    <2>1. call[r].phase = "activate" /\ P!GoOn(r, "pages") /\ admins' = admins
      BY <1>9 DEF P!ActivateUser, P!In
    <2>2. \A q \in P!Request \ {r} : call'[q] = call[q] /\ call'[r].phase = "pages"
      BY <2>1, <1>0, GoneOn DEF PagesPhase
    <2>3. call'[r].phase = "pages"
      BY <2>1, <1>0, GoneOn DEF PagesPhase
    <2>4. QED
      BY <2>1, <2>2, <2>3, <1>1 DEF PagesPhase
  <1>10. ASSUME NEW r \in P!Request, P!FindPages(r) PROVE PagesBInv'
    <2>1. PICK s : s = {p \in Page \ activated : P!HasRow(p, call[r].by)}
      OBVIOUS
    <2>2. /\ call[r].phase = "pages" /\ admins' = admins /\ s \subseteq Page
          /\ P!Respond(r) \/ call' = [call EXCEPT ![r].phase = "page", ![r].pages = s]
      BY <1>10, <2>1 DEF P!FindPages, P!In
    <2>3. CASE P!Respond(r)
      BY <2>2, <2>3, <1>1, <1>2 DEF PagesPhase
    <2>4. CASE call' = [call EXCEPT ![r].phase = "page", ![r].pages = s]
      <3>1. (\A q \in P!Request \ {r} : call'[q] = call[q]) /\ call'[r].phase = "page"
        BY <2>2, <2>4, <1>0, PagesNoted
      <3>2. QED
        BY <2>2, <3>1, <1>1 DEF PagesPhase
    <2>5. QED
      BY <2>2, <2>3, <2>4
  <1>11. ASSUME NEW r \in P!Request, P!ActivatePage(r) PROVE PagesBInv'
    <2>1. call[r].phase = "page" /\ admins' = admins
      BY <1>11 DEF P!ActivatePage, P!In
    <2>2. PICK p \in call[r].pages : P!Respond(r) \/ call' = [call EXCEPT ![r].pages = @ \ {p}]
      BY <1>11 DEF P!ActivatePage
    <2>3. CASE P!Respond(r)
      BY <2>1, <2>3, <1>1, <1>2 DEF PagesPhase
    <2>4. CASE call' = [call EXCEPT ![r].pages = @ \ {p}]
      <3>1. PICK s : s = call[r].pages \ {p}
        OBVIOUS
      <3>2. s \subseteq Page
        BY <2>1, <3>1 DEF PagesTInv, PagesFieldsOK, P!Existing
      <3>3. call' = [call EXCEPT ![r].pages = s]
        BY <2>4, <3>1, <1>0
      <3>4. (\A q \in P!Request \ {r} : call'[q] = call[q]) /\ call'[r].phase = "page"
        BY <2>1, <3>2, <3>3, <1>0, PagesNoted
      <3>5. QED
        BY <2>1, <3>4, <1>1 DEF PagesPhase
    <2>5. QED
      BY <2>2, <2>3, <2>4
  <1>12. ASSUME NEW r \in P!Request, P!AbortCall(r) PROVE PagesBInv'
    <2>1. P!Respond(r) /\ admins' = admins /\ call[r].phase \in PagesPhase
      BY <1>12, <1>0, PagesPhases DEF P!AbortCall, P!Serving
    <2>2. QED
      BY <2>1, <1>1, <1>2
  <1>13. ASSUME NEW u \in Account, P!DeactivateUser(u) PROVE PagesBInv'
    BY <1>13 DEF P!DeactivateUser, PagesBInv, P!Serving, Unowned, P!RowsOf, Adding
  <1>14. QED
    BY <1>3, <1>4, <1>5, <1>6, <1>7, <1>8, <1>9, <1>10, <1>11, <1>12, <1>13 DEF P!PagesNext
-----------------------------------------------------------------------------
LEMMA InitPagesInv == P!PagesAssumption /\ P!PagesInit => PagesInv
  BY InitPagesTInv, InitRows, InitPagesBInv, InitKept, InitPagesFInv DEF PagesInv

LEMMA StepPagesInv == P!PagesAssumption /\ PagesInv /\ P!PagesNext => PagesInv'
  BY StepPagesTInv, StepRows, StepPagesBInv, StepKept, StepPagesFInv DEF PagesInv

LEMMA UnchangedPagesInv == PagesInv /\ UNCHANGED pagesVars => PagesInv'
  <1> SUFFICES ASSUME PagesInv, UNCHANGED pagesVars PROVE PagesInv'
    OBVIOUS
  <1>1. PagesTInv' /\ RowsFinite'
    BY DEF pagesVars, PagesInv, PagesTInv, P!PagesTypeOK, PagesFieldsOK, P!Existing, RowsFinite
  <1>5. PagesKInv'
    <2>1. UNCHANGED <<admins, set, contested, call>> /\ PagesKInv
      BY DEF pagesVars, PagesInv
    <2>2. QED
      BY <2>1, PagesKInvKept
  <1>2. PagesBInv'
    BY DEF pagesVars, PagesInv, PagesBInv, P!Serving, Unowned, P!RowsOf, Adding
  <1>3. PagesFInv'
    BY DEF pagesVars, PagesInv, PagesFInv, P!HasRow, PagesComing, ComesBy
  <1>4. QED
    BY <1>1, <1>2, <1>3, <1>5 DEF PagesInv

\* A request that arrives and is about something else.
LEMMA AnsweredPagesInv ==
    ASSUME P!PagesAssumption, PagesInv, NEW r \in P!Request, P!Arrives(r), P!Respond(r),
           UNCHANGED <<activated, creator, admins, set, contested, outrun>>
    PROVE  PagesInv'
  <1>0. P!PagesTypeOK /\ PagesTInv /\ call[r].phase = "not_sent"
    BY DEF PagesInv, PagesTInv, P!Arrives, P!NotSent
  <1>1. /\ \A q \in P!Request \ {r} : call'[q] = call[q]
        /\ call'[r] = P!Responded /\ call'[r].phase = "responded" /\ call' \in [P!Request -> CallState]
    BY <1>0, PutTyped DEF P!Respond, CallState, P!Responded
  <1>2. \A q \in P!Request : call'[q].phase \in PagesPhase => call[q].phase \in PagesPhase /\ call'[q] = call[q]
    BY <1>1 DEF PagesPhase
  <1>3. PagesTInv'
    BY <1>0, <1>1 DEF PagesTInv, P!PagesTypeOK, PagesFieldsOK, P!Existing, CallState
  <1>4. RowsFinite' /\ PagesKInv'
    <2>1. RowsFinite'
      BY DEF PagesInv, RowsFinite
    <2>2. PagesKInv /\ \A q \in P!Request : call'[q].phase = "remove" => call'[q] = call[q]
      BY <1>2 DEF PagesInv, PagesPhase
    <2>3. QED
      BY <2>1, <2>2, PagesKInvKept
  <1>5. PagesBInv'
    <2>1. P!Serving' \subseteq P!Serving
      BY <1>1 DEF P!Serving, P!NotSent, P!Responded
    <2>2. \A p, x : P!RowsOf(p, x)' = P!RowsOf(p, x) /\ Adding(p, x)' = Adding(p, x)
      BY <1>0, <1>1 DEF P!RowsOf, Adding
    <2>3. \A q \in P!Request : call'[q].phase = "own" => Unowned(q)'
      BY <1>0, <1>1 DEF PagesInv, PagesBInv, Unowned
    <2>4. IsFiniteSet(P!Request) /\ P!Serving \in SUBSET P!Request
      BY FS_Interval DEF P!Request, P!PagesAssumption, P!Serving
    <2>5. IsFiniteSet(P!Serving)
      BY <2>4, FS_Subset
    <2>6. IsFiniteSet(P!Serving') /\ Cardinality(P!Serving') <= Cardinality(P!Serving)
      BY <2>1, <2>5, FS_Subset
    <2>7. Cardinality(P!Serving') \in Nat /\ Cardinality(P!Serving) \in Nat /\ Workers \in Nat
      BY <2>5, <2>6, FS_CardinalityType DEF P!PagesAssumption
    <2>8. Cardinality(P!Serving') <= Workers
      BY <2>6, <2>7 DEF PagesInv, PagesBInv
    <2>9. QED
      BY <2>2, <2>3, <2>8 DEF PagesInv, PagesBInv
  <1>6. PagesFInv'
    <2>1. \A p, u : (P!HasRow(p, u)' <=> P!HasRow(p, u)) /\ (PagesComing(p, u) => PagesComing(p, u)')
      BY <1>0, <1>1 DEF P!HasRow, PagesComing, ComesBy
    <2>2. QED
      BY <2>1 DEF PagesInv, PagesFInv
  <1>7. QED
    BY <1>3, <1>4, <1>5, <1>6 DEF PagesInv

\* Without pages and requests there is nothing to show.
LEMMA NoPagesInv ==
    ASSUME P!PagesAssumption, creator = [p \in Page |-> Nil], admins = {}, activated = {},
           call = [r \in P!Request |-> P!NotSent], set = {}, contested = {}, outrun = {}
    PROVE  PagesInv
  <1>1. /\ creator \in [Page -> P!Profile \cup {Nil}] /\ call \in [P!Request -> CallState]
        /\ \A r \in P!Request : call[r].phase = "not_sent" /\ call[r] = P!NotSent
    BY DEF P!NotSent, CallState
  <1>2. PagesTInv
    BY <1>1 DEF PagesTInv, P!PagesTypeOK, PagesFieldsOK, CallState
  <1>3. RowsFinite
    <2>1. \A p \in Page : {a \in admins : a[1] = p} = {}
      OBVIOUS
    <2>2. QED
      BY <2>1, FS_EmptySet DEF RowsFinite
  <1>4. PagesBInv
    <2>1. P!Serving = {} /\ \A p, x : P!RowsOf(p, x) = {} /\ Adding(p, x) = {}
      BY <1>1 DEF P!Serving, P!RowsOf, Adding
    <2>2. Cardinality({}) = 0 /\ Workers \in Nat
      BY FS_EmptySet DEF P!PagesAssumption
    <2>3. \A r \in P!Request : call[r].phase # "own"
      BY <1>1
    <2>4. QED
      BY <2>1, <2>2, <2>3 DEF PagesBInv
  <1>5. PagesKInv /\ PagesFInv
    BY <1>1 DEF PagesKInv, P!AdminKept, PagesFInv, P!HasRow
  <1>6. QED
    BY <1>2, <1>3, <1>4, <1>5 DEF PagesInv

LEMMA PagesInvHolds ==
    ASSUME P!PagesAssumption, PagesInv
    PROVE  P!PagesTypeOK /\ P!AdminKept /\ P!PagesFollow /\ P!AdminRowsBounded
  <1>1. P!PagesTypeOK /\ P!AdminKept
    BY DEF PagesInv, PagesTInv, PagesKInv
  <1>2. P!PagesFollow
    <2>1. \A r \in P!Request : call[r].phase \in {"pages", "page"} => r \in P!Serving
      BY DEF P!Serving, P!NotSent, P!Responded
    <2>2. \A p, u : PagesComing(p, u) => P!Activating(u)
      BY <2>1 DEF PagesComing, ComesBy, P!Activating
    <2>3. QED
      BY <2>2 DEF PagesInv, PagesFInv, P!PagesFollow
  <1>3. P!AdminRowsBounded
    <2>1. ASSUME NEW p \in Page, NEW x \in P!Profile PROVE Cardinality(P!RowsOf(p, x)) <= Workers
      <3>1. /\ IsFiniteSet(P!RowsOf(p, x)) /\ IsFiniteSet(Adding(p, x))
            /\ Cardinality(P!RowsOf(p, x)) + Cardinality(Adding(p, x)) <= Workers /\ Workers \in Nat
        BY FiniteSets DEF PagesInv, PagesBInv, P!PagesAssumption
      <3>2. Cardinality(P!RowsOf(p, x)) \in Nat /\ Cardinality(Adding(p, x)) \in Nat
        BY <3>1, FS_CardinalityType
      <3>3. QED
        BY <3>1, <3>2
    <2>2. QED
      BY <2>1, CardinalitySame DEF P!AdminRowsBounded
  <1>4. QED
    BY <1>1, <1>2, <1>3
-----------------------------------------------------------------------------
Inv1 == PagesInv /\ PO!PresenceInv

LEMMA InitInv1 == Init => Inv1
  <1> SUFFICES ASSUME Init PROVE Inv1
    OBVIOUS
  <1>1. ASSUME NoPages PROVE PagesInv
    <2>1. /\ creator = [p \in Page |-> Nil] /\ admins = {} /\ activated = {}
          /\ call = [r \in P!Request |-> P!NotSent] /\ set = {} /\ contested = {} /\ outrun = {}
      BY <1>1 DEF NoPages, P!Request, P!NotSent
    <2>2. QED
      BY <2>1, Assumed, NoPagesInv
  <1>2. ASSUME P!PagesInit PROVE PagesInv
    BY <1>2, Assumed, InitPagesInv
  <1>3. ASSUME NEW s \in Own, InApp(s) PROVE PO!PresenceInv
    <2>1. s \in Subscribable
      BY Assumed
    <2>2. /\ channels = [c \in PO!Channel |-> IF c = s[1] THEN 1 ELSE 0]
          /\ rows = 1 /\ joins = {<<1, s[2]>>} /\ online = {s} /\ outbox = << >> /\ changes = 0
          /\ hook = [w \in PO!Webhook |-> PO!NotReceived] /\ resorted = {} /\ dropped = {}
      BY <1>3, PresenceSame DEF InApp
    <2>3. QED
      BY <2>1, <2>2, Assumed, PO!AlonePresenceInv
  <1>4. ASSUME O!PresenceInit PROVE PO!PresenceInv
    BY <1>4, Assumed, PresenceSame, PO!InitPresenceInv
  <1>5. QED
    BY <1>1, <1>2, <1>3, <1>4 DEF Init, Inv1

\* A request that notifies somebody is not one that changes the pages.
LEMMA NotifyPageKeeps ==
    ASSUME PagesInv, NEW r \in P!Request, NEW x \in Page, NotifyPage(r, x)
    PROVE  PagesInv'
  <1>1. /\ r \in P!Request /\ P!Arrives(r) /\ P!Respond(r)
        /\ UNCHANGED <<activated, creator, admins, set, contested, outrun>>
    BY DEF NotifyPage, P!Respond
  <1>2. QED
    BY <1>1, Assumed, AnsweredPagesInv

LEMMA StepInv1 == Inv1 /\ [Next]_vars => Inv1'
  <1> SUFFICES ASSUME Inv1, [Next]_vars PROVE Inv1'
    OBVIOUS
  <1>1. PagesInv /\ PO!PresenceInv
    BY DEF Inv1
  <1>2. ASSUME UNCHANGED pagesVars PROVE PagesInv'
    BY <1>1, <1>2, UnchangedPagesInv
  <1>3. ASSUME UNCHANGED presenceVars PROVE PO!PresenceInv'
    <2>1. UNCHANGED PO!presenceVars
      BY <1>3 DEF presenceVars, PO!presenceVars
    <2>2. QED
      BY <1>1, <2>1, PO!UnchangedPresenceInv
  <1>4. CASE PagesMove
    <2>1. P!PagesNext /\ UNCHANGED presenceVars
      BY <1>4 DEF PagesMove
    <2>2. PagesInv'
      BY <1>1, <2>1, Assumed, StepPagesInv
    <2>3. QED
      BY <1>3, <2>1, <2>2 DEF Inv1
  <1>5. CASE PresenceMoves
    <2>1. O!PresenceNext /\ UNCHANGED pagesVars
      BY <1>5 DEF PresenceMoves
    <2>2. PO!PresenceInv'
      BY <1>1, <2>1, Assumed, PresenceSame, PO!StepPresenceInv
    <2>3. QED
      BY <1>2, <2>1, <2>2 DEF Inv1
  <1>6. CASE DevicesMove
    <2>1. UNCHANGED pagesVars /\ UNCHANGED presenceVars
      BY <1>6 DEF DevicesMove
    <2>2. QED
      BY <1>2, <1>3, <2>1 DEF Inv1
  <1>7. CASE \E r \in P!Request, x \in Page : NotifyPage(r, x)
    <2>1. PICK r \in P!Request, x \in Page : NotifyPage(r, x)
      BY <1>7
    <2>2. UNCHANGED presenceVars
      BY <2>1 DEF NotifyPage, Notify
    <2>3. PagesInv'
      BY <1>1, <2>1, NotifyPageKeeps
    <2>4. QED
      BY <1>3, <2>2, <2>3 DEF Inv1
  <1>8. CASE \E r \in D!Registration, x \in Account : NotifyPerson(r, x)
    <2>1. UNCHANGED pagesVars /\ UNCHANGED presenceVars
      BY <1>8 DEF NotifyPerson, Notify
    <2>2. QED
      BY <1>2, <1>3, <2>1 DEF Inv1
  <1>9. CASE PushWorker
    <2>1. UNCHANGED pagesVars /\ UNCHANGED presenceVars
      BY <1>9 DEF PushWorker, TakeJob, PushToAdmins, CheckPusher, FindDevices, SendPush, PushFails, OthersStand
    <2>2. QED
      BY <1>2, <1>3, <2>1 DEF Inv1
  <1>10. CASE UNCHANGED vars
    <2>1. UNCHANGED pagesVars /\ UNCHANGED presenceVars
      BY <1>10 DEF vars
    <2>2. QED
      BY <1>2, <1>3, <2>1 DEF Inv1
  <1>11. QED
    BY <1>4, <1>5, <1>6, <1>7, <1>8, <1>9, <1>10 DEF Next

\* Somebody is left to manage a page of which no admin was removed while a removal
\* from it that rested on his right was under way.
THEOREM PushAdminKept == Spec => []AdminKept
  <1>1. Inv1 => AdminKept
    BY Assumed, PagesInvHolds DEF Inv1, AdminKept
  <1>2. QED
    BY InitInv1, StepInv1, <1>1, PTL DEF Spec

\* Where requests are handled one at a time no page that had an admin is without
\* one: it takes two removals at once to leave nobody.
THEOREM PushAdminKeptAlone ==
    ASSUME Workers = 1
    PROVE  Spec => [](\A p \in set : \E x \in P!Profile : P!HasRow(p, x))
  <1>1. Inv1 => \A p \in set : \E x \in P!Profile : P!HasRow(p, x)
    BY DEF Inv1, PagesInv, PagesKInv, P!AdminKept
  <1>2. QED
    BY InitInv1, StepInv1, <1>1, PTL DEF Spec

\* The pages of an activated user are activated.
THEOREM PushPagesFollow == Spec => []PagesFollow
  <1>1. Inv1 => PagesFollow
    BY Assumed, PagesInvHolds DEF Inv1, PagesFollow
  <1>2. QED
    BY InitInv1, StepInv1, <1>1, PTL DEF Spec

\* A person who left is not taken for present.
THEOREM PushNoGhost == Spec => []NoGhost
  <1>1. Inv1 => NoGhost
    BY PO!PresenceInvHolds, PresenceSame DEF Inv1, NoGhost
  <1>2. QED
    BY InitInv1, StepInv1, <1>1, PTL DEF Spec

\* A person who is in the app is found to be.
THEOREM PushNotForgotten == Spec => []NotForgotten
  <1>1. Inv1 => NotForgotten
    BY PO!PresenceInvHolds, PresenceSame DEF Inv1, NotForgotten
  <1>2. QED
    BY InitInv1, StepInv1, <1>1, PTL DEF Spec
-----------------------------------------------------------------------------
RegPhase == {"find", "create", "own", "phone", "insert", "version"}

RegState == D!Underway \cup {D!NotMade, D!Done}

\* What is known of a registration by how far it has come.
RegOK(c) ==
    /\ c.phase \in RegPhase \ {"find", "create"} => c.user \in Account \cup guests
    /\ c.phase \in RegPhase /\ c.phone # Nil => c.kind = D!KindOf(c.phone)
    /\ c.phase \in RegPhase \ {"own"} => c.phone # Nil
    /\ c.phase = "version" => c.id \in 1..inserted

DTInv == D!PushTokensTypeOK /\ \A r \in D!Registration : RegOK(reg[r])

\* The ids are, and a device that was just inserted has no version yet.
Ids ==
    /\ \A d, e \in devices : d.id = e.id => d = e
    /\ \A r \in D!Registration : reg[r].phase = "version" =>
          \A d \in devices : d.id = reg[r].id => d.version = Nil
    /\ \A q, r \in D!Registration :
          reg[q].phase = "version" /\ reg[r].phase = "version" /\ reg[q].id = reg[r].id => q = r

\* The registrations that will insert a device of the user, or with the phone,
\* without deleting one before.
Coming(u, kind) ==
    {r \in D!Registration : reg[r].phase \in {"phone", "insert"} /\ reg[r].user = u /\ reg[r].kind = kind}

Inserting(t) == {r \in D!Registration : reg[r].phase = "insert" /\ reg[r].phone = t}

DBInv ==
    /\ IsFiniteSet(devices)
    /\ Cardinality(D!Registering) <= Workers
    /\ \A u \in D!User, kind \in D!Kind :
          Cardinality(D!DevicesOf(u, kind)) + Cardinality(Coming(u, kind)) <= Workers
    /\ \A t \in Phone : Cardinality(D!DevicesWith(t)) + Cardinality(Inserting(t)) <= Workers

\* Of a phone that was not registered twice at once there is one registration,
\* and what it is about to replace is gone.
HandedOn(t) ==
    /\ t \in Iphone \/ t \notin raced => \A d, e \in D!DevicesWith(t) : d = e
    /\ t \notin raced =>
          /\ \A d \in D!DevicesWith(t) : d.user = owner[t]
          /\ \A q, r \in D!Registration :
                reg[q].phase \in RegPhase /\ reg[r].phase \in RegPhase /\ reg[q].phone = t /\ reg[r].phone = t => q = r
          /\ \A r \in Inserting(t) : D!DevicesWith(t) = {}

HInv == \A t \in Phone : HandedOn(t)

DInv == DTInv /\ Ids /\ DBInv /\ HInv
-----------------------------------------------------------------------------
LEMMA RegPhases ==
    ASSUME NEW c \in RegState
    PROVE  /\ c \in D!Underway <=> c.phase \in RegPhase
           /\ c \notin {D!NotMade, D!Done} <=> c.phase \in RegPhase
           /\ c = D!NotMade <=> c.phase = "not_made"
           /\ c = D!Done <=> c.phase = "done"
  BY DEF RegState, D!Underway, D!NotMade, D!Done, RegPhase

LEMMA RegTypes ==
    ASSUME DTInv
    PROVE  /\ reg \in [D!Registration -> RegState]
           /\ \A r \in D!Registration :
                 /\ reg[r].phase \in RegPhase <=> r \in D!Registering
                 /\ reg[r].phase \in RegPhase =>
                       reg[r] \in D!Underway /\ (reg[r].phone # Nil => reg[r].phone \in Phone)
           /\ inserted \in Nat
           /\ \A d \in devices :
                 /\ d.id \in 1..inserted /\ d.user \in Account \cup guests /\ d.phone \in Phone
                 /\ d.version \in Version \cup {Nil}
                 /\ d = [id |-> d.id, user |-> d.user, phone |-> d.phone, version |-> d.version]
  <1>1. reg \in [D!Registration -> RegState] /\ inserted \in Nat
    BY DEF DTInv, D!PushTokensTypeOK, RegState
  <1>2. \A r \in D!Registration : reg[r].phase \in RegPhase <=> r \in D!Registering
    BY <1>1, RegPhases DEF D!Registering
  <1>3. \A r \in D!Registration : reg[r].phase \in RegPhase =>
           reg[r] \in D!Underway /\ (reg[r].phone # Nil => reg[r].phone \in Phone)
    BY <1>1, RegPhases DEF D!Underway
  <1>4. devices \subseteq [id: 1..inserted, user: Account \cup guests, phone: Phone, version: Version \cup {Nil}]
    BY DEF DTInv, D!PushTokensTypeOK
  <1>5. QED
    BY <1>1, <1>2, <1>3, <1>4

LEMMA RegPut ==
    ASSUME DTInv, NEW r \in D!Registration, NEW c \in RegState, reg' = [reg EXCEPT ![r] = c]
    PROVE  /\ reg' \in [D!Registration -> RegState] /\ reg'[r] = c
           /\ \A q \in D!Registration \ {r} : reg'[q] = reg[q]
  BY RegTypes

\* A registration goes on, with a new user or row if it gets one.
RegStep(r, phase, u, i) ==
    \/ D!GoOn(r, phase) /\ u = reg[r].user /\ i = reg[r].id
    \/ reg' = [reg EXCEPT ![r].phase = phase, ![r].user = u] /\ i = reg[r].id
    \/ reg' = [reg EXCEPT ![r].phase = phase, ![r].id = i] /\ u = reg[r].user

LEMMA RegGoOn ==
    ASSUME DTInv, NEW r \in D!Registration, reg[r].phase \in RegPhase, NEW phase, phase \in RegPhase,
           NEW u, u \in D!User \cup {Nil}, NEW i, i \in Nat,
           RegStep(r, phase, u, i)
    PROVE  /\ reg' \in [D!Registration -> RegState]
           /\ \A q \in D!Registration \ {r} : reg'[q] = reg[q]
           /\ reg'[r] \in D!Underway
           /\ reg'[r].phase = phase /\ reg'[r].user = u /\ reg'[r].id = i
           /\ reg'[r].kind = reg[r].kind /\ reg'[r].phone = reg[r].phone /\ reg'[r].version = reg[r].version
  <1> DEFINE c == [reg[r] EXCEPT !.phase = phase, !.user = u, !.id = i]
  <1>1. reg \in [D!Registration -> RegState] /\ reg[r] \in D!Underway
    BY RegTypes
  <1>2. /\ c \in D!Underway /\ c \in RegState
        /\ c.phase = phase /\ c.user = u /\ c.id = i
        /\ c.kind = reg[r].kind /\ c.phone = reg[r].phone /\ c.version = reg[r].version
    BY <1>1 DEF D!Underway, RegState, RegPhase
  <1>3. reg' = [reg EXCEPT ![r] = c]
    <2>1. /\ u = reg[r].user /\ i = reg[r].id => c = [reg[r] EXCEPT !.phase = phase]
          /\ i = reg[r].id => c = [reg[r] EXCEPT !.phase = phase, !.user = u]
          /\ u = reg[r].user => c = [reg[r] EXCEPT !.phase = phase, !.id = i]
      BY <1>1 DEF D!Underway
    <2>2. QED
      BY <1>1, <2>1 DEF D!GoOn, RegStep
  <1> HIDE DEF c
  <1>4. QED
    BY <1>2, <1>3, RegPut

LEMMA RegGoesOn ==
    ASSUME DTInv, NEW r \in D!Registration, reg[r].phase \in RegPhase, NEW phase, phase \in RegPhase,
           D!GoOn(r, phase)
    PROVE  /\ reg' \in [D!Registration -> RegState]
           /\ \A q \in D!Registration \ {r} : reg'[q] = reg[q]
           /\ reg'[r].phase = phase /\ reg'[r].user = reg[r].user /\ reg'[r].id = reg[r].id
           /\ reg'[r].kind = reg[r].kind /\ reg'[r].phone = reg[r].phone
  <1>1. PICK u, i : u = reg[r].user /\ i = reg[r].id
    OBVIOUS
  <1>2. u \in D!User \cup {Nil} /\ i \in Nat
    BY <1>1, RegTypes DEF D!Underway
  <1>3. RegStep(r, phase, u, i)
    BY <1>1 DEF RegStep
  <1>4. /\ reg' \in [D!Registration -> RegState]
        /\ \A q \in D!Registration \ {r} : reg'[q] = reg[q]
        /\ reg'[r].phase = phase /\ reg'[r].user = u /\ reg'[r].id = i
        /\ reg'[r].kind = reg[r].kind /\ reg'[r].phone = reg[r].phone
    BY <1>2, <1>3, RegGoOn
  <1>5. QED
    BY <1>1, <1>4

LEMMA RegFinish ==
    ASSUME DTInv, NEW r \in D!Registration, D!Finish(r)
    PROVE  /\ reg' \in [D!Registration -> RegState]
           /\ \A q \in D!Registration \ {r} : reg'[q] = reg[q]
           /\ reg'[r].phase = "done" /\ reg'[r].phase \notin RegPhase
  <1>1. D!Done \in RegState /\ D!Done.phase = "done" /\ "done" \notin RegPhase
    BY DEF RegState, D!Done, RegPhase
  <1>2. QED
    BY <1>1, RegPut DEF D!Finish
-----------------------------------------------------------------------------
\* Two parts of what is bounded together stay bounded.
LEMMA LessLeft ==
    ASSUME NEW S, NEW T, NEW W \in Nat, IsFiniteSet(S), IsFiniteSet(T),
           Cardinality(S) + Cardinality(T) <= W,
           NEW S1, S1 \in SUBSET S, NEW T1, T1 \in SUBSET T
    PROVE  Cardinality(S1) + Cardinality(T1) <= W
  <1>1. IsFiniteSet(S1) /\ IsFiniteSet(T1) /\ Cardinality(S1) <= Cardinality(S) /\ Cardinality(T1) <= Cardinality(T)
    BY FS_Subset
  <1>2. Cardinality(S) \in Nat /\ Cardinality(T) \in Nat /\ Cardinality(S1) \in Nat /\ Cardinality(T1) \in Nat
    BY <1>1, FS_CardinalityType
  <1>3. QED
    BY <1>1, <1>2

LEMMA DFinite ==
    ASSUME DInv
    PROVE  /\ IsFiniteSet(D!Registering) /\ D!Registering \subseteq D!Registration
           /\ Cardinality(D!Registering) \in Nat /\ Workers \in Nat
           /\ \A u, kind : IsFiniteSet(D!DevicesOf(u, kind)) /\ IsFiniteSet(Coming(u, kind))
                              /\ Coming(u, kind) \subseteq D!Registering
           /\ \A t : IsFiniteSet(D!DevicesWith(t)) /\ IsFiniteSet(Inserting(t)) /\ Inserting(t) \subseteq D!Registering
  <1>1. IsFiniteSet(D!Registration)
    BY Assumed, FS_Interval DEF D!PushTokensAssumption, D!Registration
  <1>2. D!Registering \subseteq D!Registration
    BY DEF D!Registering
  <1>3. IsFiniteSet(D!Registering)
    BY <1>1, <1>2, FS_Subset
  <1>4. \A u, kind : Coming(u, kind) \subseteq D!Registering
    BY RegTypes DEF Coming, RegPhase, DInv
  <1>5. \A t : Inserting(t) \subseteq D!Registering
    BY RegTypes DEF Inserting, RegPhase, DInv
  <1>6. \A u, kind : D!DevicesOf(u, kind) \subseteq devices
    BY DEF D!DevicesOf
  <1>7. \A t : D!DevicesWith(t) \subseteq devices
    BY DEF D!DevicesWith
  <1>8. IsFiniteSet(devices)
    BY DEF DInv, DBInv
  <1>9. \A u, kind : IsFiniteSet(D!DevicesOf(u, kind)) /\ IsFiniteSet(Coming(u, kind))
    BY <1>3, <1>4, <1>6, <1>8, FS_Subset
  <1>10. \A t : IsFiniteSet(D!DevicesWith(t)) /\ IsFiniteSet(Inserting(t))
    BY <1>3, <1>5, <1>7, <1>8, FS_Subset
  <1>11. Workers \in Nat
    BY Assumed DEF D!PushTokensAssumption
  <1>12. QED
    BY <1>2, <1>3, <1>4, <1>5, <1>9, <1>10, <1>11, FS_CardinalityType

\* What a registration keeps that inserts and changes no device: it may only go
\* on to insert one after it has deleted those in the way.
LEMMA RegMoves ==
    ASSUME DInv, NEW r \in D!Registration, NEW c, c = reg'[r],
           devices' \subseteq devices, UNCHANGED <<inserted, owner>>,
           guests \subseteq guests', guests' \subseteq Guest, raced \subseteq raced', raced' \subseteq Phone,
           reg' \in [D!Registration -> RegState], \A q \in D!Registration \ {r} : reg'[q] = reg[q],
           RegOK(reg[r])', c.phase # "version",
           c.phase \in RegPhase => r \in D!Registering \/ Cardinality(D!Registering) < Workers,
           c.phase \in {"phone", "insert"} =>
              \/ D!DevicesOf(c.user, c.kind)' = {}
              \/ reg[r].phase \in {"phone", "insert"} /\ c.user = reg[r].user /\ c.kind = reg[r].kind,
           c.phase = "insert" => D!DevicesWith(c.phone)' = {},
           \A t \in Phone : t \notin raced' /\ c.phase \in RegPhase /\ c.phone = t =>
              \A q \in D!Registration \ {r} : reg[q].phase \in RegPhase => reg[q].phone # t
    PROVE  DInv'
  <1>1. DTInv /\ Ids /\ DBInv /\ HInv
    BY DEF DInv
  <1>0. \A q \in D!Registration : reg'[q].phase \in RegPhase <=> q \in D!Registering'
    BY RegPhases DEF D!Registering, D!Registration
  <1>2. DTInv'
    <2>1. \A q \in D!Registration : RegOK(reg[q])'
      <3>1. ASSUME NEW q \in D!Registration \ {r}
            PROVE  RegOK(reg[q])'
        <4>1. RegOK(reg[q]) /\ reg'[q] = reg[q] /\ inserted' = inserted
          BY <1>1 DEF DTInv
        <4>2. QED
          BY <4>1 DEF RegOK
      <3>2. QED
        BY <3>1
    <2>2. D!PushTokensTypeOK'
      <3>1. \A d \in devices' :
               d \in [id: 1..inserted', user: Account \cup guests', phone: Phone, version: Version \cup {Nil}]
        BY <1>1 DEF DTInv, D!PushTokensTypeOK
      <3>2. owner' \in [Phone -> Account \cup guests' \cup {Nil}]
        BY <1>1 DEF DTInv, D!PushTokensTypeOK
      <3>3. QED
        BY <1>1, <3>1, <3>2 DEF DTInv, D!PushTokensTypeOK, RegState
    <2>3. QED
      BY <2>1, <2>2 DEF DTInv
  <1>3. Ids'
    BY <1>1 DEF Ids
  <1>4. D!Registering' \subseteq D!Registering \cup {r} /\ (c.phase \notin RegPhase => D!Registering' \subseteq D!Registering)
    <2>1. \A q \in D!Registration : reg'[q].phase \in RegPhase <=> q \in D!Registering'
      BY <1>0
    <2>2. D!Registering' \subseteq D!Registration
      BY DEF D!Registering, D!Registration
    <2>3. QED
      BY <1>1, <2>1, <2>2, RegTypes
  <1>5. IsFiniteSet(D!Registering') /\ Cardinality(D!Registering') \in Nat /\ Cardinality(D!Registering') <= Workers
    <2>1. IsFiniteSet(D!Registering) /\ Cardinality(D!Registering) \in Nat /\ Workers \in Nat /\ Cardinality(D!Registering) <= Workers
      BY <1>1, DFinite DEF DBInv
    <2>2. CASE c.phase \notin RegPhase \/ r \in D!Registering
      <3>1. D!Registering' \subseteq D!Registering
        BY <1>4, <2>2
      <3>2. IsFiniteSet(D!Registering') /\ Cardinality(D!Registering') <= Cardinality(D!Registering)
        BY <2>1, <3>1, FS_Subset
      <3>3. Cardinality(D!Registering') \in Nat
        BY <3>2, FS_CardinalityType
      <3>4. QED
        BY <2>1, <3>2, <3>3
    <2>3. CASE Cardinality(D!Registering) < Workers
      <3>1. /\ IsFiniteSet(D!Registering \cup {r})
            /\ Cardinality(D!Registering \cup {r}) =
                  IF r \in D!Registering THEN Cardinality(D!Registering) ELSE Cardinality(D!Registering) + 1
        BY <2>1, FS_AddElement
      <3>2. Cardinality(D!Registering \cup {r}) <= Workers /\ Cardinality(D!Registering \cup {r}) \in Nat
        BY <2>1, <2>3, <3>1
      <3>3. IsFiniteSet(D!Registering') /\ Cardinality(D!Registering') <= Cardinality(D!Registering \cup {r})
        BY <1>4, <3>1, FS_Subset
      <3>4. Cardinality(D!Registering') \in Nat
        BY <3>3, FS_CardinalityType
      <3>5. QED
        BY <2>1, <3>2, <3>3, <3>4
    <2>4. QED
      BY <2>2, <2>3
  <1>6. DBInv'
    <2>1. IsFiniteSet(devices')
      BY <1>1, FS_Subset DEF DBInv
    <2>2. ASSUME NEW u \in D!User, NEW kind \in D!Kind
          PROVE  Cardinality(D!DevicesOf(u, kind)') + Cardinality(Coming(u, kind)') <= Workers
      <3>1. D!DevicesOf(u, kind)' \in SUBSET D!DevicesOf(u, kind)
        BY DEF D!DevicesOf
      <3>2. CASE D!DevicesOf(u, kind)' = {}
        <4>1. Coming(u, kind)' \in SUBSET (D!Registering')
          BY <1>0 DEF Coming, RegPhase, D!Registration
        <4>2. IsFiniteSet(Coming(u, kind)') /\ Cardinality(Coming(u, kind)') <= Cardinality(D!Registering')
          BY <1>5, <4>1, FS_Subset
        <4>3. Cardinality(Coming(u, kind)') \in Nat /\ Workers \in Nat
          BY <4>2, FS_CardinalityType, DFinite
        <4>4. Cardinality(D!DevicesOf(u, kind)') = 0
          BY <3>2, FS_EmptySet
        <4>5. QED
          BY <1>5, <4>2, <4>3, <4>4
      <3>3. CASE D!DevicesOf(u, kind)' # {}
        <4>1. Coming(u, kind)' \in SUBSET Coming(u, kind)
          <5>1. ASSUME NEW q \in Coming(u, kind)'
                PROVE  q \in Coming(u, kind)
            <6>1. q \in D!Registration /\ reg'[q].phase \in {"phone", "insert"} /\ reg'[q].user = u /\ reg'[q].kind = kind
              BY <5>1 DEF Coming, D!Registration
            <6>2. CASE q # r
              BY <6>1, <6>2 DEF Coming
            <6>3. CASE q = r
              <7>1. c.phase \in {"phone", "insert"} /\ c.user = u /\ c.kind = kind
                BY <6>1, <6>3
              <7>2. D!DevicesOf(c.user, c.kind)' = D!DevicesOf(u, kind)'
                BY <7>1 DEF D!DevicesOf
              <7>3. QED
                BY <3>3, <6>3, <7>1, <7>2 DEF Coming
            <6>4. QED
              BY <6>2, <6>3
          <5>2. QED
            BY <5>1
        <4>2. Cardinality(D!DevicesOf(u, kind)) + Cardinality(Coming(u, kind)) <= Workers
          BY <1>1 DEF DBInv
        <4>3. QED
          BY <3>1, <4>1, <4>2, DFinite, LessLeft
      <3>4. QED
        BY <3>2, <3>3
    <2>3. ASSUME NEW t \in Phone
          PROVE  Cardinality(D!DevicesWith(t)') + Cardinality(Inserting(t)') <= Workers
      <3>1. D!DevicesWith(t)' \in SUBSET D!DevicesWith(t)
        BY DEF D!DevicesWith
      <3>2. CASE D!DevicesWith(t)' = {}
        <4>1. Inserting(t)' \in SUBSET (D!Registering')
          BY <1>0 DEF Inserting, RegPhase, D!Registration
        <4>2. IsFiniteSet(Inserting(t)') /\ Cardinality(Inserting(t)') <= Cardinality(D!Registering')
          BY <1>5, <4>1, FS_Subset
        <4>3. Cardinality(Inserting(t)') \in Nat /\ Workers \in Nat
          BY <4>2, FS_CardinalityType, DFinite
        <4>4. Cardinality(D!DevicesWith(t)') = 0
          BY <3>2, FS_EmptySet
        <4>5. QED
          BY <1>5, <4>2, <4>3, <4>4
      <3>3. CASE D!DevicesWith(t)' # {}
        <4>1. Inserting(t)' \in SUBSET Inserting(t)
          <5>1. ASSUME NEW q \in Inserting(t)'
                PROVE  q \in Inserting(t)
            <6>1. q \in D!Registration /\ reg'[q].phase = "insert" /\ reg'[q].phone = t
              BY <5>1 DEF Inserting, D!Registration
            <6>2. q = r => D!DevicesWith(t)' = {}
              BY <6>1 DEF D!DevicesWith
            <6>3. QED
              BY <3>3, <6>1, <6>2 DEF Inserting
          <5>2. QED
            BY <5>1
        <4>2. Cardinality(D!DevicesWith(t)) + Cardinality(Inserting(t)) <= Workers
          BY <1>1 DEF DBInv
        <4>3. QED
          BY <3>1, <4>1, <4>2, DFinite, LessLeft
      <3>4. QED
        BY <3>2, <3>3
    <2>4. QED
      BY <1>5, <2>1, <2>2, <2>3 DEF DBInv, D!User, D!Kind
  <1>7. ASSUME NEW t \in Phone PROVE HandedOn(t)'
    <2>1. HandedOn(t)
      BY <1>1 DEF HInv
    <2>2. D!DevicesWith(t)' \subseteq D!DevicesWith(t)
      BY DEF D!DevicesWith
    <2>3. t \notin raced' => t \notin raced
      OBVIOUS
    <2>4. ASSUME t \notin raced', NEW p \in D!Registration, NEW q \in D!Registration,
                 reg'[q].phase \in RegPhase, reg'[p].phase \in RegPhase, reg'[q].phone = t, reg'[p].phone = t
          PROVE  q = p
      <3>1. CASE p = r \/ q = r
        BY <2>4, <3>1
      <3>2. CASE p # r /\ q # r
        BY <2>1, <2>3, <2>4, <3>2 DEF HandedOn
      <3>3. QED
        BY <3>1, <3>2
    <2>5. ASSUME t \notin raced', NEW q \in Inserting(t)'
          PROVE  D!DevicesWith(t)' = {}
      <3>1. q \in D!Registration /\ reg'[q].phase = "insert" /\ reg'[q].phone = t
        BY <2>5 DEF Inserting, D!Registration
      <3>2. CASE q = r
        BY <3>1, <3>2 DEF D!DevicesWith
      <3>3. CASE q # r
        <4>1. q \in Inserting(t)
          BY <3>1, <3>3 DEF Inserting
        <4>2. QED
          BY <2>1, <2>2, <2>3, <2>5, <4>1 DEF HandedOn
      <3>4. QED
        BY <3>2, <3>3
    <2>6. t \in Iphone \/ t \notin raced' => \A d, e \in D!DevicesWith(t)' : d = e
      BY <2>1, <2>2, <2>3 DEF HandedOn
    <2>7. t \notin raced' => \A d \in D!DevicesWith(t)' : d.user = owner'[t]
      BY <2>1, <2>2, <2>3 DEF HandedOn
    <2>8. QED
      BY <2>4, <2>5, <2>6, <2>7 DEF HandedOn, D!Registration
  <1>8. QED
    BY <1>2, <1>3, <1>6, <1>7 DEF DInv, HInv

\* A registration that ends, or starts nothing.
LEMMA EndKeeps ==
    ASSUME DInv, NEW r \in D!Registration, D!Finish(r), devices' \subseteq devices,
           UNCHANGED <<inserted, guests, owner, raced>>
    PROVE  DInv'
  <1>1. DTInv
    BY DEF DInv
  <1>2. /\ reg' \in [D!Registration -> RegState]
        /\ \A q \in D!Registration \ {r} : reg'[q] = reg[q]
        /\ reg'[r].phase = "done" /\ reg'[r].phase \notin RegPhase
    BY <1>1, RegFinish
  <1>3. RegOK(reg[r])'
    BY <1>2 DEF RegOK, RegPhase
  <1>4. guests \subseteq Guest /\ raced \subseteq Phone
    BY <1>1 DEF DTInv, D!PushTokensTypeOK
  <1>5. PICK c : c = reg'[r]
    OBVIOUS
  <1>6. c.phase \notin RegPhase /\ c.phase = "done"
    BY <1>2, <1>5
  <1>7. QED
    BY <1>2, <1>3, <1>4, <1>5, <1>6, RegMoves

LEMMA ArriveKeeps ==
    ASSUME DInv, NEW r \in D!Registration, D!Arrives(r), NEW phase, phase \in {"own", "find"}, NEW u,
           NEW kind \in D!Kind, NEW t, NEW v \in Version, D!Arrive(r, phase, u, kind, t, v),
           UNCHANGED <<devices, inserted, guests, owner>>,
           phase = "own" => u \in Account, phase = "find" => u = Nil /\ t # Nil,
           t # Nil => t \in Phone /\ kind = D!KindOf(t)
    PROVE  DInv'
  <1> DEFINE c == [phase |-> phase, user |-> u, kind |-> kind, phone |-> t, version |-> v, id |-> 0]
  <1>1. DTInv
    BY DEF DInv
  <1>2. c \in D!Underway /\ c \in RegState
    BY DEF D!Underway, RegState, D!User
  <1>3. /\ c.phase = phase /\ c.user = u /\ c.kind = kind /\ c.phone = t
    OBVIOUS
  <1>4. /\ reg' = [reg EXCEPT ![r] = c]
        /\ raced' = raced \cup {s \in {t} \cap Phone : \E q \in D!Registering : reg[q].phone = s}
    BY DEF D!Arrive
  <1> HIDE DEF c
  <1>5. reg' \in [D!Registration -> RegState] /\ reg'[r] = c /\ \A q \in D!Registration \ {r} : reg'[q] = reg[q]
    BY <1>1, <1>2, <1>4, RegPut
  <1>6. RegOK(reg[r])'
    BY <1>3, <1>5 DEF RegOK, RegPhase
  <1>7. guests \subseteq Guest /\ raced \subseteq raced' /\ raced' \subseteq Phone
    BY <1>1, <1>4 DEF DTInv, D!PushTokensTypeOK
  <1>8. Cardinality(D!Registering) < Workers
    BY CardinalitySame DEF D!Arrives
  <1>9. ASSUME NEW s \in Phone, s \notin raced', c.phone = s, NEW q \in D!Registration \ {r}, reg[q].phase \in RegPhase
        PROVE  reg[q].phone # s
    <2>1. q \in D!Registering
      BY <1>1, <1>9, RegTypes
    <2>2. QED
      BY <1>3, <1>4, <1>9, <2>1
  <1>10. c.phase \notin {"phone", "insert", "version"}
    BY <1>3
  <1>11. QED
    BY <1>5, <1>6, <1>7, <1>8, <1>9, <1>10, RegMoves

LEMMA FindGuestKeeps ==
    ASSUME DInv, NEW r \in D!Registration, D!FindGuest(r)
    PROVE  DInv'
  <1>1. DTInv /\ HInv
    BY DEF DInv
  <1>2. reg[r].phase = "find" /\ UNCHANGED <<devices, inserted, guests, owner, raced>>
    BY DEF D!FindGuest, D!In
  <1>3. CASE D!Finish(r)
    BY <1>2, <1>3, EndKeeps
  <1>4. CASE D!GoOn(r, "create")
    <2>1. reg[r] \in D!Underway /\ reg[r].user \in D!User \cup {Nil} /\ reg[r].id \in Nat
          /\ reg[r].phase \in RegPhase /\ r \in D!Registering
      BY <1>1, <1>2, RegTypes DEF RegPhase, D!Underway
    <2>2. "create" \in RegPhase
      BY DEF RegPhase
    <2>3. /\ reg' \in [D!Registration -> RegState]
          /\ \A q \in D!Registration \ {r} : reg'[q] = reg[q]
          /\ reg'[r].phase = "create" /\ reg'[r].user = reg[r].user
          /\ reg'[r].kind = reg[r].kind /\ reg'[r].phone = reg[r].phone
      BY <1>1, <1>4, <2>1, <2>2, RegGoesOn
    <2>4. RegOK(reg[r])'
      <3>1. RegOK(reg[r])
        BY <1>1 DEF DTInv
      <3>2. QED
        BY <1>2, <2>3, <3>1 DEF RegOK, RegPhase
    <2>5. guests \subseteq Guest /\ raced \subseteq Phone
      BY <1>1 DEF DTInv, D!PushTokensTypeOK
    <2>6. \A t \in Phone : t \notin raced /\ reg[r].phone = t =>
              \A q \in D!Registration \ {r} : reg[q].phase \in RegPhase => reg[q].phone # t
      BY <1>1, <2>1 DEF HInv, HandedOn
    <2>7. PICK c : c = reg'[r]
      OBVIOUS
    <2>8. QED
      BY <1>2, <2>1, <2>3, <2>4, <2>5, <2>6, <2>7, RegMoves
  <1>5. QED
    BY <1>3, <1>4 DEF D!FindGuest

LEMMA CreateGuestKeeps ==
    ASSUME DInv, NEW r \in D!Registration, D!CreateGuest(r)
    PROVE  DInv'
  <1>1. DTInv /\ HInv
    BY DEF DInv
  <1>2. /\ reg[r].phase = "create" /\ guests # Guest
        /\ UNCHANGED <<devices, inserted, owner, raced>>
    BY DEF D!CreateGuest, D!In
  <1>3. guests \subseteq Guest /\ raced \subseteq Phone
    BY <1>1 DEF DTInv, D!PushTokensTypeOK
  <1>4. PICK g \in Guest \ guests : /\ guests' = guests \cup {g}
                                   /\ reg' = [reg EXCEPT ![r].phase = "own", ![r].user = g]
    <2>1. (CHOOSE h \in Guest \ guests : TRUE) \in Guest \ guests
      BY <1>2, <1>3
    <2>2. QED
      BY <2>1 DEF D!CreateGuest
  <1>5. reg[r] \in D!Underway /\ reg[r].id \in Nat /\ reg[r].phase \in RegPhase /\ r \in D!Registering
    BY <1>1, <1>2, RegTypes DEF RegPhase, D!Underway
  <1>6. "own" \in RegPhase /\ g \in D!User \cup {Nil}
    BY DEF RegPhase, D!User
  <1>7. /\ reg' \in [D!Registration -> RegState]
        /\ \A q \in D!Registration \ {r} : reg'[q] = reg[q]
        /\ reg'[r].phase = "own" /\ reg'[r].user = g
        /\ reg'[r].kind = reg[r].kind /\ reg'[r].phone = reg[r].phone
    <2>1. PICK i, phase : i = reg[r].id /\ phase = "own"
      OBVIOUS
    <2>2. i \in Nat /\ phase \in RegPhase /\ g \in D!User \cup {Nil}
      BY <1>5, <1>6, <2>1
    <2>3. RegStep(r, phase, g, i)
      BY <1>4, <2>1 DEF RegStep
    <2>4. /\ reg' \in [D!Registration -> RegState]
          /\ \A q \in D!Registration \ {r} : reg'[q] = reg[q]
          /\ reg'[r].phase = phase /\ reg'[r].user = g
          /\ reg'[r].kind = reg[r].kind /\ reg'[r].phone = reg[r].phone
      BY <1>1, <1>5, <2>2, <2>3, RegGoOn
    <2>5. QED
      BY <2>1, <2>4
  <1>8. RegOK(reg[r])'
    <2>1. RegOK(reg[r])
      BY <1>1 DEF DTInv
    <2>2. QED
      BY <1>2, <1>4, <1>7, <2>1 DEF RegOK, RegPhase
  <1>9. guests' \subseteq Guest /\ guests \subseteq guests'
    BY <1>3, <1>4
  <1>10. \A t \in Phone : t \notin raced /\ reg[r].phone = t =>
              \A q \in D!Registration \ {r} : reg[q].phase \in RegPhase => reg[q].phone # t
    BY <1>1, <1>5 DEF HInv, HandedOn
  <1>11. PICK c : c = reg'[r]
    OBVIOUS
  <1>12. QED
    BY <1>2, <1>3, <1>5, <1>7, <1>8, <1>9, <1>10, <1>11, RegMoves

\* update_push_tokens deletes what is in the way.
LEMMA DeletesKeep ==
    ASSUME DInv, NEW r \in D!Registration, NEW u, NEW kind, NEW t,
           u = reg[r].user, kind = reg[r].kind, t = reg[r].phone, t # Nil,
           UNCHANGED <<inserted, guests, owner, raced>>,
           \/ reg[r].phase = "own" /\ devices' = devices \ D!DevicesOf(u, kind) /\ D!GoOn(r, "phone")
           \/ reg[r].phase = "phone" /\ devices' = devices \ D!DevicesWith(t) /\ D!GoOn(r, "insert")
    PROVE  DInv'
  <1>1. DTInv /\ HInv
    BY DEF DInv
  <1>2. PICK phase : /\ phase = (IF reg[r].phase = "own" THEN "phone" ELSE "insert")
                     /\ D!GoOn(r, phase) /\ phase \in RegPhase /\ phase \in {"phone", "insert"}
    BY DEF RegPhase
  <1>3. reg[r] \in D!Underway /\ reg[r].user \in D!User \cup {Nil} /\ reg[r].id \in Nat
          /\ reg[r].phase \in RegPhase /\ r \in D!Registering
    BY <1>1, RegTypes DEF RegPhase, D!Underway
  <1>4. /\ reg' \in [D!Registration -> RegState]
        /\ \A q \in D!Registration \ {r} : reg'[q] = reg[q]
        /\ reg'[r].phase = phase /\ reg'[r].user = reg[r].user
        /\ reg'[r].kind = reg[r].kind /\ reg'[r].phone = reg[r].phone
    BY <1>1, <1>2, <1>3, RegGoesOn
  <1>5. RegOK(reg[r])'
    <2>1. RegOK(reg[r])
      BY <1>1 DEF DTInv
    <2>2. QED
      BY <1>2, <1>4, <2>1 DEF RegOK, RegPhase
  <1>6. guests \subseteq Guest /\ raced \subseteq Phone /\ devices' \subseteq devices
    BY <1>1 DEF DTInv, D!PushTokensTypeOK
  <1>7. \A s \in Phone : s \notin raced /\ reg[r].phone = s =>
              \A q \in D!Registration \ {r} : reg[q].phase \in RegPhase => reg[q].phone # s
    BY <1>1, <1>3 DEF HInv, HandedOn
  <1>8. /\ phase = "phone" => D!DevicesOf(u, kind)' = {}
        /\ phase = "insert" => reg[r].phase = "phone" /\ D!DevicesWith(t)' = {}
    BY <1>2 DEF D!DevicesOf, D!DevicesWith
  <1>9. PICK c : c = reg'[r]
    OBVIOUS
  <1>10. c.phase = phase /\ c.user = u /\ c.kind = kind /\ c.phone = t
    BY <1>4, <1>9
  <1>11. D!DevicesOf(c.user, c.kind)' = D!DevicesOf(u, kind)' /\ D!DevicesWith(c.phone)' = D!DevicesWith(t)'
    BY <1>10 DEF D!DevicesOf, D!DevicesWith
  <1>12. c.phase # "version"
    BY <1>2, <1>10
  <1>13. QED
    BY <1>2, <1>3, <1>4, <1>5, <1>6, <1>7, <1>8, <1>9, <1>10, <1>11, <1>12, RegMoves
-----------------------------------------------------------------------------
\* Of two that are bounded together one gains what the other loses.
LEMMA Swapped ==
    ASSUME NEW S, NEW T, NEW W \in Nat, IsFiniteSet(S), IsFiniteSet(T),
           Cardinality(S) + Cardinality(T) <= W, NEW x, NEW y, y \in T,
           NEW S1, S1 \in SUBSET (S \cup {x}), NEW T1, T1 \in SUBSET (T \ {y})
    PROVE  Cardinality(S1) + Cardinality(T1) <= W
  <1>1. Cardinality(S) \in Nat /\ Cardinality(T) \in Nat
    BY FS_CardinalityType
  <1>2. /\ IsFiniteSet(S \cup {x})
        /\ Cardinality(S \cup {x}) = IF x \in S THEN Cardinality(S) ELSE Cardinality(S) + 1
    BY FS_AddElement
  <1>3. /\ IsFiniteSet(T \ {y})
        /\ Cardinality(T \ {y}) = IF y \in T THEN Cardinality(T) - 1 ELSE Cardinality(T)
    BY FS_RemoveElement
  <1>4. /\ IsFiniteSet(S1) /\ Cardinality(S1) <= Cardinality(S \cup {x})
        /\ IsFiniteSet(T1) /\ Cardinality(T1) <= Cardinality(T \ {y})
    BY <1>2, <1>3, FS_Subset
  <1>5. /\ Cardinality(S1) \in Nat /\ Cardinality(T1) \in Nat
        /\ Cardinality(S \cup {x}) \in Nat /\ Cardinality(T \ {y}) \in Nat
    BY <1>2, <1>3, <1>4, FS_CardinalityType
  <1>6. Cardinality(S \cup {x}) <= Cardinality(S) + 1 /\ Cardinality(T \ {y}) = Cardinality(T) - 1
    BY <1>1, <1>2, <1>3
  <1>7. QED
    BY <1>1, <1>4, <1>5, <1>6

\* No more come out of a function than went into it.
LEMMA Through ==
    ASSUME NEW S, IsFiniteSet(S), NEW g, NEW T, T \subseteq {g[x] : x \in S}
    PROVE  IsFiniteSet(T) /\ Cardinality(T) <= Cardinality(S)
  <1> DEFINE I == {g[x] : x \in S}
             h == [x \in S |-> g[x]]
  <1>1. h \in Surjection(S, I)
    BY DEF Surjection
  <1>2. IsFiniteSet(I) /\ Cardinality(I) <= Cardinality(S)
    <2> HIDE DEF I, h
    <2>1. QED
      BY <1>1, FS_Surjection
  <1>3. IsFiniteSet(T) /\ Cardinality(T) <= Cardinality(I)
    <2>1. T \in SUBSET I
      OBVIOUS
    <2> HIDE DEF I, h
    <2>2. QED
      BY <1>2, <2>1, FS_Subset
  <1>4. Cardinality(T) \in Nat /\ Cardinality(I) \in Nat /\ Cardinality(S) \in Nat
    BY <1>2, <1>3, FS_CardinalityType
  <1> HIDE DEF I, h
  <1>5. QED
    BY <1>2, <1>3, <1>4

LEMMA InsertDeviceKeeps ==
    ASSUME DInv, NEW r \in D!Registration, D!InsertDevice(r)
    PROVE  DInv'
  <1>0. PICK u, kind, t : u = reg[r].user /\ kind = reg[r].kind /\ t = reg[r].phone
    OBVIOUS
  <1>1. DTInv /\ Ids /\ DBInv /\ HInv
    BY DEF DInv
  <1>2. reg[r].phase = "insert" /\ UNCHANGED <<guests, raced>>
    BY DEF D!InsertDevice, D!In
  <1>3. CASE D!Finish(r) /\ UNCHANGED <<devices, inserted, owner>>
    BY <1>2, <1>3, EndKeeps
  <1>4. CASE ~(t \in Iphone /\ D!DevicesWith(t) # {})
    <2> DEFINE n == [id |-> inserted + 1, user |-> u, phone |-> t, version |-> Nil]
    <2>1. /\ inserted' = inserted + 1 /\ devices' = devices \cup {n}
          /\ owner' = [owner EXCEPT ![t] = u]
          /\ reg' = [reg EXCEPT ![r].phase = "version", ![r].id = inserted + 1]
      BY <1>0, <1>4 DEF D!InsertDevice
    <2>2. /\ reg[r] \in D!Underway /\ reg[r].phase \in RegPhase /\ r \in D!Registering
          /\ u \in Account \cup guests /\ t \in Phone /\ kind = D!KindOf(t) /\ u \in D!User \cup {Nil}
      <3>1. RegOK(reg[r])
        BY <1>1 DEF DTInv
      <3>2. QED
        BY <1>0, <1>1, <1>2, <3>1, RegTypes DEF RegPhase, RegOK, D!Underway
    <2>3. inserted \in Nat /\ inserted + 1 \in Nat
      BY <1>1, RegTypes
    <2>4. /\ reg' \in [D!Registration -> RegState]
          /\ \A q \in D!Registration \ {r} : reg'[q] = reg[q]
          /\ reg'[r].phase = "version" /\ reg'[r].user = u /\ reg'[r].id = inserted + 1
          /\ reg'[r].kind = kind /\ reg'[r].phone = t
      <3>1. PICK i, phase : i = inserted + 1 /\ phase = "version"
        OBVIOUS
      <3>2. i \in Nat /\ phase \in RegPhase
        BY <2>3, <3>1 DEF RegPhase
      <3>3. RegStep(r, phase, u, i)
        BY <1>0, <2>1, <3>1 DEF RegStep
      <3>4. /\ reg' \in [D!Registration -> RegState]
            /\ \A q \in D!Registration \ {r} : reg'[q] = reg[q]
            /\ reg'[r].phase = phase /\ reg'[r].user = u /\ reg'[r].id = i
            /\ reg'[r].kind = reg[r].kind /\ reg'[r].phone = reg[r].phone
        <4>1. reg[r].phase \in RegPhase /\ u \in D!User \cup {Nil} /\ phase \in RegPhase /\ i \in Nat
          BY <2>2, <3>2
        <4>2. DTInv
          BY <1>1
        <4> HIDE DEF n
        <4>3. /\ reg' \in [D!Registration -> RegState]
              /\ \A q \in D!Registration \ {r} : reg'[q] = reg[q]
              /\ reg'[r] \in D!Underway
              /\ reg'[r].phase = phase /\ reg'[r].user = u /\ reg'[r].id = i
              /\ reg'[r].kind = reg[r].kind /\ reg'[r].phone = reg[r].phone /\ reg'[r].version = reg[r].version
          BY ZenonT(60), <3>3, <4>1, <4>2, RegGoOn
        <4>4. QED
          BY <4>3
      <3>5. QED
        BY <1>0, <3>1, <3>4
    <2>5. n.id = inserted + 1 /\ n.user = u /\ n.phone = t /\ n.version = Nil
      OBVIOUS
    <2>6. n \in [id: 1..inserted', user: Account \cup guests, phone: Phone, version: Version \cup {Nil}]
      BY <2>1, <2>2, <2>3
    <2> HIDE DEF n
    <2>7. \A d \in devices : d.id \in 1..inserted /\ d.id # inserted + 1
      BY <1>1, <2>3, RegTypes
    <2>8. \A q \in D!Registration \ {r} : reg[q].phase = "version" => reg[q].id \in 1..inserted /\ reg[q].id # inserted + 1
      BY <1>1, <2>3 DEF DTInv, RegOK
    <2>9. \A q \in D!Registration : RegOK(reg[q])'
      <3>1. \A q \in D!Registration \ {r} : RegOK(reg[q])'
        <4>1. ASSUME NEW q \in D!Registration \ {r}
              PROVE  RegOK(reg[q])'
          <5>1. RegOK(reg[q]) /\ reg'[q] = reg[q] /\ guests' = guests
            BY <1>1, <1>2, <2>4 DEF DTInv
          <5>2. reg[q].phase = "version" => reg[q].id \in 1..inserted'
            BY <2>1, <2>3, <2>8
          <5>3. QED
            BY <5>1, <5>2 DEF RegOK
        <4>2. QED
          BY <4>1
      <3>2. RegOK(reg[r])'
        <4>1. inserted + 1 \in 1..inserted'
          BY <2>1, <2>3
        <4>2. t # Nil
          BY <2>2, Assumed DEF D!PushTokensAssumption
        <4>3. QED
          BY <1>2, <2>2, <2>4, <4>1, <4>2 DEF RegOK, RegPhase
      <3>3. QED
        BY <3>1, <3>2
    <2>10. DTInv'
      <3>1. devices' \subseteq [id: 1..inserted', user: Account \cup guests', phone: Phone, version: Version \cup {Nil}]
        <4>1. \A d \in devices :
                 d \in [id: 1..inserted', user: Account \cup guests, phone: Phone, version: Version \cup {Nil}]
          <5>1. 1..inserted \subseteq 1..inserted'
            BY <2>1, <2>3
          <5>2. devices \subseteq [id: 1..inserted, user: Account \cup guests, phone: Phone, version: Version \cup {Nil}]
            BY <1>1 DEF DTInv, D!PushTokensTypeOK
          <5>3. QED
            BY <5>1, <5>2
        <4>2. QED
          BY <1>2, <2>1, <2>6, <4>1
      <3>2. owner' \in [Phone -> Account \cup guests' \cup {Nil}]
        BY <1>1, <1>2, <2>1, <2>2 DEF DTInv, D!PushTokensTypeOK
      <3>3. D!PushTokensTypeOK'
        BY <1>1, <1>2, <2>1, <2>3, <2>4, <3>1, <3>2 DEF DTInv, D!PushTokensTypeOK, RegState
      <3>4. QED
        BY <2>9, <3>3 DEF DTInv
    <2>11. Ids'
      <3>1. \A d, e \in devices' : d.id = e.id => d = e
        BY <1>1, <2>1, <2>5, <2>7 DEF Ids
      <3>2. \A q \in D!Registration : reg'[q].phase = "version" =>
               \A d \in devices' : d.id = reg'[q].id => d.version = Nil
        BY <1>1, <2>1, <2>4, <2>5, <2>7, <2>8 DEF Ids
      <3>3. \A p, q \in D!Registration :
               reg'[p].phase = "version" /\ reg'[q].phase = "version" /\ reg'[p].id = reg'[q].id => p = q
        BY <1>1, <2>4, <2>8 DEF Ids
      <3>4. QED
        BY <3>1, <3>2, <3>3 DEF Ids, D!Registration
    <2>12. Cardinality(D!Registering') <= Workers
      <3>1. \A q \in D!Registration : reg'[q].phase \in RegPhase <=> q \in D!Registering'
        BY <2>4, RegPhases DEF D!Registering, D!Registration
      <3>2. \A q \in D!Registration : reg[q].phase \in RegPhase <=> q \in D!Registering
        BY <1>1, RegTypes
      <3>3. D!Registering' = D!Registering
        BY <2>2, <2>4, <3>1, <3>2 DEF D!Registering, D!Registration, RegPhase
      <3>4. QED
        BY <1>1, <3>3 DEF DBInv
    <2>13. ASSUME NEW x \in D!User, NEW k \in D!Kind
           PROVE  Cardinality(D!DevicesOf(x, k)') + Cardinality(Coming(x, k)') <= Workers
      <3>1. /\ Cardinality(D!DevicesOf(x, k)) + Cardinality(Coming(x, k)) <= Workers
            /\ IsFiniteSet(D!DevicesOf(x, k)) /\ IsFiniteSet(Coming(x, k)) /\ Workers \in Nat
        BY <1>1, DFinite DEF DBInv, DInv
      <3>2. Coming(x, k)' \in SUBSET (Coming(x, k) \ {r})
        BY <2>4 DEF Coming, D!Registration
      <3>3. CASE x = u /\ k = kind
        <4>1. D!DevicesOf(x, k)' \in SUBSET (D!DevicesOf(x, k) \cup {n})
          BY <2>1 DEF D!DevicesOf
        <4>2. r \in Coming(x, k)
          BY <1>0, <1>2, <3>3 DEF Coming
        <4>3. QED
          BY <3>1, <3>2, <4>1, <4>2, Swapped
      <3>4. CASE ~(x = u /\ k = kind)
        <4>1. D!DevicesOf(x, k)' \in SUBSET D!DevicesOf(x, k)
          BY <2>1, <2>2, <2>5, <3>4 DEF D!DevicesOf, D!KindOf
        <4>2. Coming(x, k)' \in SUBSET Coming(x, k)
          BY <3>2
        <4>3. QED
          BY <3>1, <4>1, <4>2, LessLeft
      <3>5. QED
        BY <3>3, <3>4
    <2>14. ASSUME NEW s \in Phone
           PROVE  Cardinality(D!DevicesWith(s)') + Cardinality(Inserting(s)') <= Workers
      <3>1. /\ Cardinality(D!DevicesWith(s)) + Cardinality(Inserting(s)) <= Workers
            /\ IsFiniteSet(D!DevicesWith(s)) /\ IsFiniteSet(Inserting(s)) /\ Workers \in Nat
        BY <1>1, DFinite DEF DBInv, DInv
      <3>2. Inserting(s)' \in SUBSET (Inserting(s) \ {r})
        BY <2>4 DEF Inserting, D!Registration
      <3>3. CASE s = t
        <4>1. D!DevicesWith(s)' \in SUBSET (D!DevicesWith(s) \cup {n})
          BY <2>1 DEF D!DevicesWith
        <4>2. r \in Inserting(s)
          BY <1>0, <1>2, <3>3 DEF Inserting
        <4>3. QED
          BY <3>1, <3>2, <4>1, <4>2, Swapped
      <3>4. CASE s # t
        <4>1. D!DevicesWith(s)' \in SUBSET D!DevicesWith(s)
          BY <2>1, <2>5, <3>4 DEF D!DevicesWith
        <4>2. Inserting(s)' \in SUBSET Inserting(s)
          BY <3>2
        <4>3. QED
          BY <3>1, <4>1, <4>2, LessLeft
      <3>5. QED
        BY <3>3, <3>4
    <2>15. DBInv'
      <3>1. IsFiniteSet(devices')
        BY <1>1, <2>1, FS_AddElement DEF DBInv
      <3>2. QED
        BY <2>12, <2>13, <2>14, <3>1 DEF DBInv, D!User, D!Kind
    <2>16. ASSUME NEW s \in Phone
           PROVE  HandedOn(s)'
      <3>1. HandedOn(s) /\ raced' = raced
        BY <1>1, <1>2 DEF HInv
      <3>2. Inserting(s)' \subseteq Inserting(s) \ {r}
        BY <2>4 DEF Inserting, D!Registration
      <3>3. s \notin raced => \A p, q \in D!Registration :
               reg'[p].phase \in RegPhase /\ reg'[q].phase \in RegPhase /\ reg'[p].phone = s /\ reg'[q].phone = s => p = q
        <4>1. \A q \in D!Registration : reg'[q].phase \in RegPhase /\ reg'[q].phone = s =>
                 reg[q].phase \in RegPhase /\ reg[q].phone = s
          BY <1>0, <2>2, <2>4
        <4>2. QED
          BY <3>1, <4>1 DEF HandedOn
      <3>4. CASE s = t
        <4>1. r \in Inserting(s)
          BY <1>0, <1>2, <3>4 DEF Inserting
        <4>2. s \in Iphone \/ s \notin raced => D!DevicesWith(s) = {}
          BY <1>4, <3>1, <3>4, <4>1 DEF HandedOn
        <4>3. D!DevicesWith(s)' = D!DevicesWith(s) \cup {n}
          BY <2>1, <2>5, <3>4 DEF D!DevicesWith
        <4>4. owner'[s] = u
          BY <1>1, <2>1, <2>2, <3>4 DEF DTInv, D!PushTokensTypeOK
        <4>5. s \notin raced => Inserting(s)' = {}
          <5>1. s \notin raced => \A q \in Inserting(s) : q = r
            BY <3>1, <4>1 DEF HandedOn, Inserting, RegPhase
          <5>2. QED
            BY <3>2, <5>1
        <4>6. QED
          BY <2>5, <3>1, <3>3, <4>2, <4>3, <4>4, <4>5 DEF HandedOn, D!Registration
      <3>5. CASE s # t
        <4>1. D!DevicesWith(s)' = D!DevicesWith(s)
          BY <2>1, <2>5, <3>5 DEF D!DevicesWith
        <4>2. owner'[s] = owner[s]
          BY <1>1, <2>1, <3>5 DEF DTInv, D!PushTokensTypeOK
        <4>3. QED
          BY <3>1, <3>2, <3>3, <4>1, <4>2 DEF HandedOn, D!Registration
      <3>6. QED
        BY <3>4, <3>5
    <2>17. QED
      BY <2>10, <2>11, <2>15, <2>16 DEF DInv, HInv
  <1>5. QED
    BY <1>0, <1>3, <1>4 DEF D!InsertDevice

LEMMA ThroughAndLess ==
    ASSUME NEW S, NEW T, NEW W \in Nat, IsFiniteSet(S), IsFiniteSet(T),
           Cardinality(S) + Cardinality(T) <= W,
           NEW g, NEW S1, S1 \subseteq {g[x] : x \in S}, NEW T1, T1 \in SUBSET T
    PROVE  Cardinality(S1) + Cardinality(T1) <= W
  <1>1. IsFiniteSet(S1) /\ Cardinality(S1) <= Cardinality(S)
    BY Through
  <1>2. IsFiniteSet(T1) /\ Cardinality(T1) <= Cardinality(T)
    BY FS_Subset
  <1>3. Cardinality(S) \in Nat /\ Cardinality(T) \in Nat /\ Cardinality(S1) \in Nat /\ Cardinality(T1) \in Nat
    BY <1>1, <1>2, FS_CardinalityType
  <1>4. QED
    BY <1>1, <1>2, <1>3

\* The version of the device is inserted after the device.
LEMMA InsertVersionKeeps ==
    ASSUME DInv, NEW r \in D!Registration, D!InsertVersion(r)
    PROVE  DInv'
  <1>1. DTInv /\ HInv
    BY DEF DInv
  <1>2. Ids /\ DBInv
    BY DEF DInv
  <1> DEFINE g == [d \in devices |-> IF d.id = reg[r].id THEN [d EXCEPT !.version = reg[r].version] ELSE d]
  <1>3. reg[r].phase = "version" /\ D!Finish(r) /\ UNCHANGED <<inserted, guests, owner, raced>>
    BY DEF D!InsertVersion, D!In
  <1>4. devices' = {g[d] : d \in devices}
    BY DEF D!InsertVersion
  <1>5. reg[r].version \in Version
    BY <1>1, <1>3, RegTypes DEF D!Underway, RegPhase
  <1>6. \A d \in devices : /\ g[d].id = d.id /\ g[d].user = d.user /\ g[d].phone = d.phone
                           /\ g[d] \in [id: 1..inserted, user: Account \cup guests, phone: Phone,
                                        version: Version \cup {Nil}]
                           /\ d.id # reg[r].id => g[d] = d
    BY <1>1, <1>5, RegTypes
  <1> HIDE DEF g
  <1>7. /\ reg' \in [D!Registration -> RegState]
        /\ \A q \in D!Registration \ {r} : reg'[q] = reg[q]
        /\ reg'[r].phase = "done" /\ reg'[r].phase \notin RegPhase
    BY <1>1, <1>3, RegFinish
  <1>8. DTInv'
    <2>1. ASSUME NEW q \in D!Registration
          PROVE  RegOK(reg[q])'
      <3>1. CASE q = r
        BY <1>7, <3>1 DEF RegOK, RegPhase
      <3>2. CASE q # r
        <4>1. RegOK(reg[q]) /\ reg'[q] = reg[q]
          BY <1>1, <1>7, <3>2 DEF DTInv
        <4>2. QED
          BY <1>3, <4>1 DEF RegOK
      <3>3. QED
        BY <3>1, <3>2
    <2>2. D!PushTokensTypeOK'
      <3>1. D!PushTokensTypeOK
        BY <1>1 DEF DTInv
      <3>2. devices' \subseteq [id: 1..inserted, user: Account \cup guests, phone: Phone, version: Version \cup {Nil}]
        BY <1>4, <1>6
      <3>3. QED
        BY <1>3, <1>7, <3>1, <3>2 DEF D!PushTokensTypeOK, RegState
    <2>3. QED
      BY <2>1, <2>2 DEF DTInv, D!Registration
  <1>9. Ids'
    <2>1. \A d, e \in devices' : d.id = e.id => d = e
      BY <1>2, <1>4, <1>6 DEF Ids
    <2>2. ASSUME NEW q \in D!Registration, reg'[q].phase = "version", NEW d \in devices', d.id = reg'[q].id
          PROVE  d.version = Nil
      <3>1. PICK e \in devices : d = g[e]
        BY <1>4
      <3>2. q # r /\ reg'[q] = reg[q]
        BY <1>7, <2>2
      <3>3. reg[q].id # reg[r].id
        BY <1>2, <1>3, <2>2, <3>2 DEF Ids
      <3>4. e.id = d.id /\ e = d
        BY <1>6, <2>2, <3>1, <3>2, <3>3
      <3>5. QED
        BY <1>2, <2>2, <3>2, <3>4 DEF Ids
    <2>3. \A p, q \in D!Registration :
             reg'[p].phase = "version" /\ reg'[q].phase = "version" /\ reg'[p].id = reg'[q].id => p = q
      <3>1. \A q \in D!Registration : reg'[q].phase = "version" => reg'[q] = reg[q]
        BY <1>7
      <3>2. QED
        BY <1>2, <3>1 DEF Ids
    <2>4. QED
      BY <2>1, <2>2, <2>3 DEF Ids, D!Registration
  <1>10. DBInv'
    <2>1. IsFiniteSet(devices)
      BY <1>2 DEF DBInv
    <2>2. IsFiniteSet(devices')
      BY <1>4, <2>1, Through
    <2>3. Cardinality(D!Registering') <= Workers
      <3>1. \A q \in D!Registration : reg'[q].phase \in RegPhase <=> q \in D!Registering'
        BY <1>7, RegPhases DEF D!Registering, D!Registration
      <3>2. D!Registering' \subseteq D!Registering
        BY <1>1, <1>7, <3>1, RegTypes DEF D!Registering, D!Registration
      <3>3. /\ IsFiniteSet(D!Registering) /\ Cardinality(D!Registering) \in Nat /\ Workers \in Nat
            /\ Cardinality(D!Registering) <= Workers
        BY <1>2, DFinite DEF DBInv
      <3>4. IsFiniteSet(D!Registering') /\ Cardinality(D!Registering') <= Cardinality(D!Registering)
        BY <3>2, <3>3, FS_Subset
      <3>5. Cardinality(D!Registering') \in Nat
        BY <3>4, FS_CardinalityType
      <3>6. QED
        BY <3>3, <3>4, <3>5
    <2>4. ASSUME NEW u \in D!User, NEW kind \in D!Kind
          PROVE  Cardinality(D!DevicesOf(u, kind)') + Cardinality(Coming(u, kind)') <= Workers
      <3>1. /\ Cardinality(D!DevicesOf(u, kind)) + Cardinality(Coming(u, kind)) <= Workers
            /\ IsFiniteSet(D!DevicesOf(u, kind)) /\ IsFiniteSet(Coming(u, kind)) /\ Workers \in Nat
        BY <1>2, DFinite DEF DBInv
      <3>2. Coming(u, kind)' \in SUBSET Coming(u, kind)
        BY <1>7 DEF Coming, D!Registration
      <3>3. D!DevicesOf(u, kind)' \subseteq {g[d] : d \in D!DevicesOf(u, kind)}
        BY <1>4, <1>6 DEF D!DevicesOf
      <3>4. QED
        BY <3>1, <3>2, <3>3, ThroughAndLess
    <2>5. ASSUME NEW t \in Phone
          PROVE  Cardinality(D!DevicesWith(t)') + Cardinality(Inserting(t)') <= Workers
      <3>1. /\ Cardinality(D!DevicesWith(t)) + Cardinality(Inserting(t)) <= Workers
            /\ IsFiniteSet(D!DevicesWith(t)) /\ IsFiniteSet(Inserting(t)) /\ Workers \in Nat
        BY <1>2, DFinite DEF DBInv
      <3>2. Inserting(t)' \in SUBSET Inserting(t)
        BY <1>7 DEF Inserting, D!Registration
      <3>3. D!DevicesWith(t)' \subseteq {g[d] : d \in D!DevicesWith(t)}
        BY <1>4, <1>6 DEF D!DevicesWith
      <3>4. QED
        BY <3>1, <3>2, <3>3, ThroughAndLess
    <2>6. QED
      BY <2>2, <2>3, <2>4, <2>5 DEF DBInv, D!User, D!Kind
  <1>11. ASSUME NEW t \in Phone
         PROVE  HandedOn(t)'
    <2>1. HandedOn(t)
      BY <1>1 DEF HInv
    <2>2. \A d \in D!DevicesWith(t)' : \E e \in D!DevicesWith(t) : d = g[e] /\ d.user = e.user
      BY <1>4, <1>6 DEF D!DevicesWith
    <2>3. Inserting(t)' \subseteq Inserting(t)
      BY <1>7 DEF Inserting, D!Registration
    <2>4. t \in Iphone \/ t \notin raced' => \A d, e \in D!DevicesWith(t)' : d = e
      BY <1>3, <2>1, <2>2 DEF HandedOn
    <2>5. t \notin raced' => \A d \in D!DevicesWith(t)' : d.user = owner'[t]
      BY <1>3, <2>1, <2>2 DEF HandedOn
    <2>6. t \notin raced' => \A p, q \in D!Registration :
             reg'[p].phase \in RegPhase /\ reg'[q].phase \in RegPhase /\ reg'[p].phone = t /\ reg'[q].phone = t => p = q
      <3>1. \A q \in D!Registration : reg'[q].phase \in RegPhase => reg'[q] = reg[q]
        BY <1>7
      <3>2. QED
        BY <1>3, <2>1, <3>1 DEF HandedOn
    <2>7. t \notin raced' => \A q \in Inserting(t)' : D!DevicesWith(t)' = {}
      BY <1>3, <2>1, <2>2, <2>3 DEF HandedOn
    <2>8. QED
      BY <2>4, <2>5, <2>6, <2>7 DEF HandedOn, D!Registration
  <1>12. QED
    BY <1>8, <1>9, <1>10, <1>11 DEF DInv, HInv
-----------------------------------------------------------------------------
LEMMA InitDInv == D!PushTokensInit => DInv
  <1> SUFFICES ASSUME D!PushTokensInit
               PROVE  DInv
    OBVIOUS
  <1>1. /\ devices = {} /\ inserted = 0 /\ guests = {} /\ raced = {}
        /\ owner = [t \in Phone |-> Nil] /\ \A r \in D!Registration : reg[r] = D!NotMade
        /\ reg \in [D!Registration -> {D!NotMade}]
    BY DEF D!PushTokensInit
  <1>2. D!NotMade.phase = "not_made" /\ "not_made" \notin RegPhase
    BY DEF D!NotMade, RegPhase
  <1>3. D!PushTokensTypeOK
    BY <1>1 DEF D!PushTokensTypeOK
  <1>4. DTInv
    BY <1>1, <1>2, <1>3 DEF DTInv, RegOK, RegPhase
  <1>5. /\ D!Registering = {} /\ \A u, kind : D!DevicesOf(u, kind) = {} /\ Coming(u, kind) = {}
        /\ \A t : D!DevicesWith(t) = {} /\ Inserting(t) = {}
    BY <1>1, <1>2 DEF D!Registering, D!DevicesOf, Coming, D!DevicesWith, Inserting
  <1>6. Workers \in Nat
    BY Assumed DEF D!PushTokensAssumption
  <1>7. DBInv
    BY <1>1, <1>5, <1>6, FS_EmptySet DEF DBInv
  <1>8. Ids
    BY <1>1, <1>2 DEF Ids
  <1>9. HInv
    BY <1>1, <1>2, <1>5 DEF HInv, HandedOn
  <1>10. QED
    BY <1>4, <1>7, <1>8, <1>9 DEF DInv

LEMMA DeleteOwnKeeps ==
    ASSUME DInv, NEW r \in D!Registration, D!DeleteOwn(r)
    PROVE  DInv'
  <1>1. /\ reg[r].phase = "own" /\ UNCHANGED <<inserted, guests, owner, raced>>
        /\ devices' = devices \ D!DevicesOf(reg[r].user, reg[r].kind)
    BY DEF D!DeleteOwn, D!In
  <1>2. CASE reg[r].phone = Nil
    <2>1. D!Finish(r)
      BY <1>2 DEF D!DeleteOwn
    <2>2. devices' \subseteq devices
      BY <1>1
    <2>3. QED
      BY <1>1, <2>1, <2>2, EndKeeps
  <1>3. CASE reg[r].phone # Nil
    <2>1. D!GoOn(r, "phone")
      BY <1>3 DEF D!DeleteOwn
    <2>2. PICK u, kind, t : u = reg[r].user /\ kind = reg[r].kind /\ t = reg[r].phone
      OBVIOUS
    <2>3. devices' = devices \ D!DevicesOf(u, kind)
      BY <1>1, <2>2
    <2>4. QED
      BY <1>1, <1>3, <2>1, <2>2, <2>3, DeletesKeep
  <1>4. QED
    BY <1>2, <1>3

LEMMA DeletePhoneKeeps ==
    ASSUME DInv, NEW r \in D!Registration, D!DeletePhone(r)
    PROVE  DInv'
  <1>1. /\ reg[r].phase = "phone" /\ UNCHANGED <<inserted, guests, owner, raced>>
        /\ devices' = devices \ D!DevicesWith(reg[r].phone) /\ D!GoOn(r, "insert")
    BY DEF D!DeletePhone, D!In, D!SamePhone
  <1>2. reg[r].phone # Nil
    <2>1. RegOK(reg[r])
      BY DEF DInv, DTInv
    <2>2. QED
      BY <1>1, <2>1 DEF RegOK, RegPhase
  <1>3. PICK u, kind, t : u = reg[r].user /\ kind = reg[r].kind /\ t = reg[r].phone
    OBVIOUS
  <1>4. devices' = devices \ D!DevicesWith(t)
    BY <1>1, <1>3
  <1>5. QED
    BY <1>1, <1>2, <1>3, <1>4, DeletesKeep

\* Every step of the devices keeps what is known of them.
LEMMA StepDInv == DInv /\ D!PushTokensNext => DInv'
  <1> SUFFICES ASSUME DInv, NEW r \in D!Registration,
                      \/ /\ D!Arrives(r)
                         /\ \/ \E u \in Account, t \in Phone, v \in Version : D!Register(r, u, t, v)
                            \/ \E u \in Account, kind \in D!Kind : D!Unregister(r, u, kind)
                            \/ \E t \in Phone : D!EnterAsGuest(r, t)
                      \/ D!FindGuest(r) \/ D!CreateGuest(r)
                      \/ D!DeleteOwn(r) \/ D!DeletePhone(r) \/ D!InsertDevice(r) \/ D!InsertVersion(r)
                      \/ D!AbortRegistration(r)
               PROVE  DInv'
    BY DEF D!PushTokensNext
  <1>1. ASSUME D!Arrives(r), NEW u \in Account, NEW t \in Phone, NEW v \in Version, D!Register(r, u, t, v)
        PROVE  DInv'
    <2>1. u \in Account \cup guests /\ D!KindOf(t) \in D!Kind
      BY DEF D!KindOf, D!Kind
    <2>2. PICK kind : kind = D!KindOf(t)
      OBVIOUS
    <2>3. QED
      BY <1>1, <2>1, <2>2, ArriveKeeps DEF D!Register
  <1>2. ASSUME D!Arrives(r), NEW u \in Account, NEW kind \in D!Kind, D!Unregister(r, u, kind)
        PROVE  DInv'
    BY <1>2, ArriveKeeps, Assumed DEF D!Unregister, D!PushTokensAssumption
  <1>3. ASSUME D!Arrives(r), NEW t \in Phone, D!EnterAsGuest(r, t)
        PROVE  DInv'
    <2>1. D!KindOf(t) \in D!Kind /\ Latest \in Version /\ t # Nil
      BY Assumed DEF D!KindOf, D!Kind, D!PushTokensAssumption
    <2>2. PICK kind : kind = D!KindOf(t)
      OBVIOUS
    <2>3. QED
      BY <1>3, <2>1, <2>2, ArriveKeeps DEF D!EnterAsGuest
  <1>4. ASSUME D!AbortRegistration(r)
        PROVE  DInv'
    BY <1>4, EndKeeps DEF D!AbortRegistration
  <1>5. QED
    BY <1>1, <1>2, <1>3, <1>4, FindGuestKeeps, CreateGuestKeeps, DeleteOwnKeeps, DeletePhoneKeeps,
       InsertDeviceKeeps, InsertVersionKeeps

LEMMA UnchangedDInv == DInv /\ UNCHANGED deviceVars => DInv'
  <1> SUFFICES ASSUME DInv, UNCHANGED deviceVars
               PROVE  DInv'
    OBVIOUS
  <1>1. UNCHANGED <<devices, inserted, guests, reg, owner, raced>>
    BY DEF deviceVars
  <1>2. /\ UNCHANGED <<D!Registering, D!Registration>>
        /\ \A u, kind : UNCHANGED <<D!DevicesOf(u, kind), Coming(u, kind)>>
        /\ \A t : UNCHANGED <<D!DevicesWith(t), Inserting(t)>>
    BY <1>1 DEF D!Registering, D!Registration, D!DevicesOf, Coming, D!DevicesWith, Inserting
  <1>3. DTInv'
    BY <1>1 DEF DInv, DTInv, D!PushTokensTypeOK, RegOK, D!Registration
  <1>4. Ids'
    BY <1>1 DEF DInv, Ids, D!Registration
  <1>5. DBInv'
    BY <1>1, <1>2 DEF DInv, DBInv
  <1>6. HInv'
    <2>1. ASSUME NEW t \in Phone PROVE HandedOn(t)'
      BY <1>1, <1>2 DEF DInv, HInv, HandedOn
    <2>2. QED
      BY <2>1 DEF HInv
  <1>7. QED
    BY <1>3, <1>4, <1>5, <1>6 DEF DInv

LEMMA NextDInv == DInv /\ [Next]_vars => DInv'
  <1> SUFFICES ASSUME DInv, [Next]_vars PROVE DInv'
    OBVIOUS
  <1>1. CASE DevicesMove
    BY <1>1, StepDInv DEF DevicesMove
  <1>2. ASSUME NEW r \in D!Registration, NEW x \in Account, NotifyPerson(r, x)
        PROVE  DInv'
    <2>1. D!Finish(r) /\ devices' = devices /\ UNCHANGED <<inserted, guests, owner, raced>>
      BY <1>2 DEF NotifyPerson, D!Finish
    <2>2. devices' \subseteq devices
      BY <2>1
    <2>3. QED
      BY <2>1, <2>2, EndKeeps
  <1>3. CASE UNCHANGED deviceVars
    BY <1>3, UnchangedDInv
  <1>4. QED
    BY <1>1, <1>2, <1>3
       DEF Next, vars, PagesMove, PresenceMoves, NotifyPage, PushWorker, TakeJob, PushToAdmins, CheckPusher,
           FindDevices, SendPush, PushFails, OthersStand

LEMMA InitDeviceInv == Init => DInv
  BY InitDInv DEF Init

LEMMA AtMostOne ==
    ASSUME NEW S, \A x, y \in S : x = y
    PROVE  Cardinality(S) <= 1
  <1>1. CASE S = {}
    BY <1>1, FS_EmptySet
  <1>2. CASE S # {}
    <2>1. PICK x : x \in S
      BY <1>2
    <2>2. S = {x}
      BY <2>1
    <2>3. QED
      BY <2>2, FS_Singleton
  <1>3. QED
    BY <1>1, <1>2

\* A phone that was handed on has the devices of the user who registered it last
\* and of nobody else, however the four statements of two registrations of
\* different phones interleave.
THEOREM PushPhoneHandedOn == Spec => []PhoneHandedOn
  <1>1. ASSUME DInv PROVE PhoneHandedOn
    <2>1. ASSUME NEW t \in Phone \ raced
          PROVE  D!Cardinality(D!DevicesWith(t)) <= 1 /\ \A d \in D!DevicesWith(t) : d.user = owner[t]
      <3>1. HandedOn(t)
        BY <1>1 DEF DInv, HInv
      <3>2. \A d, e \in D!DevicesWith(t) : d = e
        BY <3>1 DEF HandedOn
      <3>3. Cardinality(D!DevicesWith(t)) <= 1
        BY <3>2, AtMostOne
      <3>4. QED
        BY <3>1, <3>3, CardinalitySame DEF HandedOn
    <2>2. QED
      BY <2>1 DEF PhoneHandedOn, D!PhoneHandedOn
  <1>2. QED
    BY InitDeviceInv, NextDInv, <1>1, PTL DEF Spec

\* A page has an admin, and a user or a phone its devices, as often as requests
\* run at once at most, although both are looked up or deleted before they are
\* inserted; a token of APNS has one row, for the unique constraint refuses more.
THEOREM PushDuplicatesBounded == Spec => []DuplicatesBounded
  <1>1. ASSUME DInv PROVE D!DevicesBounded
    <2>1. DBInv /\ HInv /\ Workers \in Nat
      BY <1>1, DFinite DEF DInv
    <2>2. ASSUME NEW u \in D!User, NEW kind \in D!Kind
          PROVE  D!Cardinality(D!DevicesOf(u, kind)) <= Workers
      <3>1. Cardinality(D!DevicesOf(u, kind)) \in Nat /\ Cardinality(Coming(u, kind)) \in Nat
        BY <1>1, DFinite, FS_CardinalityType
      <3>2. Cardinality(D!DevicesOf(u, kind)) + Cardinality(Coming(u, kind)) <= Workers
        BY <2>1 DEF DBInv
      <3>3. QED
        BY <2>1, <3>1, <3>2, CardinalitySame
    <2>3. ASSUME NEW t \in Phone
          PROVE  D!Cardinality(D!DevicesWith(t)) <= IF t \in Iphone THEN 1 ELSE Workers
      <3>1. Cardinality(D!DevicesWith(t)) \in Nat /\ Cardinality(Inserting(t)) \in Nat
        BY <1>1, DFinite, FS_CardinalityType
      <3>2. Cardinality(D!DevicesWith(t)) + Cardinality(Inserting(t)) <= Workers
        BY <2>1 DEF DBInv
      <3>3. t \in Iphone => \A d, e \in D!DevicesWith(t) : d = e
        BY <2>1 DEF HInv, HandedOn
      <3>4. t \in Iphone => Cardinality(D!DevicesWith(t)) <= 1
        BY <3>3, AtMostOne
      <3>5. QED
        BY <2>1, <3>1, <3>2, <3>4, CardinalitySame
    <2>4. QED
      BY <2>2, <2>3 DEF D!DevicesBounded
  <1>2. ASSUME PagesInv PROVE P!AdminRowsBounded
    BY <1>2, PagesInvHolds, Assumed
  <1>3. Inv1 => PagesInv
    BY DEF Inv1
  <1>4. DInv /\ Inv1 => DuplicatesBounded
    BY <1>1, <1>2, <1>3 DEF DuplicatesBounded
  <1>5. QED
    BY InitInv1, StepInv1, InitDeviceInv, NextDInv, <1>4, PTL DEF Spec
-----------------------------------------------------------------------------
Running ==
    [to: Recipient, version: Version, phase: {"check", "find", "send"}, kinds: SUBSET D!Kind]

WInv ==
    /\ moving \in {"pages", "presence", "devices"}
    /\ queue \in Seq(Job) /\ job \in Running \cup {Nil}
    /\ sent \in Seq(1..inserted) /\ substitutes \subseteq 1..inserted

\* A device that was sent to has a version, the job of which is not to come, and
\* if it is the running one, has sent to that kind of device.
Served(d) ==
    /\ d.version # Nil
    /\ \A n \in DOMAIN queue : queue[n].version # d.version
    /\ job # Nil /\ job.version = d.version => job.phase = "send" /\ D!KindOf(d.phone) \notin job.kinds

\* The jobs of the one notification that is sent while devices move, one for each
\* version. What the running job is about to send to has its version.
OneTo(x) ==
    /\ queue \in Seq([to: {x}, version: Version])
    /\ \A n, m \in DOMAIN queue : queue[n].version = queue[m].version => n = m
    /\ job # Nil => job.to = x /\ \A n \in DOMAIN queue : queue[n].version # job.version
    /\ job # Nil /\ job.phase = "send" =>
          /\ job.kinds # {}
          /\ \A k \in job.kinds : \A d \in FirstOf(x, k) :
                d.id \notin substitutes => d.version = job.version
    /\ \A d \in devices : (d.id \notin substitutes /\ \E n \in DOMAIN sent : sent[n] = d.id) => Served(d)

PInv ==
    /\ moving # "devices" => devices = {} /\ sent = << >>
    /\ moving = "devices" => \E x \in Account : OneTo(x)
    /\ PushedOnce
-----------------------------------------------------------------------------
LEMMA SeqOfSet ==
    ASSUME NEW S, IsFiniteSet(S)
    PROVE  SetToSeq(S) \in Seq(S) /\ IsInjective(SetToSeq(S))
  <1>1. Cardinality(S) \in Nat /\ ExistsBijection(1..Cardinality(S), S)
    BY FS_CardinalityType
  <1>2. \E f \in [1..Cardinality(S) -> S] : IsInjective(f)
    BY <1>1 DEF ExistsBijection, Bijection, Injection, IsInjective
  <1>3. SetToSeq(S) \in [1..Cardinality(S) -> S] /\ IsInjective(SetToSeq(S))
    BY <1>2 DEF SetToSeq
  <1>4. QED
    BY <1>1, <1>3, SeqDef

LEMMA JobsType ==
    ASSUME NEW x, NEW versions, versions \subseteq Version, NEW s, s = JobsFor(x, versions)
    PROVE  /\ s \in Seq([to: {x}, version: Version])
           /\ \A n, m \in DOMAIN s : s[n].version = s[m].version => n = m
  <1> DEFINE g == [v \in versions |-> [to |-> x, version |-> v]]
             S == {[to |-> x, version |-> v] : v \in versions}
  <1>1. IsFiniteSet(versions)
    BY Assumed, FS_Subset
  <1>2. S \subseteq {g[v] : v \in versions} /\ S \subseteq [to: {x}, version: Version]
    OBVIOUS
  <1>3. JobsFor(x, versions) = SetToSeq(S)
    BY DEF JobsFor
  <1> HIDE DEF g, S
  <1>4. IsFiniteSet(S)
    BY <1>1, <1>2, Through
  <1>5. s \in Seq(S) /\ \A n, m \in DOMAIN s : s[n] = s[m] => n = m
    BY <1>3, <1>4, SeqOfSet DEF IsInjective
  <1>6. DOMAIN s = 1..Len(s)
    BY <1>5, LenProperties
  <1>7. \A n \in DOMAIN s : s[n] \in [to: {x}, version: Version]
    BY <1>2, <1>5, <1>6, ElementOfSeq
  <1>8. \A i, j \in [to: {x}, version: Version] : i.version = j.version => i = j
    OBVIOUS
  <1>9. \A n, m \in DOMAIN s : s[n].version = s[m].version => n = m
    BY <1>5, <1>7, <1>8
  <1>10. QED
    BY <1>2, <1>5, <1>9, SeqMonotonic

LEMMA AdminJobsType ==
    ASSUME Inv1, NEW p \in Page, NEW v \in Version
    PROVE  AdminJobs(p, v) \in Seq(Job)
  <1> DEFINE R == {a \in admins : a[1] = p}
  <1>1. P!PagesTypeOK /\ IsFiniteSet(R)
    <2>1. PagesInv
      BY DEF Inv1
    <2>2. P!PagesTypeOK
      BY <2>1, Assumed, PagesInvHolds
    <2>3. IsFiniteSet(R)
      <3>1. RowsFinite
        BY <2>1 DEF PagesInv
      <3>2. QED
        BY <3>1 DEF RowsFinite
    <2>4. QED
      BY <2>2, <2>3
  <1>2. \A a \in R : a[2] \in Recipient
    BY <1>1 DEF P!PagesTypeOK, P!Existing, Recipient
  <1>3. AdminRows(p) = SetToSeq(R)
    BY DEF AdminRows
  <1> HIDE DEF R
  <1>4. AdminRows(p) \in Seq(R)
    BY <1>1, <1>3, SeqOfSet
  <1>5. PICK s : s = AdminRows(p)
    OBVIOUS
  <1>6. Len(s) \in Nat /\ DOMAIN s = 1..Len(s) /\ s \in [1..Len(s) -> R]
    BY <1>4, <1>5, LenProperties
  <1>7. AdminJobs(p, v) = [i \in 1..Len(s) |-> [to |-> s[i][2], version |-> v]]
    BY <1>5, <1>6 DEF AdminJobs
  <1>8. \A i \in 1..Len(s) : [to |-> s[i][2], version |-> v] \in Job
    BY <1>2, <1>6 DEF Job
  <1>9. AdminJobs(p, v) \in [1..Len(s) -> Job]
    BY <1>7, <1>8
  <1>10. QED
    BY <1>6, <1>9, SeqDef

\* The device that comes first is one, if there are any.
LEMMA FirstIs ==
    ASSUME DInv, NEW u, NEW kind
    PROVE  /\ FirstOf(u, kind) \subseteq D!DevicesOf(u, kind) /\ D!DevicesOf(u, kind) \subseteq devices
           /\ D!DevicesOf(u, kind) # {} => D!First(u, kind) \in FirstOf(u, kind)
           /\ \A d, e \in FirstOf(u, kind) : d = e
  <1>1. DTInv /\ Ids
    BY DEF DInv
  <1>2. /\ FirstOf(u, kind) \subseteq D!DevicesOf(u, kind) /\ D!DevicesOf(u, kind) \subseteq devices
        /\ \A d \in FirstOf(u, kind) : \A e \in D!DevicesOf(u, kind) : d.id <= e.id
    BY DEF FirstOf, D!DevicesOf
  <1>3. inserted \in Nat /\ \A d \in D!DevicesOf(u, kind) : d.id \in 1..inserted
    BY <1>1, <1>2, RegTypes
  <1>4. ASSUME D!DevicesOf(u, kind) # {}
        PROVE  D!First(u, kind) \in FirstOf(u, kind)
    <2> DEFINE S == {d.id : d \in D!DevicesOf(u, kind)}
    <2>1. S \in SUBSET (1..inserted) /\ S # {}
      BY <1>3, <1>4
    <2>2. \E i \in S : \A j \in S : i <= j
      <3> HIDE DEF S
      <3>1. QED
        BY <1>3, <2>1, PO!Smallest
    <2>3. \E d \in D!DevicesOf(u, kind) : \A e \in D!DevicesOf(u, kind) : d.id <= e.id
      BY <2>2
    <2>4. QED
      BY <2>3 DEF D!First, FirstOf
  <1>5. ASSUME NEW d \in FirstOf(u, kind), NEW e \in FirstOf(u, kind)
        PROVE  d = e
    <2>1. d.id <= e.id /\ e.id <= d.id /\ d.id \in Nat /\ e.id \in Nat
      BY <1>2, <1>3
    <2>2. d.id = e.id
      BY <2>1
    <2>3. QED
      BY <1>1, <1>2, <2>2 DEF Ids
  <1>6. QED
    BY <1>2, <1>4, <1>5
-----------------------------------------------------------------------------
\* What a step of a registration does to the devices.
LEMMA DevicesChange ==
    ASSUME DInv, D!PushTokensNext
    PROVE  \/ devices' = devices
           \/ \E r \in D!Registration : devices' = devices \ D!DevicesOf(reg[r].user, reg[r].kind)
           \/ \E r \in D!Registration : devices' = devices \ D!DevicesWith(reg[r].phone)
           \/ \E n : n.id = inserted + 1 /\ devices' = devices \cup {n}
           \/ \E r \in D!Registration :
                 /\ reg[r].phase = "version"
                 /\ devices' = {IF d.id = reg[r].id THEN [d EXCEPT !.version = reg[r].version] ELSE d : d \in devices}
  <1> SUFFICES ASSUME NEW r \in D!Registration,
                      \/ devices' = devices
                      \/ D!DeleteOwn(r) \/ D!DeletePhone(r) \/ D!InsertDevice(r) \/ D!InsertVersion(r)
               PROVE  \/ devices' = devices
                      \/ \E q \in D!Registration : devices' = devices \ D!DevicesOf(reg[q].user, reg[q].kind)
                      \/ \E q \in D!Registration : devices' = devices \ D!DevicesWith(reg[q].phone)
                      \/ \E n : n.id = inserted + 1 /\ devices' = devices \cup {n}
                      \/ \E q \in D!Registration :
                            /\ reg[q].phase = "version"
                            /\ devices' = {IF d.id = reg[q].id THEN [d EXCEPT !.version = reg[q].version] ELSE d :
                                              d \in devices}
    <2>1. \A r \in D!Registration :
             /\ \A u, t, v : D!Register(r, u, t, v) => devices' = devices
             /\ \A u, kind : D!Unregister(r, u, kind) => devices' = devices
             /\ \A t : D!EnterAsGuest(r, t) => devices' = devices
             /\ D!FindGuest(r) \/ D!CreateGuest(r) \/ D!AbortRegistration(r) => devices' = devices
      BY DEF D!Register, D!Unregister, D!EnterAsGuest, D!FindGuest, D!CreateGuest, D!AbortRegistration
    <2>2. \E r \in D!Registration :
             \/ devices' = devices
             \/ D!DeleteOwn(r) \/ D!DeletePhone(r) \/ D!InsertDevice(r) \/ D!InsertVersion(r)
      BY <2>1 DEF D!PushTokensNext
    <2>3. QED
      BY <2>2
  <1>1. CASE D!DeleteOwn(r)
    BY <1>1 DEF D!DeleteOwn
  <1>2. CASE D!DeletePhone(r)
    BY <1>2 DEF D!DeletePhone, D!SamePhone
  <1>3. CASE D!InsertDevice(r)
    <2>1. CASE devices' = devices
      BY <2>1
    <2>2. CASE devices' # devices
      <3>1. PICK n : /\ n = [id |-> inserted + 1, user |-> reg[r].user, phone |-> reg[r].phone, version |-> Nil]
                     /\ devices' = devices \cup {n}
        BY <1>3, <2>2 DEF D!InsertDevice
      <3>2. n.id = inserted + 1
        BY <3>1
      <3>3. QED
        BY <3>1, <3>2
    <2>3. QED
      BY <2>1, <2>2
  <1>4. CASE D!InsertVersion(r)
    BY <1>4 DEF D!InsertVersion, D!In
  <1>5. QED
    BY <1>1, <1>2, <1>3, <1>4

LEMMA InsertsOne ==
    ASSUME D!PushTokensNext
    PROVE  inserted' = inserted \/ inserted' = inserted + 1
  BY DEF D!PushTokensNext, D!Register, D!Unregister, D!EnterAsGuest, D!FindGuest, D!CreateGuest, D!DeleteOwn,
         D!DeletePhone, D!InsertDevice, D!InsertVersion, D!AbortRegistration

\* A device that is there after the step is new, or was there and has kept its
\* phone, its user and the version it had.
LEMMA SameDevice ==
    ASSUME DInv, D!PushTokensNext, NEW d \in devices'
    PROVE  \/ d.id = inserted + 1
           \/ \E c \in devices : /\ c.id = d.id /\ c.phone = d.phone /\ c.user = d.user
                                 /\ c.version = d.version \/ c.version = Nil
  <1>1. DTInv /\ Ids
    BY DEF DInv
  <1>2. CASE devices' = devices
    BY <1>2
  <1>3. CASE \E r \in D!Registration : devices' = devices \ D!DevicesOf(reg[r].user, reg[r].kind)
    BY <1>3
  <1>4. CASE \E r \in D!Registration : devices' = devices \ D!DevicesWith(reg[r].phone)
    BY <1>4
  <1>5. CASE \E n : n.id = inserted + 1 /\ devices' = devices \cup {n}
    BY <1>5
  <1>6. ASSUME NEW r \in D!Registration, reg[r].phase = "version",
               devices' = {IF e.id = reg[r].id THEN [e EXCEPT !.version = reg[r].version] ELSE e : e \in devices}
        PROVE  \E c \in devices : /\ c.id = d.id /\ c.phone = d.phone /\ c.user = d.user
                                  /\ c.version = d.version \/ c.version = Nil
    <2>1. PICK c \in devices : d = IF c.id = reg[r].id THEN [c EXCEPT !.version = reg[r].version] ELSE c
      BY <1>6
    <2>2. CASE c.id # reg[r].id
      BY <2>1, <2>2
    <2>3. CASE c.id = reg[r].id
      <3>1. c.version = Nil
        BY <1>1, <1>6, <2>3 DEF Ids
      <3>2. d.id = c.id /\ d.phone = c.phone /\ d.user = c.user
        BY <1>1, <2>1, <2>3, RegTypes
      <3>3. QED
        BY <3>1, <3>2
    <2>4. QED
      BY <2>2, <2>3
  <1>7. QED
    BY <1>2, <1>3, <1>4, <1>5, <1>6, DevicesChange
-----------------------------------------------------------------------------
LEMMA InitWPInv == Init => WInv /\ PInv
  <1> SUFFICES ASSUME Init PROVE WInv /\ PInv
    OBVIOUS
  <1>1. /\ queue = << >> /\ job = Nil /\ sent = << >> /\ substitutes = {} /\ devices = {}
        /\ moving \in {"pages", "presence", "devices"}
    BY DEF Init, D!PushTokensInit
  <1>2. /\ \A S : queue \in Seq(S) /\ sent \in Seq(S)
        /\ DOMAIN queue = {} /\ DOMAIN sent = {}
    BY <1>1, EmptySeq, LenProperties
  <1>3. \A x : OneTo(x)
    BY <1>1, <1>2 DEF OneTo
  <1>4. Founder \in Account
    BY Assumed DEF P!PagesAssumption
  <1>5. QED
    BY <1>1, <1>2, <1>3, <1>4 DEF WInv, PInv, PushedOnce

LEMMA TakeJobKeeps ==
    ASSUME WInv, PInv, TakeJob
    PROVE  WInv' /\ PInv'
  <1>1. /\ job = Nil /\ queue # << >> /\ queue' = Tail(queue)
        /\ job' = [to |-> Head(queue).to, version |-> Head(queue).version, phase |-> "check", kinds |-> {}]
        /\ UNCHANGED <<moving, devices, inserted, sent, substitutes>>
    BY DEF TakeJob, OthersStand, deviceVars
  <1>2. queue \in Seq(Job)
    BY DEF WInv
  <1>3. Head(queue) \in Job /\ queue' \in Seq(Job)
    BY <1>1, <1>2, HeadTailProperties
  <1>4. PICK j : j = job'
    OBVIOUS
  <1>5. j \in Running /\ j.phase = "check" /\ j.to = Head(queue).to /\ j.version = Head(queue).version
    BY <1>1, <1>3, <1>4 DEF Running, Job
  <1>7. WInv'
    BY <1>1, <1>3, <1>4, <1>5 DEF WInv
  <1>8. ASSUME NEW x \in Account, OneTo(x)
        PROVE  OneTo(x)'
    <2>1. queue \in Seq([to: {x}, version: Version])
      BY <1>8 DEF OneTo
    <2>2. PICK s : s = queue'
      OBVIOUS
    <2>3. /\ Head(queue) \in [to: {x}, version: Version] /\ s \in Seq([to: {x}, version: Version])
          /\ Len(s) = Len(queue) - 1 /\ \A n \in 1..Len(s) : s[n] = queue[n + 1]
      BY <1>1, <2>1, <2>2, HeadTailProperties
    <2>4. /\ Len(queue) \in Nat /\ DOMAIN queue = 1..Len(queue)
          /\ Len(s) \in Nat /\ DOMAIN s = 1..Len(s)
      BY <2>1, <2>3, LenProperties
    <2>5. Head(queue) = queue[1] /\ 1 \in DOMAIN queue
      BY <1>1, <2>1, <2>3, <2>4, EmptySeq
    <2>6. \A n \in DOMAIN s : n + 1 \in DOMAIN queue /\ n + 1 # 1 /\ s[n] = queue[n + 1]
      BY <2>3, <2>4
    <2>7. \A n, m \in DOMAIN queue : queue[n].version = queue[m].version => n = m
      BY <1>8 DEF OneTo
    <2>8. \A n, m \in DOMAIN s : s[n].version = s[m].version => n = m
      <3>1. SUFFICES ASSUME NEW n \in DOMAIN s, NEW m \in DOMAIN s, s[n].version = s[m].version
                     PROVE  n = m
        OBVIOUS
      <3>2. n + 1 = m + 1 /\ n \in Nat /\ m \in Nat
        BY <2>4, <2>6, <2>7, <3>1
      <3>3. QED
        BY <3>2
    <2>9. \A n \in DOMAIN s : s[n].version # j.version
      BY <1>5, <2>5, <2>6, <2>7
    <2>10. \A k : UNCHANGED FirstOf(x, k)
      BY <1>1 DEF FirstOf, D!DevicesOf
    <2>11. ASSUME NEW d \in devices, Served(d)
           PROVE  Served(d)'
      BY <1>1, <1>4, <1>5, <2>2, <2>5, <2>6, <2>11 DEF Served
    <2>12. \A d \in devices' : d.id \notin substitutes' /\ (\E n \in DOMAIN sent' : sent'[n] = d.id) => Served(d)'
      BY <1>1, <1>8, <2>11 DEF OneTo
    <2>13. j.to = x
      BY <1>5, <2>3
    <2>14. QED
      BY <1>4, <1>5, <2>2, <2>3, <2>8, <2>9, <2>12, <2>13 DEF OneTo
  <1>9. PushedOnce'
    BY <1>1 DEF PushedOnce, PInv
  <1>10. QED
    BY <1>1, <1>7, <1>8, <1>9 DEF PInv

\* What becomes of the running job leaves the rest alone: it ends, or it goes on
\* to what follows.
LEMMA JobKeeps ==
    ASSUME WInv, PInv, job # Nil, UNCHANGED <<moving, devices, inserted, queue, sent, substitutes>>,
           NEW j, j = job',
           \/ j = Nil
           \/ /\ j \in Running /\ j.to = job.to /\ j.version = job.version /\ job.phase # "send"
              /\ j.phase = "send" =>
                    /\ j.kinds # {}
                    /\ \A k \in j.kinds : \A d \in FirstOf(j.to, k) : d.version = j.version
    PROVE  WInv' /\ PInv'
  <1>1. WInv'
    BY DEF WInv
  <1>2. ASSUME NEW x \in Account, OneTo(x)
        PROVE  OneTo(x)'
    <2>1. \A k : UNCHANGED FirstOf(x, k)
      BY DEF FirstOf, D!DevicesOf
    <2>2. j # Nil => j.to = x
      BY <1>2 DEF OneTo
    <2>3. ASSUME NEW d \in devices, Served(d) PROVE Served(d)'
      BY <2>3 DEF Served
    <2>4. \A d \in devices' : d.id \notin substitutes' /\ (\E n \in DOMAIN sent' : sent'[n] = d.id) => Served(d)'
      BY <1>2, <2>3 DEF OneTo
    <2>5. QED
      BY <1>2, <2>1, <2>2, <2>4 DEF OneTo
  <1>3. PushedOnce'
    BY DEF PushedOnce, PInv
  <1>4. QED
    BY <1>1, <1>2, <1>3 DEF PInv

LEMMA PushToAdminsKeeps ==
    ASSUME Inv1, WInv, PInv, PushToAdmins
    PROVE  WInv' /\ PInv'
  <1>1. /\ job # Nil /\ job.to \in Page /\ job' = Nil /\ queue' = queue \o AdminJobs(job.to, job.version)
        /\ UNCHANGED <<moving, devices, inserted, sent, substitutes>>
    BY DEF PushToAdmins, Working, OthersStand, deviceVars
  <1>2. job \in Running /\ queue \in Seq(Job)
    BY <1>1 DEF WInv
  <1>3. PICK p, v : p = job.to /\ v = job.version
    OBVIOUS
  <1>4. p \in Page /\ v \in Version
    BY <1>1, <1>2, <1>3 DEF Running
  <1>5. AdminJobs(p, v) \in Seq(Job)
    BY <1>4, AdminJobsType
  <1>6. queue' = queue \o AdminJobs(p, v)
    BY <1>1, <1>3
  <1>7. queue' \in Seq(Job)
    BY <1>2, <1>5, <1>6, ConcatProperties
  <1>8. WInv'
    BY <1>1, <1>7 DEF WInv
  <1>9. moving # "devices"
    BY <1>1, Assumed DEF PInv, OneTo, P!PagesAssumption
  <1>10. PushedOnce'
    BY <1>1 DEF PushedOnce, PInv
  <1>11. QED
    BY <1>1, <1>8, <1>9, <1>10 DEF PInv

LEMMA CheckPusherKeeps ==
    ASSUME WInv, PInv, CheckPusher
    PROVE  WInv' /\ PInv'
  <1>1. /\ job # Nil /\ job.phase = "check" /\ UNCHANGED <<moving, devices, inserted, queue, sent, substitutes>>
        /\ job' = Nil \/ job' = [job EXCEPT !.phase = "find"]
    BY DEF CheckPusher, Working, OthersStand, deviceVars
  <1>2. job \in Running
    BY <1>1 DEF WInv
  <1>3. PICK j : j = job'
    OBVIOUS
  <1>4. j = Nil \/ (j \in Running /\ j.to = job.to /\ j.version = job.version /\ j.phase = "find")
    BY <1>1, <1>2, <1>3 DEF Running
  <1>5. QED
    BY <1>1, <1>3, <1>4, JobKeeps

LEMMA FindDevicesKeeps ==
    ASSUME DInv, WInv, PInv, FindDevices
    PROVE  WInv' /\ PInv'
  <1>1. PICK kinds : kinds = {k \in D!Kind : Speaks(k)}
    OBVIOUS
  <1>2. /\ job # Nil /\ job.phase = "find" /\ UNCHANGED <<moving, devices, inserted, queue, sent, substitutes>>
        /\ job' = IF kinds = {} THEN Nil ELSE [job EXCEPT !.phase = "send", !.kinds = kinds]
    BY <1>1 DEF FindDevices, Working, OthersStand, deviceVars
  <1>3. job \in Running
    BY <1>2 DEF WInv
  <1>4. PICK j : j = job'
    OBVIOUS
  <1>5. j # Nil => /\ j \in Running /\ j.to = job.to /\ j.version = job.version
                   /\ j.kinds = kinds /\ kinds # {}
    BY <1>1, <1>2, <1>3, <1>4 DEF Running
  <1>6. PICK x : x = job.to
    OBVIOUS
  <1>7. ASSUME NEW k \in kinds, NEW d \in FirstOf(x, k)
        PROVE  d.version = job.version
    <2>1. D!DevicesOf(x, k) # {} /\ D!First(x, k).version = job.version
      BY <1>1, <1>6 DEF Speaks
    <2>2. d = D!First(x, k)
      BY <2>1, FirstIs
    <2>3. QED
      BY <2>1, <2>2
  <1>8. j # Nil => \A k \in j.kinds : \A d \in FirstOf(j.to, k) : d.version = j.version
    BY <1>5, <1>6, <1>7
  <1>9. job.phase # "send"
    BY <1>2
  <1>10. QED
    BY ZenonT(60), <1>2, <1>4, <1>5, <1>8, <1>9, JobKeeps

LEMMA PushFailsKeeps ==
    ASSUME WInv, PInv, PushFails
    PROVE  WInv' /\ PInv'
  <1>1. PICK j : j = job'
    OBVIOUS
  <1>2. job # Nil /\ j = Nil /\ UNCHANGED <<moving, devices, inserted, queue, sent, substitutes>>
    BY <1>1 DEF PushFails, OthersStand, deviceVars
  <1>3. QED
    BY <1>1, <1>2, JobKeeps

\* The device that is sent to was not, unless it is a substitute: it has the
\* version of the job, which has not sent to its kind.
LEMMA SendPushKeeps ==
    ASSUME DInv, WInv, PInv, SendPush
    PROVE  WInv' /\ PInv'
  <1>1. PICK kind : kind = IF "apns" \in job.kinds THEN "apns" ELSE "gcm"
    OBVIOUS
  <1>2. PICK x, v : x = job.to /\ v = job.version
    OBVIOUS
  <1>3. PICK d : d = D!First(x, kind)
    OBVIOUS
  <1>4. PICK j, s : j = job' /\ s = sent'
    OBVIOUS
  <1>5. /\ job # Nil /\ job.phase = "send" /\ UNCHANGED <<moving, devices, inserted, queue, substitutes>>
        /\ s = sent \/ (D!DevicesOf(x, kind) # {} /\ s = Append(sent, d.id))
        /\ j = IF job.kinds = {kind} THEN Nil ELSE [job EXCEPT !.kinds = @ \ {kind}]
    BY <1>1, <1>2, <1>3, <1>4 DEF SendPush, Working, OthersStand, deviceVars
  <1>6. job \in Running /\ sent \in Seq(1..inserted)
    BY <1>5 DEF WInv
  <1>7. /\ D!DevicesOf(x, kind) # {} => d \in FirstOf(x, kind) /\ d \in devices
        /\ \A c, e \in FirstOf(x, kind) : c = e
    BY <1>3, FirstIs
  <1>8. /\ \A c \in devices : c.id \in 1..inserted
        /\ \A k : \A c \in FirstOf(x, k) : D!KindOf(c.phone) = k
        /\ \A k : UNCHANGED FirstOf(x, k)
    BY <1>5, RegTypes DEF DInv, FirstOf, D!DevicesOf
  <1>9. v \in Version /\ v # Nil
    BY <1>2, <1>6, Assumed DEF Running, D!PushTokensAssumption
  <1>10. Len(sent) \in Nat /\ DOMAIN sent = 1..Len(sent)
    BY <1>6, LenProperties
  <1>11. /\ s \in Seq(1..inserted)
         /\ \/ s = sent
            \/ /\ D!DevicesOf(x, kind) # {} /\ DOMAIN s = 1..(Len(sent) + 1)
               /\ \A n \in DOMAIN sent : s[n] = sent[n]
               /\ s[Len(sent) + 1] = d.id
    <2>1. CASE s = sent
      BY <1>6, <2>1
    <2>2. CASE D!DevicesOf(x, kind) # {} /\ s = Append(sent, d.id)
      <3>1. d.id \in 1..inserted
        BY <1>7, <1>8, <2>2
      <3>2. /\ s \in Seq(1..inserted) /\ Len(s) = Len(sent) + 1
            /\ \A n \in 1..Len(sent) : s[n] = sent[n]
            /\ s[Len(sent) + 1] = d.id
        BY <1>6, <2>2, <3>1, AppendProperties
      <3>3. DOMAIN s = 1..(Len(sent) + 1)
        BY <3>2, LenProperties
      <3>4. QED
        BY <1>10, <2>2, <3>2, <3>3
    <2>3. QED
      BY <1>5, <2>1, <2>2
  <1>12. j \in Running \cup {Nil}
    BY <1>5, <1>6 DEF Running
  <1>13. WInv'
    BY <1>4, <1>5, <1>11, <1>12 DEF WInv
  <1>14. CASE moving # "devices"
    <2>1. devices = {} /\ sent = << >>
      BY <1>14 DEF PInv
    <2>2. s = << >>
      BY <1>7, <1>11, <2>1
    <2>3. PushedOnce'
      BY <1>4, <1>5, <2>1, <2>2 DEF PInv, PushedOnce
    <2>4. QED
      BY <1>4, <1>5, <1>13, <1>14, <2>1, <2>2, <2>3 DEF PInv
  <1>15. CASE moving = "devices"
    <2>1. x \in Account /\ OneTo(x)
      BY <1>2, <1>5, <1>15 DEF PInv, OneTo
    <2>2. /\ job.kinds # {}
          /\ \A k \in job.kinds : \A c \in FirstOf(x, k) : c.id \notin substitutes => c.version = v
          /\ \A n \in DOMAIN queue : queue[n].version # v
          /\ \A c \in devices : (c.id \notin substitutes /\ \E n \in DOMAIN sent : sent[n] = c.id) => Served(c)
      BY <1>2, <1>5, <2>1 DEF OneTo
    <2>3. kind \in job.kinds
      BY <1>1, <1>6, <2>2 DEF Running, D!Kind
    <2>4. ASSUME D!DevicesOf(x, kind) # {}, d.id \notin substitutes
          PROVE  d.version = v /\ \A n \in DOMAIN sent : sent[n] # d.id
      <3>1. d.version = v
        BY <1>7, <2>2, <2>3, <2>4
      <3>2. ~Served(d)
        BY <1>2, <1>5, <1>7, <1>8, <2>3, <2>4, <3>1 DEF Served
      <3>3. QED
        BY <1>7, <2>2, <2>4, <3>1, <3>2
    <2>5. PushedOnce'
      <3>1. ASSUME NEW n \in DOMAIN s, NEW m \in DOMAIN s, n # m, s[n] = s[m], s[n] \notin substitutes
            PROVE  FALSE
        <4>1. CASE n \in DOMAIN sent /\ m \in DOMAIN sent
          BY <1>11, <3>1, <4>1 DEF PInv, PushedOnce
        <4>2. CASE ~(n \in DOMAIN sent /\ m \in DOMAIN sent)
          <5>1. D!DevicesOf(x, kind) # {} /\ s # sent
            BY <1>11, <3>1, <4>2
          <5>2. n = Len(sent) + 1 \/ m = Len(sent) + 1
            BY <1>10, <1>11, <3>1, <4>2, <5>1
          <5>3. PICK l \in DOMAIN sent : sent[l] = d.id
            <6>1. CASE n = Len(sent) + 1
              <7>1. m \in DOMAIN sent /\ s[n] = d.id
                BY <1>10, <1>11, <3>1, <5>1, <6>1
              <7>2. QED
                BY <1>11, <3>1, <5>1, <7>1
            <6>2. CASE m = Len(sent) + 1
              <7>1. n \in DOMAIN sent /\ s[m] = d.id
                BY <1>10, <1>11, <3>1, <5>1, <6>2
              <7>2. QED
                BY <1>11, <3>1, <5>1, <7>1
            <6>3. QED
              BY <5>2, <6>1, <6>2
          <5>4. d.id \notin substitutes
            BY <1>11, <3>1, <5>1, <5>2
          <5>5. QED
            BY <2>4, <5>1, <5>3, <5>4
        <4>3. QED
          BY <4>1, <4>2
      <3>2. QED
        BY <1>4, <1>5, <3>1 DEF PushedOnce
    <2>6. j # Nil => /\ j.to = x /\ j.version = v /\ j.phase = "send"
                     /\ j.kinds # {} /\ j.kinds = job.kinds \ {kind}
      BY <1>2, <1>5, <1>6, <2>3 DEF Running
    <2>7. ASSUME NEW c \in devices, c.id \notin substitutes, NEW n \in DOMAIN s, s[n] = c.id
          PROVE  Served(c)'
      <3>1. CASE \E m \in DOMAIN sent : sent[m] = c.id
        <4>1. Served(c)
          BY <2>2, <2>7, <3>1
        <4>2. QED
          BY <1>2, <1>4, <1>5, <2>6, <4>1 DEF Served
      <3>2. CASE ~\E m \in DOMAIN sent : sent[m] = c.id
        <4>1. D!DevicesOf(x, kind) # {} /\ c.id = d.id
          BY <1>10, <1>11, <2>7, <3>2
        <4>2. c = d
          BY <1>7, <2>7, <4>1 DEF DInv, Ids
        <4>3. c.version = v /\ D!KindOf(c.phone) = kind
          BY <1>7, <1>8, <2>4, <2>7, <4>1, <4>2
        <4>4. QED
          BY <1>4, <1>5, <1>9, <2>2, <2>6, <4>3 DEF Served
      <3>3. QED
        BY <3>1, <3>2
    <2>8. \A c \in devices' : c.id \notin substitutes' /\ (\E n \in DOMAIN sent' : sent'[n] = c.id) => Served(c)'
      BY <1>4, <1>5, <2>7
    <2>9. /\ queue' \in Seq([to: {x}, version: Version])
          /\ \A n, m \in DOMAIN queue' : queue'[n].version = queue'[m].version => n = m
      BY <1>5, <2>1 DEF OneTo
    <2>10. j # Nil => \A n \in DOMAIN queue' : queue'[n].version # j.version
      BY <1>5, <2>2, <2>6
    <2>11. j # Nil => \A k \in j.kinds : \A c \in FirstOf(x, k)' : c.id \notin substitutes' => c.version = j.version
      BY <1>5, <1>8, <2>2, <2>6
    <2>12. OneTo(x)'
      BY <1>4, <2>6, <2>8, <2>9, <2>10, <2>11 DEF OneTo
    <2>13. QED
      BY <1>5, <1>13, <1>15, <2>1, <2>5, <2>12 DEF PInv
  <1>16. QED
    BY <1>14, <1>15

\* A notification starts where nothing is sent and nothing was.
LEMMA NotifyKeeps ==
    ASSUME WInv, PInv, NEW x \in Recipient, NEW versions, versions \subseteq Version, Notify(x, versions),
           moving = "devices" => x \in Account, devices' = devices, inserted' = inserted
    PROVE  WInv' /\ PInv'
  <1>1. /\ job = Nil /\ sent = << >> /\ queue' = JobsFor(x, versions)
        /\ UNCHANGED <<moving, job, sent, substitutes>>
    BY DEF Notify, NothingToSend
  <1>2. /\ queue' \in Seq([to: {x}, version: Version])
        /\ \A n, m \in DOMAIN queue' : queue'[n].version = queue'[m].version => n = m
    BY <1>1, JobsType
  <1>3. [to: {x}, version: Version] \subseteq Job
    BY DEF Job
  <1>4. queue' \in Seq(Job)
    BY <1>2, <1>3, SeqMonotonic
  <1>5. WInv'
    BY <1>1, <1>4 DEF WInv
  <1>6. DOMAIN sent = {}
    BY <1>1, EmptySeq, LenProperties
  <1>7. OneTo(x)'
    BY <1>1, <1>2, <1>6 DEF OneTo
  <1>8. PushedOnce'
    BY <1>1, <1>6 DEF PushedOnce
  <1>9. QED
    BY <1>1, <1>5, <1>7, <1>8 DEF PInv

\* A device that comes first and did not before, while a job is about to send, is
\* a substitute; the others are what they were.
LEMMA DevicesMoveKeeps ==
    ASSUME DInv, WInv, PInv, DevicesMove
    PROVE  WInv' /\ PInv'
  <1>1. /\ moving = "devices" /\ D!PushTokensNext /\ UNCHANGED <<moving, queue, job, sent>>
        /\ substitutes' = IF Working("send")
                          THEN substitutes \cup (Firsts(job.to, job.kinds)' \ Firsts(job.to, job.kinds))
                          ELSE substitutes
    BY DEF DevicesMove
  <1>2. DInv' /\ inserted \in Nat /\ inserted' \in Nat /\ inserted <= inserted'
    <2>1. DInv'
      BY <1>1, StepDInv
    <2>2. inserted \in Nat
      BY RegTypes DEF DInv
    <2>3. inserted' = inserted \/ inserted' = inserted + 1
      BY <1>1, InsertsOne
    <2>4. QED
      BY <2>1, <2>2, <2>3
  <1>3. \A d \in devices' : d.id \in 1..inserted'
    <2>1. devices' \subseteq [id: 1..inserted', user: Account \cup guests', phone: Phone, version: Version \cup {Nil}]
      BY <1>2 DEF DInv, DTInv, D!PushTokensTypeOK
    <2>2. QED
      BY <2>1
  <1>4. substitutes \subseteq substitutes' /\ 1..inserted \subseteq 1..inserted'
    BY <1>1, <1>2
  <1>5. WInv'
    <2>1. sent \in Seq(1..inserted)
      BY DEF WInv
    <2>2. sent' \in Seq(1..inserted')
      BY <1>1, <1>4, <2>1, SeqMonotonic
    <2>3. Firsts(job.to, job.kinds)' \subseteq {d.id : d \in devices'}
      BY DEF Firsts, FirstOf, D!DevicesOf
    <2>4. substitutes' \subseteq 1..inserted'
      <3>1. Firsts(job.to, job.kinds)' \subseteq 1..inserted'
        BY <1>3, <2>3
      <3>2. substitutes \subseteq 1..inserted
        BY DEF WInv
      <3>3. substitutes' \subseteq substitutes \cup Firsts(job.to, job.kinds)'
        BY <1>1
      <3>4. QED
        BY <1>4, <3>1, <3>2, <3>3
    <2>5. QED
      BY <1>1, <2>2, <2>4 DEF WInv
  <1>6. PushedOnce'
    BY <1>1, <1>4 DEF PInv, PushedOnce
  <1>7. \A n \in DOMAIN sent : sent[n] # inserted + 1
    <2>1. sent \in Seq(1..inserted)
      BY DEF WInv
    <2>2. \A n \in DOMAIN sent : sent[n] \in 1..inserted
      BY <2>1, LenProperties, ElementOfSeq
    <2>3. QED
      BY <1>2, <2>2
  <1>8. Nil \notin Version
    BY Assumed DEF D!PushTokensAssumption
  <1>9. ASSUME NEW x \in Account, OneTo(x)
        PROVE  OneTo(x)'
    <2>1. ASSUME NEW d \in devices', d.id \notin substitutes', NEW n \in DOMAIN sent, sent[n] = d.id
          PROVE  Served(d)'
      <3>1. PICK c \in devices : /\ c.id = d.id /\ c.phone = d.phone /\ c.user = d.user
                                 /\ c.version = d.version \/ c.version = Nil
        BY <1>1, <1>7, <2>1, SameDevice
      <3>2. Served(c)
        BY <1>4, <1>9, <2>1, <3>1 DEF OneTo
      <3>3. QED
        BY <1>1, <3>1, <3>2 DEF Served
    <2>2. ASSUME job # Nil, job.phase = "send", NEW k \in job.kinds, NEW d \in FirstOf(x, k)', d.id \notin substitutes'
          PROVE  d.version = job.version
      <3>1. job.to = x /\ job \in Running
        BY <1>9, <2>2 DEF OneTo, WInv
      <3>2. d.id \in Firsts(x, job.kinds)'
        BY <1>1, <2>2 DEF Firsts
      <3>3. d.id \in Firsts(x, job.kinds)
        BY <1>1, <2>2, <3>1, <3>2 DEF Working
      <3>4. PICK l \in job.kinds : \E e \in FirstOf(x, l) : e.id = d.id
        BY <3>3 DEF Firsts
      <3>5. PICK e \in FirstOf(x, l) : e.id = d.id
        BY <3>4
      <3>6. e \in devices /\ d \in devices'
        BY <2>2 DEF FirstOf, D!DevicesOf
      <3>7. e.id \in 1..inserted
        BY <3>6, RegTypes DEF DInv
      <3>8. PICK c \in devices : /\ c.id = d.id /\ c.phone = d.phone /\ c.user = d.user
                                 /\ c.version = d.version \/ c.version = Nil
        BY <1>1, <1>2, <3>5, <3>6, <3>7, SameDevice
      <3>9. c = e
        BY <3>5, <3>6, <3>8 DEF DInv, Ids
      <3>10. e.version = job.version
        BY <1>4, <1>9, <2>2, <3>4, <3>5 DEF OneTo
      <3>11. job.version \in Version
        BY <3>1 DEF Running
      <3>12. QED
        BY <1>8, <3>8, <3>9, <3>10, <3>11
    <2>3. \A d \in devices' : d.id \notin substitutes' /\ (\E n \in DOMAIN sent' : sent'[n] = d.id) => Served(d)'
      BY <1>1, <2>1
    <2>4. job' # Nil /\ job'.phase = "send" =>
             /\ job'.kinds # {}
             /\ \A k \in job'.kinds : \A d \in FirstOf(x, k)' : d.id \notin substitutes' => d.version = job'.version
      BY <1>1, <1>9, <2>2 DEF OneTo
    <2>5. /\ queue' \in Seq([to: {x}, version: Version])
          /\ \A n, m \in DOMAIN queue' : queue'[n].version = queue'[m].version => n = m
          /\ job' # Nil => job'.to = x /\ \A n \in DOMAIN queue' : queue'[n].version # job'.version
      BY <1>1, <1>9 DEF OneTo
    <2>6. QED
      BY <2>3, <2>4, <2>5 DEF OneTo
  <1>10. QED
    BY <1>1, <1>5, <1>6, <1>9 DEF PInv

LEMMA NextWPInv == Inv1 /\ DInv /\ WInv /\ PInv /\ [Next]_vars => WInv' /\ PInv'
  <1> SUFFICES ASSUME Inv1, DInv, WInv, PInv, [Next]_vars
               PROVE  WInv' /\ PInv'
    OBVIOUS
  <1>1. ASSUME UNCHANGED <<moving, devices, inserted, queue, job, sent, substitutes>>
        PROVE  WInv' /\ PInv'
    <2>1. WInv'
      BY <1>1 DEF WInv
    <2>2. \A x : OneTo(x) => OneTo(x)'
      BY <1>1 DEF OneTo, Served, FirstOf, D!DevicesOf
    <2>3. PushedOnce'
      BY <1>1 DEF PInv, PushedOnce
    <2>4. QED
      BY <1>1, <2>1, <2>2, <2>3 DEF PInv
  <1>2. CASE PagesMove \/ PresenceMoves \/ UNCHANGED vars
    BY <1>1, <1>2 DEF PagesMove, PresenceMoves, vars, deviceVars, pushVars
  <1>3. ASSUME NEW r \in P!Request, NEW x \in Page, NotifyPage(r, x)
        PROVE  WInv' /\ PInv'
    <2>1. /\ x \in Recipient /\ {Latest} \subseteq Version /\ Notify(x, {Latest})
          /\ moving # "devices" /\ devices' = devices /\ inserted' = inserted
      BY <1>3, Assumed DEF NotifyPage, Recipient, deviceVars, D!PushTokensAssumption
    <2>2. PICK versions : versions = {Latest}
      OBVIOUS
    <2>3. QED
      BY <2>1, <2>2, NotifyKeeps
  <1>4. ASSUME NEW r \in D!Registration, NEW x \in Account, NotifyPerson(r, x)
        PROVE  WInv' /\ PInv'
    <2>1. x \in Recipient /\ Notify(x, Version) /\ devices' = devices /\ inserted' = inserted
      BY <1>4 DEF NotifyPerson, Recipient
    <2>2. PICK versions : versions = Version
      OBVIOUS
    <2>3. QED
      BY <2>1, <2>2, NotifyKeeps
  <1>5. QED
    BY <1>2, <1>3, <1>4, DevicesMoveKeeps, TakeJobKeeps, PushToAdminsKeeps, CheckPusherKeeps,
       FindDevicesKeeps, SendPushKeeps, PushFailsKeeps DEF Next, PushWorker

\* What is known of Push: of the pages, of presence, of the devices and of the
\* pushes.
PushInv == Inv1 /\ DInv /\ WInv /\ PInv

LEMMA PushInvariant == Spec => []PushInv
  <1>1. Init => PushInv
    BY InitInv1, InitDeviceInv, InitWPInv DEF PushInv
  <1>2. PushInv /\ [Next]_vars => PushInv'
    BY StepInv1, NextDInv, NextWPInv DEF PushInv
  <1>3. QED
    BY <1>1, <1>2, PTL DEF Spec

\* The variables have their types, those of the three components included.
THEOREM PushTypeOK == Spec => []TypeOK
  <1>1. PushInv => TypeOK
    <2> SUFFICES ASSUME PushInv PROVE TypeOK
      OBVIOUS
    <2>1. Inv1 /\ DInv /\ WInv
      BY DEF PushInv
    <2>2. P!PagesTypeOK
      BY <2>1, Assumed, PagesInvHolds DEF Inv1
    <2>3. O!PresenceTypeOK
      BY <2>1, PO!PresenceInvHolds, PresenceSame DEF Inv1
    <2>4. D!PushTokensTypeOK
      BY <2>1 DEF DInv, DTInv
    <2>5. QED
      BY <2>1, <2>2, <2>3, <2>4 DEF WInv, Running, TypeOK
  <1>2. QED
    BY PushInvariant, <1>1, PTL

\* The jobs that are enqueued for a notification, one for each version of the
\* API, send it once to a device: each sends to the first device if it has its
\* version, and a device has one version, which it is given once. Only one that
\* takes the place of the device found, before it is read again, is sent to
\* unseen.
THEOREM PushPushedOnce == Spec => []PushedOnce
  <1>1. PushInv => PushedOnce
    BY DEF PushInv, PInv
  <1>2. QED
    BY PushInvariant, <1>1, PTL
=============================================================================
