------------------------- MODULE MessageReadsProofs -------------------------
(***************************************************************************)
(* The safety properties of MessageReads, for every set of members, of     *)
(* devices and of requests, and any number of workers.                     *)
(***************************************************************************)
EXTENDS MessageReads, SequenceTheorems, FiniteSetTheorems, TLAPS

\* What TypeOK needs to be inductive: the messages that a request q is about to
\* create rows for are among the messages ms, and which of the two endpoints that
\* read messages, of one message or of the conversation, q has called.
FoundIn(q, ms) ==
    q.phase \in Phase =>
       /\ q.unread \subseteq ms
       /\ q.phase = "create_read" => q.message # 0 /\ q.op = "read_one"
       /\ q.phase \in {"query", "create_reads"} => q.op # "read_one"

TInv == TypeOK /\ \A r \in Request : FoundIn(req[r], Messages)
-----------------------------------------------------------------------------
\* A request in one of the phases of Phase has all the fields of a Call.
LEMMA CallTyped ==
    ASSUME TypeOK, NEW r \in Request, req[r].phase \in Phase
    PROVE  req[r] \in Call
  BY SMTT(30) DEF TypeOK, Call, NotMade, Done, Phase

\* A fresh request is a Call.
LEMMA NewCallTyped ==
    ASSUME NEW r \in Request, NEW op \in Op, NEW u \in User, NEW m \in Nat
    PROVE  NewCall(r, op, u, m) \in Call
  BY DEF NewCall, NextPhase, Op, Phase, Call

\* What moving a request on does to it.
LEMMA GotoTyped ==
    ASSUME TypeOK, NEW r \in Request, req[r].phase \in Phase, NEW phase \in Phase,
           Goto(r, phase)
    PROVE  /\ req' \in [Request -> Call \cup {NotMade, Done}]
           /\ req'[r] \in Call /\ req'[r].phase = phase
           /\ req'[r].op = req[r].op /\ req'[r].actor = req[r].actor
           /\ req'[r].message = req[r].message /\ req'[r].by = req[r].by
           /\ req'[r].to = req[r].to /\ req'[r].unread = req[r].unread
           /\ \A q \in Request \ {r} : req'[q] = req[q]
  <1> DEFINE c == [req[r] EXCEPT !.phase = phase]
  <1>1. /\ c \in Call /\ c.phase = phase
        /\ c.op = req[r].op /\ c.actor = req[r].actor /\ c.message = req[r].message
        /\ c.by = req[r].by /\ c.to = req[r].to /\ c.unread = req[r].unread
    BY CallTyped DEF Call
  <1> HIDE DEF c
  <1>2. req' = [req EXCEPT ![r] = c]
    BY DEF Goto, c
  <1>3. QED
    BY <1>1, <1>2 DEF TypeOK

LEMMA FinishTyped ==
    ASSUME TypeOK, NEW r \in Request, Finish(r)
    PROVE  /\ req' \in [Request -> Call \cup {NotMade, Done}]
           /\ req'[r] = Done
           /\ \A q \in Request \ {r} : req'[q] = req[q]
  BY DEF Finish, TypeOK

\* What RemoveAt leaves of a sequence: all of its elements but the one at i.
LEMMA RemoveAtProperties ==
    ASSUME NEW S, NEW s \in Seq(S), NEW i \in 1..Len(s)
    PROVE  /\ RemoveAt(s, i) \in Seq(S)
           /\ \A j \in 1..Len(s) : j # i => \E k \in DOMAIN RemoveAt(s, i) : RemoveAt(s, i)[k] = s[j]
           /\ \A k \in DOMAIN RemoveAt(s, i) : \E j \in 1..Len(s) : RemoveAt(s, i)[k] = s[j]
  <1> DEFINE a == SubSeq(s, 1, i - 1)
             b == SubSeq(s, i + 1, Len(s))
  <1>1. Len(s) \in Nat /\ \A j \in 1..Len(s) : s[j] \in S
    BY ElementOfSeq
  <1>2. /\ a \in Seq(S) /\ Len(a) = i - 1
        /\ \A j \in 1..(i - 1) : a[j] = s[j]
    BY <1>1, SubSeqProperties, 1 \in Int, i - 1 \in Int
  <1>3. /\ b \in Seq(S) /\ Len(b) = Len(s) - i
        /\ \A j \in 1..(Len(s) - i) : b[j] = s[j + i]
    BY <1>1, SubSeqProperties, i + 1 \in Int, Len(s) \in Int
  <1>4. RemoveAt(s, i) = a \o b
    BY DEF RemoveAt
  <1> HIDE DEF a, b
  <1>5. /\ a \o b \in Seq(S) /\ Len(a \o b) = Len(s) - 1 /\ DOMAIN (a \o b) = 1..(Len(s) - 1)
        /\ \A j \in 1..(Len(s) - 1) : (a \o b)[j] = IF j <= i - 1 THEN a[j] ELSE b[j - (i - 1)]
    <2>1. /\ a \o b \in Seq(S) /\ Len(a \o b) = Len(a) + Len(b)
          /\ \A j \in 1..(Len(a) + Len(b)) :
                (a \o b)[j] = IF j <= Len(a) THEN a[j] ELSE b[j - Len(a)]
      BY <1>2, <1>3, ConcatProperties
    <2>2. DOMAIN (a \o b) = 1..Len(a \o b)
      BY <2>1, LenProperties
    <2>3. Len(a) + Len(b) = Len(s) - 1
      BY <1>1, <1>2, <1>3
    <2>4. QED
      BY <2>1, <2>2, <2>3, <1>2
  <1>6. \A j \in 1..(Len(s) - 1) : (a \o b)[j] = IF j < i THEN s[j] ELSE s[j + 1]
    BY <1>1, <1>2, <1>3, <1>5
  <1>7. ASSUME NEW j \in 1..Len(s), j # i
        PROVE  \E k \in DOMAIN (a \o b) : (a \o b)[k] = s[j]
    <2>1. CASE j < i
      <3>1. j \in 1..(Len(s) - 1)
        BY <2>1, <1>1
      <3>2. QED
        BY <3>1, <2>1, <1>5, <1>6
    <2>2. CASE j > i
      <3>1. j - 1 \in 1..(Len(s) - 1) /\ ~ (j - 1 < i) /\ (j - 1) + 1 = j
        BY <2>2, <1>1
      <3>2. QED
        BY <3>1, <1>5, <1>6
    <2>3. QED
      BY <1>7, <2>1, <2>2, <1>1
  <1>8. ASSUME NEW k \in DOMAIN (a \o b)
        PROVE  \E j \in 1..Len(s) : (a \o b)[k] = s[j]
    <2>1. /\ k \in 1..(Len(s) - 1) /\ k \in 1..Len(s) /\ k + 1 \in 1..Len(s)
      BY <1>1, <1>5
    <2>2. QED
      BY <2>1, <1>6
  <1>9. QED
    BY <1>4, <1>5, <1>7, <1>8

\* The elements of a set in some order: a sequence of its elements ...
LEMMA SetToSeqsTyped ==
    ASSUME NEW S, IsFiniteSet(S), NEW order \in SetToSeqs(S)
    PROVE  order \in Seq(S) /\ DOMAIN order = 1..Cardinality(S)
  <1>1. Cardinality(S) \in Nat
    BY FS_CardinalityType
  <1>2. order \in [1..Cardinality(S) -> S]
    BY DEF SetToSeqs
  <1>3. QED
    BY <1>1, <1>2

\* ... that leaves none of them out.
LEMMA SetToSeqsCovers ==
    ASSUME NEW S, IsFiniteSet(S), NEW order \in SetToSeqs(S), NEW x \in S
    PROVE  \E i \in DOMAIN order : order[i] = x
  <1> DEFINE D == 1..Cardinality(S)
  <1>1. Cardinality(S) \in Nat
    BY FS_CardinalityType
  <1>2. order \in Injection(D, S)
    BY DEF SetToSeqs, Injection, IsInjective
  <1>3. IsFiniteSet(D) /\ Cardinality(D) = Cardinality(S)
    BY <1>1, FS_Interval
  <1>4. order \in Surjection(D, S)
    BY <1>2, <1>3, FS_Injection
  <1>5. QED
    BY <1>4 DEF Surjection

\* What deleting at most one row of u leaves: all the rows of the others, and
\* those of u that are not in matching.
LEMMA DeleteRowProperties ==
    ASSUME TypeOK, NEW u \in User, NEW matching \in SUBSET DOMAIN reads[u],
           DeleteRow(u, matching)
    PROVE  /\ reads' \in [User -> Seq(Read)]
           /\ \A v \in User \ {u} : reads'[v] = reads[v]
           /\ \A i \in DOMAIN reads[u] \ matching :
                 \E k \in DOMAIN reads'[u] : reads'[u][k] = reads[u][i]
  <1>1. reads \in [User -> Seq(Read)] /\ reads[u] \in Seq(Read)
    BY DEF TypeOK
  <1>2. DOMAIN reads[u] = 1..Len(reads[u])
    BY <1>1, LenProperties
  <1>3. CASE matching = {}
    BY <1>3, <1>1 DEF DeleteRow
  <1>4. CASE matching # {}
    <2> DEFINE i == CHOOSE i \in matching : TRUE
    <2>1. i \in matching
      BY <1>4
    <2> HIDE DEF i
    <2>2. reads' = [reads EXCEPT ![u] = RemoveAt(reads[u], i)]
      BY <1>4 DEF DeleteRow, i
    <2>3. /\ RemoveAt(reads[u], i) \in Seq(Read)
          /\ \A j \in 1..Len(reads[u]) : j # i =>
                \E k \in DOMAIN RemoveAt(reads[u], i) : RemoveAt(reads[u], i)[k] = reads[u][j]
      <3>1. i \in 1..Len(reads[u])
        BY <2>1, <1>2
      <3>2. QED
        BY <3>1, <1>1, RemoveAtProperties
    <2>4. QED
      BY <2>1, <2>2, <2>3, <1>1, <1>2
  <1>5. QED
    BY <1>3, <1>4

\* What creating rows for a request adds: a row for each of its messages, behind
\* those that the user has.
LEMMA InsertReadsProperties ==
    ASSUME TypeOK, NEW r \in Request, req[r] \in Call, NEW u, u = req[r].actor,
           req[r].unread \subseteq Messages, InsertReads(r)
    PROVE  /\ reads' \in [User -> Seq(Read)]
           /\ \A v \in User \ {u} : reads'[v] = reads[v]
           /\ \A m : HasRead(u, m) => HasRead(u, m)'
           /\ \A m \in req[r].unread : HasRead(u, m)'
  <1> DEFINE S == req[r].unread
  <1>1. /\ u \in User /\ S \subseteq Nat \ {0}
        /\ reads \in [User -> Seq(Read)] /\ reads[u] \in Seq(Read)
    BY DEF TypeOK, Call
  <1>2. IsFiniteSet(S)
    <2>1. Len(author) \in Nat
      BY LenProperties DEF TypeOK
    <2>2. IsFiniteSet(Messages)
      BY <2>1, 1 \in Int, FS_Interval DEF Messages
    <2>3. QED
      BY <2>2, FS_Subset
  <1>3. PICK order \in SetToSeqs(S) :
           reads' = [reads EXCEPT ![u] =
                       @ \o [i \in DOMAIN order |-> [message |-> order[i], by |-> r]]]
    BY DEF InsertReads
  <1> DEFINE rows == [i \in DOMAIN order |-> [message |-> order[i], by |-> r]]
  <1>4. order \in Seq(S) /\ Cardinality(S) \in Nat /\ DOMAIN order = 1..Cardinality(S)
    BY <1>2, SetToSeqsTyped, FS_CardinalityType
  <1>5. \A i \in DOMAIN order : rows[i] = [message |-> order[i], by |-> r] /\ rows[i] \in Read
    BY <1>1, <1>4, ElementOfSeq, LenProperties DEF Read
  <1>6. rows \in Seq(Read) /\ Len(rows) = Cardinality(S) /\ DOMAIN rows = DOMAIN order
    BY <1>4, <1>5
  <1> HIDE DEF rows
  <1>7. /\ reads[u] \o rows \in Seq(Read)
        /\ Len(reads[u] \o rows) = Len(reads[u]) + Len(rows)
        /\ \A i \in 1..(Len(reads[u]) + Len(rows)) :
              (reads[u] \o rows)[i] =
                 IF i <= Len(reads[u]) THEN reads[u][i] ELSE rows[i - Len(reads[u])]
    BY <1>1, <1>6, ConcatProperties
  <1>8. reads' = [reads EXCEPT ![u] = reads[u] \o rows] /\ reads'[u] = reads[u] \o rows
    BY <1>1, <1>3 DEF rows
  <1>9. /\ DOMAIN reads[u] = 1..Len(reads[u]) /\ Len(reads[u]) \in Nat
        /\ DOMAIN reads'[u] = 1..(Len(reads[u]) + Len(rows)) /\ Len(rows) \in Nat
    BY <1>1, <1>6, <1>7, <1>8, LenProperties
  <1>10. ASSUME NEW m, HasRead(u, m) PROVE HasRead(u, m)'
    <2>1. PICK i \in DOMAIN reads[u] : reads[u][i].message = m
      BY <1>10 DEF HasRead
    <2>2. i \in DOMAIN reads'[u] /\ reads'[u][i] = reads[u][i]
      BY <2>1, <1>7, <1>8, <1>9
    <2>3. QED
      BY <2>1, <2>2 DEF HasRead
  <1>11. ASSUME NEW m \in S PROVE HasRead(u, m)'
    <2>1. PICK i \in DOMAIN order : order[i] = m
      BY <1>2, SetToSeqsCovers
    <2> DEFINE k == Len(reads[u]) + i
    <2>2. i \in 1..Len(rows) /\ rows[i].message = m
      BY <2>1, <1>4, <1>5, <1>6
    <2>3. k \in DOMAIN reads'[u] /\ ~ (k <= Len(reads[u])) /\ k - Len(reads[u]) = i
      <3>1. ASSUME NEW a \in Nat, NEW b \in Nat, NEW j \in 1..b
            PROVE  a + j \in 1..(a + b) /\ ~ (a + j <= a) /\ (a + j) - a = j
        OBVIOUS
      <3>2. Len(reads[u]) \in Nat /\ Len(rows) \in Nat
        BY <1>9
      <3>3. QED
        BY <3>1, <3>2, <2>2, <1>9
    <2>4. reads'[u][k] = rows[i]
      BY <2>3, <1>7, <1>8, <1>9
    <2>5. QED
      BY <2>2, <2>3, <2>4 DEF HasRead
  <1>12. QED
    BY <1>1, <1>7, <1>8, <1>10, <1>11
-----------------------------------------------------------------------------
LEMMA InitTInv == Init => TInv
  <1> SUFFICES ASSUME Init PROVE TInv
    OBVIOUS
  <1> USE MessageReadsAssumption
  <1>1. PICK u \in User :
          /\ author = <<u>>
          /\ notified = (User \ {u}) \X {1}
          /\ badge = [d \in Device |-> IF d = u THEN 0 ELSE 1]
          /\ req = [r \in Request |-> IF r = 1 THEN NewCall(1, "reply", u, 0) ELSE NotMade]
    BY DEF Init
  <1>2. NewCall(1, "reply", u, 0) \in Call
    BY NewCallTyped DEF Request, Op
  <1>3. req \in [Request -> Call \cup {NotMade, Done}]
    BY <1>1, <1>2
  <1>4. \A r \in Request : FoundIn(req[r], Messages)
    BY <1>1 DEF FoundIn, NewCall, NextPhase, Op, NotMade, Phase
  <1>5. author \in Seq(User \cup {Null})
    BY <1>1
  <1>6. reads \in [User -> Seq(Read)] /\ jobs \in Seq(User \X Nat) /\ push \in Seq(Device)
    BY DEF Init
  <1>7. QED
    BY <1>1, <1>3, <1>4, <1>5, <1>6 DEF Init, TypeOK, TInv

\* Every step keeps the state well typed.
LEMMA StepTInv == TInv /\ [Next]_vars => TInv'
  <1> SUFFICES ASSUME TInv, [Next]_vars PROVE TInv'
    OBVIOUS
  <1> USE MessageReadsAssumption
  <1>0. TypeOK
    BY DEF TInv
  <1>1. CASE UNCHANGED vars
    BY <1>1 DEF vars, database, queues, history, TInv, TypeOK, Messages
  <1>2. ASSUME NEW r \in Request, Start(r) \/ Handle(r) \/ Abort(r)
        PROVE  TInv'
    <2> DEFINE q == req[r]
               MovesOn == /\ req' \in [Request -> Call \cup {NotMade, Done}]
                          /\ \A p \in Request \ {r} : req'[p] = req[p]
                          /\ FoundIn(req'[r], Messages)
    <2>0. q.phase \in Phase => q \in Call /\ q.unread \subseteq Messages
      BY <1>0, CallTyped DEF TInv, FoundIn
    <2>1. ASSUME MovesOn, Messages \subseteq Messages'
          PROVE  \A p \in Request : FoundIn(req'[p], Messages')
      BY <2>1 DEF TInv, FoundIn
    <2>2. ASSUME Finish(r) PROVE MovesOn
      BY <2>2, <1>0, FinishTyped DEF Done, FoundIn, Phase
    <2>3. ASSUME NEW phase \in Phase \ {"create_read", "query"}, Goto(r, phase), q.phase \in Phase,
                 phase = "create_reads" => q.op # "read_one"
          PROVE  MovesOn
      BY <2>3, <2>0, <1>0, GotoTyped DEF FoundIn
    <2>4. ASSUME NEW c \in Call, req' = [req EXCEPT ![r] = c],
                 FoundIn(c, Messages)
          PROVE  MovesOn
      BY <2>4, <1>0 DEF TypeOK
    <2> HIDE DEF MovesOn
    <2>5. ASSUME MovesOn, UNCHANGED <<database, queues, unmarked, missed, enqueued>>,
                 asked' \subseteq User \X Nat, answered' \in [User -> Nat]
          PROVE  TInv'
      <3>1. req' \in [Request -> Call \cup {NotMade, Done}]
        BY <2>5 DEF MovesOn
      <3>2. QED
        BY <3>1, <2>5, <2>1, <1>0 DEF TInv, TypeOK, database, queues, Messages
    <2>10. ASSUME NEW op \in ClientOp \ {"read_one", "unread_one"}, NEW u \in User,
                  GetConversation(r, op, u)
           PROVE  TInv'
      <3>1. op \in Op /\ NewCall(r, op, u, 0) \in Call
        BY NewCallTyped
      <3>2. FoundIn(NewCall(r, op, u, 0), Messages)
        BY <3>1 DEF NewCall, NextPhase, Op, FoundIn
      <3>3. MovesOn
        BY <3>1, <3>2, <2>4, <2>10 DEF GetConversation
      <3>4. asked' \subseteq User \X Nat /\ answered' = answered
        BY <2>10, <1>0 DEF GetConversation, TypeOK
      <3>5. QED
        BY <3>3, <3>4, <2>5, <2>10, <1>0 DEF GetConversation, TypeOK
    <2>11. ASSUME NEW op \in ClientOp \cap {"read_one", "unread_one"}, NEW u \in User,
                  NEW m \in Messages, GetMessage(r, op, u, m)
           PROVE  TInv'
      <3>1. op \in Op /\ m \in Nat /\ m # 0
        BY <1>0, LenProperties DEF Messages, TypeOK
      <3>2. NewCall(r, op, u, m) \in Call /\ FoundIn(NewCall(r, op, u, m), Messages)
        BY <3>1, NewCallTyped DEF NewCall, NextPhase, FoundIn
      <3>3. MovesOn
        BY <3>1, <3>2, <2>4, <2>11 DEF GetMessage
      <3>4. asked' \subseteq User \X Nat /\ answered' = answered
        BY <3>1, <2>11, <1>0 DEF GetMessage, TypeOK
      <3>5. QED
        BY <3>3, <3>4, <2>5, <2>11, <1>0 DEF GetMessage, TypeOK
    <2>12. ASSUME SendMessage(r) PROVE TInv'
      <3>1. q \in Call /\ q.actor \in User \cup {Null}
        BY <2>12, <2>0 DEF SendMessage, At, Phase, Call
      <3>2. author' \in Seq(User \cup {Null}) /\ Len(author') \in Nat
        BY <3>1, <2>12, <1>0, AppendProperties, LenProperties DEF SendMessage, TypeOK
      <3>3. [q EXCEPT !.phase = "add_sender", !.message = Len(author')] \in Call
        BY <3>1, <3>2 DEF Call, Phase
      <3>4. req' = [req EXCEPT ![r] = [q EXCEPT !.phase = "add_sender", !.message = Len(author')]]
        BY <2>12 DEF SendMessage
      <3>5. MovesOn
        BY <3>1, <3>3, <3>4, <2>0, <2>4, <2>12 DEF Call, FoundIn, SendMessage, At, Phase
      <3>6. Messages \subseteq Messages'
        BY <2>12, <1>0, <3>1, AppendProperties, LenProperties DEF SendMessage, TypeOK, Messages
      <3>7. QED
        BY <3>2, <3>5, <3>6, <2>1, <2>12, <1>0 DEF MovesOn, SendMessage, TInv, TypeOK, queues, history
    <2>13. ASSUME AddSender(r) PROVE TInv'
      <3>1. q \in Call /\ q.actor \in User /\ users' \subseteq User
        BY <2>13, <2>0, <1>0 DEF AddSender, At, Phase, Call, TypeOK
      <3>2. [q EXCEPT !.phase = "notify", !.to = users' \ {q.actor}] \in Call
        BY <3>1 DEF Call, Phase
      <3>3. req' = [req EXCEPT ![r] = [q EXCEPT !.phase = "notify", !.to = users' \ {q.actor}]]
        BY <2>13 DEF AddSender
      <3>4. MovesOn
        BY <3>1, <3>2, <3>3, <2>0, <2>4, <2>13 DEF Call, FoundIn, AddSender, At, Phase
      <3>5. QED
        BY <3>1, <3>4, <2>1, <2>13, <1>0
        DEF MovesOn, AddSender, TInv, TypeOK, queues, history, Messages
    <2>14. ASSUME NEW u \in User, NotifyContributor(r, u) PROVE TInv'
      <3>1. q \in Call /\ q.phase = "notify" /\ <<u, q.message>> \in User \X Nat
        BY <2>14, <2>0 DEF NotifyContributor, At, Phase, Call
      <3>2. [q EXCEPT !.to = @ \ {u}] \in Call
        BY <3>1 DEF Call
      <3>3. req' = [req EXCEPT ![r] = [q EXCEPT !.to = @ \ {u}]]
        BY <2>14 DEF NotifyContributor
      <3>4. MovesOn
        BY <3>1, <3>2, <3>3, <2>0, <2>4 DEF Call, FoundIn, Phase
      <3>5. jobs' \in Seq(User \X Nat)
        BY <3>1, <2>14, <1>0, AppendProperties DEF NotifyContributor, TypeOK
      <3>6. QED
        BY <3>1, <3>4, <3>5, <2>1, <2>14, <1>0
        DEF MovesOn, NotifyContributor, TInv, TypeOK, database, Messages
    <2>15. ASSUME FinishReply(r) PROVE TInv'
      BY <2>15, <2>2, <2>5, <1>0 DEF FinishReply, history, TypeOK
    \* mark_as_read returns: the request goes on to remove the user, or is done.
    <2>16. ASSUME NEW last \in Nat, ReadReturns(r, last), q.phase \in Phase
           PROVE  MovesOn /\ answered' \in [User -> Nat]
      <3>1. MovesOn
        BY <2>16, <2>2, <2>3 DEF ReadReturns, Phase
      <3>2. answered' \in [User -> Nat]
        BY <2>16, <1>0 DEF ReadReturns, TypeOK
      <3>3. QED
        BY <3>1, <3>2
    <2>17. Len(author) \in Nat
      BY <1>0, LenProperties DEF TypeOK
    <2>18. ASSUME QueryUnread(r) PROVE TInv'
      <3> DEFINE unread == UnreadMessages(q.actor)
                 c == [q EXCEPT !.phase = "read_notes", !.unread = unread, !.message = Len(author)]
      <3>1. q.phase \in Phase /\ q \in Call
        BY <2>18, <2>0 DEF QueryUnread, At, Phase
      <3>2. MovesOn /\ answered' \in [User -> Nat]
        <4>1. CASE unread = {}
          BY <4>1, <3>1, <2>16, <2>17, <2>18 DEF QueryUnread
        <4>2. CASE unread # {}
          <5>1. unread \subseteq Messages /\ unread \subseteq Nat \ {0}
            BY <2>17 DEF UnreadMessages, Messages
          <5> HIDE DEF unread
          <5>2. c \in Call /\ FoundIn(c, Messages)
            BY <5>1, <3>1, <2>17 DEF Call, Phase, FoundIn
          <5>3. req' = [req EXCEPT ![r] = c]
            BY <4>2, <2>18 DEF QueryUnread, unread
          <5>4. QED
            BY <5>2, <5>3, <4>2, <2>4, <2>18, <1>0 DEF QueryUnread, TypeOK, unread
        <4>3. QED
          BY <4>1, <4>2
      <3>3. QED
        BY <3>2, <2>5, <2>18, <1>0 DEF QueryUnread, TypeOK
    <2>19. ASSUME ReadNotifications(r) PROVE TInv'
      <3>1. MovesOn
        BY <2>19, <2>3 DEF ReadNotifications, At, Phase
      <3>2. QED
        BY <3>1, <2>1, <2>19, <1>0
        DEF MovesOn, ReadNotifications, TInv, TypeOK, queues, history, Messages
    <2>20. ASSUME TriggerStatsUpdate(r) PROVE TInv'
      <3>1. MovesOn
        BY <2>20, <2>2, <2>3 DEF TriggerStatsUpdate, At, Phase
      <3>2. push' \in Seq(Device)
        BY <2>20, <1>0, AppendProperties DEF TriggerStatsUpdate, Badge, TypeOK
      <3>3. QED
        BY <3>1, <3>2, <2>1, <2>20, <1>0
        DEF MovesOn, TriggerStatsUpdate, TInv, TypeOK, database, history, Messages
    \* What the rows become, nothing else of the database.
    <2>21. ASSUME MovesOn, reads' \in [User -> Seq(Read)], answered' \in [User -> Nat],
                  unmarked' \subseteq User \X Nat,
                  UNCHANGED <<users, author, notified, is_read, queues, asked, missed, enqueued>>
           PROVE  TInv'
      BY <2>21, <2>1, <1>0 DEF MovesOn, TInv, TypeOK, queues, Messages
    <2>22. ASSUME CreateReads(r) PROVE TInv'
      <3>1. q.phase \in Phase /\ q \in Call /\ q.unread \subseteq Messages /\ q.message \in Nat
        BY <2>22, <2>0 DEF CreateReads, At, Phase, Call
      <3>2. CASE UNCHANGED <<reads, answered>> /\ Finish(r)
        BY <3>2, <2>2, <2>21, <2>22, <1>0 DEF CreateReads, TypeOK
      <3>3. CASE InsertReads(r) /\ ReadReturns(r, q.message)
        <4>1. reads' \in [User -> Seq(Read)]
          BY <3>1, <3>3, <1>0, InsertReadsProperties
        <4>2. MovesOn /\ answered' \in [User -> Nat]
          BY <3>1, <3>3, <2>16
        <4>3. QED
          BY <4>1, <4>2, <2>21, <2>22, <1>0 DEF CreateReads, TypeOK
      <3>4. QED
        BY <3>2, <3>3, <2>22 DEF CreateReads
    <2>23. ASSUME RemoveUser(r) PROVE TInv'
      <3>1. MovesOn /\ users' \subseteq User
        BY <2>23, <2>3, <1>0 DEF RemoveUser, At, Phase, TypeOK
      <3>2. QED
        BY <3>1, <2>1, <2>23, <1>0
        DEF MovesOn, RemoveUser, TInv, TypeOK, queues, history, Messages
    <2>24. ASSUME SystemMessage(r) PROVE TInv'
      <3>1. author' \in Seq(User \cup {Null}) /\ Len(author') = Len(author) + 1
        BY <2>24, <1>0, AppendProperties DEF SystemMessage, TypeOK
      <3>2. Messages \subseteq Messages'
        BY <3>1, <2>17 DEF Messages
      <3>3. MovesOn
        BY <2>24, <2>2 DEF SystemMessage
      <3>4. QED
        BY <3>1, <3>2, <3>3, <2>1, <2>24, <1>0
        DEF MovesOn, SystemMessage, TInv, TypeOK, queues, history
    <2>25. ASSUME LastRead(r) PROVE TInv'
      <3> DEFINE rows == reads[q.actor]
                 c == [q EXCEPT !.phase = "delete", !.message = Last(rows).message,
                                !.by = Last(rows).by]
      <3>1. q.phase \in Phase /\ q \in Call /\ rows \in Seq(Read) /\ q.unread \subseteq Messages
        BY <2>25, <2>0, <1>0 DEF LastRead, At, Phase, Call, TypeOK
      <3>2. CASE rows = << >>
        BY <3>2, <2>2, <2>5, <2>25, <1>0 DEF LastRead, history, TypeOK
      <3>3. CASE rows # << >>
        <4> HIDE DEF rows
        <4>1. Last(rows) \in Read
          BY <3>1, <3>3, LenProperties, EmptySeq, ElementOfSeq DEF Last
        <4>2. c \in Call /\ FoundIn(c, Messages)
          BY <4>1, <3>1 DEF Call, Read, Phase, FoundIn
        <4>3. req' = [req EXCEPT ![r] = c]
          BY <3>3, <2>25 DEF LastRead, rows
        <4>4. QED
          BY <4>2, <4>3, <2>4, <2>5, <2>25, <1>0 DEF LastRead, history, TypeOK
      <3>4. QED
        BY <3>2, <3>3
    <2>26. ASSUME DeleteLastRead(r) PROVE TInv'
      <3>1. q.actor \in User /\ q.message \in Nat
        BY <2>26, <2>0 DEF DeleteLastRead, At, Phase, Call
      <3>2. reads' \in [User -> Seq(Read)] /\ MovesOn
        BY <3>1, <2>26, <2>2, <1>0, DeleteRowProperties DEF DeleteLastRead
      <3>3. unmarked' \subseteq User \X Nat
        BY <3>1, <2>26, <1>0 DEF DeleteLastRead, TypeOK
      <3>4. QED
        BY <3>2, <3>3, <2>21, <2>26, <1>0 DEF DeleteLastRead, TypeOK
    <2>27. ASSUME CreateRead(r) PROVE TInv'
      <3>1. q.phase \in Phase /\ q.actor \in User /\ q.message \in Nat \ {0}
        BY <2>27, <2>0 DEF CreateRead, At, Phase, Call, TInv, FoundIn
      <3>2. [message |-> q.message, by |-> r] \in Read
        BY <3>1 DEF Read
      <3>3. Append(reads[q.actor], [message |-> q.message, by |-> r]) \in Seq(Read)
        BY <3>1, <3>2, <1>0, AppendProperties DEF TypeOK
      <3>4. reads' \in [User -> Seq(Read)]
        BY <3>1, <3>3, <2>27, <1>0 DEF CreateRead, TypeOK
      <3>5. MovesOn
        BY <3>1, <2>27, <2>2, <2>3 DEF CreateRead, Phase
      <3>6. QED
        BY <3>4, <3>5, <2>21, <2>27, <1>0 DEF CreateRead, TypeOK, history
    <2>28. ASSUME DeleteRead(r) PROVE TInv'
      <3>1. q.actor \in User /\ q.message \in Nat
        BY <2>28, <2>0 DEF DeleteRead, At, Phase, Call
      <3>2. reads' \in [User -> Seq(Read)] /\ MovesOn
        BY <3>1, <2>28, <2>2, <1>0, DeleteRowProperties DEF DeleteRead
      <3>3. unmarked' \subseteq User \X Nat
        BY <3>1, <2>28, <1>0 DEF DeleteRead, TypeOK
      <3>4. QED
        BY <3>2, <3>3, <2>21, <2>28, <1>0 DEF DeleteRead, TypeOK
    <2>29. ASSUME Abort(r) PROVE TInv'
      <3>1. MovesOn
        BY <2>29, <2>2 DEF Abort
      <3>2. missed' \subseteq Device
        BY <2>29, <1>0 DEF Abort, TypeOK
      <3>3. QED
        BY <3>1, <3>2, <2>1, <2>29, <1>0
        DEF MovesOn, Abort, TInv, TypeOK, database, queues, Messages
    <2>30. QED
      BY <1>2, <2>10, <2>11, <2>12, <2>13, <2>14, <2>15, <2>18, <2>19, <2>20, <2>22, <2>23, <2>24,
         <2>25, <2>26, <2>27, <2>28, <2>29 DEF Start, Handle
  \* The workers leave the requests and the messages alone.
  <1>3. ASSUME UNCHANGED <<req, author>>, TypeOK' PROVE TInv'
    BY <1>3 DEF TInv, Messages
  <1>4. ASSUME jobs # << >>
        PROVE  Head(jobs) \in User \X Nat /\ Tail(jobs) \in Seq(User \X Nat)
    BY <1>4, <1>0, HeadTailProperties DEF TypeOK
  <1>5. CASE DefaultWorker
    <2>1. CASE NotifyUser
      <3>1. worker' \in User \cup {Null} /\ notified' \subseteq User \X Nat /\ jobs' \in Seq(User \X Nat)
        BY <2>1, <1>4, <1>0 DEF NotifyUser, TypeOK
      <3>2. QED
        BY <3>1, <2>1, <1>0, <1>3 DEF NotifyUser, TypeOK, history
    <2>2. CASE WorkerStatsUpdate
      <3>1. push' \in Seq(Device)
        BY <2>2, <1>0, AppendProperties DEF WorkerStatsUpdate, Badge, TypeOK
      <3>2. QED
        BY <3>1, <2>2, <1>0, <1>3 DEF WorkerStatsUpdate, TypeOK, database, history
    <2>3. CASE NotifyUserFails
      <3>1. /\ worker' \in User \cup {Null} /\ missed' \subseteq Device
            /\ jobs' \in Seq(User \X Nat) /\ failed' \subseteq User \X Nat
        BY <2>3, <1>4, <1>0 DEF NotifyUserFails, TypeOK
      <3>2. QED
        BY <3>1, <2>3, <1>0, <1>3 DEF NotifyUserFails, TypeOK, database
    <2>4. QED
      BY <1>5, <2>1, <2>2, <2>3 DEF DefaultWorker
  <1>6. CASE PushWorker
    <2>1. CASE CountUnread
      <3>1. Head(push) \in Device /\ Tail(push) \in Seq(Device)
        BY <2>1, <1>0, HeadTailProperties DEF CountUnread, TypeOK
      <3>2. pushing' \in [user: Device, badge: {0, 1}] /\ push' \in Seq(Device)
        BY <3>1, <2>1 DEF CountUnread, UnreadCount
      <3>3. QED
        BY <3>2, <2>1, <1>0, <1>3 DEF CountUnread, TypeOK, database
    <2>2. CASE SendBadge
      <3>1. pushing.user \in Device /\ pushing.badge \in {0, 1}
        BY <2>2, <1>0 DEF SendBadge, TypeOK
      <3>2. pushing' = Null /\ badge' \in [Device -> {0, 1}] /\ missed' \subseteq Device
        BY <3>1, <2>2, <1>0 DEF SendBadge, TypeOK
      <3>3. QED
        BY <3>2, <2>2, <1>0, <1>3 DEF SendBadge, TypeOK, database
    <2>3. QED
      BY <1>6, <2>1, <2>2 DEF PushWorker
  <1>7. QED
    BY <1>1, <1>2, <1>5, <1>6 DEF Next

LEMMA InvariantTInv == Spec => []TInv
  BY InitTInv, StepTInv, PTL DEF Spec

\* The rows, the queues and the requests of a conversation stay well typed: what
\* Message.save, post_save_message, mark_as_read and the jobs write.
THEOREM MessageReadsTypeOK == Spec => []TypeOK
  <1>1. TInv => TypeOK
    BY DEF TInv
  <1>2. QED
    BY <1>1, InvariantTInv, PTL
-----------------------------------------------------------------------------
\* A request that has sent its message and has members left to notify of it.
Sent(q) == q.phase \in {"add_sender", "notify"}

Owed(q) == IF q.phase = "add_sender" THEN User ELSE q.to

\* There is no job of notification n, saved, failed or waiting.
Unserved(n) == n \notin notified \cup failed /\ \A i \in DOMAIN jobs : jobs[i] # n

\* The inductive invariant of NotifiedOnce: jobs and notifications are of messages
\* that exist, so that the next message is of none of them, the requests that
\* notify do so for different messages, and have no job yet for those whom they
\* still have to notify.
NInv ==
    /\ NotifiedOnce
    /\ \A n \in notified \cup failed : n[2] \in Messages
    /\ \A i \in DOMAIN jobs : jobs[i][2] \in Messages
    /\ \A r \in Request : Sent(req[r]) =>
          /\ req[r].message \in Messages
          /\ \A u \in Owed(req[r]) : Unserved(<<u, req[r].message>>)
    /\ \A r, p \in Request :
          Sent(req[r]) /\ Sent(req[p]) /\ req[r].message = req[p].message => r = p

\* What the user of a request that reads asked for is on record when the request
\* comes to its notifications: the inductive invariant of ReadByItsUser.
Asked(q) ==
    q.phase \in {"query", "read_notes", "create_read"} =>
       <<q.actor, IF q.op = "read_one" THEN q.message ELSE 0>> \in asked

RInv == ReadByItsUser /\ \A r \in Request : Asked(req[r])

\* Message m, for u, needs no row, has one, or u took it back.
Accounted(u, m) == author[m] \in {u, Null} \/ HasRead(u, m) \/ <<u, m>> \in unmarked

\* The inductive invariant of AcknowledgedReads: a request that is to answer that
\* everything up to its message is read has all of it accounted for, or among the
\* messages it is about to create rows for.
Covers(q) ==
    q.phase \in {"read_notes", "stats", "create_reads"} /\ q.op # "read_one" =>
       q.message <= Len(author) /\ \A m \in 1..q.message : m \in q.unread \/ Accounted(q.actor, m)

AInv ==
    /\ AcknowledgedReads
    /\ \A u \in User : answered[u] <= Len(author)
    /\ \A r \in Request : Covers(req[r])

\* No update of the badge of u is outstanding, but for one that is being sent.
Quiet(u) ==
    /\ u \notin missed
    /\ worker # u
    /\ \A i \in DOMAIN push : push[i] # u
    /\ \A r \in Request : At(r, "stats") => req[r].actor # u

\* The inductive invariant of BadgeSettles: the count that the push worker holds
\* is still right when nothing followed it.
BInv ==
    \A u \in Device : Quiet(u) =>
       UnreadCount(u) = IF pushing # Null /\ pushing.user = u THEN pushing.badge ELSE badge[u]
-----------------------------------------------------------------------------
\* The messages only get more: author grows, and Len(author) with it.
LEMMA AuthorGrows ==
    ASSUME TypeOK, NEW a \in User \cup {Null}, author' = Append(author, a)
    PROVE  /\ Len(author) \in Nat /\ Len(author') = Len(author) + 1
           /\ Messages \subseteq Messages' /\ Len(author') \in Messages' \ Messages
           /\ \A m \in Messages : author'[m] = author[m]
  <1>1. Len(author) \in Nat /\ Len(author') = Len(author) + 1
    BY AppendProperties, LenProperties DEF TypeOK
  <1>2. \A m \in 1..Len(author) : author'[m] = author[m]
    BY AppendProperties DEF TypeOK
  <1>3. QED
    BY <1>1, <1>2 DEF Messages

\* A job is added at the end, ...
LEMMA JobAdded ==
    ASSUME TypeOK, NEW n \in User \X Nat, jobs' = Append(jobs, n)
    PROVE  /\ \A i \in DOMAIN jobs' :
                 (i \in DOMAIN jobs /\ jobs'[i] = jobs[i]) \/ (i = Len(jobs) + 1 /\ jobs'[i] = n)
           /\ DOMAIN jobs = 1..Len(jobs) /\ Len(jobs) \in Nat
  <1>1. /\ jobs \in Seq(User \X Nat) /\ jobs' \in Seq(User \X Nat)
        /\ Len(jobs') = Len(jobs) + 1 /\ Len(jobs) \in Nat
        /\ \A i \in 1..Len(jobs) : jobs'[i] = jobs[i]
        /\ jobs'[Len(jobs) + 1] = n
    BY AppendProperties, LenProperties DEF TypeOK
  <1>2. DOMAIN jobs = 1..Len(jobs) /\ DOMAIN jobs' = 1..(Len(jobs) + 1)
    BY <1>1, LenProperties
  <1>3. QED
    BY <1>1, <1>2

\* ... and taken from the front.
LEMMA JobTaken ==
    ASSUME TypeOK, jobs # << >>, jobs' = Tail(jobs)
    PROVE  /\ 1 \in DOMAIN jobs /\ Head(jobs) = jobs[1] /\ Head(jobs) \in User \X Nat
           /\ \A i \in DOMAIN jobs' : i + 1 \in DOMAIN jobs /\ i + 1 # 1 /\ jobs'[i] = jobs[i + 1]
           /\ DOMAIN jobs' \subseteq Nat
  <1>1. /\ jobs \in Seq(User \X Nat) /\ jobs' \in Seq(User \X Nat)
        /\ Len(jobs') = Len(jobs) - 1 /\ Len(jobs) \in Nat \ {0}
        /\ \A i \in 1..Len(jobs') : jobs'[i] = jobs[i + 1]
        /\ Head(jobs) \in User \X Nat
    BY HeadTailProperties, EmptySeq DEF TypeOK
  <1>2. DOMAIN jobs = 1..Len(jobs) /\ DOMAIN jobs' = 1..(Len(jobs) - 1)
    BY <1>1, LenProperties
  <1>3. Head(jobs) = jobs[1]
    BY <1>1
  <1>4. QED
    BY <1>1, <1>2, <1>3

LEMMA InitNInv == Init => NInv
  <1> SUFFICES ASSUME Init PROVE NInv
    OBVIOUS
  <1> USE MessageReadsAssumption
  <1>1. PICK u \in User :
          /\ author = <<u>>
          /\ notified = (User \ {u}) \X {1}
          /\ req = [r \in Request |-> IF r = 1 THEN NewCall(1, "reply", u, 0) ELSE NotMade]
    BY DEF Init
  <1>2. \A r \in Request : ~ Sent(req[r])
    BY <1>1 DEF Sent, NewCall, NextPhase, Op, NotMade
  <1>3. jobs = << >> /\ DOMAIN jobs = {} /\ failed = {}
    BY DEF Init
  <1>4. \A n \in notified : n[2] \in Messages
    BY <1>1 DEF Messages
  <1>5. QED
    BY <1>2, <1>3, <1>4 DEF NInv, NotifiedOnce

\* A step that touches neither notifications nor jobs, and leaves a request that
\* notifies alone, keeps the invariant, also if a message is added.
LEMMA NInvKept ==
    ASSUME NInv, UNCHANGED <<notified, failed, jobs>>, Messages \subseteq Messages',
           \A r \in Request : Sent(req'[r]) => req'[r] = req[r]
    PROVE  NInv'
  <1>1. NotifiedOnce' /\ \A n : Unserved(n) => Unserved(n)'
    BY DEF NInv, NotifiedOnce, Unserved
  <1>2. QED
    BY <1>1 DEF NInv

LEMMA StepNInv == TInv /\ TInv' /\ NInv /\ [Next]_vars => NInv'
  <1> SUFFICES ASSUME TInv, TInv', NInv, [Next]_vars PROVE NInv'
    OBVIOUS
  <1>0. TypeOK /\ TypeOK'
    BY DEF TInv
  <1>1. CASE UNCHANGED <<req, author, notified, failed, jobs>>
    BY <1>1, NInvKept DEF Messages
  <1>2. ASSUME NEW r \in Request, Start(r) \/ Handle(r) \/ Abort(r)
        PROVE  NInv'
    <2> DEFINE q == req[r]
               Kept == /\ UNCHANGED <<notified, failed, jobs>>
                       /\ ~ Sent(req'[r]) /\ \A p \in Request \ {r} : req'[p] = req[p]
    <2>0. q.phase \in Phase => q \in Call
      BY <1>0, CallTyped
    <2>1. ASSUME Kept, author' = author \/ \E a \in User \cup {Null} : author' = Append(author, a)
          PROVE  NInv'
      BY <2>1, <1>0, AuthorGrows, NInvKept DEF Messages
    <2>2. ASSUME Finish(r), UNCHANGED <<notified, failed, jobs>> PROVE Kept
      BY <2>2, <1>0, FinishTyped DEF Done, Sent
    <2>3. ASSUME NEW phase \in Phase \ {"add_sender", "notify"}, q.phase \in Phase, Goto(r, phase),
                 UNCHANGED <<notified, failed, jobs>>
          PROVE  Kept
      BY <2>3, <1>0, GotoTyped DEF Sent
    <2>4. ASSUME NEW c, req' = [req EXCEPT ![r] = c], ~ Sent(c), UNCHANGED <<notified, failed, jobs>>
          PROVE  Kept
      BY <2>4, <1>0 DEF TypeOK
    <2>5. ASSUME NEW last, ReadReturns(r, last), q.phase \in Phase, UNCHANGED <<notified, failed, jobs>>
          PROVE  Kept
      BY <2>5, <2>2, <2>3 DEF ReadReturns, Phase
    <2> HIDE DEF Kept
    <2>6. ASSUME NEW op \in ClientOp \ {"read_one", "unread_one"}, NEW u \in User,
                 GetConversation(r, op, u)
          PROVE  NInv'
      <3>1. ~ Sent(NewCall(r, op, u, 0))
        BY MessageReadsAssumption DEF NewCall, NextPhase, Op, Sent
      <3>2. QED
        BY <3>1, <2>1, <2>4, <2>6 DEF GetConversation, database, queues
    <2>7. ASSUME NEW op \in ClientOp \cap {"read_one", "unread_one"}, NEW u \in User,
                 NEW m \in Messages, GetMessage(r, op, u, m)
          PROVE  NInv'
      <3>1. ~ Sent(NewCall(r, op, u, m))
        BY DEF NewCall, NextPhase, Op, Sent
      <3>2. QED
        BY <3>1, <2>1, <2>4, <2>7 DEF GetMessage, database, queues
    \* The message is new: no job and no notification is of it.
    <2>8. ASSUME SendMessage(r) PROVE NInv'
      <3> DEFINE m == Len(author')
      <3>1. q \in Call /\ q.actor \in User \cup {Null} /\ ~ Sent(q)
        BY <2>8, <2>0 DEF SendMessage, At, Phase, Call, Sent
      <3>2. Messages \subseteq Messages' /\ m \in Messages' \ Messages
        BY <3>1, <2>8, <1>0, AuthorGrows DEF SendMessage
      <3>3. \A p \in Request \ {r} : req'[p] = req[p]
        BY <2>8, <1>0 DEF SendMessage, TypeOK
      <3>4. req'[r].message = m
        BY <2>8, <3>1, <1>0 DEF SendMessage, TypeOK, Call
      <3>5. UNCHANGED <<notified, failed, jobs>>
        BY <2>8 DEF SendMessage, queues
      <3> HIDE DEF m
      <3>6. \A n : n[2] \notin Messages => Unserved(n)'
        BY <3>5 DEF NInv, Unserved
      <3>7. \A n : Unserved(n) => Unserved(n)'
        BY <3>5 DEF Unserved
      <3>8. \A u : Unserved(<<u, req[r].message>>)'
        BY <3>2, <3>4, <3>6
      <3>9. NotifiedOnce'
        BY <3>5 DEF NInv, NotifiedOnce
      <3>10. ASSUME NEW p \in Request, Sent(req[p])'
             PROVE  /\ req'[p].message \in Messages'
                    /\ \A u \in Owed(req[p])' : Unserved(<<u, req[p].message>>)'
        <4>1. CASE p = r
          BY <4>1, <3>2, <3>4, <3>8
        <4>2. CASE p # r
          BY <4>2, <3>10, <3>2, <3>3, <3>7 DEF NInv
        <4>3. QED
          BY <4>1, <4>2
      <3>11. \A p, t \in Request :
                Sent(req'[p]) /\ Sent(req'[t]) /\ req'[p].message = req'[t].message => p = t
        BY <3>2, <3>3, <3>4 DEF NInv
      <3>12. QED
        BY <3>2, <3>5, <3>9, <3>10, <3>11 DEF NInv
    <2>9. ASSUME AddSender(r) PROVE NInv'
      <3>1. q \in Call /\ Sent(q) /\ Owed(q) = User /\ users' \subseteq User
        BY <2>9, <2>0, <1>0 DEF AddSender, At, Phase, Sent, Owed, TypeOK
      <3>2. /\ \A p \in Request \ {r} : req'[p] = req[p]
            /\ req'[r].message = q.message /\ req'[r].phase = "notify"
            /\ req'[r].to = users' \ {q.actor}
        BY <2>9, <3>1, <1>0 DEF AddSender, TypeOK, Call
      <3>3. UNCHANGED <<author, notified, failed, jobs>>
        BY <2>9 DEF AddSender, queues
      <3>4. Owed(req'[r]) \subseteq Owed(q)
        BY <3>1, <3>2 DEF Owed
      <3>5. \A n : Unserved(n) => Unserved(n)'
        BY <3>3 DEF Unserved
      <3>6. NotifiedOnce' /\ Messages' = Messages
        BY <3>3 DEF NInv, NotifiedOnce, Messages
      <3>7. \A p \in Request : Sent(req'[p]) => /\ Sent(req[p]) /\ req'[p].message = req[p].message
                                               /\ Owed(req'[p]) \subseteq Owed(req[p])
        BY <3>1, <3>2, <3>4
      <3>8. QED
        BY <3>3, <3>5, <3>6, <3>7 DEF NInv
    \* The job is of a member still owed one, who is then no longer owed it.
    <2>10. ASSUME NEW u \in User, NotifyContributor(r, u) PROVE NInv'
      <3> DEFINE n == <<u, q.message>>
      <3>1. q \in Call /\ q.phase = "notify" /\ q.message \in Messages /\ n \in User \X Nat
        BY <2>10, <2>0 DEF NotifyContributor, At, Phase, Sent, NInv, Call
      <3>2. /\ \A p \in Request \ {r} : req'[p] = req[p]
            /\ req'[r].message = q.message /\ req'[r].phase = "notify"
            /\ req'[r].to = q.to \ {u}
        BY <2>10, <3>1, <1>0 DEF NotifyContributor, TypeOK, Call
      <3>3. jobs' = Append(jobs, n) /\ UNCHANGED <<author, notified, failed>>
        BY <2>10 DEF NotifyContributor, database
      <3>4. /\ \A i \in DOMAIN jobs' :
                  (i \in DOMAIN jobs /\ jobs'[i] = jobs[i]) \/ (i = Len(jobs) + 1 /\ jobs'[i] = n)
            /\ DOMAIN jobs = 1..Len(jobs) /\ Len(jobs) \in Nat
        BY <3>1, <3>3, <1>0, JobAdded
      <3>5. Unserved(n)
        BY <3>1, <2>10 DEF NInv, Sent, Owed, NotifyContributor, At
      <3> HIDE DEF n
      <3>6. NotifiedOnce'
        BY <3>3, <3>4, <3>5 DEF NInv, NotifiedOnce, Unserved
      <3>7. \A x : Unserved(x) /\ x # n => Unserved(x)'
        BY <3>3, <3>4 DEF Unserved
      <3>8. \A i \in DOMAIN jobs' : jobs'[i][2] \in Messages
        BY <3>1, <3>4 DEF NInv, n
      <3>9. Messages' = Messages
        BY <3>3 DEF Messages
      <3>10. ASSUME NEW p \in Request, Sent(req[p])'
             PROVE  /\ Sent(req[p]) /\ req'[p].message = req[p].message
                    /\ \A v \in Owed(req[p])' : v \in Owed(req[p]) /\ <<v, req[p].message>> # n
        <4>1. CASE p = r
          BY <4>1, <3>1, <3>2 DEF Owed, Sent, n
        <4>2. CASE p # r
          <5>1. Sent(req[p]) /\ Sent(q) /\ req'[p] = req[p]
            BY <4>2, <3>1, <3>2, <3>10 DEF Sent
          <5>2. req[p].message # q.message
            BY <4>2, <5>1 DEF NInv
          <5>3. QED
            BY <5>1, <5>2 DEF n
        <4>3. QED
          BY <4>1, <4>2
      <3>11. \A p \in Request : Sent(req[p])' =>
                /\ req'[p].message \in Messages'
                /\ \A v \in Owed(req[p])' : Unserved(<<v, req[p].message>>)'
        BY <3>7, <3>9, <3>10 DEF NInv
      <3>12. \A p, t \in Request :
                Sent(req[p])' /\ Sent(req[t])' /\ req'[p].message = req'[t].message => p = t
        BY <3>10 DEF NInv
      <3>13. QED
        BY <3>3, <3>6, <3>8, <3>9, <3>11, <3>12 DEF NInv
    <2>11. ASSUME FinishReply(r) PROVE NInv'
      BY <2>11, <2>1, <2>2 DEF FinishReply, database, queues
    <2>12. ASSUME QueryUnread(r) PROVE NInv'
      <3>1. q.phase \in Phase /\ author' = author /\ UNCHANGED <<notified, failed, jobs>>
        BY <2>12 DEF QueryUnread, At, Phase, database, queues
      <3>2. Kept
        <4>1. CASE UnreadMessages(q.actor) = {}
          BY <4>1, <3>1, <2>5, <2>12 DEF QueryUnread
        <4>2. CASE UnreadMessages(q.actor) # {}
          <5>1. req' = [req EXCEPT ![r] = [q EXCEPT !.phase = "read_notes",
                                           !.unread = UnreadMessages(q.actor), !.message = Len(author)]]
            BY <4>2, <2>12 DEF QueryUnread
          <5>2. [q EXCEPT !.phase = "read_notes", !.unread = UnreadMessages(q.actor),
                          !.message = Len(author)].phase = "read_notes"
            BY <3>1, <2>0 DEF Call
          <5>3. QED
            BY <5>1, <5>2, <3>1, <2>4 DEF Sent
        <4>3. QED
          BY <4>1, <4>2
      <3>3. QED
        BY <3>1, <3>2, <2>1
    <2>13. ASSUME ReadNotifications(r) PROVE NInv'
      BY <2>13, <2>1, <2>3 DEF ReadNotifications, At, Phase, queues
    <2>14. ASSUME TriggerStatsUpdate(r) PROVE NInv'
      BY <2>14, <2>1, <2>2, <2>3 DEF TriggerStatsUpdate, At, Phase, database
    <2>15. ASSUME CreateReads(r) PROVE NInv'
      BY <2>15, <2>1, <2>2, <2>5 DEF CreateReads, At, Phase, queues
    <2>16. ASSUME RemoveUser(r) PROVE NInv'
      BY <2>16, <2>1, <2>3 DEF RemoveUser, At, Phase, queues
    <2>17. ASSUME SystemMessage(r) PROVE NInv'
      BY <2>17, <2>1, <2>2 DEF SystemMessage, queues
    <2>18. ASSUME LastRead(r) PROVE NInv'
      <3>1. q.phase \in Phase /\ author' = author /\ UNCHANGED <<notified, failed, jobs>>
        BY <2>18 DEF LastRead, At, Phase, database, queues
      <3>2. Kept
        <4> DEFINE rows == reads[q.actor]
                   c == [q EXCEPT !.phase = "delete", !.message = Last(rows).message,
                                  !.by = Last(rows).by]
        <4>1. Finish(r) \/ req' = [req EXCEPT ![r] = c]
          BY <2>18 DEF LastRead
        <4>2. ~ Sent(c)
          BY <3>1, <2>0 DEF Call, Sent
        <4>3. QED
          BY <4>1, <4>2, <3>1, <2>2, <2>4
      <3>3. QED
        BY <3>1, <3>2, <2>1
    <2>19. ASSUME DeleteLastRead(r) PROVE NInv'
      BY <2>19, <2>1, <2>2 DEF DeleteLastRead, queues
    <2>20. ASSUME CreateRead(r) PROVE NInv'
      BY <2>20, <2>1, <2>2, <2>3 DEF CreateRead, At, Phase, queues
    <2>21. ASSUME DeleteRead(r) PROVE NInv'
      BY <2>21, <2>1, <2>2 DEF DeleteRead, queues
    <2>22. ASSUME Abort(r) PROVE NInv'
      BY <2>22, <2>1, <2>2 DEF Abort, database, queues
    <2>23. QED
      BY <1>2, <2>6, <2>7, <2>8, <2>9, <2>10, <2>11, <2>12, <2>13, <2>14, <2>15, <2>16, <2>17, <2>18,
         <2>19, <2>20, <2>21, <2>22 DEF Start, Handle
  \* A job is taken from the front: its notification is saved, or it failed.
  <1>3. ASSUME jobs # << >>, jobs' = Tail(jobs), UNCHANGED <<req, author>>,
               notified' \cup failed' = notified \cup failed \cup {Head(jobs)}
        PROVE  NInv'
    <2>1. /\ 1 \in DOMAIN jobs /\ Head(jobs) = jobs[1]
          /\ \A i \in DOMAIN jobs' : i + 1 \in DOMAIN jobs /\ i + 1 # 1 /\ jobs'[i] = jobs[i + 1]
          /\ DOMAIN jobs' \subseteq Nat
      BY <1>3, <1>0, JobTaken
    <2>2. \A n : Unserved(n) => Unserved(n)'
      BY <2>1, <1>3 DEF Unserved
    <2>3. \A i, j \in DOMAIN jobs' : jobs'[i] = jobs'[j] => i = j
      <3> SUFFICES ASSUME NEW i \in DOMAIN jobs', NEW j \in DOMAIN jobs', jobs'[i] = jobs'[j]
                   PROVE  i = j
        OBVIOUS
      <3>1. i + 1 = j + 1
        BY <2>1 DEF NInv, NotifiedOnce
      <3>2. QED
        BY <3>1, <2>1
    <2>4. \A i \in DOMAIN jobs' : jobs'[i] \notin notified' \cup failed'
      BY <2>1, <1>3 DEF NInv, NotifiedOnce
    <2>5. Messages' = Messages
      BY <1>3 DEF Messages
    <2>6. /\ \A n \in notified' \cup failed' : n[2] \in Messages'
          /\ \A i \in DOMAIN jobs' : jobs'[i][2] \in Messages'
      BY <2>1, <2>5, <1>3 DEF NInv
    <2>7. QED
      BY <1>3, <2>2, <2>3, <2>4, <2>5, <2>6 DEF NInv, NotifiedOnce
  <1>4. CASE DefaultWorker
    <2>1. CASE NotifyUser
      BY <2>1, <1>3 DEF NotifyUser
    <2>2. CASE WorkerStatsUpdate
      BY <2>2, <1>1 DEF WorkerStatsUpdate, database
    <2>3. CASE NotifyUserFails
      BY <2>3, <1>1, <1>3 DEF NotifyUserFails, database
    <2>4. QED
      BY <1>4, <2>1, <2>2, <2>3 DEF DefaultWorker
  <1>5. CASE PushWorker
    BY <1>5, <1>1 DEF PushWorker, CountUnread, SendBadge, database
  <1>6. CASE UNCHANGED vars
    BY <1>6, <1>1 DEF vars, database, queues
  <1>7. QED
    BY <1>2, <1>4, <1>5, <1>6 DEF Next

\* Nobody is notified twice of a message: post_save_message enqueues one job for
\* each contributor, and no job that was run or failed is queued again.
THEOREM MessageNotifiedOnce == Spec => []NotifiedOnce
  <1>1. NInv => NotifiedOnce
    BY DEF NInv
  <1>2. QED
    BY <1>1, InitNInv, StepNInv, InvariantTInv, PTL DEF Spec
-----------------------------------------------------------------------------
LEMMA InitRInv == Init => RInv
  <1> SUFFICES ASSUME Init PROVE RInv
    OBVIOUS
  <1>1. PICK u \in User :
          req = [r \in Request |-> IF r = 1 THEN NewCall(1, "reply", u, 0) ELSE NotMade]
    BY DEF Init
  <1>2. \A r \in Request : Asked(req[r])
    BY <1>1 DEF Asked, NewCall, NextPhase, Op, NotMade
  <1>3. QED
    BY <1>2 DEF Init, RInv, ReadByItsUser

LEMMA StepRInv == TInv /\ RInv /\ [Next]_vars => RInv'
  <1> SUFFICES ASSUME TInv, RInv, [Next]_vars PROVE RInv'
    OBVIOUS
  <1>0. TypeOK
    BY DEF TInv
  <1>1. CASE UNCHANGED <<req, is_read, asked>>
    BY <1>1 DEF RInv, ReadByItsUser, Asked
  <1>2. ASSUME NEW r \in Request, Start(r) \/ Handle(r) \/ Abort(r)
        PROVE  RInv'
    <2> DEFINE q == req[r]
               Kept == Asked(req[r])' /\ \A p \in Request \ {r} : req'[p] = req[p]
    <2>0. q.phase \in Phase => q \in Call
      BY <1>0, CallTyped
    <2>1. ASSUME Kept, asked \subseteq asked', is_read' = is_read PROVE RInv'
      BY <2>1 DEF RInv, ReadByItsUser, Asked
    <2>2. ASSUME Finish(r) PROVE Kept
      BY <2>2, <1>0, FinishTyped DEF Done, Asked
    <2>3. ASSUME NEW phase \in Phase \ {"query", "read_notes", "create_read"}, q.phase \in Phase,
                 Goto(r, phase)
          PROVE  Kept
      BY <2>3, <1>0, GotoTyped DEF Asked
    <2>4. ASSUME NEW c, req' = [req EXCEPT ![r] = c],
                 c.phase \notin {"query", "read_notes", "create_read"}
          PROVE  Kept
      BY <2>4, <1>0 DEF Asked, TypeOK
    <2> HIDE DEF Kept
    <2>5. ASSUME NEW op \in ClientOp \ {"read_one", "unread_one"}, NEW u \in User,
                 GetConversation(r, op, u)
          PROVE  RInv'
      <3>1. req' = [req EXCEPT ![r] = NewCall(r, op, u, 0)]
        BY <2>5 DEF GetConversation
      <3>2. Asked(req[r])'
        BY <3>1, <2>5, <1>0, MessageReadsAssumption
        DEF GetConversation, NewCall, NextPhase, Op, Asked, TypeOK
      <3>3. QED
        BY <3>1, <3>2, <2>1, <2>5, <1>0 DEF Kept, GetConversation, TypeOK, database
    <2>6. ASSUME NEW op \in ClientOp \cap {"read_one", "unread_one"}, NEW u \in User,
                 NEW m \in Messages, GetMessage(r, op, u, m)
          PROVE  RInv'
      <3>1. req' = [req EXCEPT ![r] = NewCall(r, op, u, m)]
        BY <2>6 DEF GetMessage
      <3>2. Asked(req[r])'
        BY <3>1, <2>6, <1>0 DEF GetMessage, NewCall, NextPhase, Op, Asked, TypeOK
      <3>3. QED
        BY <3>1, <3>2, <2>1, <2>6, <1>0 DEF Kept, GetMessage, TypeOK, database
    <2>7. ASSUME SendMessage(r) PROVE RInv'
      <3>1. [q EXCEPT !.phase = "add_sender", !.message = Len(author')].phase = "add_sender"
        BY <2>7, <2>0 DEF SendMessage, At, Phase, Call
      <3>2. Kept
        BY <3>1, <2>4, <2>7 DEF SendMessage
      <3>3. QED
        BY <3>2, <2>1, <2>7 DEF SendMessage, history
    <2>8. ASSUME AddSender(r) PROVE RInv'
      <3>1. [q EXCEPT !.phase = "notify", !.to = users' \ {q.actor}].phase = "notify"
        BY <2>8, <2>0 DEF AddSender, At, Phase, Call
      <3>2. Kept
        BY <3>1, <2>4, <2>8 DEF AddSender
      <3>3. QED
        BY <3>2, <2>1, <2>8 DEF AddSender, history
    <2>9. ASSUME NEW u \in User, NotifyContributor(r, u) PROVE RInv'
      <3>1. [q EXCEPT !.to = @ \ {u}].phase = "notify"
        BY <2>9, <2>0 DEF NotifyContributor, At, Phase, Call
      <3>2. Kept
        BY <3>1, <2>4, <2>9 DEF NotifyContributor
      <3>3. QED
        BY <3>2, <2>1, <2>9 DEF NotifyContributor, database
    <2>10. ASSUME NEW last, ReadReturns(r, last), q.phase \in Phase PROVE Kept
      BY <2>10, <2>2, <2>3 DEF ReadReturns, Phase
    \* From the query on, the message field holds the number of messages; only a
    \* request to read the conversation gets here, which asked for all of it.
    <2>11. ASSUME QueryUnread(r) PROVE RInv'
      <3> DEFINE c == [q EXCEPT !.phase = "read_notes", !.unread = UnreadMessages(q.actor),
                                !.message = Len(author)]
      <3>1. q \in Call /\ q.phase = "query" /\ q.op # "read_one" /\ <<q.actor, 0>> \in asked
        BY <2>11, <2>0 DEF QueryUnread, At, Phase, TInv, FoundIn, RInv, Asked
      <3>2. c.phase = "read_notes" /\ c.op = q.op /\ c.actor = q.actor
        BY <3>1 DEF Call
      <3>3. asked' = asked /\ is_read' = is_read
        BY <2>11 DEF QueryUnread, database
      <3>4. Kept
        <4>1. CASE UnreadMessages(q.actor) = {}
          BY <4>1, <3>1, <2>10, <2>11 DEF QueryUnread, Phase
        <4>2. CASE UnreadMessages(q.actor) # {}
          <5>1. req' = [req EXCEPT ![r] = c]
            BY <4>2, <2>11 DEF QueryUnread
          <5> HIDE DEF c
          <5>2. req'[r] = c /\ \A p \in Request \ {r} : req'[p] = req[p]
            BY <5>1, <1>0 DEF TypeOK
          <5>3. QED
            BY <5>2, <3>1, <3>2, <3>3 DEF Kept, Asked
        <4>3. QED
          BY <4>1, <4>2
      <3>5. QED
        BY <3>3, <3>4, <2>1
    <2>12. ASSUME ReadNotifications(r) PROVE RInv'
      <3>1. Kept /\ q.phase = "read_notes" /\ q.phase \in Phase
        BY <2>12, <2>3 DEF ReadNotifications, At, Phase
      <3>2. asked' = asked
        BY <2>12 DEF ReadNotifications, history
      <3>3. ASSUME NEW n \in is_read' PROVE n \in asked \/ <<n[1], 0>> \in asked
        <4>1. CASE n \in is_read
          BY <4>1 DEF RInv, ReadByItsUser
        <4>2. CASE n \in notified /\ n[1] = q.actor /\ (q.op = "read_one" => n[2] = q.message)
          <5>1. n = <<n[1], n[2]>>
            BY <4>2, <1>0 DEF TypeOK
          <5>2. <<q.actor, IF q.op = "read_one" THEN q.message ELSE 0>> \in asked
            BY <3>1 DEF RInv, Asked
          <5>3. QED
            BY <5>1, <5>2, <4>2
        <4>3. QED
          BY <3>3, <4>1, <4>2, <2>12 DEF ReadNotifications
      <3>4. QED
        BY <3>1, <3>2, <3>3 DEF Kept, RInv, ReadByItsUser, Asked
    <2>13. ASSUME TriggerStatsUpdate(r) PROVE RInv'
      BY <2>13, <2>1, <2>2, <2>3 DEF TriggerStatsUpdate, At, Phase, database, history
    <2>14. ASSUME CreateReads(r) PROVE RInv'
      BY <2>14, <2>1, <2>2, <2>10 DEF CreateReads, At, Phase
    <2>15. ASSUME RemoveUser(r) PROVE RInv'
      BY <2>15, <2>1, <2>3 DEF RemoveUser, At, Phase, history
    <2>16. ASSUME SystemMessage(r) PROVE RInv'
      BY <2>16, <2>1, <2>2 DEF SystemMessage, history
    <2>17. ASSUME LastRead(r) PROVE RInv'
      <3> DEFINE rows == reads[q.actor]
                 c == [q EXCEPT !.phase = "delete", !.message = Last(rows).message,
                                !.by = Last(rows).by]
      <3>1. Finish(r) \/ req' = [req EXCEPT ![r] = c]
        BY <2>17 DEF LastRead
      <3>2. c.phase = "delete"
        BY <2>17, <2>0 DEF LastRead, At, Phase, Call
      <3>3. QED
        BY <3>1, <3>2, <2>1, <2>2, <2>4, <2>17 DEF LastRead, database, history
    <2>18. ASSUME DeleteLastRead(r) PROVE RInv'
      BY <2>18, <2>1, <2>2 DEF DeleteLastRead
    \* The row is created: the notification of the message comes next.
    <2>19. ASSUME CreateRead(r) PROVE RInv'
      <3>1. q \in Call /\ q.phase = "create_read" /\ q.op = "read_one" /\ <<q.actor, q.message>> \in asked
        BY <2>19, <2>0 DEF CreateRead, At, Phase, TInv, FoundIn, RInv, Asked
      <3>2. asked' = asked /\ is_read' = is_read
        BY <2>19 DEF CreateRead, history
      <3>3. CASE Goto(r, "read_notes")
        <4>1. /\ req'[r].op = q.op /\ req'[r].actor = q.actor /\ req'[r].message = q.message
              /\ \A p \in Request \ {r} : req'[p] = req[p]
          BY <3>1, <3>3, <1>0, GotoTyped DEF Phase
        <4>2. Kept
          BY <4>1, <3>1, <3>2 DEF Kept, Asked
        <4>3. QED
          BY <4>2, <3>2, <2>1
      <3>4. QED
        BY <3>2, <3>3, <2>1, <2>2, <2>19 DEF CreateRead
    <2>20. ASSUME DeleteRead(r) PROVE RInv'
      BY <2>20, <2>1, <2>2 DEF DeleteRead
    <2>21. ASSUME Abort(r) \/ FinishReply(r) PROVE RInv'
      BY <2>21, <2>1, <2>2 DEF Abort, FinishReply, database, history
    <2>22. QED
      BY <1>2, <2>5, <2>6, <2>7, <2>8, <2>9, <2>11, <2>12, <2>13, <2>14, <2>15, <2>16, <2>17, <2>18,
         <2>19, <2>20, <2>21 DEF Start, Handle
  <1>3. CASE DefaultWorker \/ PushWorker \/ UNCHANGED vars
    BY <1>1, <1>3 DEF DefaultWorker, PushWorker, NotifyUser, WorkerStatsUpdate, NotifyUserFails,
                      CountUnread, SendBadge, vars, database, queues, history
  <1>4. QED
    BY <1>2, <1>3 DEF Next

\* A notification is only ever marked as read when its user asked to read the
\* conversation, or that message.
THEOREM MessageReadByItsUser == Spec => []ReadByItsUser
  <1>1. RInv => ReadByItsUser
    BY DEF RInv
  <1>2. QED
    BY <1>1, InitRInv, StepRInv, InvariantTInv, PTL DEF Spec
-----------------------------------------------------------------------------
LEMMA InitAInv == Init => AInv
  <1> SUFFICES ASSUME Init PROVE AInv
    OBVIOUS
  <1>1. PICK u \in User :
          /\ author = <<u>>
          /\ req = [r \in Request |-> IF r = 1 THEN NewCall(1, "reply", u, 0) ELSE NotMade]
    BY DEF Init
  <1>2. \A r \in Request : Covers(req[r])
    BY <1>1 DEF Covers, NewCall, NextPhase, Op, NotMade
  <1>3. answered = [v \in User |-> 0] /\ Len(author) = 1
    BY <1>1 DEF Init
  <1>4. QED
    BY <1>2, <1>3 DEF AInv, AcknowledgedReads

\* A step of one request keeps the invariant when it takes nothing away from what
\* is accounted for.
LEMMA AInvKept ==
    ASSUME TypeOK, TypeOK', AInv, NEW r \in Request, Len(author) <= Len(author'),
           \A u \in User : \A m \in Messages : Accounted(u, m) => Accounted(u, m)',
           \A u \in User : /\ answered'[u] <= Len(author')
                           /\ \A m \in 1..answered'[u] : Accounted(u, m)',
           \A p \in Request \ {r} : req'[p] = req[p],
           Covers(req[r])'
    PROVE  AInv'
  <1>1. Len(author) \in Nat /\ Len(author') \in Nat
    BY LenProperties DEF TypeOK
  <1>2. ASSUME NEW p \in Request \ {r} PROVE Covers(req[p])'
    <2> DEFINE q == req[p]
    <2>1. CASE q.phase \in {"read_notes", "stats", "create_reads"} /\ q.op # "read_one"
      <3>1. q \in Call
        BY <2>1, CallTyped DEF Phase
      <3>2. PICK u \in User : u = q.actor
        BY <3>1 DEF Call
      <3>3. q.message \in Nat /\ q.message <= Len(author)
        BY <2>1, <3>1 DEF AInv, Covers, Call
      <3>4. \A m \in 1..q.message : m \in q.unread \/ Accounted(u, m)
        BY <2>1, <3>2 DEF AInv, Covers
      <3>5. \A m \in 1..q.message : m \in q.unread \/ Accounted(u, m)'
        BY <1>1, <3>3, <3>4 DEF Messages
      <3>6. q.message <= Len(author')
        BY <1>1, <3>3
      <3>7. QED
        BY <3>2, <3>5, <3>6 DEF Covers, Accounted, HasRead
    <2>2. QED
      BY <2>1 DEF Covers
  <1>3. AcknowledgedReads'
    BY DEF AcknowledgedReads, Accounted, HasRead
  <1>4. QED
    BY <1>2, <1>3 DEF AInv

LEMMA StepAInv == TInv /\ TInv' /\ AInv /\ [Next]_vars => AInv'
  <1> SUFFICES ASSUME TInv, TInv', AInv, [Next]_vars PROVE AInv'
    OBVIOUS
  <1>0. TypeOK /\ TypeOK' /\ Len(author) \in Nat /\ answered \in [User -> Nat]
    BY LenProperties DEF TInv, TypeOK
  <1>1. CASE UNCHANGED <<req, author, reads, answered, unmarked>>
    BY <1>1 DEF AInv, AcknowledgedReads, HasRead, Covers, Accounted
  <1>2. ASSUME NEW r \in Request, Start(r) \/ Handle(r) \/ Abort(r)
        PROVE  AInv'
    <2> DEFINE q == req[r]
               Kept == Covers(req[r])' /\ \A p \in Request \ {r} : req'[p] = req[p]
               Grown == author' = author \/ \E a \in User \cup {Null} : author' = Append(author, a)
               Remain == \A u \in User : \A m \in Messages : Accounted(u, m) => Accounted(u, m)'
    <2>0. q.phase \in Phase => q \in Call
      BY <1>0, CallTyped
    <2>1. ASSUME Grown
          PROVE  Len(author) <= Len(author') /\ \A m \in Messages : author'[m] = author[m]
      BY <2>1, <1>0, AuthorGrows
    \* What every other step than a delete keeps.
    <2>2. ASSUME Grown, unmarked \subseteq unmarked',
                 \A u \in User : \A m : HasRead(u, m) => HasRead(u, m)'
          PROVE  Remain
      BY <2>1, <2>2 DEF Accounted
    <2>3. ASSUME Kept, Grown, Remain, answered' = answered PROVE AInv'
      <3>1. ASSUME NEW u \in User
            PROVE  /\ answered'[u] <= Len(author')
                   /\ \A m \in 1..answered'[u] : Accounted(u, m)'
        <4>1. answered[u] \in Nat /\ answered[u] <= Len(author)
          BY <1>0 DEF AInv
        <4>2. Len(author') \in Nat /\ Len(author) <= Len(author')
          BY <1>0, <2>1, <2>3, LenProperties DEF TypeOK
        <4>3. \A m \in 1..answered[u] : m \in Messages /\ Accounted(u, m)
          BY <4>1, <1>0 DEF AInv, AcknowledgedReads, Accounted, Messages
        <4>4. QED
          BY <4>1, <4>2, <4>3, <1>0, <2>3
      <3>2. QED
        BY <3>1, <2>1, <2>3, <1>0, AInvKept
    <2>4. ASSUME Kept, Grown, UNCHANGED <<reads, answered>>, unmarked \subseteq unmarked' PROVE AInv'
      BY <2>2, <2>3, <2>4 DEF HasRead
    <2>5. ASSUME Finish(r) PROVE Kept
      BY <2>5, <1>0, FinishTyped DEF Done, Covers
    <2>6. ASSUME NEW phase \in Phase \ {"read_notes", "stats", "create_reads"}, q.phase \in Phase,
                 Goto(r, phase)
          PROVE  Kept
      BY <2>6, <1>0, GotoTyped DEF Covers
    <2>7. ASSUME NEW c, req' = [req EXCEPT ![r] = c],
                 c.phase \notin {"read_notes", "stats", "create_reads"}
          PROVE  Kept
      BY <2>7, <1>0 DEF Covers, TypeOK
    \* Between the query and bulk_create a request keeps what it found.
    <2>8. ASSUME NEW phase \in {"stats", "create_reads"}, q.phase \in {"read_notes", "stats"},
                 Goto(r, phase), UNCHANGED <<author, reads, answered, unmarked>>
          PROVE  AInv'
      <3>1. /\ req'[r].op = q.op /\ req'[r].actor = q.actor /\ req'[r].message = q.message
            /\ req'[r].unread = q.unread /\ \A p \in Request \ {r} : req'[p] = req[p]
        BY <2>8, <1>0, GotoTyped DEF Phase
      <3>2. Covers(req[r])'
        BY <3>1, <2>8 DEF AInv, Covers, Accounted, HasRead
      <3>3. QED
        BY <3>1, <3>2, <2>4, <2>8
    <2> HIDE DEF Kept
    <2>10. ASSUME NEW op \in ClientOp \ {"read_one", "unread_one"}, NEW u \in User,
                  GetConversation(r, op, u)
           PROVE  AInv'
      <3>1. NewCall(r, op, u, 0).phase \notin {"read_notes", "stats", "create_reads"}
        BY MessageReadsAssumption DEF NewCall, NextPhase, Op
      <3>2. QED
        BY <3>1, <2>4, <2>7, <2>10 DEF GetConversation, database
    <2>11. ASSUME NEW op \in ClientOp \cap {"read_one", "unread_one"}, NEW u \in User,
                  NEW m \in Messages, GetMessage(r, op, u, m)
           PROVE  AInv'
      <3>1. NewCall(r, op, u, m).phase \notin {"read_notes", "stats", "create_reads"}
        BY DEF NewCall, NextPhase, Op
      <3>2. QED
        BY <3>1, <2>4, <2>7, <2>11 DEF GetMessage, database
    <2>12. ASSUME SendMessage(r) PROVE AInv'
      <3>1. /\ [q EXCEPT !.phase = "add_sender", !.message = Len(author')].phase = "add_sender"
            /\ q.actor \in User \cup {Null}
        BY <2>12, <2>0 DEF SendMessage, At, Phase, Call
      <3>2. Kept
        BY <3>1, <2>7, <2>12 DEF SendMessage
      <3>3. QED
        BY <3>1, <3>2, <2>4, <2>12 DEF SendMessage, history
    <2>13. ASSUME AddSender(r) PROVE AInv'
      <3>1. [q EXCEPT !.phase = "notify", !.to = users' \ {q.actor}].phase = "notify"
        BY <2>13, <2>0 DEF AddSender, At, Phase, Call
      <3>2. Kept
        BY <3>1, <2>7, <2>13 DEF AddSender
      <3>3. QED
        BY <3>2, <2>4, <2>13 DEF AddSender, history
    <2>14. ASSUME NEW u \in User, NotifyContributor(r, u) PROVE AInv'
      <3>1. [q EXCEPT !.to = @ \ {u}].phase = "notify"
        BY <2>14, <2>0 DEF NotifyContributor, At, Phase, Call
      <3>2. Kept
        BY <3>1, <2>7, <2>14 DEF NotifyContributor
      <3>3. QED
        BY <3>2, <2>4, <2>14 DEF NotifyContributor, database
    \* mark_as_read returns: what it answers for is accounted for.
    <2>15. ASSUME NEW u \in User, u = q.actor, NEW last \in Nat, q.phase \in Phase,
                  ReadReturns(r, last), author' = author, Remain, last <= Len(author),
                  \A m \in 1..last : Accounted(u, m)'
           PROVE  AInv'
      <3>1. Kept
        BY <2>15, <2>5, <2>6 DEF ReadReturns, Phase
      <3>2. /\ answered'[u] = answered[u] \/ answered'[u] = last
            /\ \A v \in User \ {u} : answered'[v] = answered[v]
        BY <2>15, <1>0 DEF ReadReturns
      <3>3. ASSUME NEW v \in User
            PROVE  /\ answered'[v] <= Len(author')
                   /\ \A m \in 1..answered'[v] : Accounted(v, m)'
        <4>1. answered[v] \in Nat /\ answered[v] <= Len(author)
          BY <1>0 DEF AInv
        <4>2. \A m \in 1..answered[v] : m \in Messages /\ Accounted(v, m)
          BY <4>1, <1>0 DEF AInv, AcknowledgedReads, Accounted, Messages
        <4>3. \A m \in 1..answered[v] : Accounted(v, m)'
          BY <4>2, <2>15
        <4>4. QED
          BY <4>1, <4>3, <3>2, <2>15
      <3>4. QED
        BY <3>1, <3>3, <2>15, <1>0, AInvKept DEF Kept
    <2>16. ASSUME QueryUnread(r) PROVE AInv'
      <3> DEFINE unread == UnreadMessages(q.actor)
                 c == [q EXCEPT !.phase = "read_notes", !.unread = unread, !.message = Len(author)]
      <3>1. q.phase \in Phase /\ q \in Call /\ UNCHANGED <<author, reads, unmarked>>
        BY <2>16, <2>0 DEF QueryUnread, At, Phase, database
      <3>2. PICK u \in User : u = q.actor
        BY <3>1 DEF Call
      <3>3. \A m \in 1..Len(author) : m \in unread \/ Accounted(u, m)
        BY <3>2 DEF UnreadMessages, Accounted, Messages
      <3>4. \A v, m : Accounted(v, m) => Accounted(v, m)'
        BY <3>1 DEF Accounted, HasRead
      <3>5. CASE unread = {}
        <4>1. \A m \in 1..Len(author) : Accounted(u, m)'
          BY <3>3, <3>4, <3>5
        <4>2. ReadReturns(r, Len(author))
          BY <3>5, <2>16 DEF QueryUnread
        <4> HIDE DEF unread
        <4>3. QED
          BY <4>1, <4>2, <3>1, <3>2, <3>4, <2>15, <1>0
      <3>6. CASE unread # {}
        <4>1. req' = [req EXCEPT ![r] = c] /\ answered' = answered
          BY <3>6, <2>16 DEF QueryUnread
        <4> HIDE DEF unread
        <4>2. /\ c.phase = "read_notes" /\ c.actor = u /\ c.unread = unread
              /\ c.message = Len(author)
          BY <3>1, <3>2 DEF Call
        <4> HIDE DEF c
        <4>3. req'[r] = c /\ \A p \in Request \ {r} : req'[p] = req[p]
          BY <4>1, <1>0 DEF TypeOK
        <4>4. \A m \in 1..Len(author) : m \in unread \/ Accounted(u, m)'
          BY <3>3, <3>4
        <4>5. Covers(req[r])'
          BY <4>2, <4>3, <4>4, <3>1, <1>0 DEF Covers, Accounted, HasRead
        <4>6. QED
          BY <4>1, <4>3, <4>5, <3>1, <2>4 DEF Kept
      <3>7. QED
        BY <3>5, <3>6
    <2>17. ASSUME ReadNotifications(r) PROVE AInv'
      BY <2>17, <2>8 DEF ReadNotifications, At, history
    <2>18. ASSUME TriggerStatsUpdate(r) PROVE AInv'
      <3>1. CASE Finish(r)
        BY <3>1, <2>18, <2>4, <2>5 DEF TriggerStatsUpdate, database, history
      <3>2. CASE Goto(r, "create_reads")
        BY <3>2, <2>18, <2>8 DEF TriggerStatsUpdate, At, database, history
      <3>3. QED
        BY <3>1, <3>2, <2>18 DEF TriggerStatsUpdate
    \* Either no row is created, and nothing is answered, or all of them are.
    <2>19. ASSUME CreateReads(r) PROVE AInv'
      <3>1. /\ q.phase = "create_reads" /\ q \in Call /\ q.op # "read_one"
            /\ q.unread \subseteq Messages /\ q.message \in Nat
        BY <2>19, <2>0 DEF CreateReads, At, Phase, Call, TInv, FoundIn
      <3>2. PICK u \in User : u = q.actor
        BY <3>1 DEF Call
      <3>3. UNCHANGED <<author, unmarked>>
        BY <2>19 DEF CreateReads
      <3>4. CASE UNCHANGED <<reads, answered>> /\ Finish(r)
        BY <3>3, <3>4, <2>4, <2>5
      <3>5. CASE InsertReads(r) /\ ReadReturns(r, q.message)
        <4>1. /\ \A v \in User \ {u} : reads'[v] = reads[v]
              /\ \A m : HasRead(u, m) => HasRead(u, m)'
              /\ \A m \in q.unread : HasRead(u, m)'
          BY <3>1, <3>2, <3>5, <1>0, InsertReadsProperties
        <4>2. Remain
          <5>1. \A v \in User : \A m : HasRead(v, m) => HasRead(v, m)'
            BY <4>1 DEF HasRead
          <5>2. QED
            BY <5>1, <3>3, <2>2
        <4>3. /\ q.message <= Len(author)
              /\ \A m \in 1..q.message : m \in q.unread \/ Accounted(u, m)
          BY <3>1, <3>2 DEF AInv, Covers
        <4>4. \A m \in 1..q.message : m \in Messages
          BY <4>3, <3>1, <1>0 DEF Messages
        <4>5. \A m \in q.unread : Accounted(u, m)'
          BY <4>1 DEF Accounted
        <4>6. \A m \in 1..q.message : Accounted(u, m)'
          BY <4>2, <4>3, <4>4, <4>5
        <4>7. QED
          BY <4>2, <4>3, <4>6, <3>1, <3>2, <3>3, <3>5, <2>15 DEF Phase
      <3>6. QED
        BY <3>4, <3>5, <2>19 DEF CreateReads
    <2>20. ASSUME RemoveUser(r) PROVE AInv'
      BY <2>20, <2>4, <2>6 DEF RemoveUser, At, Phase, history
    <2>21. ASSUME SystemMessage(r) PROVE AInv'
      BY <2>21, <2>4, <2>5 DEF SystemMessage, history
    <2>22. ASSUME LastRead(r) PROVE AInv'
      <3> DEFINE rows == reads[q.actor]
                 c == [q EXCEPT !.phase = "delete", !.message = Last(rows).message,
                                !.by = Last(rows).by]
      <3>1. Finish(r) \/ req' = [req EXCEPT ![r] = c]
        BY <2>22 DEF LastRead
      <3>2. c.phase = "delete"
        BY <2>22, <2>0 DEF LastRead, At, Phase, Call
      <3>3. QED
        BY <3>1, <3>2, <2>4, <2>5, <2>7, <2>22 DEF LastRead, database, history
    \* A deleted row is one of a message that its user marks as unread.
    <2>23. ASSUME NEW u \in User, NEW m, NEW matching \in SUBSET DOMAIN reads[u],
                  \A i \in matching : reads[u][i].message = m, DeleteRow(u, matching),
                  author' = author, unmarked' = unmarked \cup {<<u, m>>}
           PROVE  Remain
      <3>1. /\ \A v \in User \ {u} : reads'[v] = reads[v]
            /\ \A i \in DOMAIN reads[u] \ matching :
                  \E k \in DOMAIN reads'[u] : reads'[u][k] = reads[u][i]
        BY <2>23, <1>0, DeleteRowProperties
      <3>2. ASSUME NEW v \in User, NEW n, Accounted(v, n) PROVE Accounted(v, n)'
        <4>1. CASE author[n] \in {v, Null} \/ <<v, n>> \in unmarked
          BY <4>1, <2>23 DEF Accounted
        <4>2. CASE HasRead(v, n) /\ v # u
          BY <4>2, <3>1 DEF Accounted, HasRead
        <4>3. CASE HasRead(v, n) /\ v = u
          <5>1. PICK i \in DOMAIN reads[u] : reads[u][i].message = n
            BY <4>3 DEF HasRead
          <5>2. CASE i \in matching
            BY <5>1, <5>2, <4>3, <2>23 DEF Accounted
          <5>3. CASE i \notin matching
            BY <5>1, <5>3, <4>3, <3>1 DEF Accounted, HasRead
          <5>4. QED
            BY <5>2, <5>3
        <4>4. QED
          BY <3>2, <4>1, <4>2, <4>3 DEF Accounted
      <3>3. QED
        BY <3>2
    <2>24. ASSUME DeleteLastRead(r) PROVE AInv'
      <3> DEFINE row == [message |-> q.message, by |-> q.by]
                 matching == {i \in DOMAIN reads[q.actor] : reads[q.actor][i] = row}
      <3>1. q.actor \in User /\ \A i \in matching : reads[q.actor][i].message = q.message
        BY <2>24, <2>0 DEF DeleteLastRead, At, Phase, Call
      <3>2. /\ DeleteRow(q.actor, matching) /\ unmarked' = unmarked \cup {<<q.actor, q.message>>}
            /\ author' = author /\ answered' = answered /\ Finish(r)
        BY <2>24 DEF DeleteLastRead
      <3> HIDE DEF matching
      <3>3. Remain
        BY <3>1, <3>2, <2>23 DEF matching
      <3>4. QED
        BY <3>2, <3>3, <2>3, <2>5
    <2>25. ASSUME DeleteRead(r) PROVE AInv'
      <3> DEFINE matching == {i \in DOMAIN reads[q.actor] : reads[q.actor][i].message = q.message}
      <3>1. q.actor \in User /\ \A i \in matching : reads[q.actor][i].message = q.message
        BY <2>25, <2>0 DEF DeleteRead, At, Phase, Call
      <3>2. /\ DeleteRow(q.actor, matching) /\ unmarked' = unmarked \cup {<<q.actor, q.message>>}
            /\ author' = author /\ answered' = answered /\ Finish(r)
        BY <2>25 DEF DeleteRead
      <3> HIDE DEF matching
      <3>3. Remain
        BY <3>1, <3>2, <2>23 DEF matching
      <3>4. QED
        BY <3>2, <3>3, <2>3, <2>5
    <2>26. ASSUME CreateRead(r) PROVE AInv'
      <3>1. q \in Call /\ q.phase = "create_read" /\ q.op = "read_one"
        BY <2>26, <2>0 DEF CreateRead, At, Phase, TInv, FoundIn
      <3>2. UNCHANGED <<author, answered, unmarked>>
        BY <2>26 DEF CreateRead, history
      <3>3. Kept
        <4>1. CASE Goto(r, "read_notes")
          BY <4>1, <3>1, <1>0, GotoTyped DEF Kept, Covers, Phase
        <4>2. QED
          BY <4>1, <2>5, <2>26 DEF CreateRead
      <3>4. ASSUME NEW v \in User, NEW m, HasRead(v, m) PROVE HasRead(v, m)'
        <4> DEFINE row == [message |-> q.message, by |-> r]
        <4>1. PICK u \in User : u = q.actor
          BY <3>1 DEF Call
        <4>2. CASE reads' = [reads EXCEPT ![u] = Append(@, row)] /\ v = u
          <5>1. row \in Read /\ reads[u] \in Seq(Read) /\ reads'[u] = Append(reads[u], row)
            BY <4>2, <3>1, <2>26, <1>0 DEF Read, TypeOK, Call, TInv, FoundIn, Phase
          <5> HIDE DEF row
          <5>2. \A i \in DOMAIN reads[u] : i \in DOMAIN reads'[u] /\ reads'[u][i] = reads[u][i]
            BY <5>1, AppendProperties, LenProperties
          <5>3. QED
            BY <5>2, <4>2, <3>4 DEF HasRead
        <4>3. CASE reads'[v] = reads[v]
          BY <4>3, <3>4 DEF HasRead
        <4>4. QED
          BY <4>1, <4>2, <4>3, <2>26, <1>0 DEF CreateRead, TypeOK
      <3>5. QED
        BY <3>2, <3>3, <3>4, <2>2, <2>3
    <2>27. ASSUME Abort(r) \/ FinishReply(r) PROVE AInv'
      BY <2>27, <2>4, <2>5 DEF Abort, FinishReply, database, history
    <2>28. QED
      BY <1>2, <2>10, <2>11, <2>12, <2>13, <2>14, <2>16, <2>17, <2>18, <2>19, <2>20, <2>21, <2>22,
         <2>24, <2>25, <2>26, <2>27 DEF Start, Handle
  <1>3. CASE DefaultWorker \/ PushWorker \/ UNCHANGED vars
    BY <1>1, <1>3 DEF DefaultWorker, PushWorker, NotifyUser, WorkerStatsUpdate, NotifyUserFails,
                      CountUnread, SendBadge, vars, database, queues, history
  <1>4. QED
    BY <1>2, <1>3 DEF Next

\* A member who is told that the conversation is read has a row for each message
\* of another user, up to the last one there was, until he deletes it himself.
THEOREM MessageAcknowledgedReads == Spec => []AcknowledgedReads
  <1>1. AInv => AcknowledgedReads
    BY DEF AInv
  <1>2. QED
    BY <1>1, InitAInv, StepAInv, InvariantTInv, PTL DEF Spec
-----------------------------------------------------------------------------
LEMMA InitBInv == Init => BInv
  <1> SUFFICES ASSUME Init, NEW d \in Device
               PROVE  UnreadCount(d) = IF pushing # Null /\ pushing.user = d THEN pushing.badge ELSE badge[d]
    BY DEF BInv
  <1>1. PICK u \in User :
          /\ author = <<u>>
          /\ notified = (User \ {u}) \X {1}
          /\ badge = [v \in Device |-> IF v = u THEN 0 ELSE 1]
    BY DEF Init
  <1>2. Messages = {1} /\ is_read = {} /\ pushing = Null /\ d \in User
    BY <1>1, MessageReadsAssumption DEF Messages, Init
  <1>3. badge[d] = IF d = u THEN 0 ELSE 1
    BY <1>1
  <1>4. <<d, 1>> \in notified \ is_read <=> d # u
    BY <1>1, <1>2
  <1>5. (\E m \in Messages : <<d, m>> \in notified \ is_read) <=> d # u
    BY <1>2, <1>4
  <1>6. QED
    BY <1>2, <1>3, <1>5 DEF UnreadCount

\* The count of u is that of his unread notifications, whatever is sent meanwhile.
LEMMA CountKept ==
    ASSUME TypeOK, NInv, NEW u,
           author' = author \/ \E a \in User \cup {Null} : author' = Append(author, a),
           \A m : <<u, m>> \in notified' \ is_read' <=> <<u, m>> \in notified \ is_read
    PROVE  UnreadCount(u)' = UnreadCount(u)
  <1>1. Messages \subseteq Messages'
    BY AuthorGrows DEF Messages
  <1>2. \A m : <<u, m>> \in notified => m \in Messages
    <2>1. \A m : <<u, m>> \in notified => <<u, m>>[2] \in Messages
      BY DEF NInv
    <2>2. QED
      BY <2>1
  <1>3. (\E m \in Messages' : <<u, m>> \in notified' \ is_read')
           <=> (\E m \in Messages : <<u, m>> \in notified \ is_read)
    BY <1>1, <1>2
  <1>4. QED
    BY <1>3 DEF UnreadCount

\* What a job on the push queue means for who is still waiting on it.
LEMMA PushAdded ==
    ASSUME TypeOK, NEW v \in Device, push' = Append(push, v)
    PROVE  /\ \A u : (\A i \in DOMAIN push' : push'[i] # u) => \A i \in DOMAIN push : push[i] # u
           /\ \E i \in DOMAIN push' : push'[i] = v
  <1>1. /\ push \in Seq(Device) /\ push' \in Seq(Device)
        /\ Len(push') = Len(push) + 1 /\ Len(push) \in Nat
        /\ \A i \in 1..Len(push) : push'[i] = push[i]
        /\ push'[Len(push) + 1] = v
    BY AppendProperties, LenProperties DEF TypeOK
  <1>2. DOMAIN push = 1..Len(push) /\ DOMAIN push' = 1..(Len(push) + 1)
    BY <1>1, LenProperties
  <1>3. QED
    BY <1>1, <1>2

LEMMA PushTaken ==
    ASSUME TypeOK, push # << >>, push' = Tail(push)
    PROVE  /\ Head(push) \in Device
           /\ \A u : u # Head(push) /\ (\A i \in DOMAIN push' : push'[i] # u)
                        => \A i \in DOMAIN push : push[i] # u
  <1>1. /\ push \in Seq(Device) /\ push' \in Seq(Device)
        /\ Len(push') = Len(push) - 1 /\ Len(push) \in Nat \ {0}
        /\ \A i \in 1..Len(push') : push'[i] = push[i + 1]
        /\ Head(push) = push[1] /\ Head(push) \in Device
    BY HeadTailProperties, EmptySeq DEF TypeOK
  <1>2. DOMAIN push = 1..Len(push) /\ DOMAIN push' = 1..(Len(push) - 1)
    BY <1>1, LenProperties
  <1>3. ASSUME NEW u, u # Head(push), \A i \in DOMAIN push' : push'[i] # u, NEW i \in DOMAIN push
        PROVE  push[i] # u
    <2>1. CASE i = 1
      BY <2>1, <1>1, <1>3
    <2>2. CASE i # 1
      <3>1. i - 1 \in 1..(Len(push) - 1) /\ (i - 1) + 1 = i
        BY <2>2, <1>1, <1>2
      <3>2. push'[i - 1] = push[i]
        BY <3>1, <1>1
      <3>3. QED
        BY <3>1, <3>2, <1>2, <1>3
    <2>3. QED
      BY <2>1, <2>2
  <1>4. QED
    BY <1>1, <1>3

LEMMA StepBInv == TInv /\ NInv /\ BInv /\ [Next]_vars => BInv'
  <1> SUFFICES ASSUME TInv, NInv, BInv, [Next]_vars PROVE BInv'
    OBVIOUS
  <1> USE MessageReadsAssumption
  <1>0. TypeOK
    BY DEF TInv
  <1> DEFINE Grown == author' = author \/ \E a \in User \cup {Null} : author' = Append(author, a)
             SameNotes(u) == \A m : <<u, m>> \in notified' \ is_read' <=> <<u, m>> \in notified \ is_read
             Right(u) == UnreadCount(u) = IF pushing # Null /\ pushing.user = u
                                          THEN pushing.badge ELSE badge[u]
  \* Device by device: nothing to show when an update is outstanding; otherwise
  \* the count has not changed since it was right.
  <1>1. ASSUME \A u \in Device : Quiet(u)' => Quiet(u) /\ SameNotes(u), Grown,
               UNCHANGED <<pushing, badge>>
        PROVE  BInv'
    <2> SUFFICES ASSUME NEW u \in Device, Quiet(u)' PROVE Right(u)'
      BY DEF BInv
    <2>1. UnreadCount(u)' = UnreadCount(u)
      BY <1>0, <1>1, CountKept
    <2>2. Right(u)
      BY <1>1 DEF BInv
    <2>3. QED
      BY <2>1, <2>2, <1>1
  <1>2. ASSUME NEW r \in Request, Start(r) \/ Handle(r) \/ Abort(r)
        PROVE  BInv'
    <2> DEFINE q == req[r]
               Others == \A p \in Request \ {r} : req'[p] = req[p]
    <2>0. q.phase \in Phase => q \in Call
      BY <1>0, CallTyped
    <2>1. ASSUME Others, Grown, q.phase # "stats",
                 UNCHANGED <<notified, is_read, worker, push, pushing, badge, missed>>
          PROVE  BInv'
      <3>1. \A u \in Device : Quiet(u)' => Quiet(u)
        BY <2>1 DEF Quiet, At
      <3>2. \A u \in Device : SameNotes(u)
        BY <2>1
      <3>3. QED
        BY <3>1, <3>2, <2>1, <1>1
    <2>2. ASSUME NEW c, req' = [req EXCEPT ![r] = c] PROVE Others /\ req'[r] = c
      BY <2>2, <1>0 DEF TypeOK
    <2>3. ASSUME NEW last, ReadReturns(r, last) PROVE Others
      BY <2>3, <2>2 DEF ReadReturns, Goto, Finish
    <2>4. CASE \/ \E u \in User :
                     \/ \E op \in ClientOp \ {"read_one", "unread_one"} : GetConversation(r, op, u)
                     \/ \E op \in ClientOp, m \in Messages : GetMessage(r, op, u, m)
      BY <2>4, <2>1, <2>2 DEF GetConversation, GetMessage, Arrives, NotMade, database, queues
    <2>5. CASE SendMessage(r)
      <3>1. q.actor \in User
        BY <2>5, <2>0 DEF SendMessage, At, Phase, Call
      <3>2. QED
        BY <3>1, <2>5, <2>1, <2>2 DEF SendMessage, At, queues, history
    <2>6. CASE AddSender(r)
      BY <2>6, <2>1, <2>2 DEF AddSender, At, queues, history
    <2>7. CASE \E u \in User : NotifyContributor(r, u)
      BY <2>7, <2>1, <2>2 DEF NotifyContributor, At, database
    <2>8. CASE FinishReply(r)
      BY <2>8, <2>1, <2>2 DEF FinishReply, Finish, At, database, queues, history
    <2>9. CASE QueryUnread(r)
      BY <2>9, <2>1, <2>2, <2>3 DEF QueryUnread, At, database, queues
    \* The update of the reader's badge comes next.
    <2>10. CASE ReadNotifications(r)
      <3>1. q.phase \in Phase /\ q.phase = "read_notes" /\ Goto(r, "stats")
        BY <2>10 DEF ReadNotifications, At, Phase
      <3>2. /\ req'[r].phase = "stats" /\ req'[r].actor = q.actor /\ Others
        BY <3>1, <1>0, GotoTyped DEF Phase
      <3>3. \A u \in Device : Quiet(u)' => Quiet(u) /\ u # q.actor
        BY <3>1, <3>2, <2>10 DEF ReadNotifications, Quiet, At, queues, history
      <3>4. \A u : u # q.actor => SameNotes(u)
        BY <2>10 DEF ReadNotifications
      <3>5. QED
        BY <3>3, <3>4, <2>10, <1>1 DEF ReadNotifications, queues
    <2>11. CASE TriggerStatsUpdate(r)
      <3>1. q \in Call /\ q.actor \in User /\ q.phase = "stats"
        BY <2>11, <2>0 DEF TriggerStatsUpdate, At, Phase, Call
      <3>2. Others
        BY <2>11, <2>2 DEF TriggerStatsUpdate, Finish, Goto
      <3>3. \A u \in Device : (\A i \in DOMAIN push' : push'[i] # u)
               => u # q.actor /\ \A i \in DOMAIN push : push[i] # u
        <4>1. CASE q.actor \in Device
          <5>1. push' = Append(push, q.actor)
            BY <4>1, <2>11 DEF TriggerStatsUpdate, Badge
          <5>2. PICK v \in Device : v = q.actor /\ push' = Append(push, v)
            BY <4>1, <5>1
          <5>3. QED
            BY <5>2, <1>0, PushAdded
        <4>2. CASE q.actor \notin Device
          BY <4>2, <2>11 DEF TriggerStatsUpdate, Badge
        <4>3. QED
          BY <4>1, <4>2
      <3>4. \A u \in Device : Quiet(u)' => Quiet(u)
        BY <3>1, <3>2, <3>3, <2>11 DEF TriggerStatsUpdate, Quiet, At, history
      <3>5. \A u : SameNotes(u)
        BY <2>11 DEF TriggerStatsUpdate, database
      <3>6. QED
        BY <3>4, <3>5, <2>11, <1>1 DEF TriggerStatsUpdate, database
    <2>12. CASE CreateReads(r)
      BY <2>12, <2>1, <2>2, <2>3 DEF CreateReads, Finish, At, queues
    <2>13. CASE RemoveUser(r)
      BY <2>13, <2>1, <2>2 DEF RemoveUser, Goto, At, queues, history
    <2>14. CASE SystemMessage(r)
      BY <2>14, <2>1, <2>2 DEF SystemMessage, Finish, At, queues, history
    <2>15. CASE LastRead(r)
      BY <2>15, <2>1, <2>2 DEF LastRead, Finish, At, database, queues, history
    <2>16. CASE DeleteLastRead(r)
      BY <2>16, <2>1, <2>2 DEF DeleteLastRead, Finish, At, queues
    <2>17. CASE CreateRead(r)
      BY <2>17, <2>1, <2>2 DEF CreateRead, Finish, Goto, At, queues, history
    <2>18. CASE DeleteRead(r)
      BY <2>18, <2>1, <2>2 DEF DeleteRead, Finish, At, queues
    \* A request that dies before the update is recorded in missed.
    <2>19. CASE Abort(r)
      <3>1. Others
        BY <2>19, <2>2 DEF Abort, Finish
      <3>2. \A u \in Device : Quiet(u)' => Quiet(u)
        <4>1. \A u \in Device : Quiet(u)' => u \notin missed /\ ~ (At(r, "stats") /\ q.actor = u)
          BY <2>19 DEF Abort, Quiet
        <4>2. QED
          BY <4>1, <3>1, <2>19 DEF Abort, Quiet, At, queues
      <3>3. \A u : SameNotes(u)
        BY <2>19 DEF Abort, database
      <3>4. QED
        BY <3>2, <3>3, <2>19, <1>1 DEF Abort, database, queues
    <2>20. QED
      BY <1>2, <2>4, <2>5, <2>6, <2>7, <2>8, <2>9, <2>10, <2>11, <2>12, <2>13, <2>14, <2>15, <2>16,
         <2>17, <2>18, <2>19 DEF Start, Handle
  <1>3. CASE NotifyUser
    <2>1. jobs # << >> /\ Head(jobs) \in User \X Nat
      BY <1>3, <1>0, HeadTailProperties DEF NotifyUser, TypeOK
    <2>2. \A u \in Device : Quiet(u)' => Quiet(u) /\ u # Head(jobs)[1]
      BY <1>3 DEF NotifyUser, Quiet, At, history
    <2>3. \A u : u # Head(jobs)[1] => SameNotes(u)
      BY <2>1, <1>3 DEF NotifyUser
    <2>4. QED
      BY <2>2, <2>3, <1>1, <1>3 DEF NotifyUser
  <1>4. CASE WorkerStatsUpdate
    <2>1. \A u \in Device : Quiet(u)' => Quiet(u)
      <3>1. CASE worker \in Device
        <4>1. push' = Append(push, worker)
          BY <3>1, <1>4 DEF WorkerStatsUpdate, Badge
        <4>2. PICK v \in Device : v = worker /\ push' = Append(push, v)
          BY <3>1, <4>1
        <4>3. QED
          BY <4>2, <1>0, <1>4, PushAdded DEF WorkerStatsUpdate, Quiet, At, history
      <3>2. CASE worker \notin Device
        BY <3>2, <1>4 DEF WorkerStatsUpdate, Badge, Quiet, At, history
      <3>3. QED
        BY <3>1, <3>2
    <2>2. \A u : SameNotes(u)
      BY <1>4 DEF WorkerStatsUpdate, database
    <2>3. QED
      BY <2>1, <2>2, <1>1, <1>4 DEF WorkerStatsUpdate, database
  <1>5. CASE NotifyUserFails
    <2>1. \A u \in Device : Quiet(u)' => Quiet(u)
      BY <1>5 DEF NotifyUserFails, Quiet, At
    <2>2. \A u : SameNotes(u)
      BY <1>5 DEF NotifyUserFails, database
    <2>3. QED
      BY <2>1, <2>2, <1>1, <1>5 DEF NotifyUserFails, database
  \* The count that is taken is that of the moment.
  <1>6. CASE CountUnread
    <2> SUFFICES ASSUME NEW u \in Device, Quiet(u)' PROVE Right(u)'
      BY DEF BInv
    <2>1. pushing = Null /\ push # << >> /\ push' = Tail(push)
      BY <1>6 DEF CountUnread
    <2>2. pushing'.user = Head(push) /\ pushing'.badge = UnreadCount(Head(push)) /\ badge' = badge
      BY <1>6 DEF CountUnread
    <2>3. UnreadCount(u)' = UnreadCount(u)
      BY <1>6, <1>0, CountKept DEF CountUnread, database
    <2>4. pushing' # Null
      <3>1. pushing' \in [user: Device, badge: {0, 1}]
        BY <2>1, <1>6, <1>0, PushTaken DEF CountUnread, UnreadCount
      <3>2. QED
        BY <3>1
    <2>5. CASE u = Head(push)
      BY <2>2, <2>3, <2>4, <2>5
    <2>6. CASE u # Head(push)
      <3>1. Quiet(u)
        BY <2>1, <2>6, <1>0, <1>6, PushTaken DEF CountUnread, Quiet, At
      <3>2. QED
        BY <3>1, <2>1, <2>2, <2>3, <2>6 DEF BInv
    <2>7. QED
      BY <2>5, <2>6
  <1>7. CASE SendBadge
    <2> SUFFICES ASSUME NEW u \in Device, Quiet(u)' PROVE Right(u)'
      BY DEF BInv
    <2>1. UnreadCount(u)' = UnreadCount(u)
      BY <1>7, <1>0, CountKept DEF SendBadge, database
    <2>2. pushing # Null /\ pushing' = Null /\ badge \in [Device -> {0, 1}]
      BY <1>7, <1>0 DEF SendBadge, TypeOK
    <2>3. Quiet(u)
      BY <1>7 DEF SendBadge, Quiet, At
    <2>4. CASE badge' = [badge EXCEPT ![pushing.user] = pushing.badge]
      BY <2>1, <2>2, <2>3, <2>4 DEF BInv
    <2>5. CASE missed' = missed \cup {pushing.user} /\ badge' = badge
      <3>1. pushing.user # u
        BY <2>5 DEF Quiet
      <3>2. QED
        BY <3>1, <2>1, <2>2, <2>3, <2>5 DEF BInv
    <2>6. QED
      BY <2>4, <2>5, <1>7 DEF SendBadge
  <1>8. CASE UNCHANGED vars
    BY <1>8, <1>1 DEF vars, database, queues, history, Quiet, At
  <1>9. QED
    BY <1>2, <1>3, <1>4, <1>5, <1>6, <1>7, <1>8 DEF Next, DefaultWorker, PushWorker

\* Once the queues are empty, the badge of a member's device is his unread count,
\* unless the last update was lost with the process or the call that made it.
THEOREM MessageBadgeSettles == Spec => []BadgeSettles
  <1>1. BInv => BadgeSettles
    BY DEF BInv, BadgeSettles, Settled, Quiet
  <1>2. QED
    BY <1>1, InitBInv, StepBInv, InitNInv, StepNInv, InvariantTInv, PTL DEF Spec
=============================================================================
