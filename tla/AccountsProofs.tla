--------------------------- MODULE AccountsProofs ---------------------------
(***************************************************************************)
(* The safety properties of Accounts, for every set of users, addresses,   *)
(* accounts and mixes of operations, and any number of workers.            *)
(***************************************************************************)
EXTENDS Accounts, SequenceTheorems, FiniteSetTheorems, TLAPS

\* The operations whose requests get to a phase.
OpsAt(phase) ==
    CASE phase \in {"check", "insert", "profile"} -> {"sign_up", "sign_in"}
      [] phase = "token"                          -> {"sign_up", "change_email", "resend", "reset"}
      [] phase = "mail"                           -> {"sign_up", "sign_in", "change_email", "resend", "reset"}
      [] phase = "find"                           -> {"sign_in"}
      [] phase = "activate"                       -> {"sign_in", "link", "verify"}
      [] phase \in {"owner", "unlink"}            -> {"link", "unlink"}
      [] phase = "create_link"                    -> {"sign_in", "link"}
      [] phase = "save_email"                     -> {"change_email", "resend"}
      [] phase = "disable"                        -> {"change_email", "resend", "reset"}
      [] phase \in {"read_user", "disable_one"}   -> {"verify"}
      [] phase = "password"                       -> {"set_password", "change_password"}
      [] OTHER                                    -> {"deactivate"}

\* What a request q has in its fields by then, with the tokens ts.
FieldsOK(q, ts) ==
    /\ q.op \in OpsAt(q.phase)
    /\ q.phase \in {"check", "insert", "find"} => q.user = None /\ q.email \in Email
    /\ q.phase \notin {"check", "insert", "find"} => q.user \in User
    /\ q.phase \notin {"check", "insert", "find", "read_user"} => q.seen \in Row
    /\ q.phase = "save_email" \/ q.op \in {"sign_in", "verify"} => q.email \in Email
    /\ q.op \in {"sign_in", "link"} => q.account \in Account
    /\ q.op = "verify" => /\ q.token \in DOMAIN ts
                          /\ ts[q.token].user = q.user /\ ts[q.token].kind = "email"
    /\ q.phase \in {"profile", "disable", "token", "mail"} /\ q.op \in {"sign_up", "change_email", "resend"}
          => ~q.seen.activated
    /\ q.phase = "profile" /\ q.op = "sign_in" => q.seen.activated

\* The inductive invariant of TypeOK: nobody holds a user that has no row.
TInv ==
    /\ TypeOK
    /\ \A r \in Request : req[r].phase \in Phase =>
          FieldsOK(req[r], tokens) /\ req[r].user \in Users \cup {None}
    /\ \A t \in DOMAIN tokens : tokens[t].user \in Users
    /\ \A i \in DOMAIN mails : mails[i].user \in Users

\* A request r that is going to link an account to u, or to take note that it cannot.
Links(r, u) ==
    /\ req[r].phase \in Phase /\ req[r].user = u
    /\ req[r].op = "sign_in" \/ (req[r].op = "link" /\ req[r].phase = "create_link")

\* u has an account of provider p linked, or is going to.
Has(u, p) == linked[p][u] # None \/ \E r \in Request : Links(r, u) /\ req[r].provider = p

HasWay(u) == user[u].password \/ \E p \in Provider : Has(u, p)

Unlinks(r, u) == req[r].phase = "unlink" /\ req[r].op = "unlink" /\ req[r].user = u

\* What a request knows of the user whose links it is about.
Knows(r) ==
    LET q == req[r]
    IN  /\ q.phase \in {"owner", "unlink"} => (q.seen.password => user[q.user].password)
        /\ Unlinks(r, q.user) /\ q.user \notin stripped =>
              q.seen.password \/ \E p \in Provider \ {q.provider} : Has(q.user, p)

\* The inductive invariant of LoginKept.
KInv ==
    /\ \A u \in Users \ stripped : HasWay(u)
    /\ \A r \in Request : req[r].phase \in Phase => Knows(r)

\* Requests about to disable the tokens of u of kind k.
Disabling(u, k) == \E r \in Request : At(r, "disable") /\ req[r].user = u /\ KindOf(r) = k

Excused == overtaken \cup misdirected

\* A mail with a token that works went to the address of the user, or the token is
\* about to be disabled.
WentRight(m) ==
    LET u == tokens[m[2]].user
    IN  m[2] \in Enabled(u, "email") /\ u \notin Excused =>
           m[1] = user[u].email \/ Disabling(u, "email")

\* What activates a user vouches for the address that the user has.
Vouches(r) ==
    req[r].phase \in {"read_user", "activate"} /\ req[r].op # "link" /\ req[r].user \notin Excused =>
       req[r].email = user[req[r].user].email

\* The inductive invariant of ActivatedVerified.
VInv ==
    /\ ActivatedVerified
    /\ \A m \in inbox : WentRight(m)
    /\ \A r \in Request : Vouches(r)

\* The requests that are about to give their user address e.
SavingTo(e) == {r \in Request : At(r, "save_email") /\ req[r].email = e}

\* The users that have the address or are about to, and the requests that are
\* about to create one with it.
Owners(e) == Holders(e) \cup {req[r].user : r \in SavingTo(e)}

Inserting(e) == {r \in Request : At(r, "insert") /\ req[r].email = e}

\* The requests that are about to create a token for u of kind k.
Tokening(u, k) ==
    {r \in Request : /\ req[r].phase \in {"profile", "token"} /\ req[r].user = u
                     /\ KindOf(r) = k}

\* The inductive invariant of DuplicatesBounded.
DInv ==
    /\ IsFiniteSet(InFlight) /\ Cardinality(InFlight) <= Workers
    /\ \A e \in Email : IsFiniteSet(Owners(e)) /\ Cardinality(Owners(e)) + Cardinality(Inserting(e)) <= Workers
    /\ \A u \in User, k \in Kind : Cardinality(Enabled(u, k)) + Cardinality(Tokening(u, k)) <= Workers

\* u is to get a link of kind k ...
Wanted(u, k) == k = "email" => ~user[u].activated

\* ... at address e, ...
Right(u, k, e) == k = "email" => e = user[u].email

\* ... and will: a request is going to create a token, or has, ...
ComesBy(r, u, k) ==
    /\ req[r].phase \in {"disable", "token", "mail"} /\ req[r].user = u /\ KindOf(r) = k
    /\ \/ ~At(r, "mail") /\ req[r].op # "sign_up"
       \/ /\ At(r, "mail") /\ req[r].op # "sign_in"
          /\ Enabled(u, k) # {} /\ Right(u, k, req[r].seen.email)

\* ... or has had its mail put on the queue, ...
Queued(i, u, k) ==
    /\ mails[i].user = u /\ mails[i].kind = k /\ mails[i].link
    /\ Enabled(u, k) # {} /\ Right(u, k, mails[i].email)

\* ... or the mail was sent.
Received(u, k) == \E t \in Enabled(u, k), e \in Email : <<e, t>> \in inbox /\ Right(u, k, e)

Coming(u, k) ==
    \/ \E r \in Request : ComesBy(r, u, k)
    \/ \E i \in DOMAIN mails : Queued(i, u, k)
    \/ Received(u, k)

\* What holds for a request, unless a mail to its user was lost or the changes of
\* the address overlapped: it has the address of the user, and disables a token
\* that the user needs only if another request is about to disable them all.
Promises(r) ==
    LET q == req[r]
        u == q.user
    IN  q.phase \in Phase /\ u \notin lost \cup crossed =>
          /\ q.phase \in {"profile", "token"} /\ q.op = "sign_up" /\ Wanted(u, "email") =>
                q.seen.email = user[u].email \/ Coming(u, "email")
          /\ q.phase \in {"disable", "token", "mail"} /\ q.op \in {"change_email", "resend"} =>
                q.seen.email = user[u].email
          /\ q.phase = "disable_one" /\ q.token \in Enabled(u, "email") /\ Wanted(u, "email") =>
                Disabling(u, "email")

\* The inductive invariant of LinkDelivered.
LInv ==
    /\ \A u \in Users \ (lost \cup crossed), k \in Kind :
          Wanted(u, k) /\ (\E t \in DOMAIN tokens : tokens[t].user = u /\ tokens[t].kind = k) => Coming(u, k)
    /\ \A r \in Request : Promises(r)
-----------------------------------------------------------------------------
\* A request in one of the phases of Phase has all the fields of a Call.
LEMMA CallTyped ==
    ASSUME TypeOK, NEW r \in Request, req[r].phase \in Phase
    PROVE  req[r] \in Call
  BY DEF TypeOK, Call, NotMade, Done, Phase

\* A request is in flight when it is in one of the phases of Phase.
LEMMA InFlightPhase ==
    ASSUME TypeOK
    PROVE  InFlight = {r \in Request : req[r].phase \in Phase}
  BY DEF TypeOK, Call, NotMade, Done, Phase, InFlight

\* What putting a request in the state c does to it.
LEMMA PutTyped ==
    ASSUME TypeOK, NEW r \in Request, NEW c \in Call \cup {Done}, req' = [req EXCEPT ![r] = c]
    PROVE  /\ req' \in [Request -> Call \cup {NotMade, Done}]
           /\ req'[r] = c
           /\ \A q \in Request \ {r} : req'[q] = req[q]
  BY DEF TypeOK

\* What moving it on does.
LEMMA GotoTyped ==
    ASSUME TypeOK, NEW r \in Request, req[r].phase \in Phase, NEW phase \in Phase,
           Goto(r, phase)
    PROVE  /\ req' \in [Request -> Call \cup {NotMade, Done}]
           /\ req'[r] \in Call /\ req'[r].phase = phase
           /\ req'[r].op = req[r].op /\ req'[r].user = req[r].user
           /\ req'[r].seen = req[r].seen /\ req'[r].email = req[r].email
           /\ req'[r].provider = req[r].provider /\ req'[r].account = req[r].account
           /\ req'[r].token = req[r].token
           /\ \A q \in Request \ {r} : req'[q] = req[q]
  <1> DEFINE c == [req[r] EXCEPT !.phase = phase]
  <1>1. /\ c \in Call /\ c.phase = phase
        /\ c.op = req[r].op /\ c.user = req[r].user /\ c.seen = req[r].seen
        /\ c.email = req[r].email /\ c.provider = req[r].provider
        /\ c.account = req[r].account /\ c.token = req[r].token
    BY CallTyped DEF Call
  <1> HIDE DEF c
  <1>2. req' = [req EXCEPT ![r] = c]
    BY DEF Goto, c
  <1>3. QED
    BY <1>1, <1>2, PutTyped

\* A request about nobody has all the fields ...
LEMMA BlankTyped ==
    /\ Blank \in Call
    /\ Blank.phase = "check" /\ Blank.op = "sign_up" /\ Blank.user = None
  BY DEF Blank, Call, Phase, Op, Provider

\* ... and so has one about u that is made with the row of u as it is.
LEMMA AboutTyped ==
    ASSUME TypeOK, NEW u \in Users, NEW op \in Op, NEW phase \in Phase
    PROVE  /\ About(u, op, phase) \in Call /\ user[u] \in Row
           /\ About(u, op, phase).phase = phase /\ About(u, op, phase).op = op
           /\ About(u, op, phase).user = u /\ About(u, op, phase).seen = user[u]
  <1>1. u \in User /\ user[u] \in Row
    BY DEF Users, TypeOK
  <1>2. About(u, op, phase) \in Call
    BY <1>1, BlankTyped DEF About, Call
  <1>3. QED
    BY <1>1, <1>2 DEF About, Blank

\* What is left of the invariant to show when a step changes one request, creates
\* no more than users, tokens and mails, and keeps what tokens are about.
LEMMA TInvKept ==
    ASSUME TInv, TypeOK', NEW r \in Request,
           \A q \in Request \ {r} : req'[q] = req[q],
           req'[r].phase \in Phase => FieldsOK(req'[r], tokens) /\ req'[r].user \in Users' \cup {None},
           Users \subseteq Users',
           \A t \in DOMAIN tokens : /\ t \in DOMAIN tokens' /\ tokens'[t].user = tokens[t].user
                                    /\ tokens'[t].kind = tokens[t].kind,
           \A t \in DOMAIN tokens' : tokens'[t].user \in Users',
           \A i \in DOMAIN mails' : mails'[i].user \in Users'
    PROVE  TInv'
  <1>1. ASSUME NEW q \in Request \ {r}, req'[q].phase \in Phase
        PROVE  FieldsOK(req'[q], tokens') /\ req'[q].user \in Users' \cup {None}
    BY <1>1 DEF TInv, FieldsOK
  <1>2. req'[r].phase \in Phase => FieldsOK(req'[r], tokens') /\ req'[r].user \in Users' \cup {None}
    BY DEF FieldsOK
  <1>3. QED
    BY <1>1, <1>2 DEF TInv

LEMMA InitTInv == Init => TInv
  <1> SUFFICES ASSUME Init PROVE TInv
    OBVIOUS
  <1> USE AccountsAssumption
  <1>1. PICK a \in Account, has \in {"none", "password", "links"} :
          /\ user = [u \in User |->
               IF u = Founder /\ has # "none"
               THEN [email |-> EmailOf[a], activated |-> TRUE, active |-> TRUE,
                     password |-> has = "password", profile |-> TRUE]
               ELSE None]
          /\ linked = [p \in Provider |-> [u \in User |->
               IF u = Founder /\ has = "links" THEN a ELSE None]]
          /\ proved = IF has = "none" THEN {} ELSE {<<Founder, EmailOf[a]>>}
    BY DEF Init
  <1>2. EmailOf[a] \in Email
    OBVIOUS
  <1>3. [email |-> EmailOf[a], activated |-> TRUE, active |-> TRUE,
         password |-> has = "password", profile |-> TRUE] \in Row
    BY <1>2 DEF Row
  <1>4. user \in [User -> Row \cup {None}]
    BY <1>1, <1>3
  <1>5. linked \in [Provider -> [User -> Account \cup {None}]]
    BY <1>1
  <1>6. tokens = << >> /\ mails = << >> /\ inbox = {} /\ req = [r \in Request |-> NotMade]
    BY DEF Init
  <1>7. tokens \in Seq(Token) /\ mails \in Seq(Mail) /\ DOMAIN tokens = {} /\ DOMAIN mails = {}
    BY <1>6, EmptySeq
  <1>8. \A r \in Request : req[r].phase \notin Phase
    BY <1>6 DEF NotMade, Phase
  <1>9. TypeOK
    <2>1. req \in [Request -> Call \cup {NotMade, Done}]
      BY <1>6
    <2>2. proved \cup assumed \subseteq User \X Email
      BY <1>1, <1>2 DEF Init
    <2>3. QED
      BY <2>1, <2>2, <1>4, <1>5, <1>6, <1>7 DEF Init, TypeOK
  <1>10. QED
    BY <1>7, <1>8, <1>9 DEF TInv
-----------------------------------------------------------------------------
\* Starting a request changes that request, c, and takes note of a race.
Started(r, c) ==
    /\ req[r] = NotMade /\ Cardinality(InFlight) < Workers
    /\ req' = [req EXCEPT ![r] = c]
    /\ FieldsOK(c, tokens) /\ c.user \in Users \cup {None}
    /\ c.phase \in {"check", "find", "owner", "save_email", "disable", "read_user",
                    "password", "deactivate"}
    /\ c.phase \in {"owner", "disable"} => c.seen = user[c.user]
    /\ c.phase = "save_email" => Free(c.email, {c.user})
    /\ c.phase = "read_user" => <<c.email, c.token>> \in inbox /\ c.token \in Enabled(c.user, "email")
    /\ overtaken' = IF c.phase = "read_user" /\ \E q \in Others(r, c.user) : At(q, "disable")
                    THEN overtaken \cup {c.user} ELSE overtaken
    /\ UNCHANGED <<mix, user, linked, tokens, mails, inbox, proved, assumed, crossed, misdirected, lost, stripped>>

LEMMA StartDoes ==
    ASSUME TInv, NEW r \in Request, Start(r)
    PROVE  \E c \in Call : Started(r, c)
  <1> USE AccountsAssumption
  <1>0. TypeOK
    BY DEF TInv
  <1>a. \A t \in DOMAIN tokens : tokens[t] \in Token /\ tokens[t].user \in Users /\ t \in Nat
    <2>1. tokens \in Seq(Token)
      BY <1>0 DEF TypeOK
    <2>2. QED
      BY <2>1, ElementOfSeq, LenProperties DEF TInv
  \* A request that Arrives and of which no race is noted.
  <1>b. ASSUME NEW op \in Op, Arrives(r, op), NEW c \in Call, c.op = op, c.op # "verify",
               req' = [req EXCEPT ![r] = c], FieldsOK(c, tokens), c.user \in Users \cup {None},
               c.phase \in {"check", "find", "owner", "save_email", "disable", "password", "deactivate"},
               c.phase \in {"owner", "disable"} => c.seen = user[c.user],
               c.phase = "save_email" => Free(c.email, {c.user}),
               UNCHANGED <<mix, user, linked, tokens, mails, inbox, history>>
        PROVE  Started(r, c)
    BY <1>b DEF Started, Arrives, history
  <1>1. ASSUME NEW e \in Email, SignUp(r, e) PROVE \E c \in Call : Started(r, c)
    <2> DEFINE c == [Blank EXCEPT !.email = e]
    <2>1. /\ c \in Call /\ c.email = e /\ c.phase = "check" /\ c.op = "sign_up" /\ c.user = None
      BY BlankTyped DEF Call
    <2>2. req' = [req EXCEPT ![r] = c] /\ Arrives(r, "sign_up")
      BY <1>1 DEF SignUp
    <2> HIDE DEF c
    <2>3. FieldsOK(c, tokens)
      BY <2>1 DEF FieldsOK, OpsAt
    <2>4. Started(r, c)
      BY <2>1, <2>2, <2>3, <1>b, <1>1 DEF SignUp, Op
    <2>5. QED
      BY <2>1, <2>4
  <1>2. ASSUME NEW p \in Provider, NEW a \in Account, SignIn(r, p, a)
        PROVE  \E c \in Call : Started(r, c)
    <2> DEFINE c == [Blank EXCEPT !.op = "sign_in", !.phase = "find", !.email = EmailOf[a],
                                  !.provider = p, !.account = a]
    <2>1. /\ c \in Call /\ c.email = EmailOf[a] /\ c.phase = "find" /\ c.op = "sign_in" /\ c.user = None
          /\ c.account = a
      BY ZenonT(60), BlankTyped DEF Call, Op, Phase
    <2>2. req' = [req EXCEPT ![r] = c] /\ Arrives(r, "sign_in")
      BY <1>2 DEF SignIn
    <2> HIDE DEF c
    <2>3. FieldsOK(c, tokens)
      BY <2>1 DEF FieldsOK, OpsAt
    <2>4. Started(r, c)
      BY <2>1, <2>2, <2>3, <1>b, <1>2 DEF SignIn, Op
    <2>5. QED
      BY <2>1, <2>4
  <1>3. ASSUME NEW p \in Provider, NEW a \in Account, NEW u \in User, Link(r, u, p, a)
        PROVE  \E c \in Call : Started(r, c)
    <2> DEFINE b == About(u, "link", "owner")
               c == [b EXCEPT !.provider = p, !.account = a]
    <2>0. u \in Users /\ "link" \in Op /\ "owner" \in Phase
      BY <1>3 DEF Link, Op, Phase
    <2>1. /\ b \in Call /\ b.phase = "owner" /\ b.op = "link" /\ b.user = u /\ b.seen = user[u]
          /\ user[u] \in Row
      BY <2>0, <1>0, AboutTyped
    <2>2. req' = [req EXCEPT ![r] = c] /\ Arrives(r, "link")
      BY <1>3 DEF Link
    <2> HIDE DEF b
    <2>3. /\ c \in Call /\ c.phase = "owner" /\ c.op = "link" /\ c.user = u /\ c.seen = user[u]
          /\ c.account = a
      BY <2>1 DEF Call
    <2> HIDE DEF c
    <2>4. FieldsOK(c, tokens)
      BY <2>1, <2>3 DEF FieldsOK, OpsAt
    <2>5. Started(r, c)
      BY <2>0, <2>2, <2>3, <2>4, <1>b, <1>3 DEF Link
    <2>6. QED
      BY <2>3, <2>5
  <1>4. ASSUME NEW u \in User, NEW p \in Provider, Unlink(r, u, p)
        PROVE  \E c \in Call : Started(r, c)
    <2> DEFINE b == About(u, "unlink", "owner")
               c == [b EXCEPT !.provider = p]
    <2>0. u \in Users /\ "unlink" \in Op /\ "owner" \in Phase
      BY <1>4 DEF Unlink, Op, Phase
    <2>1. /\ b \in Call /\ b.phase = "owner" /\ b.op = "unlink" /\ b.user = u /\ b.seen = user[u]
          /\ user[u] \in Row
      BY <2>0, <1>0, AboutTyped
    <2>2. req' = [req EXCEPT ![r] = c] /\ Arrives(r, "unlink")
      BY <1>4 DEF Unlink
    <2> HIDE DEF b
    <2>3. /\ c \in Call /\ c.phase = "owner" /\ c.op = "unlink" /\ c.user = u /\ c.seen = user[u]
      BY <2>1 DEF Call
    <2> HIDE DEF c
    <2>4. FieldsOK(c, tokens)
      BY <2>1, <2>3 DEF FieldsOK, OpsAt
    <2>5. Started(r, c)
      BY <2>0, <2>2, <2>3, <2>4, <1>b, <1>4 DEF Unlink
    <2>6. QED
      BY <2>3, <2>5
  <1>5. ASSUME NEW u \in User, NEW e \in Email, ChangeEmail(r, u, e)
        PROVE  \E c \in Call : Started(r, c)
    <2> DEFINE b == About(u, "change_email", "save_email")
               c == [b EXCEPT !.email = e]
    <2>0. u \in Users /\ "change_email" \in Op /\ "save_email" \in Phase
      BY <1>5 DEF ChangeEmail, Op, Phase
    <2>1. /\ b \in Call /\ b.phase = "save_email" /\ b.op = "change_email" /\ b.user = u
          /\ b.seen = user[u] /\ user[u] \in Row
      BY <2>0, <1>0, AboutTyped
    <2>2. req' = [req EXCEPT ![r] = c] /\ Arrives(r, "change_email") /\ Free(e, {u})
      BY <1>5 DEF ChangeEmail
    <2> HIDE DEF b
    <2>3. /\ c \in Call /\ c.phase = "save_email" /\ c.op = "change_email" /\ c.user = u
          /\ c.seen = user[u] /\ c.email = e
      BY <2>1 DEF Call
    <2> HIDE DEF c
    <2>4. FieldsOK(c, tokens)
      BY <2>1, <2>3 DEF FieldsOK, OpsAt
    <2>5. Started(r, c)
      BY <2>0, <2>2, <2>3, <2>4, <1>b, <1>5 DEF ChangeEmail
    <2>6. QED
      BY <2>3, <2>5
  <1>6. ASSUME NEW u \in User, NEW e \in Email \cup {None}, Resend(r, u, e)
        PROVE  \E c \in Call : Started(r, c)
    <2> DEFINE phase == IF e = None THEN "disable" ELSE "save_email"
               b == About(u, "resend", phase)
               c == [b EXCEPT !.email = e]
    <2>0. u \in Users /\ "resend" \in Op /\ phase \in Phase /\ phase \in {"disable", "save_email"}
          /\ (phase = "save_email" => e \in Email) /\ ~user[u].activated
      BY <1>6 DEF Resend, Op, Phase
    <2>1. /\ b \in Call /\ b.phase = phase /\ b.op = "resend" /\ b.user = u
          /\ b.seen = user[u] /\ user[u] \in Row
      BY <2>0, <1>0, AboutTyped
    <2>2. req' = [req EXCEPT ![r] = c] /\ Arrives(r, "resend") /\ (phase = "save_email" => Free(e, {u}))
      BY <1>6 DEF Resend
    <2> HIDE DEF b, phase
    <2>3. /\ c \in Call /\ c.phase = phase /\ c.op = "resend" /\ c.user = u
          /\ c.seen = user[u] /\ c.email = e
      BY <2>1 DEF Call
    <2> HIDE DEF c
    <2>4. FieldsOK(c, tokens)
      BY <2>0, <2>1, <2>3 DEF FieldsOK, OpsAt
    <2>5. Started(r, c)
      BY <2>0, <2>2, <2>3, <2>4, <1>b, <1>6 DEF Resend
    <2>6. QED
      BY <2>3, <2>5
  <1>7. ASSUME NEW e \in Email, NEW t \in DOMAIN tokens, Verify(r, e, t)
        PROVE  \E c \in Call : Started(r, c)
    <2> DEFINE c == [Blank EXCEPT !.op = "verify", !.phase = "read_user", !.user = tokens[t].user,
                                  !.email = e, !.token = t]
    <2>0. tokens[t].user \in Users /\ tokens[t].user \in User /\ t \in Nat
      BY <1>a DEF Users
    <2>1. /\ c \in Call /\ c.email = e /\ c.phase = "read_user" /\ c.op = "verify"
          /\ c.user = tokens[t].user /\ c.token = t
      BY <2>0, BlankTyped DEF Call, Op, Phase
    <2>2. req' = [req EXCEPT ![r] = c] /\ Arrives(r, "verify")
      BY <1>7 DEF Verify
    <2> HIDE DEF c
    <2>3. FieldsOK(c, tokens)
      BY <2>0, <2>1, <1>7 DEF FieldsOK, OpsAt, Verify
    <2>4. <<c.email, c.token>> \in inbox /\ c.token \in Enabled(c.user, "email")
      BY <2>1, <1>7 DEF Verify, Enabled
    <2>5. overtaken' = IF \E q \in Others(r, c.user) : At(q, "disable")
                       THEN overtaken \cup {c.user} ELSE overtaken
      BY <2>1, <1>7 DEF Verify
    <2>6. Started(r, c)
      BY <2>0, <2>1, <2>2, <2>3, <2>4, <2>5, <1>7 DEF Verify, Started, Arrives
    <2>7. QED
      BY <2>1, <2>6
  <1>8. ASSUME NEW u \in Users, NEW op \in {"reset", "set_password", "change_password", "deactivate"},
               NEW phase \in {"disable", "password", "deactivate"}, op \in OpsAt(phase),
               Arrives(r, op), req' = [req EXCEPT ![r] = About(u, op, phase)],
               UNCHANGED <<mix, user, linked, tokens, mails, inbox, history>>
        PROVE  \E c \in Call : Started(r, c)
    <2> DEFINE c == About(u, op, phase)
    <2>0. op \in Op /\ phase \in Phase /\ u \in User
      BY DEF Op, Phase, Users
    <2>1. /\ c \in Call /\ c.phase = phase /\ c.op = op /\ c.user = u
          /\ c.seen = user[u] /\ user[u] \in Row
      BY <2>0, <1>0, AboutTyped
    <2> HIDE DEF c
    <2>2. FieldsOK(c, tokens)
      BY <2>0, <2>1, <1>8 DEF FieldsOK
    <2>3. req' = [req EXCEPT ![r] = c]
      BY <1>8 DEF c
    <2>4. Started(r, c)
      BY <2>0, <2>1, <2>2, <2>3, <1>b, <1>8
    <2>5. QED
      BY <2>1, <2>4
  <1>9. ASSUME NEW t \in DOMAIN tokens, SetPassword(r, t) PROVE \E c \in Call : Started(r, c)
    BY <1>9, <1>8, <1>a DEF SetPassword, OpsAt
  <1>10. ASSUME NEW u \in User, ResetPassword(r, u) \/ ChangePassword(r, u) \/ Deactivate(r, u)
         PROVE  \E c \in Call : Started(r, c)
    <2>1. u \in Users
      BY <1>10 DEF ResetPassword, ChangePassword, Deactivate
    <2>2. CASE ResetPassword(r, u)
      BY <2>1, <2>2, <1>8 DEF ResetPassword, OpsAt
    <2>3. CASE ChangePassword(r, u)
      BY <2>1, <2>3, <1>8 DEF ChangePassword, OpsAt
    <2>4. CASE Deactivate(r, u)
      BY <2>1, <2>4, <1>8 DEF Deactivate, OpsAt
    <2>5. QED
      BY <1>10, <2>2, <2>3, <2>4
  <1>11. QED
    BY <1>1, <1>2, <1>3, <1>4, <1>5, <1>6, <1>7, <1>9, <1>10 DEF Start
-----------------------------------------------------------------------------
\* The fields that a step leaves alone in the request that it puts in state c.
SameRequest(r, c) ==
    /\ c.op = req[r].op /\ c.email = req[r].email /\ c.provider = req[r].provider
    /\ c.account = req[r].account /\ c.token = req[r].token

\* The steps that do more to the request than move it on: FindByEmail ...
LEMMA FindDoes ==
    ASSUME TInv, NEW r \in Request, FindByEmail(r)
    PROVE  \/ Goto(r, "check")
           \/ Finish(r)
           \/ \E u \in Users, c \in Call :
                 /\ user[u].email = req[r].email /\ user[u] \in Row
                 /\ req' = [req EXCEPT ![r] = c] /\ SameRequest(r, c)
                 /\ c.user = u /\ c.seen = user[u]
                 /\ c.phase = IF user[u].activated THEN "create_link" ELSE "activate"
  <1>1. req[r] \in Call
    BY ZenonT(60), CallTyped DEF TInv, FindByEmail, At, Phase
  <1>2. SUFFICES ASSUME NEW u \in Holders(req[r].email),
                        req' = [req EXCEPT ![r].user = u, ![r].seen = user[u],
                                  ![r].phase = IF user[u].activated THEN "create_link" ELSE "activate"]
                 PROVE  \E c \in Call :
                          /\ user[u].email = req[r].email /\ user[u] \in Row
                          /\ req' = [req EXCEPT ![r] = c] /\ SameRequest(r, c)
                          /\ c.user = u /\ c.seen = user[u]
                          /\ c.phase = IF user[u].activated THEN "create_link" ELSE "activate"
    BY DEF FindByEmail, Holders
  <1> DEFINE ph == IF user[u].activated THEN "create_link" ELSE "activate"
             c == [req[r] EXCEPT !.user = u, !.seen = user[u], !.phase = ph]
  <1>3. u \in User /\ user[u] \in Row /\ user[u].email = req[r].email /\ ph \in Phase
    BY DEF Holders, Users, TInv, TypeOK, Phase
  <1>4. req' = [req EXCEPT ![r] = c]
    BY <1>1, <1>2 DEF TInv, TypeOK
  <1> HIDE DEF ph
  <1>5. c \in Call /\ SameRequest(r, c) /\ c.user = u /\ c.seen = user[u] /\ c.phase = ph
    BY <1>1, <1>3 DEF Call, SameRequest
  <1>6. QED
    BY <1>3, <1>4, <1>5 DEF ph

\* ... InsertUser, ...
LEMMA InsertDoes ==
    ASSUME TInv, NEW r \in Request, InsertUser(r)
    PROVE  \E u \in User \ Users, row \in Row, c \in Call :
              /\ req[r].phase = "insert" /\ req[r].op \in {"sign_up", "sign_in"}
              /\ row.email = req[r].email /\ row.activated = (req[r].op = "sign_in")
              /\ row.password = (req[r].op = "sign_up")
              /\ user' = [user EXCEPT ![u] = row]
              /\ req' = [req EXCEPT ![r] = c] /\ SameRequest(r, c)
              /\ c.user = u /\ c.seen = row /\ c.phase = "profile"
              /\ proved' = IF req[r].op = "sign_up" THEN proved ELSE proved \cup {<<u, req[r].email>>}
              /\ UNCHANGED <<mix, linked, tokens, mails, inbox, assumed, overtaken, crossed, misdirected, lost, stripped>>
  <1>1. /\ req[r] \in Call /\ req[r].phase = "insert" /\ req[r].email \in Email
        /\ req[r].op \in {"sign_up", "sign_in"}
    BY CallTyped DEF TInv, InsertUser, At, Phase, FieldsOK, OpsAt
  <1> DEFINE bySignUp == req[r].op = "sign_up"
             row == [email |-> req[r].email, activated |-> ~bySignUp, active |-> TRUE,
                     password |-> bySignUp, profile |-> FALSE]
  <1>2. row \in Row /\ row.email = req[r].email /\ row.activated = ~bySignUp /\ row.password = bySignUp
    BY <1>1 DEF Row
  <1>3. PICK u \in User \ Users :
              /\ user' = [user EXCEPT ![u] = row]
              /\ req' = [req EXCEPT ![r].phase = "profile", ![r].user = u, ![r].seen = row]
              /\ proved' = IF bySignUp THEN proved ELSE proved \cup {<<u, req[r].email>>}
    BY DEF InsertUser
  <1> HIDE DEF row
  <1> DEFINE c == [req[r] EXCEPT !.phase = "profile", !.user = u, !.seen = row]
  <1>4. req' = [req EXCEPT ![r] = c]
    BY <1>1, <1>3 DEF TInv, TypeOK
  <1>5. c \in Call /\ SameRequest(r, c) /\ c.user = u /\ c.seen = row /\ c.phase = "profile"
    BY <1>1, <1>2 DEF Call, SameRequest, Phase
  <1> HIDE DEF c
  <1>6. /\ user' = [user EXCEPT ![u] = row]
        /\ proved' = IF bySignUp THEN proved ELSE proved \cup {<<u, req[r].email>>}
        /\ UNCHANGED <<mix, linked, tokens, mails, inbox, assumed, overtaken, crossed, misdirected, lost, stripped>>
    BY <1>3 DEF InsertUser
  <1>7. QED
    BY <1>1, <1>2, <1>4, <1>5, <1>6

\* ... SaveEmail ...
LEMMA SaveDoes ==
    ASSUME TInv, NEW r \in Request, SaveEmail(r)
    PROVE  \E c \in Call :
              LET u == req[r].user  e == req[r].email
              IN  /\ u \in Users /\ e \in Email /\ req[r].op \in {"change_email", "resend"}
                  /\ user'[u] \in Row /\ user'[u].email = e /\ ~user'[u].activated
                  /\ user'[u].active = user[u].active /\ user'[u].password = user[u].password
                  /\ user' = [user EXCEPT ![u] = user'[u]]
                  /\ req' = [req EXCEPT ![r] = c] /\ SameRequest(r, c)
                  /\ c.user = u /\ c.seen \in Row /\ c.seen.email = e /\ ~c.seen.activated
                  /\ c.phase = "disable"
  <1>1. /\ req[r] \in Call /\ req[r].phase = "save_email" /\ req[r].email \in Email
        /\ req[r].op \in {"change_email", "resend"} /\ req[r].user \in User /\ req[r].user \in Users
        /\ req[r].seen \in Row
    BY CallTyped, AccountsAssumption DEF TInv, SaveEmail, At, Phase, FieldsOK, OpsAt
  <1> DEFINE u == req[r].user
             e == req[r].email
             row == Readdressed(user[u], e)
             seen == Readdressed(req[r].seen, e)
             c == [req[r] EXCEPT !.phase = "disable", !.seen = seen]
  <1>2. user \in [User -> Row \cup {None}] /\ user[u] \in Row
    BY <1>1 DEF TInv, TypeOK, Users
  <1>3. /\ row \in Row /\ row.email = e /\ ~row.activated
        /\ row.active = user[u].active /\ row.password = user[u].password
        /\ seen \in Row /\ seen.email = e /\ ~seen.activated
    BY <1>1, <1>2 DEF Readdressed, Row
  <1>4. user' = [user EXCEPT ![u] = row]
    BY DEF SaveEmail
  <1>5. req' = [req EXCEPT ![r] = c]
    BY <1>1 DEF SaveEmail, TInv, TypeOK
  <1> HIDE DEF row, seen
  <1>6. c \in Call /\ SameRequest(r, c) /\ c.user = u /\ c.seen = seen /\ c.phase = "disable"
    BY <1>1, <1>3 DEF Call, SameRequest, Phase
  <1> HIDE DEF c
  <1>7. user'[u] = row
    BY <1>1, <1>2, <1>4
  <1>8. QED
    BY <1>1, <1>3, <1>4, <1>5, <1>6, <1>7

\* ... and ReadUser.
LEMMA ReadDoes ==
    ASSUME TInv, NEW r \in Request, ReadUser(r)
    PROVE  \/ Finish(r)
           \/ \E c \in Call :
                 LET u == req[r].user
                 IN  /\ u \in Users /\ user[u] \in Row /\ req[r].op = "verify"
                     /\ req' = [req EXCEPT ![r] = c] /\ SameRequest(r, c)
                     /\ c.user = u /\ c.seen = user[u]
                     /\ c.phase = IF user[u].activated THEN "disable_one" ELSE "activate"
  <1>1. /\ req[r] \in Call /\ req[r].phase = "read_user" /\ req[r].op = "verify"
        /\ req[r].user \in User /\ req[r].user \in Users
    BY CallTyped, AccountsAssumption DEF TInv, ReadUser, At, Phase, FieldsOK, OpsAt
  <1> DEFINE u == req[r].user
             ph == IF user[u].activated THEN "disable_one" ELSE "activate"
             c == [req[r] EXCEPT !.seen = user[u], !.phase = ph]
  <1>2. user[u] \in Row /\ ph \in Phase
    BY <1>1 DEF TInv, TypeOK, Users, Phase
  <1>3. Finish(r) \/ req' = [req EXCEPT ![r] = c]
    BY <1>1 DEF ReadUser, TInv, TypeOK
  <1> HIDE DEF ph
  <1>4. c \in Call /\ SameRequest(r, c) /\ c.user = u /\ c.seen = user[u] /\ c.phase = ph
    BY <1>1, <1>2 DEF Call, SameRequest
  <1> HIDE DEF c
  <1>5. QED
    BY <1>1, <1>2, <1>3, <1>4 DEF ph

\* A row is written: of u, who may have had none.
LEMMA WriteTyped ==
    ASSUME TypeOK, NEW u \in User, NEW row \in Row, user' = [user EXCEPT ![u] = row]
    PROVE  /\ user' \in [User -> Row \cup {None}] /\ user'[u] = row
           /\ \A v \in User \ {u} : user'[v] = user[v]
           /\ Users' = Users \cup {u}
  BY AccountsAssumption DEF TypeOK, Users

\* A column of the row of u is written: the profile is created, the account
\* activated, the password set or the account deactivated.
LEMMA ColumnTyped ==
    ASSUME TypeOK, NEW u \in Users,
           \/ user' = [user EXCEPT ![u].profile = TRUE]
           \/ user' = [user EXCEPT ![u].activated = TRUE]
           \/ user' = [user EXCEPT ![u].password = TRUE]
           \/ user' = [user EXCEPT ![u].active = FALSE]
    PROVE  /\ user' \in [User -> Row \cup {None}] /\ user[u] \in Row /\ user'[u] \in Row
           /\ user'[u].email = user[u].email
           /\ user[u].password => user'[u].password
           /\ user[u].activated => user'[u].activated
           /\ \/ user' = [user EXCEPT ![u].profile = TRUE]
              \/ user' = [user EXCEPT ![u].password = TRUE]
              \/ user' = [user EXCEPT ![u].active = FALSE]
              => user'[u].activated = user[u].activated
           /\ \A v \in User \ {u} : user'[v] = user[v]
           /\ Users' = Users
  <1>1. u \in User /\ user[u] \in Row /\ user \in [User -> Row \cup {None}]
    BY DEF Users, TypeOK
  <1>2. ASSUME NEW row \in Row, user' = [user EXCEPT ![u] = row]
        PROVE  /\ user' \in [User -> Row \cup {None}] /\ user'[u] = row
               /\ \A v \in User \ {u} : user'[v] = user[v]
               /\ Users' = Users
    <2>1. /\ user' \in [User -> Row \cup {None}] /\ user'[u] = row
          /\ \A v \in User \ {u} : user'[v] = user[v]
          /\ Users' = Users \cup {u}
      BY ONLY TypeOK, <1>1, <1>2, WriteTyped
    <2>2. QED
      BY <2>1
  <1>b. \/ user' = [user EXCEPT ![u].profile = TRUE]
        \/ user' = [user EXCEPT ![u].password = TRUE]
        \/ user' = [user EXCEPT ![u].active = FALSE]
        => user'[u].activated = user[u].activated
    <2>1. /\ [user[u] EXCEPT !.profile = TRUE].activated = user[u].activated
          /\ [user[u] EXCEPT !.password = TRUE].activated = user[u].activated
          /\ [user[u] EXCEPT !.active = FALSE].activated = user[u].activated
      BY <1>1 DEF Row
    <2>2. QED
      BY <1>1, <2>1
  <1>3. CASE user' = [user EXCEPT ![u].profile = TRUE]
    <2> DEFINE row == [user[u] EXCEPT !.profile = TRUE]
    <2>1. /\ row \in Row /\ row.email = user[u].email /\ row.password = user[u].password
          /\ row.activated = user[u].activated
      BY <1>1 DEF Row
    <2>2. user' = [user EXCEPT ![u] = row]
      BY <1>3
    <2> HIDE DEF row
    <2>3. QED
      BY <1>1, <1>2, <1>b, <2>1, <2>2
  <1>4. CASE user' = [user EXCEPT ![u].activated = TRUE]
    <2> DEFINE row == [user[u] EXCEPT !.activated = TRUE]
    <2>1. /\ row \in Row /\ row.email = user[u].email /\ row.password = user[u].password
          /\ row.activated
      BY <1>1 DEF Row
    <2>2. user' = [user EXCEPT ![u] = row]
      BY <1>4
    <2> HIDE DEF row
    <2>3. QED
      BY <1>1, <1>2, <1>4, <1>b, <2>1, <2>2
  <1>5. CASE user' = [user EXCEPT ![u].password = TRUE]
    <2> DEFINE row == [user[u] EXCEPT !.password = TRUE]
    <2>1. /\ row \in Row /\ row.email = user[u].email /\ row.password
          /\ row.activated = user[u].activated
      BY <1>1 DEF Row
    <2>2. user' = [user EXCEPT ![u] = row]
      BY <1>5
    <2> HIDE DEF row
    <2>3. QED
      BY <1>1, <1>2, <1>b, <2>1, <2>2
  <1>6. CASE user' = [user EXCEPT ![u].active = FALSE]
    <2> DEFINE row == [user[u] EXCEPT !.active = FALSE]
    <2>1. /\ row \in Row /\ row.email = user[u].email /\ row.password = user[u].password
          /\ row.activated = user[u].activated
      BY <1>1 DEF Row
    <2>2. user' = [user EXCEPT ![u] = row]
      BY SMTT(30), <1>6
    <2> HIDE DEF row
    <2>3. QED
      BY <1>1, <1>2, <1>b, <2>1, <2>2
  <1>7. QED
    BY <1>3, <1>4, <1>5, <1>6

\* Steps change the requests one at a time.
LEMMA OthersKept ==
    ASSUME TypeOK, NEW r \in Request, Handle(r) \/ Abort(r)
    PROVE  \A q \in Request \ {r} : req'[q] = req[q]
  BY DEF TypeOK, Handle, Abort, Goto, Finish, FindByEmail, CheckEmail, InsertUser, CreateProfile,
         CreateToken, EnqueueMail, Activate, CreateLink, CheckLinks, DeleteLink, SaveEmail,
         DisableTokens, ReadUser, DisableToken, SavePassword, SaveInactive

\* What a request that is about a user knows of it.
LEMMA UserOf ==
    ASSUME TInv, NEW r \in Request, req[r].phase \in Phase \ {"check", "insert", "find"}
    PROVE  /\ req[r] \in Call /\ req[r].user \in Users /\ req[r].user \in User
           /\ user[req[r].user] \in Row
           /\ req[r].phase # "read_user" => req[r].seen \in Row
  <1>1. req[r].user \in User /\ req[r].user \in Users /\ (req[r].phase # "read_user" => req[r].seen \in Row)
    BY AccountsAssumption DEF TInv, FieldsOK
  <1>2. QED
    BY <1>1, CallTyped DEF TInv, TypeOK, Users

\* Tokens and mails have numbers.
LEMMA TokenTyped ==
    ASSUME TypeOK
    PROVE  /\ \A t \in DOMAIN tokens : t \in Nat \ {0} /\ tokens[t] \in Token
           /\ \A i \in DOMAIN mails : mails[i] \in Mail
           /\ Len(tokens) \in Nat /\ DOMAIN tokens = 1..Len(tokens)
           /\ Len(mails) \in Nat /\ DOMAIN mails = 1..Len(mails)
  <1>1. tokens \in Seq(Token) /\ mails \in Seq(Mail)
    BY DEF TypeOK
  <1>2. QED
    BY <1>1, ElementOfSeq, LenProperties

\* What adding a token does.
LEMMA TokenAdded ==
    ASSUME TypeOK, NEW r \in Request, CreateToken(r), req[r].user \in User
    PROVE  LET new == Len(tokens) + 1
           IN  /\ tokens' \in Seq(Token) /\ DOMAIN tokens' = DOMAIN tokens \cup {new}
               /\ new \notin DOMAIN tokens
               /\ \A t \in DOMAIN tokens : tokens'[t] = tokens[t]
               /\ tokens'[new].user = req[r].user /\ tokens'[new].kind = KindOf(r)
               /\ ~tokens'[new].disabled
  <1> DEFINE x == [user |-> req[r].user, kind |-> KindOf(r), disabled |-> FALSE]
  <1>1. x \in Token /\ x.user = req[r].user /\ x.kind = KindOf(r) /\ ~x.disabled
    BY DEF Token, KindOf, Kind
  <1>2. tokens' = Append(tokens, x)
    BY DEF CreateToken
  <1> HIDE DEF x
  <1>3. tokens \in Seq(Token)
    BY DEF TypeOK
  <1>4. /\ tokens' \in Seq(Token) /\ Len(tokens') = Len(tokens) + 1
        /\ \A t \in 1..Len(tokens) : tokens'[t] = tokens[t]
        /\ tokens'[Len(tokens) + 1] = x
    BY <1>1, <1>2, <1>3, AppendProperties
  <1>5. DOMAIN tokens' = 1..(Len(tokens) + 1) /\ DOMAIN tokens = 1..Len(tokens) /\ Len(tokens) \in Nat
    BY <1>3, <1>4, LenProperties
  <1>6. QED
    BY <1>1, <1>4, <1>5

\* What disabling tokens does.
LEMMA TokensDisabled ==
    ASSUME TypeOK, NEW S \in SUBSET DOMAIN tokens,
           tokens' = [t \in DOMAIN tokens |->
              IF t \in S THEN [tokens[t] EXCEPT !.disabled = TRUE] ELSE tokens[t]]
    PROVE  /\ tokens' \in Seq(Token) /\ DOMAIN tokens' = DOMAIN tokens
           /\ \A t \in DOMAIN tokens : /\ tokens'[t].user = tokens[t].user /\ tokens'[t].kind = tokens[t].kind
                                       /\ tokens'[t].disabled = (tokens[t].disabled \/ t \in S)
           /\ \A u \in User, k \in Kind : Enabled(u, k)' = Enabled(u, k) \ S
  <1>1. ASSUME NEW x \in Token
        PROVE  LET y == [x EXCEPT !.disabled = TRUE]
               IN  y \in Token /\ y.user = x.user /\ y.kind = x.kind /\ y.disabled
    BY DEF Token
  <1>2. \A t \in DOMAIN tokens : /\ tokens[t] \in Token /\ tokens'[t] \in Token
                                 /\ tokens'[t].user = tokens[t].user /\ tokens'[t].kind = tokens[t].kind
                                 /\ tokens'[t].disabled = (tokens[t].disabled \/ t \in S)
    BY <1>1, TokenTyped DEF Token
  <1>3. DOMAIN tokens' = DOMAIN tokens /\ DOMAIN tokens = 1..Len(tokens) /\ Len(tokens) \in Nat
    BY TokenTyped
  <1>4. tokens' \in [1..Len(tokens) -> Token]
    BY <1>2, <1>3
  <1>5. tokens' \in Seq(Token)
    BY <1>3, <1>4
  <1>6. QED
    BY <1>2, <1>3, <1>5 DEF Enabled
-----------------------------------------------------------------------------
\* Every step keeps the state well typed.
LEMMA StepTInv == TInv /\ [Next]_vars => TInv'
  <1> SUFFICES ASSUME TInv, [Next]_vars PROVE TInv'
    OBVIOUS
  <1> USE AccountsAssumption
  <1>0. TypeOK
    BY DEF TInv
  <1>1. CASE UNCHANGED vars
    BY <1>1 DEF vars, history, TInv, TypeOK, Users
  <1>2. ASSUME NEW r \in Request, Start(r) PROVE TInv'
    <2>1. PICK c \in Call : Started(r, c)
      BY <1>2, StartDoes
    <2>2. /\ req' \in [Request -> Call \cup {NotMade, Done}] /\ req'[r] = c
          /\ \A q \in Request \ {r} : req'[q] = req[q]
      BY <2>1, <1>0, PutTyped DEF Started
    <2>3. FieldsOK(c, tokens) /\ c.user \in Users \cup {None}
      BY <2>1 DEF Started
    <2>4. overtaken' \subseteq User
      BY <2>1, <2>3, <1>0 DEF Started, TypeOK, FieldsOK
    <2>5. TypeOK' /\ Users' = Users /\ tokens' = tokens /\ mails' = mails
      BY <2>1, <2>2, <2>4, <1>0 DEF Started, TypeOK, Users
    <2>6. QED
      BY <2>2, <2>3, <2>5, TInvKept DEF TInv
  <1>3. ASSUME NEW r \in Request, Handle(r) \/ Abort(r) PROVE TInv'
    <2> DEFINE q == req[r]
               u == q.user
               Fine == /\ req' \in [Request -> Call \cup {NotMade, Done}]
                       /\ req'[r].phase \in Phase => FieldsOK(req'[r], tokens) /\ req'[r].user \in Users' \cup {None}
    <2>1. \A p \in Request \ {r} : req'[p] = req[p]
      BY <1>0, <1>3, OthersKept
    <2>2. ASSUME Finish(r) PROVE Fine
      BY <2>2, <1>0, PutTyped DEF Finish, Done, Phase
    <2>3. ASSUME NEW phase \in Phase, Goto(r, phase), q.phase \in Phase, Users \subseteq Users',
                 FieldsOK(q, tokens) => FieldsOK(req'[r], tokens)
          PROVE  Fine
      BY <2>3, <1>0, GotoTyped DEF TInv
    <2>4. ASSUME NEW c \in Call, req' = [req EXCEPT ![r] = c], FieldsOK(c, tokens), c.user \in Users'
          PROVE  Fine
      BY <2>4, <1>0, PutTyped
    <2> HIDE DEF Fine
    \* A step that changes neither users nor tokens nor mails.
    <2>5. ASSUME Fine, UNCHANGED <<mix, user, tokens, mails, inbox, proved, assumed>>,
                 linked' \in [Provider -> [User -> Account \cup {None}]],
                 overtaken' \cup crossed' \cup misdirected' \cup lost' \cup stripped' \subseteq User
          PROVE  TInv'
      <3>1. TypeOK' /\ Users' = Users
        BY <2>5, <1>0 DEF Fine, TypeOK, Users
      <3>2. QED
        BY <3>1, <2>1, <2>5, TInvKept DEF Fine, TInv
    \* One that writes a row.
    <2>6. ASSUME Fine, UNCHANGED <<mix, linked, tokens, mails, inbox>>,
                 user' \in [User -> Row \cup {None}], Users \subseteq Users', proved' \cup assumed' \subseteq User \X Email,
                 overtaken' \cup crossed' \cup misdirected' \cup lost' \cup stripped' \subseteq User
          PROVE  TInv'
      <3>1. TypeOK'
        BY <2>6, <1>0 DEF Fine, TypeOK
      <3>2. QED
        BY <3>1, <2>1, <2>6, TInvKept DEF Fine, TInv
    \* And one that changes tokens.
    <2>7. ASSUME Fine, UNCHANGED <<mix, user, linked, mails, inbox, history>>, tokens' \in Seq(Token),
                 \A t \in DOMAIN tokens : /\ t \in DOMAIN tokens' /\ tokens'[t].user = tokens[t].user
                                          /\ tokens'[t].kind = tokens[t].kind,
                 \A t \in DOMAIN tokens' : tokens'[t].user \in Users
          PROVE  TInv'
      <3>1. inbox' \subseteq Email \X DOMAIN tokens'
        BY <2>7, <1>0 DEF TypeOK
      <3>2. TypeOK' /\ Users' = Users
        BY <3>1, <2>7, <1>0 DEF Fine, TypeOK, Users, history
      <3>3. QED
        BY <3>2, <2>1, <2>7, TInvKept DEF Fine, TInv
    <2>8. q.phase \in Phase => q \in Call /\ FieldsOK(q, tokens) /\ q.user \in Users \cup {None}
      BY <1>0, CallTyped DEF TInv
    <2>11. ASSUME FindByEmail(r) PROVE TInv'
      <3>1. q.phase = "find" /\ q.phase \in Phase /\ UNCHANGED <<mix, user, linked, tokens, mails, inbox, history>>
        BY <2>11 DEF FindByEmail, At, Phase
      <3>2. Users' = Users
        BY <3>1 DEF Users
      <3>3. CASE Goto(r, "check")
        <4>1. FieldsOK(q, tokens) => FieldsOK(req'[r], tokens)
          BY <3>1, <3>3, <1>0, GotoTyped DEF FieldsOK, OpsAt, Phase
        <4>2. QED
          BY <3>1, <3>2, <3>3, <4>1, <2>3, <2>5, <1>0 DEF TypeOK, history, Phase
      <3>4. CASE Finish(r)
        BY <3>1, <3>4, <2>2, <2>5, <1>0 DEF TypeOK, history
      <3>5. ASSUME NEW v \in Users, NEW c \in Call,
                 user[v].email = req[r].email, user[v] \in Row,
                 req' = [req EXCEPT ![r] = c], SameRequest(r, c),
                 c.user = v, c.seen = user[v],
                 c.phase = IF user[v].activated THEN "create_link" ELSE "activate"
            PROVE  TInv'
        <4>1. FieldsOK(c, tokens)
          BY <3>1, <3>5, <2>8 DEF FieldsOK, OpsAt, SameRequest, Users
        <4>2. Fine
          BY <3>2, <3>5, <4>1, <2>4
        <4>3. QED
          BY <3>1, <4>2, <2>5, <1>0 DEF TypeOK, history
      <3>6. QED
        BY SMTT(30), <2>11, <3>3, <3>4, <3>5, FindDoes
    <2>12. ASSUME CheckEmail(r) PROVE TInv'
      <3>1. q.phase = "check" /\ q.phase \in Phase /\ UNCHANGED <<mix, user, linked, tokens, mails, inbox, history>>
        BY <2>12 DEF CheckEmail, At, Phase
      <3>2. Users' = Users
        BY <3>1 DEF Users
      <3>3. CASE Goto(r, "insert")
        <4>1. FieldsOK(q, tokens) => FieldsOK(req'[r], tokens)
          BY <3>1, <3>3, <1>0, GotoTyped DEF FieldsOK, OpsAt, Phase
        <4>2. QED
          BY <3>1, <3>2, <3>3, <4>1, <2>3, <2>5, <1>0 DEF TypeOK, history, Phase
      <3>4. CASE Finish(r)
        BY <3>1, <3>4, <2>2, <2>5, <1>0 DEF TypeOK, history
      <3>5. QED
        BY <2>12, <3>3, <3>4 DEF CheckEmail
    <2>13. ASSUME InsertUser(r) PROVE TInv'
      <3>1. PICK v \in User \ Users, row \in Row, c \in Call :
              /\ req[r].phase = "insert" /\ req[r].op \in {"sign_up", "sign_in"}
              /\ row.email = req[r].email /\ row.activated = (req[r].op = "sign_in")
              /\ row.password = (req[r].op = "sign_up")
              /\ user' = [user EXCEPT ![v] = row]
              /\ req' = [req EXCEPT ![r] = c] /\ SameRequest(r, c)
              /\ c.user = v /\ c.seen = row /\ c.phase = "profile"
              /\ proved' = IF req[r].op = "sign_up" THEN proved ELSE proved \cup {<<v, req[r].email>>}
              /\ UNCHANGED <<mix, linked, tokens, mails, inbox, assumed, overtaken, crossed, misdirected, lost, stripped>>
        BY <2>13, InsertDoes
      <3>2. user' \in [User -> Row \cup {None}] /\ Users' = Users \cup {v}
        BY <3>1, <1>0, WriteTyped
      <3>3. FieldsOK(c, tokens)
        BY <3>1, <2>8 DEF FieldsOK, OpsAt, SameRequest, Phase
      <3>4. Fine
        BY <3>1, <3>2, <3>3, <2>4
      <3>5. proved' \cup assumed' \subseteq User \X Email
        BY <3>1, <2>8, <1>0 DEF TypeOK, FieldsOK, Phase
      <3>6. QED
        BY <3>1, <3>2, <3>4, <3>5, <2>6, <1>0 DEF TypeOK
    <2>14. ASSUME CreateProfile(r) PROVE TInv'
      <3>1. q.phase = "profile" /\ UNCHANGED <<mix, linked, tokens, mails, inbox, history>>
        BY <2>14 DEF CreateProfile, At
      <3>2. u \in Users /\ q.seen \in Row /\ u \in User /\ q.phase \in Phase
        BY <3>1, UserOf DEF Phase
      <3>3. user' \in [User -> Row \cup {None}] /\ Users' = Users
        BY <3>2, <2>14, <1>0, ColumnTyped DEF CreateProfile
      <3>4. Fine
        <4>1. CASE Goto(r, "mail") /\ q.seen.activated
          BY ZenonT(60), <4>1, <3>1, <3>2, <3>3, <2>3, <1>0, GotoTyped DEF FieldsOK, OpsAt, Phase
        <4>2. CASE Goto(r, "token") /\ ~q.seen.activated
          BY ZenonT(60), <4>2, <3>1, <3>2, <3>3, <2>3, <1>0, GotoTyped DEF FieldsOK, OpsAt, Phase
        <4>3. QED
          BY <4>1, <4>2, <2>14 DEF CreateProfile
      <3>5. QED
        BY <3>1, <3>3, <3>4, <2>6, <1>0 DEF TypeOK, history
    <2>15. ASSUME CreateToken(r) PROVE TInv'
      <3>1. q.phase = "token" /\ UNCHANGED <<mix, user, linked, mails, inbox, history>> /\ Goto(r, "mail")
        BY <2>15 DEF CreateToken, At
      <3>2. u \in Users /\ q.seen \in Row /\ u \in User /\ q.phase \in Phase
        BY <3>1, UserOf DEF Phase
      <3>3. Fine
        <4>1. Users' = Users
          BY <3>1 DEF Users
        <4>2. FieldsOK(q, tokens) => FieldsOK(req'[r], tokens)
          BY <3>1, <3>2, <1>0, GotoTyped DEF FieldsOK, OpsAt, Phase
        <4>3. QED
          BY <3>1, <3>2, <4>1, <4>2, <2>3 DEF Phase
      <3>4. LET new == Len(tokens) + 1
            IN  /\ tokens' \in Seq(Token) /\ DOMAIN tokens' = DOMAIN tokens \cup {new}
                /\ \A t \in DOMAIN tokens : tokens'[t] = tokens[t]
                /\ tokens'[new].user = u
        BY <2>15, <3>2, <1>0, TokenAdded
      <3>5. \A t \in DOMAIN tokens' : tokens'[t].user \in Users
        BY <3>2, <3>4 DEF TInv
      <3>6. QED
        BY <3>1, <3>3, <3>4, <3>5, <2>7
    <2>16. ASSUME EnqueueMail(r) PROVE TInv'
      <3>1. q.phase = "mail" /\ UNCHANGED <<mix, user, linked, tokens, inbox, history>>
        BY <2>16 DEF EnqueueMail, At
      <3>2. u \in Users /\ q.seen \in Row /\ u \in User /\ q.phase \in Phase /\ Users' = Users
        BY <3>1, UserOf DEF Phase, Users
      <3>3. Fine
        <4>1. CASE Goto(r, "create_link") /\ q.op = "sign_in"
          BY <4>1, <3>1, <3>2, <2>3, <1>0, GotoTyped DEF FieldsOK, OpsAt, Phase
        <4>2. CASE Finish(r)
          BY <4>2, <2>2
        <4>3. QED
          BY SMTT(30), <4>1, <4>2, <2>16 DEF EnqueueMail
      <3> DEFINE m == [user |-> u, kind |-> KindOf(r), email |-> Addressee(r),
                       link |-> q.op = "reset" \/ ~q.seen.activated]
      <3>4. m \in Mail /\ m.user = u /\ mails' = Append(mails, m)
        BY <3>2, <2>16 DEF Mail, Row, KindOf, Kind, Addressee, EnqueueMail
      <3> HIDE DEF m
      <3>5. /\ mails' \in Seq(Mail) /\ DOMAIN mails' = DOMAIN mails \cup {Len(mails) + 1}
            /\ \A i \in DOMAIN mails : mails'[i] = mails[i]
            /\ mails'[Len(mails) + 1] = m
        <4>1. mails \in Seq(Mail)
          BY <1>0 DEF TypeOK
        <4>2. /\ mails' \in Seq(Mail) /\ Len(mails') = Len(mails) + 1
              /\ \A i \in 1..Len(mails) : mails'[i] = mails[i]
              /\ mails'[Len(mails) + 1] = m
          BY <4>1, <3>4, AppendProperties
        <4>3. DOMAIN mails' = 1..(Len(mails) + 1) /\ DOMAIN mails = 1..Len(mails) /\ Len(mails) \in Nat
          BY <4>1, <4>2, LenProperties
        <4>4. QED
          BY <4>2, <4>3
      <3>6. \A i \in DOMAIN mails' : mails'[i].user \in Users
        BY <3>2, <3>4, <3>5 DEF TInv
      <3>7. TypeOK'
        BY <3>1, <3>3, <3>5, <1>0 DEF Fine, TypeOK, history
      <3>8. QED
        BY <3>1, <3>2, <3>3, <3>6, <3>7, <2>1, TInvKept DEF Fine, TInv
    <2>17. ASSUME Activate(r) PROVE TInv'
      <3>1. /\ q.phase = "activate"
            /\ UNCHANGED <<mix, linked, tokens, mails, inbox, overtaken, crossed, misdirected, lost, stripped>>
        BY <2>17 DEF Activate, At
      <3>2. u \in Users /\ q.seen \in Row /\ u \in User /\ q.phase \in Phase /\ user[u] \in Row
        BY <3>1, UserOf DEF Phase
      <3>3. user' \in [User -> Row \cup {None}] /\ Users' = Users
        BY <3>2, <2>17, <1>0, ColumnTyped DEF Activate
      <3>4. proved' \cup assumed' \subseteq User \X Email
        <4>1. q.op # "link" => q.email \in Email
          BY <3>1, <3>2, <2>8 DEF FieldsOK, OpsAt
        <4>2. user[u].email \in Email
          BY <3>2 DEF Row
        <4>3. QED
          BY <4>1, <4>2, <3>2, <2>17, <1>0 DEF Activate, TypeOK
      <3>5. Fine
        <4>1. CASE Goto(r, "create_link") /\ q.op = "sign_in"
          BY ZenonT(60), <4>1, <3>1, <3>2, <3>3, <2>3, <1>0, GotoTyped DEF FieldsOK, OpsAt, Phase
        <4>2. CASE Goto(r, "disable_one") /\ q.op = "verify"
          BY ZenonT(60), <4>2, <3>1, <3>2, <3>3, <2>3, <1>0, GotoTyped DEF FieldsOK, OpsAt, Phase
        <4>3. CASE Finish(r)
          BY <4>3, <2>2
        <4>4. QED
          BY SMTT(30), <4>1, <4>2, <4>3, <2>17 DEF Activate
      <3>6. QED
        BY <3>1, <3>3, <3>4, <3>5, <2>6, <1>0 DEF TypeOK
    <2>18. ASSUME CreateLink(r) PROVE TInv'
      <3>1. /\ q.phase = "create_link"
            /\ UNCHANGED <<mix, user, tokens, mails, inbox, proved, assumed, overtaken, crossed, misdirected, lost>>
        BY <2>18 DEF CreateLink, At
      <3>2. /\ u \in Users /\ q.seen \in Row /\ u \in User /\ q.phase \in Phase /\ q \in Call
            /\ Users' = Users /\ q.account \in Account /\ q.provider \in Provider
        BY <3>1, UserOf, <2>8 DEF Phase, Users, FieldsOK, OpsAt, Call
      <3>3. Fine
        <4>1. CASE Goto(r, "activate") /\ q.op = "link"
          BY ZenonT(60), <4>1, <3>1, <3>2, <2>3, <1>0, GotoTyped DEF FieldsOK, OpsAt, Phase
        <4>2. CASE Finish(r)
          BY <4>2, <2>2
        <4>3. QED
          BY <4>1, <4>2, <2>18 DEF CreateLink
      <3>4. linked' \in [Provider -> [User -> Account \cup {None}]] /\ stripped' \subseteq User
        <4>1. linked' = linked \/ linked' = [linked EXCEPT ![q.provider][u] = q.account]
          BY <2>18 DEF CreateLink
        <4>2. linked' \in [Provider -> [User -> Account \cup {None}]]
          BY <4>1, <3>2, <1>0 DEF TypeOK
        <4>3. stripped' \subseteq User
          BY <3>2, <2>18, <1>0 DEF CreateLink, TypeOK
        <4>4. QED
          BY <4>2, <4>3
      <3>5. QED
        BY <3>1, <3>3, <3>4, <2>5, <1>0 DEF TypeOK
    <2>19. ASSUME CheckLinks(r) PROVE TInv'
      <3>1. q.phase = "owner" /\ UNCHANGED <<mix, user, linked, tokens, mails, inbox, history>>
        BY <2>19 DEF CheckLinks, At
      <3>2. u \in Users /\ q.seen \in Row /\ u \in User /\ q.phase \in Phase /\ Users' = Users
        BY <3>1, UserOf DEF Phase, Users
      <3>3. Fine
        <4>1. CASE Goto(r, "unlink")
          BY <4>1, <3>1, <3>2, <2>3, <1>0, GotoTyped DEF FieldsOK, OpsAt, Phase
        <4>2. CASE Finish(r)
          BY <4>2, <2>2
        <4>3. QED
          BY <4>1, <4>2, <2>19 DEF CheckLinks
      <3>4. QED
        BY <3>1, <3>3, <2>5, <1>0 DEF TypeOK, history
    <2>20. ASSUME DeleteLink(r) PROVE TInv'
      <3>1. /\ q.phase = "unlink"
            /\ UNCHANGED <<mix, user, tokens, mails, inbox, proved, assumed, overtaken, crossed, misdirected, lost>>
        BY <2>20 DEF DeleteLink, At
      <3>2. /\ u \in Users /\ q.seen \in Row /\ u \in User /\ q.phase \in Phase /\ q \in Call
            /\ Users' = Users /\ q.provider \in Provider
        BY <3>1, UserOf DEF Phase, Users, Call
      <3>3. Fine
        <4>1. CASE Goto(r, "create_link") /\ q.op = "link"
          BY ZenonT(60), <4>1, <3>1, <3>2, <2>3, <1>0, GotoTyped DEF FieldsOK, OpsAt, Phase
        <4>2. CASE Finish(r)
          BY <4>2, <2>2
        <4>3. QED
          BY SMTT(30), <4>1, <4>2, <2>20 DEF DeleteLink
      <3>4. linked' \in [Provider -> [User -> Account \cup {None}]] /\ stripped' \subseteq User
        BY <3>2, <2>20, <1>0 DEF DeleteLink, TypeOK
      <3>5. QED
        BY <3>1, <3>3, <3>4, <2>5, <1>0 DEF TypeOK
    <2>21. ASSUME SaveEmail(r) PROVE TInv'
      <3>1. PICK c \in Call :
                  /\ u \in Users /\ q.email \in Email /\ req[r].op \in {"change_email", "resend"}
                  /\ user'[u] \in Row
                  /\ user' = [user EXCEPT ![u] = user'[u]]
                  /\ req' = [req EXCEPT ![r] = c] /\ SameRequest(r, c)
                  /\ c.user = u /\ c.seen \in Row /\ c.seen.email = q.email /\ ~c.seen.activated
                  /\ c.phase = "disable"
        BY <2>21, SaveDoes
      <3>2. u \in User /\ user' \in [User -> Row \cup {None}] /\ Users' = Users \cup {u}
        <4>1. u \in User
          BY <3>1 DEF Users
        <4> DEFINE row == user'[u]
        <4>2. row \in Row /\ user' = [user EXCEPT ![u] = row]
          BY <3>1
        <4> HIDE DEF row
        <4>3. QED
          BY <4>1, <4>2, <1>0, WriteTyped
      <3>3. FieldsOK(c, tokens)
        BY <3>1, <3>2 DEF FieldsOK, OpsAt, SameRequest
      <3>4. Fine
        BY <3>1, <3>2, <3>3, <2>4
      <3>5. overtaken' \cup crossed' \cup misdirected' \cup lost' \cup stripped' \subseteq User
        BY <3>2, <2>21, <1>0 DEF SaveEmail, TypeOK
      <3>6. QED
        BY <3>2, <3>4, <3>5, <2>6, <2>21, <1>0 DEF TypeOK, SaveEmail
    <2>22. ASSUME DisableTokens(r) PROVE TInv'
      <3> DEFINE S == {t \in DOMAIN tokens : Earlier(r, t)}
      <3>1. q.phase = "disable" /\ UNCHANGED <<mix, user, linked, mails, inbox, history>> /\ Goto(r, "token")
        BY <2>22 DEF DisableTokens, At
      <3>2. u \in Users /\ q.seen \in Row /\ u \in User /\ q.phase \in Phase
        BY <3>1, UserOf DEF Phase
      <3>3. Fine
        <4>1. Users' = Users
          BY <3>1 DEF Users
        <4>2. FieldsOK(q, tokens) => FieldsOK(req'[r], tokens)
          BY <3>1, <3>2, <1>0, GotoTyped DEF FieldsOK, OpsAt, Phase
        <4>3. QED
          BY <3>1, <3>2, <4>1, <4>2, <2>3 DEF Phase
      <3>4. tokens' = [t \in DOMAIN tokens |->
                         IF t \in S THEN [tokens[t] EXCEPT !.disabled = TRUE] ELSE tokens[t]]
        BY <2>22 DEF DisableTokens
      <3> HIDE DEF S
      <3>5. S \in SUBSET DOMAIN tokens
        BY DEF S
      <3>6. /\ tokens' \in Seq(Token) /\ DOMAIN tokens' = DOMAIN tokens
            /\ \A t \in DOMAIN tokens : /\ tokens'[t].user = tokens[t].user /\ tokens'[t].kind = tokens[t].kind
        BY <3>4, <3>5, <1>0, TokensDisabled
      <3>7. \A t \in DOMAIN tokens' : tokens'[t].user \in Users
        BY <3>6 DEF TInv
      <3>8. QED
        BY <3>1, <3>3, <3>6, <3>7, <2>7
    <2>23. ASSUME ReadUser(r) PROVE TInv'
      <3>1. q.phase = "read_user" /\ q.phase \in Phase /\ UNCHANGED <<mix, user, linked, tokens, mails, inbox, history>>
        BY <2>23 DEF ReadUser, At, Phase
      <3>2. Users' = Users
        BY <3>1 DEF Users
      <3>3. CASE Finish(r)
        BY <3>1, <3>3, <2>2, <2>5, <1>0 DEF TypeOK, history
      <3>4. ASSUME NEW c \in Call, u \in Users, user[u] \in Row, q.op = "verify",
                   req' = [req EXCEPT ![r] = c], SameRequest(r, c), c.user = u, c.seen = user[u],
                   c.phase = IF user[u].activated THEN "disable_one" ELSE "activate"
            PROVE  TInv'
        <4>1. FieldsOK(c, tokens)
          BY <3>1, <3>4, <2>8 DEF FieldsOK, OpsAt, SameRequest, Users
        <4>2. Fine
          BY <3>2, <3>4, <4>1, <2>4
        <4>3. QED
          BY <3>1, <4>2, <2>5, <1>0 DEF TypeOK, history
      <3>5. QED
        BY <2>23, <3>3, <3>4, ReadDoes
    <2>24. ASSUME DisableToken(r) PROVE TInv'
      <3>1. q.phase = "disable_one" /\ UNCHANGED <<mix, user, linked, mails, inbox, history>> /\ Finish(r)
        BY <2>24 DEF DisableToken, At
      <3>2. q.token \in DOMAIN tokens
        BY <3>1, <2>8 DEF FieldsOK, OpsAt, Phase
      <3>3. tokens' = [t \in DOMAIN tokens |->
                         IF t \in {q.token} THEN [tokens[t] EXCEPT !.disabled = TRUE] ELSE tokens[t]]
        BY <2>24 DEF DisableToken
      <3>4. {q.token} \in SUBSET DOMAIN tokens
        BY <3>2
      <3>5. /\ tokens' \in Seq(Token) /\ DOMAIN tokens' = DOMAIN tokens
            /\ \A t \in DOMAIN tokens : /\ tokens'[t].user = tokens[t].user /\ tokens'[t].kind = tokens[t].kind
        BY <3>3, <3>4, <1>0, TokensDisabled
      <3>6. \A t \in DOMAIN tokens' : tokens'[t].user \in Users
        BY <3>5 DEF TInv
      <3>7. QED
        BY <3>1, <3>5, <3>6, <2>2, <2>7
    <2>25. ASSUME SavePassword(r) \/ SaveInactive(r) PROVE TInv'
      <3>1. /\ q.phase \in {"password", "deactivate"} /\ UNCHANGED <<mix, linked, tokens, mails, inbox, history>>
            /\ Finish(r)
        BY <2>25 DEF SavePassword, SaveInactive, At
      <3>2. u \in Users
        BY <3>1, UserOf DEF Phase
      <3>3. user' \in [User -> Row \cup {None}] /\ Users' = Users
        BY <3>2, <2>25, <1>0, ColumnTyped DEF SavePassword, SaveInactive
      <3>4. QED
        BY <3>1, <3>3, <2>2, <2>6, <1>0 DEF TypeOK, history
    <2>26. ASSUME Abort(r) PROVE TInv'
      <3>1. q.phase \in Phase /\ Finish(r)
        BY <2>26, <1>0, InFlightPhase DEF Abort
      <3>2. {u} \ {None} \subseteq User
        BY <3>1, <2>8 DEF Users
      <3>3. overtaken' \cup crossed' \cup misdirected' \cup lost' \cup stripped' \subseteq User
        BY <3>2, <2>26, <1>0 DEF Abort, TypeOK
      <3>4. QED
        BY <3>1, <3>3, <2>2, <2>5, <2>26, <1>0 DEF Abort, TypeOK
    <2>27. QED
      BY <1>3, <2>11, <2>12, <2>13, <2>14, <2>15, <2>16, <2>17, <2>18, <2>19, <2>20, <2>21, <2>22,
         <2>23, <2>24, <2>25, <2>26 DEF Handle
  <1>4. ASSUME NEW u \in User, Deauthorize(u) PROVE TInv'
    <2>1. linked' \in [Provider -> [User -> Account \cup {None}]] /\ stripped' \subseteq User
      BY <1>4, <1>0 DEF Deauthorize, TypeOK
    <2>2. TypeOK' /\ Users' = Users
      BY <2>1, <1>4, <1>0 DEF Deauthorize, TypeOK, Users
    <2>3. QED
      BY <2>2, <1>4 DEF TInv, Deauthorize
  <1>5. ASSUME MailWorker PROVE TInv'
    <2>1. mails # << >> /\ mails' = Tail(mails) /\ UNCHANGED <<mix, user, linked, tokens, req>>
      BY <1>5 DEF MailWorker, SendMail, MailFails
    <2>2. mails \in Seq(Mail) /\ Len(mails) \in Nat /\ DOMAIN mails = 1..Len(mails) /\ Len(mails) # 0
      BY <2>1, <1>0, TokenTyped, EmptySeq DEF TypeOK
    <2>3. /\ mails' \in Seq(Mail) /\ \A i \in DOMAIN mails' : i + 1 \in DOMAIN mails /\ mails'[i] = mails[i + 1]
      <3>1. mails' \in Seq(Mail) /\ Len(mails') = Len(mails) - 1
            /\ \A i \in 1..Len(mails') : mails'[i] = mails[i + 1]
        BY <2>1, <2>2, HeadTailProperties
      <3>2. DOMAIN mails' = 1..Len(mails')
        BY <3>1, LenProperties
      <3>3. QED
        BY <3>1, <3>2, <2>2
    <2>4. Head(mails) = mails[1] /\ 1 \in DOMAIN mails /\ mails[1] \in Mail
      BY <2>1, <2>2, <1>0, TokenTyped
    <2>5. Head(mails).user \in User /\ Head(mails).email \in Email /\ Head(mails).user \in Users
      BY <2>4 DEF Mail, TInv
    <2>6. inbox' \subseteq Email \X DOMAIN tokens
      BY <1>5, <1>0, <2>5 DEF MailWorker, SendMail, MailFails, TypeOK, Live, Enabled
    <2>7. UNCHANGED <<proved, assumed>> /\ overtaken' \cup crossed' \cup misdirected' \cup lost' \cup stripped' \subseteq User
      BY <1>5, <1>0, <2>5 DEF MailWorker, SendMail, MailFails, TypeOK
    <2>8. TypeOK' /\ Users' = Users
      BY <2>1, <2>3, <2>6, <2>7, <1>0 DEF TypeOK, Users
    <2>9. \A i \in DOMAIN mails' : mails'[i].user \in Users
      BY <2>3 DEF TInv
    <2>10. QED
      BY <2>1, <2>8, <2>9 DEF TInv
  <1>6. QED
    BY <1>1, <1>2, <1>3, <1>4, <1>5 DEF Next

\* The state is well typed.
THEOREM AccountsTypeOK == Spec => []TypeOK
  <1>1. TInv => TypeOK
    BY DEF TInv
  <1>2. QED
    BY <1>1, InitTInv, StepTInv, PTL DEF Spec
-----------------------------------------------------------------------------
\* What is left to show when the requests of R change: that who loses an account
\* has another way, with no other request about to unlink that one, and so have the
\* new users.
LEMMA KInvKept ==
    ASSUME TInv, KInv, NEW R \in SUBSET Request,
           \A q \in Request \ R : req'[q] = req[q],
           stripped \subseteq stripped',
           \A v \in Users : user[v].password => user'[v].password,
           \A v \in Users \ stripped', p \in Provider :
              linked[p][v] # None \/ (\E q \in R : Links(q, v) /\ req[q].provider = p) =>
                 \/ Has(v, p)'
                 \/ HasWay(v)' /\ \A q \in Request \ R : Unlinks(q, v) => req[q].provider = p,
           \A v \in Users' \ stripped' : v \notin Users => HasWay(v)',
           \A q \in R : req'[q].phase \in Phase => Knows(q)'
    PROVE  KInv'
  <1>0. ASSUME NEW v \in Users \ stripped', NEW p \in Provider, Has(v, p)
        PROVE  \/ Has(v, p)'
               \/ HasWay(v)' /\ \A q \in Request \ R : Unlinks(q, v) => req[q].provider = p
    <2>1. CASE linked[p][v] # None \/ \E q \in R : Links(q, v) /\ req[q].provider = p
      BY <2>1
    <2>2. CASE ~(linked[p][v] # None \/ \E q \in R : Links(q, v) /\ req[q].provider = p)
      <3>1. PICK r \in Request : Links(r, v) /\ req[r].provider = p
        BY <1>0, <2>2 DEF Has
      <3>2. r \in Request \ R /\ req'[r] = req[r]
        BY <3>1, <2>2
      <3>3. QED
        BY <3>1, <3>2 DEF Has, Links
    <2>3. QED
      BY <2>1, <2>2
  <1>1. ASSUME NEW v \in Users' \ stripped' PROVE HasWay(v)'
    <2>1. CASE v \notin Users
      BY <2>1, <1>1
    <2>2. CASE v \in Users
      <3>1. HasWay(v)
        BY <2>2, <1>1 DEF KInv
      <3>2. CASE user[v].password
        BY <3>2, <2>2 DEF HasWay
      <3>3. ASSUME NEW p \in Provider, Has(v, p) PROVE HasWay(v)'
        BY <3>3, <1>0, <1>1, <2>2 DEF HasWay
      <3>4. QED
        BY <3>1, <3>2, <3>3 DEF HasWay
    <2>3. QED
      BY <2>1, <2>2
  <1>2. ASSUME NEW q \in Request \ R, req[q].phase \in Phase PROVE Knows(q)'
    <2>1. req'[q] = req[q] /\ Knows(q)
      BY <1>2 DEF KInv
    <2>2. req[q].phase \in {"owner", "unlink"} => req[q].user \in Users
      BY <1>2, UserOf DEF Phase
    <2>3. (req[q].phase \in {"owner", "unlink"} => (req[q].seen.password => user[req[q].user].password))'
      BY <2>1, <2>2 DEF Knows
    <2>4. ASSUME Unlinks(q, req[q].user), req[q].user \notin stripped', ~req[q].seen.password
          PROVE  \E p \in Provider \ {req[q].provider} : Has(req[q].user, p)'
      <3>1. PICK p \in Provider \ {req[q].provider} : Has(req[q].user, p)
        BY <2>1, <2>4 DEF Knows
      <3>2. PICK v \in Users \ stripped' : v = req[q].user
        BY <2>2, <2>4 DEF Unlinks
      <3>3. Has(v, p)'
        BY <3>1, <3>2, <1>0, <1>2, <2>4
      <3>4. QED
        BY <3>1, <3>2, <3>3
    <2>5. Unlinks(q, req[q].user)' = Unlinks(q, req[q].user)
      BY <2>1 DEF Unlinks
    <2>6. QED
      BY <2>1, <2>3, <2>4, <2>5 DEF Knows, Unlinks
  <1>3. QED
    BY <1>1, <1>2 DEF KInv

LEMMA InitKInv == Init => KInv
  <1> SUFFICES ASSUME Init PROVE KInv
    OBVIOUS
  <1> USE AccountsAssumption
  <1>1. PICK a \in Account, has \in {"none", "password", "links"} :
          /\ user = [u \in User |->
               IF u = Founder /\ has # "none"
               THEN [email |-> EmailOf[a], activated |-> TRUE, active |-> TRUE,
                     password |-> has = "password", profile |-> TRUE]
               ELSE None]
          /\ linked = [p \in Provider |-> [u \in User |->
               IF u = Founder /\ has = "links" THEN a ELSE None]]
    BY DEF Init
  <1>2. \A r \in Request : req[r].phase \notin Phase
    BY DEF Init, NotMade, Phase
  <1>3. ASSUME NEW u \in Users PROVE HasWay(u)
    <2>1. u = Founder /\ has # "none" /\ u \in User
      BY <1>1 DEF Users
    <2>2. CASE has = "password"
      BY <2>1, <2>2, <1>1 DEF HasWay
    <2>3. CASE has = "links"
      BY <2>1, <2>3, <1>1 DEF HasWay, Has, Provider
    <2>4. QED
      BY <2>1, <2>2, <2>3
  <1>4. QED
    BY <1>2, <1>3 DEF KInv

\* Every step leaves whoever is not stripped a way to log in.
LEMMA StepKInv == TInv /\ KInv /\ [Next]_vars => KInv'
  <1> SUFFICES ASSUME TInv, KInv, [Next]_vars PROVE KInv'
    OBVIOUS
  <1> USE AccountsAssumption
  <1>0. TypeOK
    BY DEF TInv
  <1>1. ASSUME UNCHANGED <<user, linked, req, stripped>> PROVE KInv'
    BY <1>1 DEF KInv, HasWay, Has, Links, Unlinks, Knows, Users
  <1>2. ASSUME NEW r \in Request, Start(r) PROVE KInv'
    <2>1. PICK c \in Call : Started(r, c)
      BY <1>2, StartDoes
    <2>2. req'[r] = c /\ \A q \in Request \ {r} : req'[q] = req[q]
      BY <2>1, <1>0, PutTyped DEF Started
    <2>3. UNCHANGED <<user, linked, stripped>> /\ Users' = Users /\ req[r].phase \notin Phase
      BY <2>1 DEF Started, NotMade, Phase, Users
    <2>4. Knows(r)'
      BY <2>1, <2>2, <2>3 DEF Started, Knows, Unlinks
    <2>5. \A v \in User : ~ Links(r, v)
      BY <2>3 DEF Links
    <2>6. QED
      <3> DEFINE R == {r}
      <3>1. /\ R \in SUBSET Request /\ \A q \in Request \ R : req'[q] = req[q]
            /\ \A q \in R : Knows(q)' /\ \A v \in User : ~ Links(q, v)
        BY <2>2, <2>4, <2>5
      <3> HIDE DEF R
      <3>2. QED
        BY <3>1, <2>3, KInvKept DEF Users, Has
  <1>3. ASSUME NEW r \in Request, Handle(r) \/ Abort(r) PROVE KInv'
    <2> DEFINE q == req[r]
    <2>0. PICK u : u = q.user
      OBVIOUS
    <2> USE <2>0
    <2>1. \A p \in Request \ {r} : req'[p] = req[p]
      BY <1>0, <1>3, OthersKept
    <2>2. q.phase \in Phase => q \in Call /\ FieldsOK(q, tokens) /\ Knows(r)
      BY <1>0, CallTyped DEF TInv, KInv
    <2>3. ASSUME stripped \subseteq stripped',
                 \A v \in Users : user[v].password => user'[v].password,
                 \A v \in Users \ stripped', p \in Provider :
                    linked[p][v] # None \/ (Links(r, v) /\ q.provider = p) =>
                       \/ Has(v, p)'
                       \/ HasWay(v)' /\ \A l \in Request \ {r} : Unlinks(l, v) => req[l].provider = p,
                 \A v \in Users' \ stripped' : v \notin Users => HasWay(v)',
                 req'[r].phase \in Phase => Knows(r)'
          PROVE  KInv'
      <3> DEFINE R == {r}
      <3>1. /\ R \in SUBSET Request /\ \A p \in Request \ R : req'[p] = req[p]
            /\ \A p \in R : req'[p].phase \in Phase => Knows(p)'
            /\ \A v \in Users \ stripped', p \in Provider :
                  linked[p][v] # None \/ (\E l \in R : Links(l, v) /\ req[l].provider = p) =>
                     \/ Has(v, p)'
                     \/ HasWay(v)' /\ \A l \in Request \ R : Unlinks(l, v) => req[l].provider = p
        BY <2>1, <2>3
      <3> HIDE DEF R
      <3>2. QED
        BY <3>1, <2>3, KInvKept
    \* A step that touches no link, of a request that is not to link an account or
    \* goes on, and not to where it has to know something.
    <2>4. ASSUME UNCHANGED <<linked, stripped>>, Users' = Users,
                 \A v \in Users : user[v].password => user'[v].password,
                 \/ q.phase \in {"check", "insert", "find"} /\ u = None
                 \/ q.op \notin {"sign_in", "link"}
                 \/ q.op = "link" /\ q.phase # "create_link"
                 \/ /\ req'[r].phase \in Phase /\ req'[r].user = u /\ q.op = "sign_in"
                    /\ req'[r].op = q.op /\ req'[r].provider = q.provider,
                 req'[r].phase \notin {"owner", "unlink"}
          PROVE  KInv'
      <3>1. ASSUME NEW v \in Users, NEW p \in Provider, Links(r, v), q.provider = p PROVE Has(v, p)'
        <4>1. u = v /\ v \in User /\ q.op \in {"sign_in", "link"}
              /\ (q.op = "link" => q.phase = "create_link")
          BY <3>1 DEF Links, Users
        <4>2. Links(r, v)' /\ req'[r].provider = p
          BY <3>1, <4>1, <2>4 DEF Links
        <4>3. QED
          BY <4>2 DEF Has
      <3>2. Knows(r)'
        BY <2>4 DEF Knows, Unlinks
      <3>3. \A v \in Users, p \in Provider : linked[p][v] # None => Has(v, p)'
        BY <2>4 DEF Has
      <3>4. QED
        BY <3>1, <3>2, <3>3, <2>3, <2>4
    <2>5. ASSUME Finish(r) PROVE req'[r].phase \notin Phase /\ req'[r].phase = "done"
      BY <2>5, <1>0, PutTyped DEF Finish, Done, Phase
    <2>11. ASSUME FindByEmail(r) PROVE KInv'
      <3>1. /\ q.phase = "find" /\ UNCHANGED <<user, linked, stripped>> /\ Users' = Users
            /\ q.phase \in Phase /\ u = None /\ q.op = "sign_in"
        BY <2>11, <2>2 DEF FindByEmail, At, Users, history, FieldsOK, OpsAt, Phase
      <3>2. CASE Goto(r, "check")
        <4>1. req'[r].phase = "check"
          BY <3>1, <3>2, <1>0, GotoTyped DEF Phase
        <4>2. QED
          BY <3>1, <4>1, <2>4
      <3>3. CASE Finish(r)
        BY <3>1, <3>3, <2>4, <2>5
      <3>4. ASSUME NEW v \in Users, NEW c \in Call,
                 req' = [req EXCEPT ![r] = c], SameRequest(r, c),
                 c.phase = IF user[v].activated THEN "create_link" ELSE "activate"
            PROVE  KInv'
        <4>1. req'[r] = c
          BY <3>4, <1>0, PutTyped
        <4>2. QED
          BY <4>1, <3>1, <3>4, <2>4 DEF SameRequest
      <3>5. QED
        BY <2>11, <3>2, <3>3, <3>4, FindDoes
    <2>12. ASSUME CheckEmail(r) PROVE KInv'
      <3>1. /\ q.phase = "check" /\ UNCHANGED <<user, linked, stripped>> /\ Users' = Users
            /\ q.phase \in Phase /\ u = None
        BY <2>12, <2>2 DEF CheckEmail, At, Users, history, FieldsOK, Phase
      <3>2. req'[r].phase \in {"insert", "done"}
        BY <3>1, <2>12, <2>5, <1>0, GotoTyped DEF CheckEmail, Phase
      <3>3. QED
        BY <3>1, <3>2, <2>4
    <2>13. ASSUME InsertUser(r) PROVE KInv'
      <3>1. PICK v \in User \ Users, row \in Row, c \in Call :
              /\ req[r].phase = "insert" /\ req[r].op \in {"sign_up", "sign_in"}
              /\ row.password = (req[r].op = "sign_up")
              /\ user' = [user EXCEPT ![v] = row]
              /\ req' = [req EXCEPT ![r] = c] /\ SameRequest(r, c)
              /\ c.user = v /\ c.phase = "profile"
              /\ UNCHANGED <<linked, stripped>>
        BY <2>13, InsertDoes
      <3>2. /\ req'[r] = c /\ Users' = Users \cup {v} /\ user'[v] = row
            /\ \A w \in User \ {v} : user'[w] = user[w]
        <4>1. req'[r] = c
          BY <3>1, <1>0, PutTyped
        <4>2. QED
          BY <4>1, <3>1, <1>0, WriteTyped
      <3>3. u = None
        BY <3>1, <2>2 DEF FieldsOK, Phase
      <3>4. HasWay(v)'
        <4>1. CASE req[r].op = "sign_up"
          BY <4>1, <3>1, <3>2 DEF HasWay
        <4>2. CASE req[r].op = "sign_in"
          <5>1. Links(r, v)' /\ q.provider \in Provider /\ req'[r].provider = q.provider
            BY <4>2, <3>1, <3>2, <2>2 DEF Links, SameRequest, Phase, Call
          <5>2. QED
            BY <5>1 DEF HasWay, Has
        <4>3. QED
          BY <4>1, <4>2, <3>1
      <3>5. \A w \in Users : ~ Links(r, w)
        BY <3>3 DEF Links, Users
      <3>6. Knows(r)'
        BY <3>1, <3>2 DEF Knows, Unlinks
      <3>7. /\ \A w \in Users : user[w].password => user'[w].password
            /\ \A w \in Users, p \in Provider : linked[p][w] # None => Has(w, p)'
        BY <3>1, <3>2 DEF Users, Has
      <3>8. QED
        BY <3>1, <3>2, <3>4, <3>5, <3>6, <3>7, <2>3
    <2>14. ASSUME CreateProfile(r) PROVE KInv'
      <3>1. /\ q.phase = "profile" /\ UNCHANGED <<linked, stripped>>
            /\ Goto(r, "mail") \/ Goto(r, "token")
        BY <2>14 DEF CreateProfile, At, history
      <3>2. u \in Users /\ u \in User /\ q.phase \in Phase /\ q.op \in {"sign_up", "sign_in"}
        BY SMTT(30), <3>1, UserOf, <2>2 DEF Phase, FieldsOK, OpsAt
      <3>3. Users' = Users /\ \A v \in Users : user[v].password => user'[v].password
        BY ZenonT(60), <3>2, <2>14, <1>0, ColumnTyped DEF CreateProfile, Users
      <3>4. /\ req'[r].phase \in {"mail", "token"} /\ req'[r].user = u
            /\ req'[r].op = q.op /\ req'[r].provider = q.provider
        BY <3>1, <3>2, <1>0, GotoTyped DEF Phase
      <3>5. QED
        BY <3>1, <3>2, <3>3, <3>4, <2>4 DEF Phase
    <2>15. ASSUME CreateToken(r) \/ DisableTokens(r) PROVE KInv'
      <3>1. /\ q.phase \in {"token", "disable"} /\ UNCHANGED <<user, linked, stripped>> /\ Users' = Users
            /\ Goto(r, "mail") \/ Goto(r, "token")
        BY <2>15 DEF CreateToken, DisableTokens, At, Users, history
      <3>2. q.phase \in Phase /\ q.op \notin {"sign_in", "link"}
        BY <3>1, <2>2 DEF Phase, FieldsOK, OpsAt
      <3>3. req'[r].phase \in {"mail", "token"}
        BY <3>1, <3>2, <1>0, GotoTyped DEF Phase
      <3>4. QED
        BY <3>1, <3>2, <3>3, <2>4
    <2>16. ASSUME EnqueueMail(r) PROVE KInv'
      <3>1. q.phase = "mail" /\ UNCHANGED <<user, linked, stripped>> /\ Users' = Users
        BY <2>16 DEF EnqueueMail, At, Users, history
      <3>2. q.phase \in Phase /\ q.op # "link"
        BY <3>1, <2>2 DEF Phase, FieldsOK, OpsAt
      <3>3. CASE q.op = "sign_in"
        <4>1. /\ req'[r].phase = "create_link" /\ req'[r].user = u
              /\ req'[r].op = q.op /\ req'[r].provider = q.provider
          BY <3>2, <3>3, <2>16, <1>0, GotoTyped DEF Phase, EnqueueMail
        <4>2. QED
          BY <4>1, <3>1, <3>3, <2>4 DEF Phase
      <3>4. CASE q.op # "sign_in"
        <4>1. req'[r].phase = "done"
          BY <3>4, <2>16, <2>5 DEF EnqueueMail
        <4>2. QED
          BY <4>1, <3>1, <3>2, <3>4, <2>4
      <3>5. QED
        BY <3>3, <3>4
    <2>17. ASSUME Activate(r) PROVE KInv'
      <3>1. q.phase = "activate" /\ UNCHANGED <<linked, stripped>>
        BY <2>17 DEF Activate, At
      <3>2. u \in Users /\ u \in User /\ q.phase \in Phase
        BY <3>1, UserOf DEF Phase
      <3>3. Users' = Users /\ \A v \in Users : user[v].password => user'[v].password
        BY <3>2, <2>17, <1>0, ColumnTyped DEF Activate, Users
      <3>4. CASE q.op = "sign_in"
        <4>1. /\ req'[r].phase = "create_link" /\ req'[r].user = u
              /\ req'[r].op = q.op /\ req'[r].provider = q.provider
          BY <3>2, <3>4, <2>17, <1>0, GotoTyped DEF Phase, Activate
        <4>2. QED
          BY <4>1, <3>1, <3>3, <3>4, <2>4 DEF Phase
      <3>5. CASE q.op # "sign_in"
        <4>1. Goto(r, "disable_one") \/ Finish(r)
          BY <3>5, <2>17 DEF Activate
        <4>2. req'[r].phase \in {"disable_one", "done"}
          BY <4>1, <3>2, <2>5, <1>0, GotoTyped DEF Phase
        <4>3. QED
          BY <4>2, <3>1, <3>3, <3>5, <2>4
      <3>6. QED
        BY <3>4, <3>5
    <2>18. ASSUME CreateLink(r) PROVE KInv'
      <3>1. q.phase = "create_link" /\ user' = user /\ Users' = Users
        BY <2>18 DEF CreateLink, At, Users
      <3>2. /\ u \in Users /\ u \in User /\ q.phase \in Phase /\ q \in Call
            /\ q.account \in Account /\ q.provider \in Provider
        BY <3>1, UserOf, <2>2 DEF Phase, FieldsOK, OpsAt, Call
      <3>0. PICK p0 \in Provider : p0 = q.provider
        BY <3>2
      <3>3. \A v \in Users : v # u => ~ Links(r, v)
        BY DEF Links
      <3> DEFINE free == /\ linked[q.provider][u] = None /\ LinkedTo(q.provider, q.account) = {}
                         /\ q.op = "sign_in" => user[u].profile
      <3>4. CASE free
        <4>1. linked' = [linked EXCEPT ![q.provider][u] = q.account] /\ stripped' = stripped
          BY <3>4, <2>18 DEF CreateLink
        <4>2. /\ linked'[q.provider][u] # None
              /\ \A v \in User, p \in Provider : linked[p][v] # None => linked'[p][v] # None
          BY <4>1, <3>2, <1>0 DEF TypeOK
        <4>3. Has(u, p0)' /\ \A v \in User, p \in Provider : linked[p][v] # None => Has(v, p)'
          BY <3>0, <4>2 DEF Has
        <4>4. req'[r].phase \in Phase => req'[r].phase = "activate" /\ req'[r].user = u
          BY <3>2, <3>4, <2>18, <2>5, <1>0, GotoTyped DEF CreateLink, Phase
        <4>5. req'[r].phase \in Phase => Knows(r)'
          BY <4>4 DEF Knows, Unlinks
        <4>6. QED
          BY <3>0, <3>1, <3>3, <4>1, <4>3, <4>5, <2>3 DEF Users
      <3>5. CASE ~free
        <4>1. linked' = linked /\ stripped' = stripped \cup {u} /\ Finish(r)
          BY <3>5, <2>18 DEF CreateLink
        <4>2. \A v \in Users, p \in Provider : linked[p][v] # None => Has(v, p)'
          BY <4>1 DEF Has
        <4>3. QED
          BY <4>1, <4>2, <3>1, <3>3, <2>3, <2>5
      <3>6. QED
        BY <3>4, <3>5
    <2>19. ASSUME CheckLinks(r) PROVE KInv'
      <3>1. q.phase = "owner" /\ UNCHANGED <<user, linked, stripped>> /\ Users' = Users
        BY <2>19 DEF CheckLinks, At, Users, history
      <3>2. /\ q.phase \in Phase /\ q.op \in {"link", "unlink"}
            /\ q.seen.password => user[u].password
        BY <3>1, <2>2 DEF Phase, FieldsOK, OpsAt, Knows
      <3>3. \A v \in Users : ~ Links(r, v)
        BY <3>1, <3>2 DEF Links
      <3>4. req'[r].phase \in Phase => Knows(r)'
        <4>1. CASE Finish(r)
          BY <4>1, <2>5
        <4>2. CASE Goto(r, "unlink") /\ (q.op = "unlink" => q.seen.password \/ KeepsALink(r))
          <5>1. /\ req'[r].phase = "unlink" /\ req'[r].user = u /\ req'[r].seen = q.seen
                /\ req'[r].op = q.op /\ req'[r].provider = q.provider
            BY <4>2, <3>2, <1>0, GotoTyped DEF Phase
          <5>2. KeepsALink(r) => \E p \in Provider \ {q.provider} : Has(u, p)'
            BY <3>1 DEF KeepsALink, Has
          <5>3. QED
            BY <5>1, <5>2, <4>2, <3>1, <3>2 DEF Knows, Unlinks
        <4>3. QED
          BY <4>1, <4>2, <2>19, <3>2 DEF CheckLinks
      <3>5. \A v \in Users, p \in Provider : linked[p][v] # None => Has(v, p)'
        BY <3>1 DEF Has
      <3>6. QED
        BY <3>1, <3>3, <3>4, <3>5, <2>3
    <2>20. ASSUME DeleteLink(r) PROVE KInv'
      <3>1. q.phase = "unlink" /\ user' = user /\ Users' = Users
        BY <2>20 DEF DeleteLink, At, Users
      <3>2. /\ u \in Users /\ u \in User /\ q.phase \in Phase /\ q \in Call /\ q.provider \in Provider
            /\ q.op \in {"link", "unlink"} /\ (q.seen.password => user[u].password)
        BY <3>1, UserOf, <2>2 DEF Phase, Call, FieldsOK, OpsAt, Knows
      <3>0. PICK p0 \in Provider : p0 = q.provider
        BY <3>2
      <3>3. \A v \in Users : ~ Links(r, v)
        BY <3>1, <3>2 DEF Links
      <3>4. /\ stripped' = IF \E l \in Others(r, u) : UnlinkBoth(r, l) THEN stripped \cup {u} ELSE stripped
            /\ linked' = [linked EXCEPT ![q.provider][u] = None]
        BY <2>20 DEF DeleteLink
      <3>5. /\ \A v \in User \ {u}, p \in Provider : linked'[p][v] = linked[p][v]
            /\ \A p \in Provider \ {q.provider} : linked'[p][u] = linked[p][u]
        BY <3>2, <3>4, <1>0 DEF TypeOK
      <3>6. req'[r].phase \in Phase => req'[r].phase = "create_link" /\ req'[r].user = u /\ req'[r].op = q.op
        BY <3>2, <2>20, <2>5, <1>0, GotoTyped DEF DeleteLink, Phase
      <3>7. \A v \in Users, p \in Provider : (v # u \/ p # q.provider) /\ linked[p][v] # None => Has(v, p)'
        BY <3>5 DEF Users, Has
      <3>8. ASSUME u \notin stripped'
            PROVE  \/ Has(u, p0)'
                   \/ HasWay(u)' /\ \A l \in Request \ {r} : Unlinks(l, u) => req[l].provider = p0
        <4>1. CASE q.op = "link"
          <5>1. /\ req'[r].phase = "create_link" /\ req'[r].user = u /\ req'[r].op = "link"
                /\ req'[r].provider = q.provider
            BY <4>1, <3>2, <2>20, <1>0, GotoTyped DEF DeleteLink, Phase
          <5>2. Links(r, u)'
            BY <5>1 DEF Links, Phase
          <5>3. QED
            BY <3>0, <5>1, <5>2 DEF Has
        <4>2. CASE q.op = "unlink"
          <5>1. u \notin stripped /\ ~ \E l \in Others(r, u) : UnlinkBoth(r, l)
            BY <3>4, <3>8
          <5>2. ASSUME NEW l \in Request \ {r}, Unlinks(l, u) PROVE req[l].provider = p0
            <6>1. l \in InFlight
              BY <5>2, <1>0, InFlightPhase DEF Unlinks, Phase
            <6>2. l \in Others(r, u)
              BY <6>1, <5>2 DEF Others, Unlinks
            <6>3. QED
              BY <3>0, <6>2, <5>1, <5>2, <4>2 DEF UnlinkBoth, Unlinks, At
          <5>3. user[u].password \/ \E p \in Provider \ {q.provider} : Has(u, p)
            BY <5>1, <4>2, <3>1, <3>2, <2>2 DEF Knows, Unlinks
          <5>4. ASSUME NEW p \in Provider \ {q.provider}, Has(u, p) PROVE Has(u, p)'
            <6>1. CASE linked[p][u] # None
              BY <6>1, <3>2, <3>7
            <6>2. ASSUME NEW l \in Request, Links(l, u), req[l].provider = p PROVE Has(u, p)'
              <7>1. l # r
                BY <6>2, <5>4
              <7>2. req'[l] = req[l]
                BY <7>1, <2>1
              <7>3. QED
                BY <7>2, <6>2 DEF Links, Has
            <6>3. QED
              BY <6>1, <6>2, <5>4 DEF Has
          <5>5. HasWay(u)'
            BY <5>3, <5>4, <3>1 DEF HasWay
          <5>6. QED
            BY <5>2, <5>5
        <4>3. QED
          BY <4>1, <4>2, <3>2
      <3>9. Knows(r)' \/ req'[r].phase \notin Phase
        BY <3>6 DEF Knows, Unlinks
      <3>10. \A v \in Users \ stripped', p \in Provider :
                linked[p][v] # None \/ (Links(r, v) /\ q.provider = p) =>
                   \/ Has(v, p)'
                   \/ HasWay(v)' /\ \A l \in Request \ {r} : Unlinks(l, v) => req[l].provider = p
        BY <3>0, <3>3, <3>7, <3>8
      <3>11. QED
        BY <3>1, <3>4, <3>9, <3>10, <2>3
    <2>21. ASSUME SaveEmail(r) PROVE KInv'
      <3>1. PICK c \in Call :
                  /\ u \in Users /\ req[r].op \in {"change_email", "resend"} /\ user'[u] \in Row
                  /\ user'[u].password = user[u].password
                  /\ user' = [user EXCEPT ![u] = user'[u]]
                  /\ req' = [req EXCEPT ![r] = c] /\ c.phase = "disable"
        BY <2>21, SaveDoes
      <3>2. Users' = Users /\ \A v \in Users : user[v].password => user'[v].password
        <4>1. u \in User
          BY <3>1 DEF Users
        <4> DEFINE row == user'[u]
        <4>2. row \in Row /\ user' = [user EXCEPT ![u] = row] /\ row.password = user[u].password
          BY <3>1
        <4> HIDE DEF row
        <4>3. /\ Users' = Users \cup {u} /\ user'[u] = row
              /\ \A v \in User \ {u} : user'[v] = user[v]
          BY <4>1, <4>2, <1>0, WriteTyped
        <4>4. QED
          BY <4>2, <4>3, <3>1 DEF Users
      <3>3. req'[r] = c
        BY <3>1, <1>0, PutTyped
      <3>4. UNCHANGED <<linked, stripped>>
        BY <2>21 DEF SaveEmail
      <3>5. QED
        BY <3>1, <3>2, <3>3, <3>4, <2>4
    <2>22. ASSUME ReadUser(r) PROVE KInv'
      <3>1. q.phase = "read_user" /\ q.phase \in Phase /\ UNCHANGED <<user, linked, stripped>> /\ Users' = Users
        BY <2>22 DEF ReadUser, At, Phase, Users, history
      <3>2. q.op = "verify"
        BY <3>1, <2>2 DEF FieldsOK, OpsAt
      <3>3. CASE Finish(r)
        BY <3>1, <3>2, <3>3, <2>4, <2>5
      <3>4. ASSUME NEW c \in Call, req' = [req EXCEPT ![r] = c], SameRequest(r, c),
                   c.phase = IF user[u].activated THEN "disable_one" ELSE "activate"
            PROVE  KInv'
        <4>1. req'[r] = c
          BY <3>4, <1>0, PutTyped
        <4>2. QED
          BY <4>1, <3>1, <3>2, <3>4, <2>4 DEF SameRequest
      <3>5. QED
        BY <2>22, <3>3, <3>4, ReadDoes
    <2>23. ASSUME DisableToken(r) PROVE KInv'
      <3>1. /\ q.phase = "disable_one" /\ q.phase \in Phase /\ UNCHANGED <<user, linked, stripped>> /\ Users' = Users
            /\ Finish(r)
        BY <2>23 DEF DisableToken, At, Phase, Users, history
      <3>2. q.op = "verify"
        BY <3>1, <2>2 DEF FieldsOK, OpsAt
      <3>3. QED
        BY <3>1, <3>2, <2>4, <2>5
    <2>24. ASSUME SavePassword(r) \/ SaveInactive(r) PROVE KInv'
      <3>1. /\ q.phase \in {"password", "deactivate"} /\ UNCHANGED <<linked, stripped>> /\ Finish(r)
            /\ q.phase \in Phase
        BY <2>24 DEF SavePassword, SaveInactive, At, history, Phase
      <3>2. u \in Users /\ u \in User /\ q.op \notin {"sign_in", "link"}
        BY <3>1, UserOf, <2>2 DEF Phase, FieldsOK, OpsAt
      <3>3. Users' = Users /\ \A v \in Users : user[v].password => user'[v].password
        BY <3>2, <2>24, <1>0, ColumnTyped DEF SavePassword, SaveInactive, Users
      <3>4. QED
        BY <3>1, <3>2, <3>3, <2>4, <2>5
    <2>25. ASSUME Abort(r) PROVE KInv'
      <3>1. /\ Finish(r) /\ UNCHANGED <<user, linked>> /\ Users' = Users
            /\ stripped' = IF q.op \in {"sign_in", "link"} THEN stripped \cup ({u} \ {None}) ELSE stripped
        BY <2>25 DEF Abort, Users
      <3>2. /\ \A v \in Users \ stripped' : ~ Links(r, v)
            /\ \A v \in Users, p \in Provider : linked[p][v] # None => Has(v, p)'
        BY <3>1 DEF Links, Users, Has
      <3>3. QED
        BY <3>1, <3>2, <2>3, <2>5
    <2>26. QED
      BY <1>3, <2>11, <2>12, <2>13, <2>14, <2>15, <2>16, <2>17, <2>18, <2>19, <2>20, <2>21, <2>22,
         <2>23, <2>24, <2>25 DEF Handle
  <1>4. ASSUME NEW u \in User, Deauthorize(u) PROVE KInv'
    <2>1. /\ UNCHANGED <<user, req>> /\ Users' = Users /\ stripped' = stripped \cup {u}
          /\ linked' = [linked EXCEPT !["facebook"][u] = None]
      BY <1>4 DEF Deauthorize, Users
    <2>2. \A v \in User \ {u}, p \in Provider : linked'[p][v] = linked[p][v]
      BY <2>1, <1>0 DEF TypeOK
    <2> DEFINE R == {r \in Request : FALSE}
    <2>3. R \in SUBSET Request /\ \A q : q \notin R
      OBVIOUS
    <2> HIDE DEF R
    <2>4. \A v \in Users \ stripped', p \in Provider : linked[p][v] # None => Has(v, p)'
      BY <2>1, <2>2 DEF Users, Has
    <2>5. QED
      BY <2>1, <2>3, <2>4, KInvKept
  <1>5. CASE MailWorker
    BY <1>1, <1>5 DEF MailWorker, SendMail, MailFails
  <1>6. CASE UNCHANGED vars
    BY <1>1, <1>6 DEF vars, history
  <1>7. QED
    BY <1>2, <1>3, <1>4, <1>5, <1>6 DEF Next

\* Nobody is left without a way to log in, but for the causes LoginKept names.
THEOREM AccountsLoginKept == Spec => []LoginKept
  <1>1. TInv /\ KInv => LoginKept
    <2> SUFFICES ASSUME TInv, KInv, NEW u \in Users \ stripped,
                        ~user[u].password, \A p \in Provider : linked[p][u] = None
                 PROVE  \E r \in InFlight : req[r].user = u /\ req[r].op \in {"sign_in", "link"}
      BY DEF LoginKept
    <2>1. PICK r \in Request : Links(r, u)
      BY DEF KInv, HasWay, Has
    <2>2. r \in InFlight
      BY <2>1, InFlightPhase DEF TInv, Links
    <2>3. QED
      BY <2>1, <2>2 DEF Links
  <1>2. QED
    BY <1>1, InitTInv, StepTInv, InitKInv, StepKInv, PTL DEF Spec
-----------------------------------------------------------------------------
\* What is left to show when the requests of R change.
LEMMA VInvKept ==
    ASSUME TInv, VInv, NEW R \in SUBSET Request,
           \A q \in Request \ R : req'[q] = req[q],
           Excused \subseteq Excused', proved \cup assumed \subseteq proved' \cup assumed', Users \subseteq Users',
           \* an address stays, or the tokens are about to be disabled and nobody vouches for it;
           \A v \in Users \ Excused' :
              \/ user'[v].email = user[v].email
              \/ /\ ~user'[v].activated /\ Disabling(v, "email")'
                 /\ \A q \in Request \ R : req[q].user = v =>
                       req[q].phase \notin {"read_user", "activate"} \/ req[q].op = "link",
           \* whoever gets activated has got the address verified;
           \A v \in Users' \ Excused' : user'[v].activated /\ (v \notin Users \/ ~user[v].activated)
              => <<v, user'[v].email>> \in proved' \cup assumed',
           \* tokens stay what they are, and disabled;
           \A t \in DOMAIN tokens : /\ t \in DOMAIN tokens' /\ tokens'[t].user = tokens[t].user
                                    /\ tokens'[t].kind = tokens[t].kind
                                    /\ tokens[t].disabled => tokens'[t].disabled,
           \A m \in inbox' \ inbox : WentRight(m)',
           \* who was about to disable tokens has done so;
           \A q \in R : At(q, "disable") /\ KindOf(q) = "email" =>
              \/ req[q].user \in Excused'
              \/ \A t \in DOMAIN tokens :
                    tokens[t].user = req[q].user /\ tokens[t].kind = "email" => tokens'[t].disabled,
           \A q \in R : Vouches(q)'
    PROVE  VInv'
  <1>1. ASSUME NEW v \in Users' \ Excused', user'[v].activated
        PROVE  <<v, user'[v].email>> \in proved' \cup assumed'
    <2>1. CASE v \in Users /\ user[v].activated
      <3>1. user'[v].email = user[v].email /\ v \notin Excused
        BY <2>1, <1>1
      <3>2. <<v, user[v].email>> \in proved \cup assumed
        BY <3>1, <2>1 DEF VInv, ActivatedVerified, Excused
      <3>3. QED
        BY <3>1, <3>2
    <2>2. QED
      BY <2>1, <1>1
  <1>2. ASSUME NEW m \in inbox PROVE WentRight(m)'
    <2>1. m[2] \in DOMAIN tokens
      BY DEF TInv, TypeOK
    <2>2. PICK u : u = tokens[m[2]].user
      OBVIOUS
    <2>3. u = tokens'[m[2]].user /\ u \in Users
      BY <2>1, <2>2 DEF TInv
    <2>4. SUFFICES ASSUME m[2] \in Enabled(u, "email")', u \notin Excused'
                   PROVE  m[1] = user'[u].email \/ Disabling(u, "email")'
      BY <2>3 DEF WentRight
    <2>5. /\ m[2] \in Enabled(u, "email") /\ u \notin Excused
          /\ ~tokens'[m[2]].disabled /\ tokens[m[2]].kind = "email"
      BY <2>1, <2>2, <2>3, <2>4 DEF Enabled
    <2>6. m[1] = user[u].email \/ Disabling(u, "email")
      BY <2>2, <2>5 DEF VInv, WentRight
    <2>7. CASE user'[u].email = user[u].email
      <3>1. CASE Disabling(u, "email")
        <4>1. PICK q \in Request : At(q, "disable") /\ req[q].user = u /\ KindOf(q) = "email"
          BY <3>1 DEF Disabling
        <4>2. q \notin R
          BY <4>1, <2>1, <2>2, <2>4, <2>5
        <4>3. req'[q] = req[q]
          BY <4>2
        <4>4. QED
          BY <4>1, <4>3 DEF Disabling, At, KindOf
      <3>2. QED
        BY <3>1, <2>6, <2>7
    <2>8. QED
      BY <2>3, <2>4, <2>7
  <1>3. ASSUME NEW q \in Request \ R PROVE Vouches(q)'
    <2>1. req'[q] = req[q] /\ Vouches(q)
      BY DEF VInv
    <2>2. req[q].phase \in {"read_user", "activate"} => req[q].user \in Users
      BY UserOf DEF Phase
    <2>3. QED
      BY <2>1, <2>2 DEF Vouches
  <1>4. QED
    BY <1>1, <1>2, <1>3 DEF VInv, ActivatedVerified, Excused

LEMMA InitVInv == Init => VInv
  <1> SUFFICES ASSUME Init PROVE VInv
    OBVIOUS
  <1> USE AccountsAssumption
  <1>1. PICK a \in Account, has \in {"none", "password", "links"} :
          /\ user = [u \in User |->
               IF u = Founder /\ has # "none"
               THEN [email |-> EmailOf[a], activated |-> TRUE, active |-> TRUE,
                     password |-> has = "password", profile |-> TRUE]
               ELSE None]
          /\ proved = IF has = "none" THEN {} ELSE {<<Founder, EmailOf[a]>>}
    BY DEF Init
  <1>2. ActivatedVerified
    BY <1>1 DEF ActivatedVerified, Users
  <1>3. inbox = {} /\ \A r \in Request : req[r].phase \notin {"read_user", "activate"}
    BY DEF Init, NotMade
  <1>4. QED
    BY <1>2, <1>3 DEF VInv, Vouches

\* Every step activates only who has got the address verified, or is excused.
LEMMA StepVInv == TInv /\ VInv /\ [Next]_vars => VInv'
  <1> SUFFICES ASSUME TInv, VInv, [Next]_vars PROVE VInv'
    OBVIOUS
  <1> USE AccountsAssumption
  <1>0. TypeOK
    BY DEF TInv
  <1>1. ASSUME UNCHANGED <<user, tokens, inbox, req, proved, assumed, overtaken, misdirected>> PROVE VInv'
    BY <1>1 DEF VInv, ActivatedVerified, WentRight, Vouches, Excused, Enabled, Disabling, At, KindOf, Users
  <1>2. ASSUME NEW r \in Request, Start(r) PROVE VInv'
    <2>1. PICK c \in Call : Started(r, c)
      BY <1>2, StartDoes
    <2>2. req'[r] = c /\ \A q \in Request \ {r} : req'[q] = req[q]
      BY <2>1, <1>0, PutTyped DEF Started
    <2>3. /\ UNCHANGED <<user, tokens, inbox, proved, assumed, misdirected>> /\ Users' = Users
          /\ req[r].phase \notin Phase /\ Excused \subseteq Excused'
      BY <2>1 DEF Started, NotMade, Phase, Users, Excused
    <2>4. Vouches(r)'
      <3>1. SUFFICES ASSUME c.phase \in {"read_user", "activate"}, c.user \notin Excused'
                     PROVE  c.email = user[c.user].email
        BY <2>2, <2>3 DEF Vouches
      <3>2. c.phase = "read_user" /\ c.user \notin overtaken' /\ c.user \notin Excused
        BY <3>1, <2>1, <2>3 DEF Started, Excused
      <3>3. ~ \E q \in Others(r, c.user) : At(q, "disable")
        BY <3>2, <2>1 DEF Started
      <3>4. ~ Disabling(c.user, "email")
        <4>1. SUFFICES ASSUME NEW q \in Request, At(q, "disable"), req[q].user = c.user PROVE FALSE
          BY DEF Disabling
        <4>2. req[q].phase \in Phase /\ q # r
          BY <4>1, <2>3 DEF At, Phase
        <4>3. q \in Others(r, c.user)
          BY <4>1, <4>2, <1>0, InFlightPhase DEF Others
        <4>4. QED
          BY <3>3, <4>1, <4>3
      <3>5. <<c.email, c.token>> \in inbox /\ c.token \in Enabled(c.user, "email")
        BY <3>2, <2>1 DEF Started
      <3> DEFINE m == <<c.email, c.token>>
      <3>6. m \in inbox /\ m[1] = c.email /\ m[2] = c.token
        BY <3>5
      <3> HIDE DEF m
      <3>7. tokens[m[2]].user = c.user /\ WentRight(m)
        BY <3>5, <3>6 DEF Enabled, VInv
      <3>8. QED
        BY <3>2, <3>4, <3>5, <3>6, <3>7 DEF WentRight
    <2> DEFINE R == {r}
    <2>5. /\ R \in SUBSET Request /\ \A q \in Request \ R : req'[q] = req[q]
          /\ \A q \in R : Vouches(q)' /\ ~ At(q, "disable")
      BY <2>2, <2>3, <2>4 DEF At, Phase
    <2> HIDE DEF R
    <2>6. QED
      BY <2>3, <2>5, VInvKept
  <1>3. ASSUME NEW r \in Request, Handle(r) \/ Abort(r) PROVE VInv'
    <2> DEFINE q == req[r]
    <2>0. PICK u : u = q.user
      OBVIOUS
    <2> USE <2>0
    <2>1. \A p \in Request \ {r} : req'[p] = req[p]
      BY <1>0, <1>3, OthersKept
    <2>2. q.phase \in Phase => q \in Call /\ FieldsOK(q, tokens) /\ Vouches(r)
      BY <1>0, CallTyped DEF TInv, VInv
    <2> DEFINE SameTokens ==
                 \A t \in DOMAIN tokens : /\ t \in DOMAIN tokens' /\ tokens'[t].user = tokens[t].user
                                          /\ tokens'[t].kind = tokens[t].kind
                                          /\ tokens[t].disabled => tokens'[t].disabled
    <2>3. ASSUME Excused \subseteq Excused', proved \cup assumed \subseteq proved' \cup assumed', Users \subseteq Users', inbox' = inbox,
                 \A v \in Users \ Excused' :
                    \/ user'[v].email = user[v].email
                    \/ /\ ~user'[v].activated /\ Disabling(v, "email")'
                       /\ \A p \in Request \ {r} : req[p].user = v =>
                             req[p].phase \notin {"read_user", "activate"} \/ req[p].op = "link",
                 \A v \in Users' \ Excused' : user'[v].activated /\ (v \notin Users \/ ~user[v].activated)
                    => <<v, user'[v].email>> \in proved' \cup assumed',
                 SameTokens,
                 At(r, "disable") /\ KindOf(r) = "email" =>
                    \/ u \in Excused'
                    \/ \A t \in DOMAIN tokens :
                          tokens[t].user = u /\ tokens[t].kind = "email" => tokens'[t].disabled,
                 Vouches(r)'
          PROVE  VInv'
      <3> DEFINE R == {r}
      <3>1. /\ R \in SUBSET Request /\ \A p \in Request \ R : req'[p] = req[p]
            /\ \A p \in R : Vouches(p)'
            /\ \A p \in R : At(p, "disable") /\ KindOf(p) = "email" =>
                 \/ req[p].user \in Excused'
                 \/ \A t \in DOMAIN tokens :
                       tokens[t].user = req[p].user /\ tokens[t].kind = "email" => tokens'[t].disabled
            /\ \A v \in Users \ Excused' :
                    \/ user'[v].email = user[v].email
                    \/ /\ ~user'[v].activated /\ Disabling(v, "email")'
                       /\ \A p \in Request \ R : req[p].user = v =>
                             req[p].phase \notin {"read_user", "activate"} \/ req[p].op = "link"
        BY <2>1, <2>3
      <3> HIDE DEF R
      <3>2. \A m \in inbox' \ inbox : WentRight(m)'
        BY <2>3
      <3>3. QED
        BY <3>1, <3>2, <2>3, VInvKept
    <2> HIDE DEF SameTokens
    <2>4. tokens' = tokens => SameTokens
      BY DEF SameTokens
    \* A step that leaves addresses alone, activates nobody and disables no token.
    <2>5. ASSUME UNCHANGED <<inbox, proved, assumed, overtaken, misdirected>>, Users' = Users, SameTokens,
                 \A v \in Users : user'[v].email = user[v].email /\ user'[v].activated = user[v].activated,
                 q.phase # "disable",
                 req'[r].phase \notin {"read_user", "activate"} \/ req'[r].op = "link"
          PROVE  VInv'
      <3>1. Excused' = Excused /\ Vouches(r)'
        BY <2>5 DEF Excused, Vouches
      <3>2. QED
        BY <3>1, <2>3, <2>5 DEF At
    <2>6. ASSUME Finish(r) PROVE req'[r].phase = "done"
      BY <2>6, <1>0, PutTyped DEF Finish, Done
    <2>11. ASSUME FindByEmail(r) PROVE VInv'
      <3>1. /\ q.phase = "find" /\ UNCHANGED <<user, tokens, inbox, proved, assumed, overtaken, misdirected>> /\ Users' = Users
            /\ q.phase \in Phase
        BY <2>11 DEF FindByEmail, At, Users, history, Phase
      <3>2. CASE Goto(r, "check")
        <4>1. req'[r].phase = "check"
          BY <3>1, <3>2, <1>0, GotoTyped DEF Phase
        <4>2. QED
          BY <3>1, <4>1, <2>4, <2>5
      <3>3. CASE Finish(r)
        BY <3>1, <3>3, <2>4, <2>5, <2>6
      <3>4. ASSUME NEW v \in Users, NEW c \in Call, user[v].email = req[r].email,
                 req' = [req EXCEPT ![r] = c], SameRequest(r, c), c.user = v,
                 c.phase = IF user[v].activated THEN "create_link" ELSE "activate"
            PROVE  VInv'
        <4>1. req'[r] = c
          BY <3>4, <1>0, PutTyped
        <4>2. Vouches(r)' /\ Excused' = Excused
          BY <4>1, <3>1, <3>4 DEF Vouches, SameRequest, Excused
        <4>3. QED
          BY <4>2, <3>1, <2>3, <2>4 DEF At
      <3>5. QED
        BY <2>11, <3>2, <3>3, <3>4, FindDoes
    <2>12. ASSUME CheckEmail(r) PROVE VInv'
      <3>1. /\ q.phase = "check" /\ UNCHANGED <<user, tokens, inbox, proved, assumed, overtaken, misdirected>> /\ Users' = Users
            /\ q.phase \in Phase
        BY <2>12 DEF CheckEmail, At, Users, history, Phase
      <3>2. req'[r].phase \in {"insert", "done"}
        BY <3>1, <2>12, <2>6, <1>0, GotoTyped DEF CheckEmail, Phase
      <3>3. QED
        BY <3>1, <3>2, <2>4, <2>5
    <2>13. ASSUME InsertUser(r) PROVE VInv'
      <3>1. PICK v \in User \ Users, row \in Row, c \in Call :
              /\ req[r].phase = "insert" /\ req[r].op \in {"sign_up", "sign_in"}
              /\ row.email = req[r].email /\ row.activated = (req[r].op = "sign_in")
              /\ user' = [user EXCEPT ![v] = row]
              /\ req' = [req EXCEPT ![r] = c] /\ c.phase = "profile"
              /\ proved' = IF req[r].op = "sign_up" THEN proved ELSE proved \cup {<<v, req[r].email>>}
              /\ UNCHANGED <<tokens, inbox, assumed, overtaken, misdirected>>
        BY <2>13, InsertDoes
      <3>2. /\ req'[r] = c /\ Users' = Users \cup {v} /\ user'[v] = row
            /\ \A w \in User \ {v} : user'[w] = user[w]
        <4>1. req'[r] = c
          BY <3>1, <1>0, PutTyped
        <4>2. QED
          BY <4>1, <3>1, <1>0, WriteTyped
      <3>3. Vouches(r)' /\ Excused' = Excused /\ proved \cup assumed \subseteq proved' \cup assumed'
        BY <3>1, <3>2 DEF Vouches, Excused
      <3>4. \A w \in Users : user'[w] = user[w]
        BY <3>1, <3>2 DEF Users
      <3>5. \A w \in Users' \ Excused' : user'[w].activated /\ (w \notin Users \/ ~user[w].activated)
                    => <<w, user'[w].email>> \in proved' \cup assumed'
        <4>1. user'[v].activated => <<v, user'[v].email>> \in proved' \cup assumed'
          <5>1. row.activated => req[r].op # "sign_up"
            BY <3>1
          <5>2. QED
            BY <5>1, <3>1, <3>2
        <4>2. QED
          BY <4>1, <3>2, <3>4
      <3>6. QED
        BY <3>1, <3>2, <3>3, <3>4, <3>5, <2>3, <2>4 DEF At
    <2>14. ASSUME CreateProfile(r) PROVE VInv'
      <3>1. /\ q.phase = "profile" /\ UNCHANGED <<tokens, inbox, proved, assumed, overtaken, misdirected>>
            /\ Goto(r, "mail") \/ Goto(r, "token")
        BY <2>14 DEF CreateProfile, At, history
      <3>2. u \in Users /\ u \in User /\ q.phase \in Phase
        BY <3>1, UserOf DEF Phase
      <3>3. /\ Users' = Users
            /\ \A v \in Users : user'[v].email = user[v].email /\ user'[v].activated = user[v].activated
        <4>1. user' = [user EXCEPT ![u].profile = TRUE]
          BY <2>14 DEF CreateProfile
        <4>2. /\ Users' = Users /\ user'[u].email = user[u].email /\ user'[u].activated = user[u].activated
              /\ \A v \in User \ {u} : user'[v] = user[v]
          BY <3>2, <4>1, <1>0, ColumnTyped
        <4>3. QED
          BY <4>2 DEF Users
      <3>4. req'[r].phase \in {"mail", "token"}
        BY <3>1, <3>2, <1>0, GotoTyped DEF Phase
      <3>5. QED
        BY <3>1, <3>3, <3>4, <2>4, <2>5
    <2>15. ASSUME CreateToken(r) PROVE VInv'
      <3>1. /\ q.phase = "token" /\ UNCHANGED <<user, inbox, proved, assumed, overtaken, misdirected>> /\ Users' = Users
            /\ Goto(r, "mail")
        BY <2>15 DEF CreateToken, At, Users, history
      <3>2. u \in User /\ q.phase \in Phase
        BY <3>1, UserOf DEF Phase
      <3>3. req'[r].phase = "mail"
        BY <3>1, <3>2, <1>0, GotoTyped DEF Phase
      <3>4. SameTokens
        BY <2>15, <3>2, <1>0, TokenAdded DEF SameTokens
      <3>5. QED
        BY <3>1, <3>3, <3>4, <2>5
    <2>16. ASSUME EnqueueMail(r) \/ CheckLinks(r) \/ DeleteLink(r) \/ CreateLink(r) PROVE VInv'
      <3>1. /\ q.phase \in {"mail", "owner", "unlink", "create_link"} /\ Users' = Users
            /\ UNCHANGED <<user, tokens, inbox, proved, assumed, overtaken, misdirected>>
        BY <2>16 DEF EnqueueMail, CheckLinks, DeleteLink, CreateLink, At, Users, history
      <3>2. \/ Finish(r) \/ Goto(r, "create_link") \/ Goto(r, "unlink")
            \/ Goto(r, "activate") /\ q.op = "link"
        BY <2>16 DEF EnqueueMail, CheckLinks, DeleteLink, CreateLink
      <3>3. req'[r].phase \notin {"read_user", "activate"} \/ req'[r].op = "link"
        <4>1. q.phase \in Phase
          BY <3>1 DEF Phase
        <4>2. CASE Finish(r)
          BY <4>2, <2>6
        <4>3. CASE Goto(r, "create_link") \/ Goto(r, "unlink")
          BY <4>1, <4>3, <1>0, GotoTyped DEF Phase
        <4>4. CASE Goto(r, "activate") /\ q.op = "link"
          BY <4>1, <4>4, <1>0, GotoTyped DEF Phase
        <4>5. QED
          BY <3>2, <4>2, <4>3, <4>4
      <3>4. QED
        BY <3>1, <3>3, <2>4, <2>5
    <2>17. ASSUME Activate(r) PROVE VInv'
      <3>1. q.phase = "activate" /\ UNCHANGED <<tokens, inbox, overtaken, misdirected>>
        BY <2>17 DEF Activate, At
      <3>2. u \in Users /\ u \in User /\ q.phase \in Phase /\ Vouches(r)
        BY <3>1, UserOf, <2>2 DEF Phase
      <3>3. /\ Users' = Users /\ \A v \in Users : user'[v].email = user[v].email
            /\ \A v \in Users \ {u} : user'[v] = user[v]
        BY <3>2, <2>17, <1>0, ColumnTyped DEF Activate, Users
      <3>4. /\ proved' \cup assumed' =
                 proved \cup assumed \cup {<<u, IF q.op = "link" THEN user[u].email ELSE q.email>>}
            /\ Excused' = Excused
        BY <2>17, <3>1 DEF Activate, Excused
      <3>5. u \notin Excused' => <<u, user'[u].email>> \in proved' \cup assumed'
        BY <3>1, <3>2, <3>3, <3>4 DEF Vouches
      <3>6. req'[r].phase \notin {"read_user", "activate"}
        <4>1. Goto(r, "create_link") \/ Goto(r, "disable_one") \/ Finish(r)
          BY <2>17 DEF Activate
        <4>2. QED
          BY <4>1, <3>2, <2>6, <1>0, GotoTyped DEF Phase
      <3>7. Vouches(r)'
        BY <3>6 DEF Vouches
      <3>8. \A w \in Users' \ Excused' : user'[w].activated /\ (w \notin Users \/ ~user[w].activated)
                    => <<w, user'[w].email>> \in proved' \cup assumed'
        BY <3>3, <3>5
      <3>9. QED
        BY <3>1, <3>3, <3>4, <3>7, <3>8, <2>3, <2>4 DEF At
    <2>18. ASSUME SaveEmail(r) PROVE VInv'
      <3>1. PICK c \in Call :
                  /\ u \in Users /\ req[r].op \in {"change_email", "resend"} /\ user'[u] \in Row
                  /\ ~user'[u].activated
                  /\ user' = [user EXCEPT ![u] = user'[u]]
                  /\ req' = [req EXCEPT ![r] = c] /\ SameRequest(r, c) /\ c.user = u /\ c.phase = "disable"
        BY <2>18, SaveDoes
      <3>2. u \in User /\ Users' = Users /\ \A v \in Users \ {u} : user'[v] = user[v]
        <4>1. u \in User
          BY <3>1 DEF Users
        <4> DEFINE row == user'[u]
        <4>2. row \in Row /\ user' = [user EXCEPT ![u] = row]
          BY <3>1
        <4> HIDE DEF row
        <4>3. /\ Users' = Users \cup {u}
              /\ \A v \in User \ {u} : user'[v] = user[v]
          BY <4>1, <4>2, <1>0, WriteTyped
        <4>4. QED
          BY <4>1, <4>3, <3>1 DEF Users
      <3>3. req'[r] = c
        BY <3>1, <1>0, PutTyped
      <3>4. /\ UNCHANGED <<tokens, inbox, proved, assumed, misdirected>> /\ q.phase = "save_email"
            /\ overtaken' = overtaken \cup
                 (IF \E p \in Others(r, u) : req[p].op \in {"verify", "link", "sign_in"} THEN {u} ELSE {})
        BY <2>18 DEF SaveEmail, At
      <3>5. Excused \subseteq Excused' /\ Vouches(r)'
        BY <3>1, <3>3, <3>4 DEF Excused, Vouches
      <3>6. Disabling(u, "email")'
        <4>1. At(r, "disable")' /\ req'[r].user = u /\ KindOf(r)' = "email"
          BY <3>1, <3>3 DEF At, KindOf, SameRequest
        <4>2. QED
          BY <4>1 DEF Disabling
      <3>7. ASSUME u \notin Excused', NEW p \in Request \ {r}, req[p].user = u,
                   req[p].phase \in {"read_user", "activate"}
            PROVE  req[p].op = "link"
        <4>1. req[p].op \in {"sign_in", "link", "verify"} /\ p \in InFlight
          BY <3>7, <1>0, InFlightPhase DEF TInv, FieldsOK, OpsAt, Phase
        <4>2. p \in Others(r, u)
          BY <4>1, <3>7 DEF Others
        <4>3. u \in Excused'
          BY <4>1, <4>2, <3>4 DEF Excused
        <4>4. QED
          BY <4>3, <3>7
      <3>8. \A v \in Users \ Excused' :
                    \/ user'[v].email = user[v].email
                    \/ /\ ~user'[v].activated /\ Disabling(v, "email")'
                       /\ \A p \in Request \ {r} : req[p].user = v =>
                             req[p].phase \notin {"read_user", "activate"} \/ req[p].op = "link"
        <4>1. ASSUME NEW v \in Users \ Excused', v = u
              PROVE  /\ ~user'[v].activated /\ Disabling(v, "email")'
                     /\ \A p \in Request \ {r} : req[p].user = v =>
                             req[p].phase \notin {"read_user", "activate"} \/ req[p].op = "link"
          BY <4>1, <3>1, <3>6, <3>7
        <4>2. QED
          BY <4>1, <3>2
      <3>9. \A w \in Users' \ Excused' : user'[w].activated /\ (w \notin Users \/ ~user[w].activated)
                    => <<w, user'[w].email>> \in proved' \cup assumed'
        BY <3>1, <3>2
      <3>10. QED
        BY <3>2, <3>4, <3>5, <3>8, <3>9, <2>3, <2>4 DEF At
    <2>19. ASSUME DisableTokens(r) PROVE VInv'
      <3> DEFINE S == {t \in DOMAIN tokens : Earlier(r, t)}
      <3>1. /\ q.phase = "disable" /\ UNCHANGED <<user, inbox, proved, assumed, overtaken, misdirected>> /\ Users' = Users
            /\ Goto(r, "token") /\ q.phase \in Phase
        BY <2>19 DEF DisableTokens, At, Users, history, Phase
      <3>2. tokens' = [t \in DOMAIN tokens |->
                         IF t \in S THEN [tokens[t] EXCEPT !.disabled = TRUE] ELSE tokens[t]]
        BY <2>19 DEF DisableTokens
      <3>3. S \in SUBSET DOMAIN tokens
        BY DEF S
      <3> HIDE DEF S
      <3>4. /\ DOMAIN tokens' = DOMAIN tokens
            /\ \A t \in DOMAIN tokens : /\ tokens'[t].user = tokens[t].user /\ tokens'[t].kind = tokens[t].kind
                                        /\ tokens'[t].disabled = (tokens[t].disabled \/ t \in S)
        BY <3>2, <3>3, <1>0, TokensDisabled
      <3>5. SameTokens
        BY <3>4 DEF SameTokens
      <3>6. KindOf(r) = "email" => \A t \in DOMAIN tokens :
                          tokens[t].user = u /\ tokens[t].kind = "email" => tokens'[t].disabled
        BY <3>4 DEF S, Earlier
      <3>7. req'[r].phase = "token"
        BY <3>1, <1>0, GotoTyped DEF Phase
      <3>8. Vouches(r)' /\ Excused' = Excused
        BY <3>1, <3>7 DEF Vouches, Excused
      <3>9. QED
        BY <3>1, <3>5, <3>6, <3>8, <2>3
    <2>20. ASSUME ReadUser(r) PROVE VInv'
      <3>1. /\ q.phase = "read_user" /\ q.phase \in Phase /\ Users' = Users
            /\ UNCHANGED <<user, tokens, inbox, proved, assumed, overtaken, misdirected>>
        BY <2>20 DEF ReadUser, At, Phase, Users, history
      <3>2. CASE Finish(r)
        BY <3>1, <3>2, <2>4, <2>5, <2>6
      <3>3. ASSUME NEW c \in Call, req' = [req EXCEPT ![r] = c], SameRequest(r, c), c.user = u
            PROVE  VInv'
        <4>1. req'[r] = c
          BY <3>3, <1>0, PutTyped
        <4>2. Vouches(r)' /\ Excused' = Excused
          BY <4>1, <3>1, <3>3, <2>2 DEF Vouches, SameRequest, Excused
        <4>3. QED
          BY <4>2, <3>1, <2>3, <2>4 DEF At
      <3>4. QED
        BY <2>20, <3>2, <3>3, ReadDoes
    <2>21. ASSUME DisableToken(r) PROVE VInv'
      <3>1. /\ q.phase = "disable_one" /\ q.phase \in Phase /\ Users' = Users
            /\ UNCHANGED <<user, inbox, proved, assumed, overtaken, misdirected>> /\ Finish(r)
        BY <2>21 DEF DisableToken, At, Phase, Users, history
      <3>2. {q.token} \in SUBSET DOMAIN tokens
        BY <3>1, <2>2 DEF FieldsOK, OpsAt
      <3>3. tokens' = [t \in DOMAIN tokens |->
                         IF t \in {q.token} THEN [tokens[t] EXCEPT !.disabled = TRUE] ELSE tokens[t]]
        BY <2>21 DEF DisableToken
      <3>4. SameTokens
        BY <3>2, <3>3, <1>0, TokensDisabled DEF SameTokens
      <3>5. QED
        BY <3>1, <3>4, <2>5, <2>6
    <2>22. ASSUME SavePassword(r) \/ SaveInactive(r) PROVE VInv'
      <3>1. /\ q.phase \in {"password", "deactivate"} /\ Finish(r) /\ q.phase \in Phase
            /\ UNCHANGED <<tokens, inbox, proved, assumed, overtaken, misdirected>>
        BY <2>22 DEF SavePassword, SaveInactive, At, history, Phase
      <3>2. u \in Users /\ u \in User
        BY <3>1, <1>0, UserOf DEF Phase
      <3>3. Users' = Users /\ \A v \in Users : user'[v].email = user[v].email
        BY <3>2, <2>22, <1>0, ColumnTyped DEF SavePassword, SaveInactive, Users
      <3>4. \A v \in Users : user'[v].activated = user[v].activated
        BY <3>2, <2>22, <1>0, ColumnTyped DEF SavePassword, SaveInactive, Users
      <3>5. QED
        BY <3>1, <3>3, <3>4, <2>4, <2>5, <2>6
    <2>23. ASSUME Abort(r) PROVE VInv'
      <3>1. /\ q.phase \in Phase /\ Finish(r) /\ UNCHANGED <<user, tokens, inbox, proved, assumed, misdirected>>
            /\ Users' = Users
            /\ overtaken' = IF At(r, "disable") THEN overtaken \cup ({u} \ {None}) ELSE overtaken
        BY <2>23, <1>0, InFlightPhase DEF Abort, Users
      <3>2. At(r, "disable") => u \in Excused'
        <4>1. At(r, "disable") => u \in User
          BY UserOf DEF At, Phase
        <4>2. QED
          BY <4>1, <3>1 DEF Excused
      <3>3. Excused \subseteq Excused' /\ Vouches(r)'
        BY <3>1, <2>6 DEF Excused, Vouches
      <3>4. QED
        BY <3>1, <3>2, <3>3, <2>3, <2>4
    <2>24. QED
      BY <1>3, <2>11, <2>12, <2>13, <2>14, <2>15, <2>16, <2>17, <2>18, <2>19, <2>20, <2>21, <2>22,
         <2>23 DEF Handle
  <1>4. ASSUME NEW u \in User, Deauthorize(u) PROVE VInv'
    BY <1>1, <1>4 DEF Deauthorize
  <1>5. CASE MailFails
    BY <1>1, <1>5 DEF MailFails
  <1>6. CASE SendMail
    <2>1. /\ UNCHANGED <<user, tokens, req, proved, assumed, overtaken>> /\ Users' = Users /\ mails # << >>
      BY <1>6 DEF SendMail, Users
    <2>2. PICK mail : mail = Head(mails)
      OBVIOUS
    <2>3. mail \in Mail
      <3>1. mails \in Seq(Mail)
        BY <1>0 DEF TypeOK
      <3>2. QED
        BY <2>1, <2>2, <3>1, HeadTailProperties
    <2>4. /\ inbox' = inbox \/ \E t \in Live(mail) : inbox' = inbox \cup {<<mail.email, t>>}
          /\ misdirected' = IF Live(mail) # {} /\ mail.email # user[mail.user].email
                            THEN misdirected \cup {mail.user} ELSE misdirected
      BY <1>6, <2>2 DEF SendMail
    <2>5. Excused \subseteq Excused'
      BY <2>1, <2>4 DEF Excused
    <2>6. ASSUME NEW m \in inbox' \ inbox PROVE WentRight(m)'
      <3>1. PICK t \in Live(mail) : m = <<mail.email, t>>
        BY <2>4, <2>6
      <3>2. m[1] = mail.email /\ m[2] = t /\ tokens[t].user = mail.user
        BY <3>1 DEF Live, Enabled
      <3>3. mail.user \notin Excused' => mail.email = user[mail.user].email
        BY <3>1, <2>4 DEF Excused
      <3>4. QED
        BY <3>2, <3>3, <2>1 DEF WentRight
    <2> DEFINE R == {r \in Request : FALSE}
    <2>7. R \in SUBSET Request /\ \A q : q \notin R
      OBVIOUS
    <2> HIDE DEF R
    <2>8. QED
      BY <2>1, <2>5, <2>6, <2>7, VInvKept
  <1>7. CASE UNCHANGED vars
    BY <1>1, <1>7 DEF vars, history
  <1>8. QED
    BY <1>2, <1>3, <1>4, <1>5, <1>6, <1>7 DEF Next, MailWorker

\* An account counts as verified only when somebody has shown to have its address,
\* but for the causes ActivatedVerified names.
THEOREM AccountsActivatedVerified == Spec => []ActivatedVerified
  <1>1. VInv => ActivatedVerified
    BY DEF VInv
  <1>2. QED
    BY <1>1, InitTInv, StepTInv, InitVInv, StepVInv, PTL DEF Spec
-----------------------------------------------------------------------------
\* Two sets that shrink have fewer elements ...
LEMMA Shrink ==
    ASSUME NEW S, NEW T, NEW W \in Nat, IsFiniteSet(S), IsFiniteSet(T),
           Cardinality(S) + Cardinality(T) <= W,
           NEW S1 \in SUBSET S, NEW T1 \in SUBSET T
    PROVE  IsFiniteSet(S1) /\ Cardinality(S1) + Cardinality(T1) <= W
  <1>1. IsFiniteSet(S1) /\ IsFiniteSet(T1) /\ Cardinality(S1) <= Cardinality(S) /\ Cardinality(T1) <= Cardinality(T)
    BY FS_Subset
  <1>2. Cardinality(S) \in Nat /\ Cardinality(T) \in Nat /\ Cardinality(S1) \in Nat /\ Cardinality(T1) \in Nat
    BY <1>1, FS_CardinalityType
  <1>3. QED
    BY <1>1, <1>2

\* ... and so have two of which one gains what the other loses.
LEMMA Exchange ==
    ASSUME NEW S, NEW T, NEW W \in Nat, IsFiniteSet(S), IsFiniteSet(T),
           Cardinality(S) + Cardinality(T) <= W, NEW x, NEW y \in T,
           NEW S1 \in SUBSET (S \cup {x}), NEW T1 \in SUBSET (T \ {y})
    PROVE  IsFiniteSet(S1) /\ Cardinality(S1) + Cardinality(T1) <= W
  <1>1. /\ IsFiniteSet(S \cup {x}) /\ IsFiniteSet(T \ {y})
        /\ Cardinality(S \cup {x}) <= Cardinality(S) + 1
        /\ Cardinality(T \ {y}) = Cardinality(T) - 1
    <2>1. Cardinality(S) \in Nat /\ Cardinality(T) \in Nat
      BY FS_CardinalityType
    <2>2. IsFiniteSet(S \cup {x}) /\ Cardinality(S \cup {x}) <= Cardinality(S) + 1
      <3>1. /\ IsFiniteSet(S \cup {x})
            /\ Cardinality(S \cup {x}) = IF x \in S THEN Cardinality(S) ELSE Cardinality(S) + 1
        BY FS_AddElement
      <3>2. QED
        BY <2>1, <3>1
    <2>3. IsFiniteSet(T \ {y}) /\ Cardinality(T \ {y}) = Cardinality(T) - 1
      BY FS_RemoveElement
    <2>4. QED
      BY <2>2, <2>3
  <1>2. Cardinality(S) \in Nat /\ Cardinality(T) \in Nat /\ Cardinality(S \cup {x}) \in Nat
    BY <1>1, FS_CardinalityType
  <1>3. Cardinality(S \cup {x}) + Cardinality(T \ {y}) <= W
    BY <1>1, <1>2
  <1>4. QED
    BY <1>1, <1>3, Shrink

\* Users of whom each has a request of its own in A are, with the requests of
\* another set B, no more than there are requests.
LEMMA AsManyAsRequests ==
    ASSUME NEW F, IsFiniteSet(F), NEW W \in Nat, Cardinality(F) <= W,
           NEW A \in SUBSET F, NEW B \in SUBSET F, A \cap B = {},
           NEW f, NEW O, \A v \in O : \E a \in A : f[a] = v
    PROVE  IsFiniteSet(O) /\ Cardinality(O) + Cardinality(B) <= W
  <1> DEFINE D == {a \in A : f[a] \in O}
             g == [a \in D |-> f[a]]
  <1>1. D \in SUBSET F /\ D \cap B = {}
    OBVIOUS
  <1>2. g \in Surjection(D, O)
    BY DEF Surjection
  <1>3. IsFiniteSet(D) /\ IsFiniteSet(B)
    BY <1>1, FS_Subset
  <1> HIDE DEF D, g
  <1>4. IsFiniteSet(O) /\ Cardinality(O) <= Cardinality(D)
    BY <1>2, <1>3, FS_Surjection
  <1>5. Cardinality(D \cup B) = Cardinality(D) + Cardinality(B)
    <2>1. Cardinality(D \cup B) = Cardinality(D) + Cardinality(B) - Cardinality(D \cap B)
      BY <1>3, FS_Union
    <2>2. Cardinality(D \cap B) = 0
      BY <1>1, FS_EmptySet
    <2>3. Cardinality(D) \in Nat /\ Cardinality(B) \in Nat
      BY <1>3, FS_CardinalityType
    <2>4. QED
      BY <2>1, <2>2, <2>3
  <1>6. Cardinality(D \cup B) <= Cardinality(F) /\ IsFiniteSet(D \cup B)
    <2>1. D \cup B \in SUBSET F
      BY <1>1
    <2>2. QED
      BY <2>1, FS_Subset
  <1>7. /\ Cardinality(D) \in Nat /\ Cardinality(B) \in Nat /\ Cardinality(F) \in Nat /\ Cardinality(O) \in Nat
    BY <1>3, <1>4, FS_CardinalityType
  <1>8. QED
    BY <1>4, <1>5, <1>6, <1>7

\* The sets of the invariant are finite, those of requests are in flight.
LEMMA DSets ==
    ASSUME TypeOK, IsFiniteSet(InFlight)
    PROVE  /\ \A e \in Email : /\ Inserting(e) \subseteq InFlight /\ SavingTo(e) \subseteq InFlight
                               /\ Inserting(e) \cap SavingTo(e) = {} /\ IsFiniteSet(Inserting(e))
           /\ \A u \in User, k \in Kind :
                 /\ Tokening(u, k) \subseteq InFlight /\ IsFiniteSet(Tokening(u, k))
                 /\ Enabled(u, k) \subseteq DOMAIN tokens /\ IsFiniteSet(Enabled(u, k))
  <1>1. ASSUME NEW e \in Email
        PROVE  /\ Inserting(e) \subseteq InFlight /\ SavingTo(e) \subseteq InFlight
               /\ Inserting(e) \cap SavingTo(e) = {}
    BY DEF Inserting, SavingTo, InFlight, At, NotMade, Done
  <1>2. ASSUME NEW u \in User, NEW k \in Kind
        PROVE  Tokening(u, k) \subseteq InFlight /\ Enabled(u, k) \subseteq DOMAIN tokens
    BY DEF Tokening, Enabled, InFlight, NotMade, Done
  <1>3. IsFiniteSet(DOMAIN tokens)
    <2>1. DOMAIN tokens = 1..Len(tokens) /\ Len(tokens) \in Nat /\ 1 \in Int
      BY TokenTyped
    <2>2. QED
      BY <2>1, FS_Interval
  <1>4. QED
    BY <1>1, <1>2, <1>3, FS_Subset

\* What is left to show: the sets shrink, or the sums are no larger for another reason.
LEMMA DInvKept ==
    ASSUME TInv, DInv, IsFiniteSet(InFlight'), Cardinality(InFlight') <= Workers,
           \A e \in Email :
              \/ Owners(e)' \subseteq Owners(e) /\ Inserting(e)' \subseteq Inserting(e)
              \/ IsFiniteSet(Owners(e)') /\ Cardinality(Owners(e)') + Cardinality(Inserting(e)') <= Workers,
           \A u \in User, k \in Kind :
              \/ Enabled(u, k)' \subseteq Enabled(u, k) /\ Tokening(u, k)' \subseteq Tokening(u, k)
              \/ Cardinality(Enabled(u, k)') + Cardinality(Tokening(u, k)') <= Workers
    PROVE  DInv'
  <1>0. TypeOK /\ IsFiniteSet(InFlight) /\ Workers \in Nat
    BY AccountsAssumption DEF TInv, DInv
  <1>1. ASSUME NEW e \in Email
        PROVE  IsFiniteSet(Owners(e)') /\ Cardinality(Owners(e)') + Cardinality(Inserting(e)') <= Workers
    <2>1. CASE Owners(e)' \subseteq Owners(e) /\ Inserting(e)' \subseteq Inserting(e)
      <3>1. /\ IsFiniteSet(Owners(e)) /\ IsFiniteSet(Inserting(e))
            /\ Cardinality(Owners(e)) + Cardinality(Inserting(e)) <= Workers
        BY <1>0, DSets DEF DInv
      <3>2. QED
        BY <3>1, <2>1, <1>0, Shrink
    <2>2. QED
      BY <2>1
  <1>2. ASSUME NEW u \in User, NEW k \in Kind
        PROVE  Cardinality(Enabled(u, k)') + Cardinality(Tokening(u, k)') <= Workers
    <2>1. CASE Enabled(u, k)' \subseteq Enabled(u, k) /\ Tokening(u, k)' \subseteq Tokening(u, k)
      <3>1. /\ IsFiniteSet(Enabled(u, k)) /\ IsFiniteSet(Tokening(u, k))
            /\ Cardinality(Enabled(u, k)) + Cardinality(Tokening(u, k)) <= Workers
        BY <1>0, DSets DEF DInv
      <3>2. QED
        BY <3>1, <2>1, <1>0, Shrink
    <2>2. QED
      BY <2>1
  <1>3. QED
    BY <1>1, <1>2 DEF DInv

\* When nobody has an address but users whose requests are saving it, they and
\* the requests that are about to insert it are no more than run at once.
LEMMA RacersBounded ==
    ASSUME IsFiniteSet(InFlight'), Cardinality(InFlight') <= Workers, NEW e,
           \A v \in Holders(e)' : \E r \in SavingTo(e)' : req'[r].user = v
    PROVE  IsFiniteSet(Owners(e)') /\ Cardinality(Owners(e)') + Cardinality(Inserting(e)') <= Workers
  <1> DEFINE f == [r \in Request |-> req'[r].user]
             A == SavingTo(e)'
             B == Inserting(e)'
             O == Owners(e)'
  <1>1. A \subseteq InFlight' /\ B \subseteq InFlight' /\ A \cap B = {} /\ A \subseteq Request
    BY DEF Inserting, SavingTo, InFlight, At, NotMade, Done
  <1>2. \A v \in O : \E a \in A : f[a] = v
    BY <1>1 DEF Owners
  <1>3. Workers \in Nat
    BY AccountsAssumption
  <1> HIDE DEF f, A, B, O
  <1>4. IsFiniteSet(O) /\ Cardinality(O) + Cardinality(B) <= Workers
    BY <1>1, <1>2, <1>3, AsManyAsRequests
  <1>5. QED
    BY <1>4 DEF O, B

\* When no token is enabled, those about to be are no more than requests run at once.
LEMMA TokeningBounded ==
    ASSUME IsFiniteSet(InFlight'), Cardinality(InFlight') <= Workers, NEW u, NEW k, Enabled(u, k)' = {}
    PROVE  Cardinality(Enabled(u, k)') + Cardinality(Tokening(u, k)') <= Workers
  <1>1. Tokening(u, k)' \subseteq InFlight'
    BY DEF Tokening, InFlight, NotMade, Done
  <1>2. /\ IsFiniteSet(Tokening(u, k)') /\ Cardinality(Tokening(u, k)') <= Cardinality(InFlight')
    BY <1>1, FS_Subset
  <1>3. Cardinality(Tokening(u, k)') \in Nat /\ Cardinality(InFlight') \in Nat /\ Workers \in Nat
    BY <1>2, FS_CardinalityType, AccountsAssumption
  <1>4. Cardinality(Enabled(u, k)') = 0
    BY FS_EmptySet
  <1>5. QED
    BY <1>2, <1>3, <1>4

LEMMA InitDInv == Init => DInv
  <1> SUFFICES ASSUME Init PROVE DInv
    OBVIOUS
  <1> USE AccountsAssumption
  <1>0. TypeOK /\ Workers \in Nat
    BY InitTInv DEF TInv
  <1>1. InFlight = {} /\ tokens = << >>
    BY DEF Init, InFlight
  <1>2. IsFiniteSet(InFlight) /\ Cardinality(InFlight) = 0
    BY <1>1, FS_EmptySet
  <1>3. ASSUME NEW e \in Email
        PROVE  IsFiniteSet(Owners(e)) /\ Cardinality(Owners(e)) + Cardinality(Inserting(e)) <= Workers
    <2>1. Inserting(e) = {} /\ SavingTo(e) = {}
      BY <1>0, <1>1, <1>2, DSets
    <2>2. Owners(e) \in SUBSET {Founder}
      BY <2>1 DEF Owners, Holders, Users, Init
    <2>3. IsFiniteSet({Founder}) /\ Cardinality({Founder}) = 1
      BY FS_Singleton
    <2>4. IsFiniteSet(Owners(e)) /\ Cardinality(Owners(e)) <= 1 /\ Cardinality(Owners(e)) \in Nat
      BY <2>2, <2>3, FS_Subset, FS_CardinalityType
    <2>5. Cardinality(Inserting(e)) = 0
      BY <2>1, FS_EmptySet
    <2>6. QED
      BY <2>4, <2>5
  <1>4. ASSUME NEW u \in User, NEW k \in Kind
        PROVE  Cardinality(Enabled(u, k)) + Cardinality(Tokening(u, k)) <= Workers
    <2>1. Enabled(u, k) = {}
      BY <1>1 DEF Enabled
    <2>2. Tokening(u, k) = {}
      BY <1>0, <1>1, <1>2, DSets
    <2>3. QED
      BY <2>1, <2>2, FS_EmptySet
  <1>5. QED
    BY <1>0, <1>2, <1>3, <1>4 DEF DInv

\* Who is handled or dies is in flight.
LEMMA HandledInFlight ==
    ASSUME NEW r \in Request, Handle(r) \/ Abort(r)
    PROVE  r \in InFlight
  <1>1. CASE Abort(r)
    BY <1>1 DEF Abort
  <1>2. CASE Handle(r)
    <2>1. req[r].phase \in Phase
      BY <1>2 DEF Handle, FindByEmail, CheckEmail, InsertUser, CreateProfile,
         CreateToken, EnqueueMail, Activate, CreateLink, CheckLinks, DeleteLink, SaveEmail,
         DisableTokens, ReadUser, DisableToken, SavePassword, SaveInactive, At, Phase
    <2>2. QED
      BY SMTT(30), <2>1 DEF InFlight, NotMade, Done, Phase
  <1>3. QED
    BY <1>1, <1>2

\* Every step keeps the addresses and the tokens to as many as run at once.
LEMMA StepDInv == TInv /\ DInv /\ [Next]_vars => DInv'
  <1> SUFFICES ASSUME TInv, DInv, [Next]_vars PROVE DInv'
    OBVIOUS
  <1> USE AccountsAssumption
  <1>0. TypeOK /\ IsFiniteSet(InFlight) /\ Cardinality(InFlight) <= Workers /\ Cardinality(InFlight) \in Nat
    BY FS_CardinalityType DEF TInv, DInv
  <1>1. ASSUME UNCHANGED <<user, tokens, req>> PROVE DInv'
    BY <1>1 DEF DInv, InFlight, Owners, Holders, Users, SavingTo, Inserting, Enabled, Tokening, At, KindOf
  <1>2. ASSUME NEW r \in Request, Start(r) PROVE DInv'
    <2>1. PICK c \in Call : Started(r, c)
      BY <1>2, StartDoes
    <2>2. req'[r] = c /\ \A q \in Request \ {r} : req'[q] = req[q]
      BY <2>1, <1>0, PutTyped DEF Started
    <2>3. /\ UNCHANGED <<user, tokens>> /\ Users' = Users /\ Cardinality(InFlight) < Workers
          /\ req[r].phase \notin Phase
          /\ c.phase \notin {"insert", "profile", "token"}
          /\ c.phase = "save_email" => Free(c.email, {c.user})
      BY <2>1 DEF Started, NotMade, Phase, Users
    <2>4. IsFiniteSet(InFlight') /\ Cardinality(InFlight') <= Workers
      <3>1. InFlight' \in SUBSET (InFlight \cup {r})
        BY <2>2 DEF InFlight
      <3>2. IsFiniteSet(InFlight \cup {r}) /\ Cardinality(InFlight \cup {r}) <= Cardinality(InFlight) + 1
        <4>1. /\ IsFiniteSet(InFlight \cup {r})
              /\ Cardinality(InFlight \cup {r}) =
                    IF r \in InFlight THEN Cardinality(InFlight) ELSE Cardinality(InFlight) + 1
          BY <1>0, FS_AddElement
        <4>2. QED
          BY <1>0, <4>1
      <3>3. /\ IsFiniteSet(InFlight') /\ Cardinality(InFlight') <= Cardinality(InFlight \cup {r})
            /\ Cardinality(InFlight') \in Nat /\ Cardinality(InFlight \cup {r}) \in Nat
        BY <3>1, <3>2, FS_Subset, FS_CardinalityType
      <3>4. QED
        BY <3>2, <3>3, <2>3, <1>0
    <2>5. ASSUME NEW u \in User, NEW k \in Kind
          PROVE  Enabled(u, k)' \subseteq Enabled(u, k) /\ Tokening(u, k)' \subseteq Tokening(u, k)
      BY <2>2, <2>3 DEF Enabled, Tokening, KindOf
    <2>6. ASSUME NEW e \in Email
          PROVE  \/ Owners(e)' \subseteq Owners(e) /\ Inserting(e)' \subseteq Inserting(e)
                 \/ IsFiniteSet(Owners(e)') /\ Cardinality(Owners(e)') + Cardinality(Inserting(e)') <= Workers
      <3>1. Holders(e)' = Holders(e) /\ Inserting(e)' \subseteq Inserting(e)
        BY <2>2, <2>3 DEF Holders, Inserting, At
      <3>2. CASE c.phase = "save_email" /\ c.email = e
        <4>1. Holders(e) \subseteq {c.user}
          BY <3>2, <2>3 DEF Free
        <4>2. r \in SavingTo(e)'
          BY <3>2, <2>2 DEF SavingTo, At
        <4>3. \A v \in Holders(e)' : \E p \in SavingTo(e)' : req'[p].user = v
          BY <4>1, <4>2, <3>1, <2>2
        <4>4. QED
          BY <4>3, <2>4, RacersBounded
      <3>3. CASE ~ (c.phase = "save_email" /\ c.email = e)
        <4>1. SavingTo(e)' \subseteq SavingTo(e) /\ \A p \in SavingTo(e)' : req'[p] = req[p]
          BY <3>3, <2>2 DEF SavingTo, At
        <4>2. Owners(e)' \subseteq Owners(e)
          BY <4>1, <3>1 DEF Owners
        <4>3. QED
          BY <4>2, <3>1
      <3>4. QED
        BY <3>2, <3>3
    <2>7. QED
      BY <2>4, <2>5, <2>6, DInvKept
  <1>3. ASSUME NEW r \in Request, Handle(r) \/ Abort(r) PROVE DInv'
    <2> DEFINE q == req[r]
    <2>0. PICK u : u = q.user
      OBVIOUS
    <2> USE <2>0
    <2>1. r \in InFlight /\ \A p \in Request \ {r} : req'[p] = req[p]
      BY <1>0, <1>3, OthersKept, HandledInFlight
    <2>2. q.phase \in Phase /\ q \in Call /\ FieldsOK(q, tokens)
      BY <2>1, <1>0, CallTyped, InFlightPhase DEF TInv
    <2>3. IsFiniteSet(InFlight') /\ Cardinality(InFlight') <= Workers
      <3>1. InFlight' \in SUBSET InFlight
        BY <2>1 DEF InFlight
      <3>2. IsFiniteSet(InFlight') /\ Cardinality(InFlight') <= Cardinality(InFlight) /\ Cardinality(InFlight') \in Nat
        BY <3>1, <1>0, FS_Subset, FS_CardinalityType
      <3>3. QED
        BY <3>2, <1>0
    \* What the sets lose when the request does not get to where they are about,
    <2>4. ASSUME NEW e, req'[r].phase # "insert" PROVE Inserting(e)' \subseteq Inserting(e)
      BY <2>1, <2>4 DEF Inserting, At
    <2>5. ASSUME NEW e \in Email, req'[r].phase # "save_email",
                 Holders(e)' \subseteq Owners(e)
          PROVE  Owners(e)' \subseteq Owners(e)
      <3>1. SavingTo(e)' \subseteq SavingTo(e) /\ \A p \in SavingTo(e)' : req'[p] = req[p]
        BY <2>1, <2>5 DEF SavingTo, At
      <3>2. QED
        BY <3>1, <2>5 DEF Owners
    <2>6. ASSUME NEW v, NEW k,
                 \/ req'[r].phase \notin {"profile", "token"}
                 \/ q.phase \in {"profile", "token"} /\ req'[r].user = u /\ req'[r].op = q.op
                 \/ req'[r].user # v
                 \/ KindOf(r)' # k
          PROVE  Tokening(v, k)' \subseteq Tokening(v, k)
      BY <2>1, <2>6 DEF Tokening, KindOf
    \* and the step changes neither addresses nor creates a token.
    <2>7. ASSUME Users' = Users, \A v \in Users : user'[v].email = user[v].email,
                 \A v \in User, k \in Kind : Enabled(v, k)' \subseteq Enabled(v, k),
                 req'[r].phase \notin {"save_email", "insert"},
                 \/ req'[r].phase \notin {"profile", "token"}
                 \/ q.phase \in {"profile", "token"} /\ req'[r].user = u /\ req'[r].op = q.op
          PROVE  DInv'
      <3>1. ASSUME NEW e \in Email PROVE Owners(e)' \subseteq Owners(e) /\ Inserting(e)' \subseteq Inserting(e)
        <4>1. Holders(e)' \subseteq Owners(e)
          BY <2>7 DEF Holders, Owners
        <4>2. QED
          BY <4>1, <2>4, <2>5, <2>7
      <3>2. ASSUME NEW v \in User, NEW k \in Kind
            PROVE  Enabled(v, k)' \subseteq Enabled(v, k) /\ Tokening(v, k)' \subseteq Tokening(v, k)
        BY <2>6, <2>7
      <3>3. QED
        BY <3>1, <3>2, <2>3, DInvKept
    <2>8. ASSUME tokens' = tokens PROVE \A v \in User, k \in Kind : Enabled(v, k)' \subseteq Enabled(v, k)
      BY <2>8 DEF Enabled
    <2>9. ASSUME Finish(r) PROVE req'[r].phase = "done"
      BY <2>9, <1>0, PutTyped DEF Finish, Done
    <2>10. ASSUME NEW phase \in Phase, Goto(r, phase)
           PROVE  req'[r].phase = phase /\ req'[r].user = u /\ req'[r].op = q.op /\ req'[r].email = q.email
      BY <2>2, <2>10, <1>0, GotoTyped
    <2>11. ASSUME FindByEmail(r) PROVE DInv'
      <3>1. UNCHANGED <<user, tokens>> /\ Users' = Users
        BY <2>11 DEF FindByEmail, Users
      <3>2. req'[r].phase \in {"check", "done", "create_link", "activate"}
        <4>1. ASSUME NEW v \in Users, NEW c \in Call, req' = [req EXCEPT ![r] = c],
                     c.phase = IF user[v].activated THEN "create_link" ELSE "activate"
              PROVE  req'[r].phase \in {"check", "done", "create_link", "activate"}
          BY <4>1, <1>0, PutTyped
        <4>2. QED
          BY <4>1, <2>9, <2>10, <2>11, FindDoes DEF Phase
      <3>3. QED
        BY SMTT(30), <3>1, <3>2, <2>7, <2>8
    <2>12. ASSUME CheckEmail(r) PROVE DInv'
      <3>1. UNCHANGED <<user, tokens>> /\ Users' = Users
        BY <2>12 DEF CheckEmail, Users
      <3>2. CASE Finish(r)
        BY <3>1, <3>2, <2>7, <2>8, <2>9
      <3>3. CASE Goto(r, "insert") /\ Free(q.email, {})
        <4>1. req'[r].phase = "insert" /\ req'[r].email = q.email
          BY <3>3, <2>10 DEF Phase
        <4>2. ASSUME NEW e \in Email
              PROVE  \/ Owners(e)' \subseteq Owners(e) /\ Inserting(e)' \subseteq Inserting(e)
                     \/ IsFiniteSet(Owners(e)') /\ Cardinality(Owners(e)') + Cardinality(Inserting(e)') <= Workers
          <5>1. Holders(e)' = Holders(e)
            BY <3>1 DEF Holders
          <5>2. CASE e = q.email
            <6>1. Holders(e)' = {}
              BY <5>1, <5>2, <3>3 DEF Free
            <6>2. \A v \in Holders(e)' : \E p \in SavingTo(e)' : req'[p].user = v
              BY <6>1
            <6>3. QED
              BY <6>2, <2>3, RacersBounded
          <5>3. CASE e # q.email
            <6>1. Inserting(e)' \subseteq Inserting(e)
              BY <5>3, <4>1, <2>1 DEF Inserting, At
            <6>2. Holders(e)' \subseteq Owners(e)
              BY <5>1 DEF Owners
            <6>3. QED
              BY <6>1, <6>2, <4>1, <2>5
          <5>4. QED
            BY <5>2, <5>3
        <4>3. ASSUME NEW v \in User, NEW k \in Kind
              PROVE  Enabled(v, k)' \subseteq Enabled(v, k) /\ Tokening(v, k)' \subseteq Tokening(v, k)
          BY <4>1, <3>1, <2>6, <2>8
        <4>4. QED
          BY <4>2, <4>3, <2>3, DInvKept
      <3>4. QED
        BY <2>12, <3>2, <3>3 DEF CheckEmail
    <2>13. ASSUME InsertUser(r) PROVE DInv'
      <3>1. PICK w \in User \ Users, row \in Row, c \in Call :
              /\ req[r].phase = "insert" /\ req[r].op \in {"sign_up", "sign_in"}
              /\ row.email = req[r].email
              /\ user' = [user EXCEPT ![w] = row]
              /\ req' = [req EXCEPT ![r] = c] /\ SameRequest(r, c)
              /\ c.user = w /\ c.phase = "profile" /\ tokens' = tokens
        BY <2>13, InsertDoes
      <3>2. /\ req'[r] = c /\ Users' = Users \cup {w} /\ user'[w] = row
            /\ \A v \in User \ {w} : user'[v] = user[v]
        <4>1. req'[r] = c
          BY <3>1, <1>0, PutTyped
        <4>2. QED
          BY <4>1, <3>1, <1>0, WriteTyped
      <3>3. ASSUME NEW e \in Email
            PROVE  \/ Owners(e)' \subseteq Owners(e) /\ Inserting(e)' \subseteq Inserting(e)
                   \/ IsFiniteSet(Owners(e)') /\ Cardinality(Owners(e)') + Cardinality(Inserting(e)') <= Workers
        <4>1. Holders(e)' \subseteq Holders(e) \cup {v \in {w} : e = q.email}
          BY <3>1, <3>2 DEF Holders
        <4>2. SavingTo(e)' \subseteq SavingTo(e) /\ \A p \in SavingTo(e)' : req'[p] = req[p]
          BY <2>1, <3>1, <3>2 DEF SavingTo, At
        <4>3. Inserting(e)' \subseteq Inserting(e) \ {r}
          BY <2>1, <3>1, <3>2 DEF Inserting, At
        <4>4. CASE e # q.email
          BY <4>1, <4>2, <4>3, <4>4 DEF Owners
        <4>5. CASE e = q.email
          <5> DEFINE S == Owners(e)
                     T == Inserting(e)
                     S1 == Owners(e)'
                     T1 == Inserting(e)'
          <5>1. S1 \in SUBSET (S \cup {w}) /\ T1 \in SUBSET (T \ {r})
            BY <4>1, <4>2, <4>3 DEF Owners
          <5>2. r \in T
            BY <4>5, <3>1 DEF Inserting, At
          <5>3. IsFiniteSet(S) /\ IsFiniteSet(T) /\ Cardinality(S) + Cardinality(T) <= Workers
            BY <1>0, DSets DEF DInv
          <5> HIDE DEF S, T, S1, T1
          <5>4. IsFiniteSet(S1) /\ Cardinality(S1) + Cardinality(T1) <= Workers
            BY <5>1, <5>2, <5>3, Exchange
          <5>5. QED
            BY <5>4 DEF S1, T1
        <4>6. QED
          BY <4>4, <4>5
      <3>4. ASSUME NEW v \in User, NEW k \in Kind
            PROVE  \/ Enabled(v, k)' \subseteq Enabled(v, k) /\ Tokening(v, k)' \subseteq Tokening(v, k)
                   \/ Cardinality(Enabled(v, k)') + Cardinality(Tokening(v, k)') <= Workers
        <4>1. CASE v # w
          BY <4>1, <3>1, <3>2, <2>6, <2>8
        <4>2. CASE v = w
          <5>1. Enabled(v, k)' = {}
            BY <4>2, <3>1 DEF Enabled, TInv
          <5>2. QED
            BY <5>1, <2>3, TokeningBounded
        <4>3. QED
          BY <4>1, <4>2
      <3>5. QED
        BY <3>3, <3>4, <2>3, DInvKept
    <2>14. ASSUME CreateProfile(r) PROVE DInv'
      <3>1. q.phase = "profile" /\ tokens' = tokens /\ (Goto(r, "mail") \/ Goto(r, "token"))
        BY <2>14 DEF CreateProfile, At
      <3>2. u \in Users
        BY SMTT(30), <3>1, UserOf DEF Phase
      <3>3. Users' = Users /\ \A v \in Users : user'[v].email = user[v].email
        BY <3>2, <2>14, <1>0, ColumnTyped DEF CreateProfile, Users
      <3>4. req'[r].phase \in {"mail", "token"} /\ req'[r].user = u /\ req'[r].op = q.op
        BY <3>1, <2>10 DEF Phase
      <3>5. QED
        BY <3>1, <3>3, <3>4, <2>7, <2>8
    <2>15. ASSUME CreateToken(r) PROVE DInv'
      <3>1. q.phase = "token" /\ user' = user /\ Users' = Users /\ Goto(r, "mail")
        BY <2>15 DEF CreateToken, At, Users
      <3>2. u \in User
        BY <3>1, UserOf DEF Phase
      <3>3. req'[r].phase = "mail"
        BY <3>1, <2>10 DEF Phase
      <3> DEFINE new == Len(tokens) + 1
      <3>4. /\ DOMAIN tokens' = DOMAIN tokens \cup {new}
            /\ \A t \in DOMAIN tokens : tokens'[t] = tokens[t]
            /\ tokens'[new].user = u /\ tokens'[new].kind = KindOf(r)
        BY <2>15, <3>2, <1>0, TokenAdded
      <3>5. ASSUME NEW v \in User, NEW k \in Kind
            PROVE  \/ Enabled(v, k)' \subseteq Enabled(v, k) /\ Tokening(v, k)' \subseteq Tokening(v, k)
                   \/ Cardinality(Enabled(v, k)') + Cardinality(Tokening(v, k)') <= Workers
        <4>1. CASE v # u \/ k # KindOf(r)
          <5>1. Enabled(v, k)' \subseteq Enabled(v, k)
            BY <4>1, <3>4 DEF Enabled
          <5>2. QED
            BY <5>1, <3>3, <2>6
        <4>2. CASE v = u /\ k = KindOf(r)
          <5> DEFINE S == Enabled(v, k)
                     T == Tokening(v, k)
                     S1 == Enabled(v, k)'
                     T1 == Tokening(v, k)'
          <5>1. S1 \in SUBSET (S \cup {new})
            BY <3>4 DEF Enabled
          <5>2. T1 \in SUBSET (T \ {r})
            BY <3>3, <2>1 DEF Tokening, KindOf
          <5>3. r \in T
            BY <4>2, <3>1 DEF Tokening
          <5>4. IsFiniteSet(S) /\ IsFiniteSet(T) /\ Cardinality(S) + Cardinality(T) <= Workers
            BY <1>0, DSets DEF DInv
          <5> HIDE DEF S, T, S1, T1, new
          <5>5. Cardinality(S1) + Cardinality(T1) <= Workers
            BY <5>1, <5>2, <5>3, <5>4, Exchange
          <5>6. QED
            BY <5>5 DEF S1, T1
        <4>3. QED
          BY <4>1, <4>2
      <3>6. ASSUME NEW e \in Email PROVE Owners(e)' \subseteq Owners(e) /\ Inserting(e)' \subseteq Inserting(e)
        <4>1. Holders(e)' \subseteq Owners(e)
          BY <3>1 DEF Holders, Owners
        <4>2. QED
          BY <4>1, <3>3, <2>4, <2>5
      <3>7. QED
        BY <3>5, <3>6, <2>3, DInvKept
    <2>16. ASSUME EnqueueMail(r) \/ CheckLinks(r) \/ DeleteLink(r) \/ CreateLink(r) PROVE DInv'
      <3>1. UNCHANGED <<user, tokens>> /\ Users' = Users
        BY <2>16 DEF EnqueueMail, CheckLinks, DeleteLink, CreateLink, Users
      <3>2. Finish(r) \/ Goto(r, "create_link") \/ Goto(r, "unlink") \/ Goto(r, "activate")
        BY <2>16 DEF EnqueueMail, CheckLinks, DeleteLink, CreateLink
      <3>3. req'[r].phase \in {"done", "create_link", "unlink", "activate"}
        BY <3>2, <2>9, <2>10 DEF Phase
      <3>4. QED
        BY <3>1, <3>3, <2>7, <2>8
    <2>17. ASSUME Activate(r) \/ SavePassword(r) \/ SaveInactive(r) PROVE DInv'
      <3>1. q.phase \in {"activate", "password", "deactivate"} /\ tokens' = tokens
            /\ (Finish(r) \/ Goto(r, "create_link") \/ Goto(r, "disable_one"))
        BY <2>17 DEF Activate, SavePassword, SaveInactive, At
      <3>2. u \in Users
        BY <3>1, UserOf DEF Phase
      <3>3. Users' = Users /\ \A v \in Users : user'[v].email = user[v].email
        BY <3>2, <2>17, <1>0, ColumnTyped DEF Activate, SavePassword, SaveInactive, Users
      <3>4. req'[r].phase \in {"done", "create_link", "disable_one"}
        BY <3>1, <2>9, <2>10 DEF Phase
      <3>5. QED
        BY <3>1, <3>3, <3>4, <2>7, <2>8
    <2>18. ASSUME SaveEmail(r) PROVE DInv'
      <3>1. PICK c \in Call :
                  /\ u \in Users /\ user'[u] \in Row /\ user'[u].email = q.email
                  /\ user' = [user EXCEPT ![u] = user'[u]]
                  /\ req' = [req EXCEPT ![r] = c] /\ c.phase = "disable"
        BY <2>18, SaveDoes
      <3>2. Users' = Users /\ \A v \in Users \ {u} : user'[v] = user[v]
        <4>1. u \in User
          BY <3>1 DEF Users
        <4> DEFINE row == user'[u]
        <4>2. row \in Row /\ user' = [user EXCEPT ![u] = row]
          BY <3>1
        <4> HIDE DEF row
        <4>3. Users' = Users \cup {u} /\ \A v \in User \ {u} : user'[v] = user[v]
          BY <4>1, <4>2, <1>0, WriteTyped
        <4>4. QED
          BY <4>1, <4>3, <3>1 DEF Users
      <3>3. req'[r].phase = "disable"
        BY <3>1, <1>0, PutTyped
      <3>4. ASSUME NEW e \in Email PROVE Owners(e)' \subseteq Owners(e) /\ Inserting(e)' \subseteq Inserting(e)
        <4>1. q.phase = "save_email" /\ (e = q.email => r \in SavingTo(e))
          BY <2>18 DEF SaveEmail, At, SavingTo
        <4>2. Holders(e)' \subseteq Owners(e)
          BY <4>1, <3>1, <3>2 DEF Holders, Owners
        <4>3. QED
          BY <4>2, <3>3, <2>4, <2>5
      <3>5. ASSUME NEW v \in User, NEW k \in Kind
            PROVE  Enabled(v, k)' \subseteq Enabled(v, k) /\ Tokening(v, k)' \subseteq Tokening(v, k)
        <4>1. tokens' = tokens
          BY <2>18 DEF SaveEmail
        <4>2. QED
          BY <4>1, <3>3, <2>6, <2>8
      <3>6. QED
        BY <3>4, <3>5, <2>3, DInvKept
    <2>19. ASSUME DisableTokens(r) PROVE DInv'
      <3> DEFINE S == {t \in DOMAIN tokens : Earlier(r, t)}
      <3>1. q.phase = "disable" /\ user' = user /\ Users' = Users /\ Goto(r, "token")
        BY <2>19 DEF DisableTokens, At, Users
      <3>2. /\ req'[r].phase = "token" /\ req'[r].user = u /\ KindOf(r)' = KindOf(r)
        BY <3>1, <2>10 DEF Phase, KindOf
      <3>3. tokens' = [t \in DOMAIN tokens |->
                         IF t \in S THEN [tokens[t] EXCEPT !.disabled = TRUE] ELSE tokens[t]]
        BY <2>19 DEF DisableTokens
      <3>4. S \in SUBSET DOMAIN tokens
        BY DEF S
      <3> HIDE DEF S
      <3>5. \A v \in User, k \in Kind : Enabled(v, k)' = Enabled(v, k) \ S
        BY <3>3, <3>4, <1>0, TokensDisabled
      <3>6. ASSUME NEW v \in User, NEW k \in Kind
            PROVE  \/ Enabled(v, k)' \subseteq Enabled(v, k) /\ Tokening(v, k)' \subseteq Tokening(v, k)
                   \/ Cardinality(Enabled(v, k)') + Cardinality(Tokening(v, k)') <= Workers
        <4>1. CASE v # u \/ k # KindOf(r)
          BY <4>1, <3>2, <3>5, <2>6
        <4>2. CASE v = u /\ k = KindOf(r)
          <5>1. Enabled(v, k) \subseteq S
            BY <4>2 DEF S, Enabled, Earlier
          <5>2. Enabled(v, k)' = {}
            BY <5>1, <3>5
          <5>3. QED
            BY <5>2, <2>3, TokeningBounded
        <4>3. QED
          BY <4>1, <4>2
      <3>7. ASSUME NEW e \in Email PROVE Owners(e)' \subseteq Owners(e) /\ Inserting(e)' \subseteq Inserting(e)
        <4>1. Holders(e)' \subseteq Owners(e)
          BY <3>1 DEF Holders, Owners
        <4>2. QED
          BY <4>1, <3>2, <2>4, <2>5
      <3>8. QED
        BY <3>6, <3>7, <2>3, DInvKept
    <2>20. ASSUME ReadUser(r) PROVE DInv'
      <3>1. UNCHANGED <<user, tokens>> /\ Users' = Users
        BY <2>20 DEF ReadUser, Users
      <3>2. req'[r].phase \in {"done", "disable_one", "activate"}
        <4>1. ASSUME NEW c \in Call, req' = [req EXCEPT ![r] = c],
                     c.phase = IF user[u].activated THEN "disable_one" ELSE "activate"
              PROVE  req'[r].phase \in {"done", "disable_one", "activate"}
          BY <4>1, <1>0, PutTyped
        <4>2. QED
          BY <4>1, <2>9, <2>20, ReadDoes
      <3>3. QED
        BY <3>1, <3>2, <2>7, <2>8
    <2>21. ASSUME DisableToken(r) PROVE DInv'
      <3>1. q.phase = "disable_one" /\ user' = user /\ Users' = Users /\ Finish(r)
        BY <2>21 DEF DisableToken, At, Users
      <3> DEFINE S == {q.token}
      <3>2. S \in SUBSET DOMAIN tokens
        BY <3>1, <2>2 DEF FieldsOK, OpsAt
      <3>3. tokens' = [t \in DOMAIN tokens |->
                         IF t \in S THEN [tokens[t] EXCEPT !.disabled = TRUE] ELSE tokens[t]]
        BY <2>21 DEF DisableToken
      <3> HIDE DEF S
      <3>4. \A v \in User, k \in Kind : Enabled(v, k)' \subseteq Enabled(v, k)
        <4>1. \A v \in User, k \in Kind : Enabled(v, k)' = Enabled(v, k) \ S
          BY <3>2, <3>3, <1>0, TokensDisabled
        <4>2. QED
          BY <4>1
      <3>5. QED
        BY <3>1, <3>4, <2>7, <2>9
    <2>22. ASSUME Abort(r) PROVE DInv'
      <3>1. UNCHANGED <<user, tokens>> /\ Users' = Users /\ Finish(r)
        BY <2>22 DEF Abort, Users
      <3>2. QED
        BY <3>1, <2>7, <2>8, <2>9
    <2>23. QED
      BY <1>3, <2>11, <2>12, <2>13, <2>14, <2>15, <2>16, <2>17, <2>18, <2>19, <2>20, <2>21, <2>22 DEF Handle
  <1>4. ASSUME NEW u \in User, Deauthorize(u) PROVE DInv'
    BY <1>1, <1>4 DEF Deauthorize
  <1>5. CASE MailWorker
    BY <1>1, <1>5 DEF MailWorker, SendMail, MailFails
  <1>6. CASE UNCHANGED vars
    BY <1>1, <1>6 DEF vars
  <1>7. QED
    BY <1>2, <1>3, <1>4, <1>5, <1>6 DEF Next

\* An address has no more users, and a user no more tokens of a kind that work,
\* than requests run at once.
THEOREM AccountsDuplicatesBounded == Spec => []DuplicatesBounded
  <1>1. TInv /\ DInv => DuplicatesBounded
    <2> SUFFICES ASSUME TInv, DInv PROVE DuplicatesBounded
      OBVIOUS
    <2>0. TypeOK /\ IsFiniteSet(InFlight) /\ Workers \in Nat
      BY AccountsAssumption DEF TInv, DInv
    <2>1. ASSUME NEW e \in Email PROVE Cardinality(Holders(e)) <= Workers
      <3>1. Holders(e) \in SUBSET Owners(e) /\ {} \in SUBSET Inserting(e)
        BY DEF Owners
      <3>2. /\ IsFiniteSet(Owners(e)) /\ IsFiniteSet(Inserting(e))
            /\ Cardinality(Owners(e)) + Cardinality(Inserting(e)) <= Workers
        BY <2>0, DSets DEF DInv
      <3>3. IsFiniteSet(Holders(e)) /\ Cardinality(Holders(e)) + Cardinality({}) <= Workers
        BY <3>1, <3>2, <2>0, Shrink
      <3>4. Cardinality({}) = 0 /\ Cardinality(Holders(e)) \in Nat
        BY <3>3, FS_EmptySet, FS_CardinalityType
      <3>5. QED
        BY <3>3, <3>4
    <2>2. ASSUME NEW u \in User, NEW k \in Kind PROVE Cardinality(Enabled(u, k)) <= Workers
      <3>1. /\ IsFiniteSet(Enabled(u, k)) /\ IsFiniteSet(Tokening(u, k))
            /\ Cardinality(Enabled(u, k)) + Cardinality(Tokening(u, k)) <= Workers
        BY <2>0, DSets DEF DInv
      <3>2. Cardinality(Enabled(u, k)) \in Nat /\ Cardinality(Tokening(u, k)) \in Nat
        BY <3>1, FS_CardinalityType
      <3>3. QED
        BY <3>1, <3>2, <2>0
    <2>3. QED
      BY <2>1, <2>2 DEF DuplicatesBounded
  <1>2. QED
    BY <1>1, InitTInv, StepTInv, InitDInv, StepDInv, PTL DEF Spec
-----------------------------------------------------------------------------
\* A link that is coming still is after a step that disables no token of u of the
\* kind and drops no mail, unless the request that changed was to bring it.
LEMMA ComingKept ==
    ASSUME NEW u, NEW k, Coming(u, k), NEW R \in SUBSET Request,
           \A q \in Request \ R : req'[q] = req[q],
           k = "email" => user'[u].email = user[u].email,
           Enabled(u, k) \subseteq Enabled(u, k)', inbox \subseteq inbox',
           \A i \in DOMAIN mails : Queued(i, u, k) => Coming(u, k)' \/ \E j \in DOMAIN mails' : mails'[j] = mails[i],
           \A q \in R : ComesBy(q, u, k) => Coming(u, k)'
    PROVE  Coming(u, k)'
  <1>1. \A e : Right(u, k, e) => Right(u, k, e)'
    BY DEF Right
  <1>2. CASE \E r \in Request : ComesBy(r, u, k)
    <2>1. PICK r \in Request : ComesBy(r, u, k)
      BY <1>2
    <2>2. CASE r \in R
      BY <2>1, <2>2
    <2>3. CASE r \notin R
      <3>1. req'[r] = req[r]
        BY <2>3
      <3>2. ComesBy(r, u, k)'
        BY <1>1, <2>1, <3>1 DEF ComesBy, KindOf, At
      <3>3. QED
        BY <3>2 DEF Coming
    <2>4. QED
      BY <2>2, <2>3
  <1>3. CASE \E i \in DOMAIN mails : Queued(i, u, k)
    <2>1. PICK i \in DOMAIN mails : Queued(i, u, k)
      BY <1>3
    <2>2. ASSUME NEW j \in DOMAIN mails', mails'[j] = mails[i] PROVE Coming(u, k)'
      <3>1. Queued(j, u, k)'
        BY <1>1, <2>1, <2>2 DEF Queued
      <3>2. QED
        BY <3>1 DEF Coming
    <2>3. QED
      BY <2>1, <2>2
  <1>4. CASE Received(u, k)
    <2>1. Received(u, k)'
      BY <1>1, <1>4 DEF Received
    <2>2. QED
      BY <2>1 DEF Coming
  <1>5. QED
    BY <1>2, <1>3, <1>4 DEF Coming

\* What is left to show when the requests of R change.
LEMMA LInvKept ==
    ASSUME TInv, LInv, NEW R \in SUBSET Request,
           \A q \in Request \ R : req'[q] = req[q],
           lost \cup crossed \subseteq lost' \cup crossed',
           \* an address stays, or a new one is on its way without a rival;
           \A v \in Users \ (lost' \cup crossed') :
              \/ user'[v].email = user[v].email /\ (user[v].activated => user'[v].activated)
              \/ /\ Coming(v, "email")' /\ Disabling(v, "email")'
                 /\ \A q \in Request \ R : req[q].phase \in Phase /\ req[q].user = v =>
                       req[q].op \notin {"change_email", "resend"},
           \* tokens stay what they are, and disabled;
           \A t \in DOMAIN tokens : /\ tokens'[t].user = tokens[t].user /\ tokens'[t].kind = tokens[t].kind
                                    /\ tokens[t].disabled => tokens'[t].disabled,
           \* whoever is given a token has got a link coming;
           \A v \in Users' \ (lost' \cup crossed'), k \in Kind :
              Wanted(v, k)' /\ (\E t \in DOMAIN tokens' : tokens'[t].user = v /\ tokens'[t].kind = k) =>
                 \/ Coming(v, k)'
                 \/ v \in Users /\ \E t \in DOMAIN tokens : tokens[t].user = v /\ tokens[t].kind = k,
           \* links that were coming still are, while they are wanted;
           \A v \in Users \ (lost' \cup crossed'), k \in Kind :
              Wanted(v, k) /\ Wanted(v, k)' /\ Coming(v, k) => Coming(v, k)',
           \* tokens about to be disabled still are, or have been.
           \A v \in Users \ (lost' \cup crossed') : Disabling(v, "email") =>
              Disabling(v, "email")' \/ \A t \in DOMAIN tokens : t \notin Enabled(v, "email")',
           \A q \in R : Promises(q)'
    PROVE  LInv'
  <1>1. ASSUME NEW v \in Users' \ (lost' \cup crossed'), NEW k \in Kind, Wanted(v, k)',
               \E t \in DOMAIN tokens' : tokens'[t].user = v /\ tokens'[t].kind = k
        PROVE  Coming(v, k)'
    <2>1. SUFFICES ASSUME v \in Users, \E t \in DOMAIN tokens : tokens[t].user = v /\ tokens[t].kind = k
                   PROVE  Coming(v, k)'
      BY <1>1
    <2>2. CASE Wanted(v, k)
      <3>1. v \in Users \ (lost \cup crossed) /\ v \in Users \ (lost' \cup crossed')
        BY <1>1, <2>1
      <3>2. Coming(v, k)
        BY <2>1, <2>2, <3>1 DEF LInv
      <3>3. QED
        BY <1>1, <2>2, <3>1, <3>2
    <2>3. CASE ~Wanted(v, k)
      <3>1. k = "email" /\ user[v].activated /\ ~user'[v].activated
        BY <1>1, <2>3 DEF Wanted
      <3>2. QED
        BY <1>1, <2>1, <3>1
    <2>4. QED
      BY <2>2, <2>3
  <1>2. ASSUME NEW q \in Request \ R PROVE Promises(q)'
    <2>1. req'[q] = req[q]
      BY <1>2
    <2>2. PICK u : u = req[q].user
      OBVIOUS
    <2>3. SUFFICES ASSUME req[q].phase \in {"profile", "token", "disable", "mail", "disable_one"},
                          u \notin lost' \cup crossed'
                   PROVE  /\ req[q].phase \in {"profile", "token"} /\ req[q].op = "sign_up" /\ Wanted(u, "email")' =>
                                req[q].seen.email = user'[u].email \/ Coming(u, "email")'
                          /\ req[q].phase \in {"disable", "token", "mail"} /\ req[q].op \in {"change_email", "resend"} =>
                                req[q].seen.email = user'[u].email
                          /\ req[q].phase = "disable_one" /\ req[q].token \in Enabled(u, "email")' /\ Wanted(u, "email")' =>
                                Disabling(u, "email")'
      BY <2>1, <2>2 DEF Promises
    <2>4. req[q].phase \in Phase /\ u \in Users /\ u \notin lost \cup crossed /\ FieldsOK(req[q], tokens)
      BY <2>2, <2>3, UserOf DEF Phase, TInv
    <2>5. /\ req[q].phase \in {"profile", "token"} /\ req[q].op = "sign_up" /\ Wanted(u, "email") =>
                req[q].seen.email = user[u].email \/ Coming(u, "email")
          /\ req[q].phase \in {"disable", "token", "mail"} /\ req[q].op \in {"change_email", "resend"} =>
                req[q].seen.email = user[u].email
          /\ req[q].phase = "disable_one" /\ req[q].token \in Enabled(u, "email") /\ Wanted(u, "email") =>
                Disabling(u, "email")
      BY <2>2, <2>4 DEF LInv, Promises
    <2>6. CASE user'[u].email = user[u].email /\ (user[u].activated => user'[u].activated)
      <3>1. Wanted(u, "email")' => Wanted(u, "email")
        BY <2>6 DEF Wanted
      <3>2. Wanted(u, "email")' /\ Coming(u, "email") => Coming(u, "email")'
        BY <2>3, <2>4, <3>1 DEF Kind
      <3>3. ASSUME req[q].phase = "disable_one", req[q].token \in Enabled(u, "email")', Wanted(u, "email")'
            PROVE  Disabling(u, "email")'
        <4>1. req[q].token \in DOMAIN tokens
          BY <2>4, <3>3 DEF FieldsOK, OpsAt
        <4>2. req[q].token \in Enabled(u, "email")
          BY <3>3, <4>1 DEF Enabled
        <4>3. Disabling(u, "email")
          BY <2>5, <3>1, <3>3, <4>2
        <4>4. QED
          BY <2>3, <2>4, <3>3, <4>1, <4>3
      <3>4. QED
        BY <2>5, <2>6, <3>1, <3>2, <3>3
    <2>7. CASE /\ Coming(u, "email")' /\ Disabling(u, "email")'
               /\ \A p \in Request \ R : req[p].phase \in Phase /\ req[p].user = u =>
                       req[p].op \notin {"change_email", "resend"}
      BY <1>2, <2>2, <2>4, <2>7
    <2>8. QED
      BY <2>3, <2>4, <2>6, <2>7
  <1>3. QED
    BY <1>1, <1>2 DEF LInv

LEMMA InitLInv == Init => LInv
  <1>1. Init => tokens = << >> /\ \A r \in Request : req[r].phase \notin Phase
    BY DEF Init, NotMade, Phase
  <1>2. QED
    BY <1>1 DEF LInv, Promises

\* Every step leaves a link coming to whoever wants one.
LEMMA StepLInv == TInv /\ LInv /\ [Next]_vars => LInv'
  <1> SUFFICES ASSUME TInv, LInv, [Next]_vars PROVE LInv'
    OBVIOUS
  <1> USE AccountsAssumption
  <1>0. TypeOK
    BY DEF TInv
  \* A step that leaves addresses, tokens and mails alone, of requests that bring no link.
  <1>2. ASSUME NEW R \in SUBSET Request, \A q \in Request \ R : req'[q] = req[q],
               UNCHANGED <<tokens, mails, inbox, lost, crossed>>,
               \A v \in Users : user'[v].email = user[v].email /\ (user[v].activated => user'[v].activated),
               \A q \in R : req[q].phase \notin {"disable", "token", "mail"},
               \A q \in R : Promises(q)'
        PROVE  LInv'
    <2>1. \A t \in DOMAIN tokens : tokens[t].user \in Users
      BY DEF TInv
    <2>2. ASSUME NEW v \in Users, NEW k \in Kind, Coming(v, k) PROVE Coming(v, k)'
      <3>1. Enabled(v, k) \subseteq Enabled(v, k)' /\ inbox \subseteq inbox'
        BY <1>2 DEF Enabled
      <3>2. \A i \in DOMAIN mails : \E j \in DOMAIN mails' : mails'[j] = mails[i]
        BY <1>2
      <3>3. \A q \in R : ~ ComesBy(q, v, k)
        BY <1>2 DEF ComesBy, At
      <3>4. QED
        BY <1>2, <2>2, <3>1, <3>2, <3>3, ComingKept
    <2>3. ASSUME NEW v \in Users, Disabling(v, "email") PROVE Disabling(v, "email")'
      <3>1. PICK w \in Request : At(w, "disable") /\ req[w].user = v /\ KindOf(w) = "email"
        BY <2>3 DEF Disabling
      <3>2. req'[w] = req[w]
        BY <1>2, <3>1 DEF At
      <3>3. QED
        BY <3>1, <3>2 DEF Disabling, At, KindOf
    <2>4. QED
      BY <1>2, <2>1, <2>2, <2>3, LInvKept
  <1>1. ASSUME UNCHANGED <<user, tokens, mails, inbox, req, lost, crossed>> PROVE LInv'
    <2> DEFINE R == {r \in Request : FALSE}
    <2>1. /\ R \in SUBSET Request /\ \A q \in R : FALSE
          /\ \A q \in Request \ R : req'[q] = req[q]
      BY <1>1
    <2>2. \A v \in Users : user'[v].email = user[v].email /\ (user[v].activated => user'[v].activated)
      BY <1>1
    <2> HIDE DEF R
    <2>3. QED
      BY <1>1, <1>2, <2>1, <2>2
  <1>3. ASSUME NEW r \in Request, Start(r) PROVE LInv'
    <2>1. PICK c \in Call : Started(r, c)
      BY <1>3, StartDoes
    <2>2. req'[r] = c /\ \A q \in Request \ {r} : req'[q] = req[q]
      BY <2>1, <1>0, PutTyped DEF Started
    <2>3. /\ UNCHANGED <<user, tokens, mails, inbox, lost, crossed>> /\ req[r].phase = "not_made"
          /\ c.phase \notin {"profile", "token", "mail", "disable_one"}
          /\ c.phase = "disable" => c.seen = user[c.user]
      BY <2>1 DEF Started, NotMade
    <2>4. Promises(r)'
      BY <2>2, <2>3 DEF Promises
    <2> DEFINE R == {r}
    <2>5. /\ R \in SUBSET Request /\ \A q \in Request \ R : req'[q] = req[q]
          /\ \A q \in R : req[q].phase \notin {"disable", "token", "mail"} /\ Promises(q)'
      BY <2>2, <2>3, <2>4
    <2> HIDE DEF R
    <2>6. QED
      BY <2>3, <2>5, <1>2
  <1>4. ASSUME NEW r \in Request, Handle(r) \/ Abort(r) PROVE LInv'
    <2> DEFINE q == req[r]
    <2>0. PICK u : u = q.user
      OBVIOUS
    <2> USE <2>0
    <2>1. r \in InFlight /\ \A p \in Request \ {r} : req'[p] = req[p]
      BY <1>0, <1>4, OthersKept, HandledInFlight
    <2>2. q.phase \in Phase /\ q \in Call /\ FieldsOK(q, tokens) /\ Promises(r)
      BY <2>1, <1>0, CallTyped, InFlightPhase DEF TInv, LInv
    <2>3. ASSUME UNCHANGED <<tokens, mails, inbox, lost, crossed>>,
               \A v \in Users : user'[v].email = user[v].email /\ (user[v].activated => user'[v].activated),
               q.phase \notin {"disable", "token", "mail"}, Promises(r)'
          PROVE  LInv'
      <3> DEFINE R == {r}
      <3>1. /\ R \in SUBSET Request /\ \A p \in Request \ R : req'[p] = req[p]
            /\ \A p \in R : req[p].phase \notin {"disable", "token", "mail"} /\ Promises(p)'
        BY <2>1, <2>3
      <3> HIDE DEF R
      <3>2. QED
        BY <2>3, <3>1, <1>2
    <2>4. ASSUME req'[r].phase \notin {"profile", "token", "disable", "mail", "disable_one"} PROVE Promises(r)'
      BY <2>4 DEF Promises
    <2>5. ASSUME Finish(r) PROVE req'[r].phase = "done"
      BY <2>5, <1>0, PutTyped DEF Finish, Done
    <2>6. ASSUME NEW phase \in Phase, Goto(r, phase)
          PROVE  /\ req'[r].phase = phase /\ req'[r].user = u /\ req'[r].op = q.op /\ req'[r].email = q.email
                 /\ req'[r].seen = q.seen /\ req'[r].token = q.token
      BY <2>2, <2>6, <1>0, GotoTyped
    \* What a step does not touch of links that come and of tokens to be disabled.
    <2>7. ASSUME NEW v, NEW k, Coming(v, k), k = "email" => user'[v].email = user[v].email,
                 Enabled(v, k) \subseteq Enabled(v, k)', inbox' = inbox,
                 \A i \in DOMAIN mails : \E j \in DOMAIN mails' : mails'[j] = mails[i],
                 ComesBy(r, v, k) => Coming(v, k)'
          PROVE  Coming(v, k)'
      <3> DEFINE R == {r}
      <3>1. /\ R \in SUBSET Request /\ \A p \in Request \ R : req'[p] = req[p]
            /\ \A p \in R : ComesBy(p, v, k) => Coming(v, k)'
        BY <2>1, <2>7
      <3> HIDE DEF R
      <3>2. QED
        BY <2>7, <3>1, ComingKept
    <2>8. ASSUME NEW v, Disabling(v, "email"), ~At(r, "disable") \/ u # v \/ KindOf(r) # "email"
          PROVE  Disabling(v, "email")'
      <3>1. PICK w \in Request : At(w, "disable") /\ req[w].user = v /\ KindOf(w) = "email"
        BY <2>8 DEF Disabling
      <3>2. req'[w] = req[w]
        BY <2>1, <2>8, <3>1 DEF At
      <3>3. QED
        BY <3>1, <3>2 DEF Disabling, At, KindOf
    <2>9. ASSUME lost \cup crossed \subseteq lost' \cup crossed',
           \A v \in Users \ (lost' \cup crossed') :
              \/ user'[v].email = user[v].email /\ (user[v].activated => user'[v].activated)
              \/ /\ Coming(v, "email")' /\ Disabling(v, "email")'
                 /\ \A p \in Request \ {r} : req[p].phase \in Phase /\ req[p].user = v =>
                       req[p].op \notin {"change_email", "resend"},
           \A t \in DOMAIN tokens : /\ tokens'[t].user = tokens[t].user /\ tokens'[t].kind = tokens[t].kind
                                    /\ tokens[t].disabled => tokens'[t].disabled,
           \A v \in Users' \ (lost' \cup crossed'), k \in Kind :
              Wanted(v, k)' /\ (\E t \in DOMAIN tokens' : tokens'[t].user = v /\ tokens'[t].kind = k) =>
                 \/ Coming(v, k)'
                 \/ v \in Users /\ \E t \in DOMAIN tokens : tokens[t].user = v /\ tokens[t].kind = k,
           \A v \in Users \ (lost' \cup crossed'), k \in Kind :
              Wanted(v, k) /\ Wanted(v, k)' /\ Coming(v, k) => Coming(v, k)',
           \A v \in Users \ (lost' \cup crossed') : Disabling(v, "email") =>
              Disabling(v, "email")' \/ \A t \in DOMAIN tokens : t \notin Enabled(v, "email")',
           Promises(r)'
          PROVE  LInv'
      <3> DEFINE R == {r}
      <3>1. /\ R \in SUBSET Request /\ \A p \in Request \ R : req'[p] = req[p]
            /\ \A p \in R : Promises(p)'
            /\ \A v \in Users \ (lost' \cup crossed') :
                 \/ user'[v].email = user[v].email /\ (user[v].activated => user'[v].activated)
                 \/ /\ Coming(v, "email")' /\ Disabling(v, "email")'
                    /\ \A p \in Request \ R : req[p].phase \in Phase /\ req[p].user = v =>
                          req[p].op \notin {"change_email", "resend"}
        BY <2>1, <2>9
      <3> HIDE DEF R
      <3>2. QED
        BY <2>9, <3>1, LInvKept
    <2>10. \A t \in DOMAIN tokens : tokens[t].user \in Users
      BY DEF TInv
    <2>11. ASSUME FindByEmail(r) PROVE LInv'
      <3>1. q.phase = "find" /\ UNCHANGED <<user, tokens, mails, inbox, lost, crossed>>
        BY <2>11 DEF FindByEmail, At, history
      <3>2. req'[r].phase \in {"check", "done", "create_link", "activate"}
        <4>1. ASSUME NEW v \in Users, NEW c \in Call, req' = [req EXCEPT ![r] = c],
                     c.phase = IF user[v].activated THEN "create_link" ELSE "activate"
              PROVE  req'[r].phase \in {"check", "done", "create_link", "activate"}
          BY <4>1, <1>0, PutTyped
        <4>2. QED
          BY <4>1, <2>5, <2>6, <2>11, FindDoes DEF Phase
      <3>3. QED
        BY SMTT(30), <3>1, <3>2, <2>3, <2>4
    <2>12. ASSUME CheckEmail(r) \/ CheckLinks(r) \/ DeleteLink(r) \/ CreateLink(r) PROVE LInv'
      <3>1. /\ q.phase \in {"check", "owner", "unlink", "create_link"}
            /\ UNCHANGED <<user, tokens, mails, inbox, lost, crossed>>
        BY <2>12 DEF CheckEmail, CheckLinks, DeleteLink, CreateLink, At, history
      <3>2. Finish(r) \/ Goto(r, "insert") \/ Goto(r, "create_link") \/ Goto(r, "unlink") \/ Goto(r, "activate")
        BY <2>12 DEF CheckEmail, CheckLinks, DeleteLink, CreateLink
      <3>3. req'[r].phase \in {"done", "insert", "create_link", "unlink", "activate"}
        BY <3>2, <2>5, <2>6 DEF Phase
      <3>4. QED
        BY <3>1, <3>3, <2>3, <2>4
    <2>13. ASSUME InsertUser(r) PROVE LInv'
      <3>1. PICK w \in User \ Users, row \in Row, c \in Call :
              /\ req[r].phase = "insert" /\ row.email = req[r].email
              /\ user' = [user EXCEPT ![w] = row]
              /\ req' = [req EXCEPT ![r] = c]
              /\ c.user = w /\ c.seen = row /\ c.phase = "profile"
              /\ UNCHANGED <<tokens, mails, inbox, lost, crossed>>
        BY <2>13, InsertDoes
      <3>2. /\ req'[r] = c /\ user'[w] = row
            /\ \A v \in User \ {w} : user'[v] = user[v]
        <4>1. req'[r] = c
          BY <3>1, <1>0, PutTyped
        <4>2. QED
          BY <4>1, <3>1, <1>0, WriteTyped
      <3>3. Promises(r)'
        BY <3>1, <3>2 DEF Promises
      <3>4. \A v \in Users : user'[v] = user[v]
        BY <3>1, <3>2 DEF Users
      <3>5. QED
        BY <3>1, <3>3, <3>4, <2>3
    <2>14. ASSUME CreateProfile(r) PROVE LInv'
      <3>1. /\ q.phase = "profile" /\ UNCHANGED <<tokens, mails, inbox, lost, crossed>>
            /\ \/ Goto(r, "mail") /\ q.seen.activated
               \/ Goto(r, "token")
        BY <2>14 DEF CreateProfile, At, history
      <3>2. u \in Users /\ u \in User /\ q.op \in {"sign_up", "sign_in"}
        BY <3>1, <2>2, UserOf DEF Phase, FieldsOK, OpsAt
      <3>3. \A v \in Users : user'[v].email = user[v].email /\ user'[v].activated = user[v].activated
        <4>1. user' = [user EXCEPT ![u].profile = TRUE]
          BY <2>14 DEF CreateProfile
        <4>2. /\ user'[u].email = user[u].email /\ user'[u].activated = user[u].activated
              /\ \A v \in User \ {u} : user'[v] = user[v]
          BY <3>2, <4>1, <1>0, ColumnTyped
        <4>3. QED
          BY <4>2 DEF Users
      <3>4. /\ req'[r].phase \in {"mail", "token"} /\ req'[r].user = u /\ req'[r].op = q.op
            /\ req'[r].seen = q.seen
        BY <3>1, <2>6 DEF Phase
      <3>5. ASSUME Coming(u, "email") PROVE Coming(u, "email")'
        <4>1. Enabled(u, "email") \subseteq Enabled(u, "email")' /\ ~ ComesBy(r, u, "email")
          BY <3>1 DEF Enabled, ComesBy, At
        <4>2. \A i \in DOMAIN mails : \E j \in DOMAIN mails' : mails'[j] = mails[i]
          BY <3>1
        <4>3. QED
          BY <3>1, <3>2, <3>3, <3>5, <4>1, <4>2, <2>7
      <3>6. Promises(r)'
        <4>1. Wanted(u, "email")' = Wanted(u, "email")
          BY <3>2, <3>3 DEF Wanted
        <4>2. u \notin lost \cup crossed /\ Wanted(u, "email") /\ q.op = "sign_up" =>
                 q.seen.email = user[u].email \/ Coming(u, "email")
          BY <3>1, <2>2 DEF Promises
        <4>3. QED
          BY <3>1, <3>2, <3>3, <3>4, <3>5, <4>1, <4>2 DEF Promises
      <3>7. QED
        BY <3>1, <3>3, <3>6, <2>3
    <2>15. ASSUME CreateToken(r) PROVE LInv'
      <3>1. q.phase = "token" /\ UNCHANGED <<user, mails, inbox, lost, crossed>> /\ Users' = Users /\ Goto(r, "mail")
        BY <2>15 DEF CreateToken, At, Users, history
      <3>2. /\ u \in User /\ u \in Users /\ q.op \in {"sign_up", "change_email", "resend", "reset"}
        BY <3>1, <2>2, UserOf DEF Phase, FieldsOK, OpsAt
      <3>3. /\ req'[r].phase = "mail" /\ req'[r].user = u /\ req'[r].op = q.op /\ req'[r].seen = q.seen
        BY <3>1, <2>6 DEF Phase
      <3> DEFINE new == Len(tokens) + 1
      <3>4. /\ DOMAIN tokens' = DOMAIN tokens \cup {new}
            /\ \A t \in DOMAIN tokens : tokens'[t] = tokens[t]
            /\ tokens'[new].user = u /\ tokens'[new].kind = KindOf(r) /\ ~tokens'[new].disabled
        BY <2>15, <3>2, <1>0, TokenAdded
      <3> HIDE DEF new
      <3>5. /\ \A k : k = KindOf(r) => Enabled(u, k)' # {}
            /\ \A v, k : Enabled(v, k) \subseteq Enabled(v, k)'
        <4>1. ASSUME NEW k, k = KindOf(r) PROVE new \in Enabled(u, k)'
          BY <4>1, <3>4 DEF Enabled
        <4>2. ASSUME NEW v, NEW k PROVE Enabled(v, k) \subseteq Enabled(v, k)'
          BY <3>4 DEF Enabled
        <4>3. QED
          BY <4>1, <4>2
      <3>6. KindOf(r)' = KindOf(r) /\ KindOf(r) \in Kind /\ (KindOf(r) = "email" <=> q.op # "reset")
        BY <3>3 DEF KindOf, Kind
      \* The request has the address of the user, or somebody else brings a link.
      <3>7. ASSUME NEW k, k = KindOf(r), k = "email" => q.seen.email = user[u].email
            PROVE  Coming(u, k)'
        <4>1. ComesBy(r, u, k)'
          BY <3>1, <3>2, <3>3, <3>5, <3>6, <3>7 DEF ComesBy, At, Right
        <4>2. QED
          BY <4>1 DEF Coming
      <3>8. ASSUME NEW v \in Users, NEW k \in Kind, Coming(v, k), v \notin lost \cup crossed, Wanted(v, k)
            PROVE  Coming(v, k)'
        <4>1. \A i \in DOMAIN mails : \E j \in DOMAIN mails' : mails'[j] = mails[i]
          BY <3>1
        <4>2. ComesBy(r, v, k) => Coming(v, k)'
          <5>1. ASSUME ComesBy(r, v, k) PROVE v = u /\ k = KindOf(r) /\ q.op # "sign_up"
            BY <5>1, <3>1 DEF ComesBy, At
          <5>2. ASSUME q.op \in {"change_email", "resend"}, v = u PROVE q.seen.email = user[u].email
            BY <5>2, <3>1, <3>8, <2>2 DEF Promises
          <5>3. QED
            BY <5>1, <5>2, <3>2, <3>6, <3>7
        <4>3. QED
          BY <3>1, <3>5, <3>8, <4>1, <4>2, <2>7
      <3>9. ASSUME u \notin lost \cup crossed, Wanted(u, KindOf(r)) PROVE Coming(u, KindOf(r))'
        <4>0. PICK k : k = KindOf(r)
          OBVIOUS
        <4>1. CASE q.op = "reset"
          BY <4>0, <4>1, <3>6, <3>7
        <4>2. CASE q.op \in {"change_email", "resend"}
          <5>1. q.seen.email = user[u].email
            BY <4>2, <3>1, <3>9, <2>2 DEF Promises
          <5>2. Coming(u, k)'
            BY <4>0, <5>1, <3>7
          <5>3. QED
            BY <4>0, <5>2, <3>6
        <4>3. CASE q.op = "sign_up"
          <5>1. k = "email" /\ k \in Kind
            BY <4>0, <4>3, <3>6
          <5>2. q.seen.email = user[u].email \/ Coming(u, k)
            BY <4>0, <4>3, <5>1, <3>1, <3>9, <2>2 DEF Promises
          <5>3. Coming(u, k)'
            BY <4>0, <5>1, <5>2, <3>2, <3>7, <3>8, <3>9
          <5>4. QED
            BY <4>0, <5>3, <3>6
        <4>4. QED
          BY <4>1, <4>2, <4>3, <3>2
      <3>10. Promises(r)'
        <4>1. u \notin lost \cup crossed /\ q.op \in {"change_email", "resend"} => q.seen.email = user[u].email
          BY <3>1, <2>2 DEF Promises
        <4>2. QED
          BY <4>1, <3>1, <3>3 DEF Promises
      <3>11. \A v \in Users' \ (lost' \cup crossed'), k \in Kind :
              Wanted(v, k)' /\ (\E t \in DOMAIN tokens' : tokens'[t].user = v /\ tokens'[t].kind = k) =>
                 \/ Coming(v, k)'
                 \/ v \in Users /\ \E t \in DOMAIN tokens : tokens[t].user = v /\ tokens[t].kind = k
        <4>1. SUFFICES ASSUME NEW v \in Users \ (lost \cup crossed), NEW k \in Kind, Wanted(v, k),
                              NEW t \in DOMAIN tokens', tokens'[t].user = v, tokens'[t].kind = k,
                              t \notin DOMAIN tokens
                       PROVE  Coming(v, k)'
          BY <3>1, <3>4 DEF Wanted
        <4>2. v = u /\ k = KindOf(r)
          BY <4>1, <3>4
        <4>3. QED
          BY <4>1, <4>2, <3>6, <3>9
      <3>12. ASSUME NEW v \in Users, Disabling(v, "email") PROVE Disabling(v, "email")'
        BY <3>1, <3>12, <2>8 DEF At
      <3>13. QED
        BY <3>1, <3>4, <3>8, <3>10, <3>11, <3>12, <2>9
    <2>16. ASSUME EnqueueMail(r) PROVE LInv'
      <3>1. q.phase = "mail" /\ UNCHANGED <<user, tokens, inbox, lost, crossed>> /\ Users' = Users
        BY <2>16 DEF EnqueueMail, At, Users, history
      <3>2. /\ u \in User /\ u \in Users /\ q.seen \in Row
            /\ q.op \in {"sign_up", "sign_in", "change_email", "resend", "reset"}
            /\ q.op \in {"sign_up", "change_email", "resend"} => ~q.seen.activated
        BY <3>1, <2>2, UserOf DEF Phase, FieldsOK, OpsAt
      <3> DEFINE m == [user |-> u, kind |-> KindOf(r), email |-> Addressee(r),
                       link |-> q.op = "reset" \/ ~q.seen.activated]
      <3>3. /\ m \in Mail /\ m.user = u /\ m.kind = KindOf(r) /\ m.email = q.seen.email
            /\ q.op # "sign_in" => m.link
            /\ mails' = Append(mails, m)
        BY <3>2, <2>16 DEF Mail, Row, KindOf, Kind, Addressee, EnqueueMail
      <3> HIDE DEF m
      <3>4. /\ \A i \in DOMAIN mails : i \in DOMAIN mails' /\ mails'[i] = mails[i]
            /\ \E j \in DOMAIN mails' : mails'[j] = m
        <4>1. mails \in Seq(Mail)
          BY <1>0 DEF TypeOK
        <4>2. /\ mails' \in Seq(Mail) /\ Len(mails') = Len(mails) + 1
              /\ \A i \in 1..Len(mails) : mails'[i] = mails[i]
              /\ mails'[Len(mails) + 1] = m
          BY <4>1, <3>3, AppendProperties
        <4>3. DOMAIN mails' = 1..(Len(mails) + 1) /\ DOMAIN mails = 1..Len(mails) /\ Len(mails) \in Nat
          BY <4>1, <4>2, LenProperties
        <4>4. QED
          BY <4>2, <4>3
      <3>5. ASSUME NEW v \in Users, NEW k \in Kind, Coming(v, k) PROVE Coming(v, k)'
        <4>1. ASSUME ComesBy(r, v, k) PROVE Coming(v, k)'
          <5>1. /\ u = v /\ KindOf(r) = k /\ q.op # "sign_in" /\ Enabled(v, k) # {}
                /\ Right(v, k, q.seen.email)
            BY <4>1, <3>1 DEF ComesBy, At
          <5>2. Enabled(v, k)' # {} /\ (k = "email" => m.email = user'[v].email)
            <6>1. m.email = q.seen.email /\ (m.email = user[v].email \/ k # "email")
              BY <3>3, <5>1 DEF Right
            <6>2. Enabled(v, k)' = Enabled(v, k)
              BY <3>1 DEF Enabled
            <6>3. k = "email" => m.email = user'[v].email
              BY <6>1, <3>1
            <6>4. QED
              BY <5>1, <6>2, <6>3
          <5>3. PICK j \in DOMAIN mails' : mails'[j] = m
            BY <3>4
          <5>4. Queued(j, v, k)'
            BY <5>1, <5>2, <5>3, <3>1, <3>3 DEF Queued, Right
          <5>5. QED
            BY <5>4 DEF Coming
        <4>2. Enabled(v, k) \subseteq Enabled(v, k)'
          BY <3>1 DEF Enabled
        <4>3. QED
          BY <3>1, <3>4, <3>5, <4>1, <4>2, <2>7
      <3>6. Promises(r)'
        <4>1. Finish(r) \/ Goto(r, "create_link")
          BY <2>16 DEF EnqueueMail
        <4>2. QED
          BY <4>1, <2>4, <2>5, <2>6 DEF Phase
      <3>7. ASSUME NEW v \in Users, Disabling(v, "email") PROVE Disabling(v, "email")'
        BY <3>1, <3>7, <2>8 DEF At
      <3>8. QED
        BY <3>1, <3>5, <3>6, <3>7, <2>9
    <2>17. ASSUME Activate(r) PROVE LInv'
      <3>1. q.phase = "activate" /\ UNCHANGED <<tokens, mails, inbox, lost, crossed>>
        BY <2>17 DEF Activate, At
      <3>2. u \in Users /\ u \in User
        BY <3>1, UserOf DEF Phase
      <3>3. \A v \in Users : user'[v].email = user[v].email /\ (user[v].activated => user'[v].activated)
        BY <3>2, <2>17, <1>0, ColumnTyped DEF Activate, Users
      <3>4. user'[u].activated
        <4>1. user \in [User -> Row \cup {None}] /\ user[u] \in Row
          BY <3>2, <1>0 DEF Users, TypeOK
        <4>2. [user[u] EXCEPT !.activated = TRUE].activated = TRUE
          BY <4>1 DEF Row
        <4>3. user'[u] = [user[u] EXCEPT !.activated = TRUE]
          BY <4>1, <3>2, <2>17 DEF Activate
        <4>4. QED
          BY <4>2, <4>3
      <3>5. Promises(r)'
        <4>1. Goto(r, "create_link") \/ Goto(r, "disable_one") \/ Finish(r)
          BY <2>17 DEF Activate
        <4>2. req'[r].phase \in {"create_link", "done"} \/ (req'[r].phase = "disable_one" /\ req'[r].user = u)
          BY <4>1, <2>5, <2>6 DEF Phase
        <4>3. QED
          BY <4>2, <3>4 DEF Promises, Wanted
      <3>6. QED
        BY <3>1, <3>3, <3>5, <2>3
    <2>18. ASSUME SaveEmail(r) PROVE LInv'
      <3>1. PICK c \in Call :
                  /\ u \in Users /\ q.op \in {"change_email", "resend"}
                  /\ user'[u] \in Row /\ user'[u].email = q.email
                  /\ user' = [user EXCEPT ![u] = user'[u]]
                  /\ req' = [req EXCEPT ![r] = c] /\ SameRequest(r, c)
                  /\ c.user = u /\ c.seen.email = q.email /\ c.phase = "disable"
        BY <2>18, SaveDoes
      <3>2. Users' = Users /\ \A v \in Users \ {u} : user'[v] = user[v]
        <4>1. u \in User
          BY <3>1 DEF Users
        <4> DEFINE row == user'[u]
        <4>2. row \in Row /\ user' = [user EXCEPT ![u] = row]
          BY <3>1
        <4> HIDE DEF row
        <4>3. Users' = Users \cup {u} /\ \A v \in User \ {u} : user'[v] = user[v]
          BY <4>1, <4>2, <1>0, WriteTyped
        <4>4. QED
          BY <4>1, <4>3, <3>1 DEF Users
      <3>3. req'[r] = c
        BY <3>1, <1>0, PutTyped
      <3>4. /\ UNCHANGED <<tokens, mails, inbox, lost>> /\ q.phase = "save_email"
            /\ crossed' = crossed \cup
                 (IF \E p \in Others(r, u) : req[p].op \in {"change_email", "resend"} THEN {u} ELSE {})
        BY <2>18 DEF SaveEmail, At
      <3>5. At(r, "disable")' /\ req'[r].user = u /\ KindOf(r)' = "email" /\ req'[r].op # "sign_up"
        BY <3>1, <3>3 DEF At, KindOf, SameRequest
      <3>6. Disabling(u, "email")' /\ Coming(u, "email")'
        <4>1. Disabling(u, "email")'
          BY <3>5 DEF Disabling
        <4>2. ComesBy(r, u, "email")'
          BY <3>5 DEF ComesBy, At
        <4>3. QED
          BY <4>1, <4>2 DEF Coming
      <3>7. ASSUME NEW p \in Request \ {r}, req[p].phase \in Phase, req[p].user = u, u \notin crossed'
            PROVE  req[p].op \notin {"change_email", "resend"}
        <4>1. p \in Others(r, u)
          BY <3>7, <1>0, InFlightPhase DEF Others
        <4>2. QED
          BY <4>1, <3>4, <3>7
      <3>8. ASSUME NEW v \in Users, NEW k \in Kind, Coming(v, k) PROVE Coming(v, k)'
        <4>1. CASE v = u /\ k = "email"
          BY <4>1, <3>6
        <4>2. CASE ~ (v = u /\ k = "email")
          <5>1. k = "email" => user'[v].email = user[v].email
            BY <4>2, <3>2
          <5>2. Enabled(v, k) \subseteq Enabled(v, k)' /\ ~ ComesBy(r, v, k)
            BY <3>4 DEF Enabled, ComesBy, At
          <5>3. \A i \in DOMAIN mails : \E j \in DOMAIN mails' : mails'[j] = mails[i]
            BY <3>4
          <5>4. QED
            BY <3>4, <3>8, <5>1, <5>2, <5>3, <2>7
        <4>3. QED
          BY <4>1, <4>2
      <3>9. ASSUME NEW v \in Users, Disabling(v, "email") PROVE Disabling(v, "email")'
        BY <3>4, <3>9, <2>8 DEF At
      <3>10. Promises(r)'
        BY <3>1, <3>3 DEF Promises
      <3>11. \A v \in Users \ (lost' \cup crossed') :
              \/ user'[v].email = user[v].email /\ (user[v].activated => user'[v].activated)
              \/ /\ Coming(v, "email")' /\ Disabling(v, "email")'
                 /\ \A p \in Request \ {r} : req[p].phase \in Phase /\ req[p].user = v =>
                       req[p].op \notin {"change_email", "resend"}
        <4>1. ASSUME NEW v \in Users \ (lost' \cup crossed'), v = u
              PROVE  /\ Coming(v, "email")' /\ Disabling(v, "email")'
                     /\ \A p \in Request \ {r} : req[p].phase \in Phase /\ req[p].user = v =>
                           req[p].op \notin {"change_email", "resend"}
          BY <4>1, <3>6, <3>7
        <4>2. QED
          BY <4>1, <3>2
      <3>12. QED
        BY <3>2, <3>4, <3>8, <3>9, <3>10, <3>11, <2>9
    <2>19. ASSUME DisableTokens(r) PROVE LInv'
      <3> DEFINE S == {t \in DOMAIN tokens : Earlier(r, t)}
      <3>1. q.phase = "disable" /\ UNCHANGED <<user, mails, inbox, lost, crossed>> /\ Users' = Users /\ Goto(r, "token")
        BY <2>19 DEF DisableTokens, At, Users, history
      <3>2. /\ req'[r].phase = "token" /\ req'[r].user = u /\ KindOf(r)' = KindOf(r)
            /\ req'[r].seen = q.seen /\ req'[r].op = q.op /\ q.op \in {"change_email", "resend", "reset"}
            /\ KindOf(r) \in Kind /\ u \in Users
        BY <3>1, <2>2, <2>6, UserOf DEF Phase, KindOf, FieldsOK, OpsAt, Kind
      <3>3. tokens' = [t \in DOMAIN tokens |->
                         IF t \in S THEN [tokens[t] EXCEPT !.disabled = TRUE] ELSE tokens[t]]
        BY <2>19 DEF DisableTokens
      <3>4. S \in SUBSET DOMAIN tokens /\ \A t \in S : tokens[t].user = u /\ tokens[t].kind = KindOf(r)
        BY DEF S, Earlier
      <3>4b. Enabled(u, KindOf(r)) \subseteq S
        BY DEF S, Earlier, Enabled
      <3> HIDE DEF S
      <3>5. /\ \A v \in User, k \in Kind : Enabled(v, k)' = Enabled(v, k) \ S
            /\ DOMAIN tokens' = DOMAIN tokens
            /\ \A t \in DOMAIN tokens : /\ tokens'[t].user = tokens[t].user /\ tokens'[t].kind = tokens[t].kind
                                        /\ tokens[t].disabled => tokens'[t].disabled
        BY <3>3, <3>4, <1>0, TokensDisabled
      <3>6. Coming(u, KindOf(r))'
        <4>0. PICK k : k = KindOf(r)
          OBVIOUS
        <4>1. ComesBy(r, u, k)'
          BY <4>0, <3>2 DEF ComesBy, At
        <4>2. Coming(u, k)'
          BY <4>1 DEF Coming
        <4>3. QED
          BY <4>0, <4>2, <3>2
      <3>7. ASSUME NEW v \in Users, NEW k \in Kind, Coming(v, k) PROVE Coming(v, k)'
        <4>1. CASE v = u /\ k = KindOf(r)
          BY <4>1, <3>2, <3>6
        <4>2. CASE ~ (v = u /\ k = KindOf(r))
          <5>1. Enabled(v, k) \subseteq Enabled(v, k)' /\ ~ ComesBy(r, v, k)
            BY <4>2, <3>4, <3>5 DEF Enabled, ComesBy, Users
          <5>2. \A i \in DOMAIN mails : \E j \in DOMAIN mails' : mails'[j] = mails[i]
            BY <3>1
          <5>3. QED
            BY <3>1, <3>7, <5>1, <5>2, <2>7
        <4>3. QED
          BY <4>1, <4>2
      <3>8. ASSUME NEW v \in Users, Disabling(v, "email")
            PROVE  Disabling(v, "email")' \/ \A t \in DOMAIN tokens : t \notin Enabled(v, "email")'
        <4>1. CASE u = v /\ KindOf(r) = "email"
          <5>1. Enabled(v, "email")' = {}
            BY <4>1, <3>2, <3>4b, <3>5 DEF Users
          <5>2. QED
            BY <5>1
        <4>2. CASE ~ (u = v /\ KindOf(r) = "email")
          BY <4>2, <3>8, <2>8
        <4>3. QED
          BY <4>1, <4>2
      <3>9. Promises(r)'
        <4>1. u \notin lost \cup crossed /\ q.op \in {"change_email", "resend"} => q.seen.email = user[u].email
          BY <3>1, <2>2 DEF Promises
        <4>2. QED
          BY <4>1, <3>1, <3>2 DEF Promises
      <3>10. QED
        BY <3>1, <3>5, <3>7, <3>8, <3>9, <2>9
    <2>20. ASSUME ReadUser(r) PROVE LInv'
      <3>1. q.phase = "read_user" /\ UNCHANGED <<user, tokens, mails, inbox, lost, crossed>>
        BY <2>20 DEF ReadUser, At, history
      <3>2. CASE Finish(r)
        BY <3>1, <3>2, <2>3, <2>4, <2>5
      <3>3. ASSUME NEW c \in Call, req' = [req EXCEPT ![r] = c], c.user = u,
                   c.phase = IF user[u].activated THEN "disable_one" ELSE "activate"
            PROVE  LInv'
        <4>1. req'[r] = c
          BY <3>3, <1>0, PutTyped
        <4>2. Promises(r)'
          BY <4>1, <3>1, <3>3 DEF Promises, Wanted
        <4>3. QED
          BY <4>2, <3>1, <2>3
      <3>4. QED
        BY <2>20, <3>2, <3>3, ReadDoes
    <2>21. ASSUME DisableToken(r) PROVE LInv'
      <3>1. /\ q.phase = "disable_one" /\ UNCHANGED <<user, mails, inbox, lost, crossed>> /\ Users' = Users
            /\ Finish(r)
        BY <2>21 DEF DisableToken, At, Users, history
      <3> DEFINE S == {q.token}
      <3>2. /\ S \in SUBSET DOMAIN tokens /\ u \in Users
            /\ \A t \in S : t = q.token /\ tokens[t].user = u /\ tokens[t].kind = "email"
        BY <3>1, <2>2, UserOf DEF FieldsOK, OpsAt, Phase
      <3>3. tokens' = [t \in DOMAIN tokens |->
                         IF t \in S THEN [tokens[t] EXCEPT !.disabled = TRUE] ELSE tokens[t]]
        BY <2>21 DEF DisableToken
      <3> HIDE DEF S
      <3>4. /\ \A v \in User, k \in Kind : Enabled(v, k)' = Enabled(v, k) \ S
            /\ DOMAIN tokens' = DOMAIN tokens
            /\ \A t \in DOMAIN tokens : /\ tokens'[t].user = tokens[t].user /\ tokens'[t].kind = tokens[t].kind
                                        /\ tokens[t].disabled => tokens'[t].disabled
        BY ZenonT(60), <3>2, <3>3, <1>0, TokensDisabled
      <3>5. ASSUME NEW v \in Users, Disabling(v, "email") PROVE Disabling(v, "email")'
        BY <3>1, <3>5, <2>8 DEF At
      <3>6. ASSUME NEW v \in Users \ (lost \cup crossed), NEW k \in Kind, Wanted(v, k), Coming(v, k)
            PROVE  Coming(v, k)'
        \* Either the token does not work any more, or another request disables it.
        <4>1. CASE Enabled(v, k) \subseteq Enabled(v, k)'
          <5>1. ~ ComesBy(r, v, k)
            BY <3>1 DEF ComesBy
          <5>2. \A i \in DOMAIN mails : \E j \in DOMAIN mails' : mails'[j] = mails[i]
            BY <3>1
          <5>3. QED
            BY <3>1, <3>6, <4>1, <5>1, <5>2, <2>7
        <4>2. CASE ~ (Enabled(v, k) \subseteq Enabled(v, k)')
          <5>1. v = u /\ k = "email" /\ q.token \in Enabled(u, "email")
            BY <4>2, <3>2, <3>4 DEF Enabled, Users
          <5>2. Disabling(v, "email")
            BY <5>1, <3>1, <3>6, <2>2 DEF Promises
          <5>3. PICK w \in Request : At(w, "disable") /\ req[w].user = v /\ KindOf(w) = "email"
            BY <5>2 DEF Disabling
          <5>4. req[w].op # "sign_up" /\ req'[w] = req[w]
            BY <5>3, <3>1, <2>1 DEF At, TInv, FieldsOK, OpsAt, Phase
          <5>5. ComesBy(w, v, "email")'
            BY <5>3, <5>4 DEF ComesBy, At, KindOf
          <5>6. Coming(v, "email")'
            BY <5>5 DEF Coming
          <5>7. QED
            BY <5>1, <5>6
        <4>3. QED
          BY <4>1, <4>2
      <3>7. Promises(r)'
        BY <3>1, <2>4, <2>5
      <3>8. QED
        BY <3>1, <3>4, <3>5, <3>6, <3>7, <2>9
    <2>22. ASSUME SavePassword(r) \/ SaveInactive(r) PROVE LInv'
      <3>1. q.phase \in {"password", "deactivate"} /\ UNCHANGED <<tokens, mails, inbox, lost, crossed>> /\ Finish(r)
        BY <2>22 DEF SavePassword, SaveInactive, At, history
      <3>2. u \in Users
        BY <3>1, UserOf DEF Phase
      <3>3. \A v \in Users : user'[v].email = user[v].email /\ (user[v].activated => user'[v].activated)
        BY <3>2, <2>22, <1>0, ColumnTyped DEF SavePassword, SaveInactive, Users
      <3>4. QED
        BY <3>1, <3>3, <2>3, <2>4, <2>5
    <2>23. ASSUME Abort(r) PROVE LInv'
      <3>1. /\ UNCHANGED <<user, tokens, mails, inbox, crossed>> /\ Users' = Users /\ Finish(r)
            /\ lost' = lost \cup ({u} \ {None})
        BY <2>23 DEF Abort, Users
      <3>2. u \in User => u \in lost'
        BY <3>1
      <3>3. ASSUME NEW v \in Users \ (lost' \cup crossed'), NEW k \in Kind, Coming(v, k) PROVE Coming(v, k)'
        <4>1. Enabled(v, k) \subseteq Enabled(v, k)' /\ ~ ComesBy(r, v, k)
          BY <3>1, <3>2 DEF Enabled, ComesBy, Users
        <4>2. \A i \in DOMAIN mails : \E j \in DOMAIN mails' : mails'[j] = mails[i]
          BY <3>1
        <4>3. QED
          BY <3>1, <3>3, <4>1, <4>2, <2>7
      <3>4. ASSUME NEW v \in Users \ (lost' \cup crossed'), Disabling(v, "email") PROVE Disabling(v, "email")'
        BY <3>2, <3>4, <2>8 DEF Users
      <3>5. Promises(r)'
        BY <3>1, <2>4, <2>5
      <3>6. QED
        BY <3>1, <3>3, <3>4, <3>5, <2>9
    <2>24. QED
      BY <1>4, <2>11, <2>12, <2>13, <2>14, <2>15, <2>16, <2>17, <2>18, <2>19, <2>20, <2>21, <2>22,
         <2>23 DEF Handle
  <1>5. ASSUME NEW u \in User, Deauthorize(u) PROVE LInv'
    BY <1>1, <1>5 DEF Deauthorize
  <1>6. CASE MailWorker
    <2>1. /\ UNCHANGED <<user, tokens, req, crossed>> /\ Users' = Users
          /\ mails # << >> /\ mails' = Tail(mails) /\ inbox \subseteq inbox'
          /\ lost \subseteq lost'
      BY <1>6 DEF MailWorker, SendMail, MailFails, Users
    <2>2. PICK mail : mail = Head(mails)
      OBVIOUS
    <2>3. /\ mail = mails[1] /\ mail \in Mail
          /\ \A i \in DOMAIN mails : i = 1 \/ \E j \in DOMAIN mails' : mails'[j] = mails[i]
      <3>1. mails \in Seq(Mail) /\ Len(mails) \in Nat /\ DOMAIN mails = 1..Len(mails) /\ Len(mails) # 0
        BY <2>1, <1>0, TokenTyped, EmptySeq DEF TypeOK
      <3>2. /\ mails' \in Seq(Mail) /\ Len(mails') = Len(mails) - 1
            /\ \A i \in 1..Len(mails') : mails'[i] = mails[i + 1]
        BY <2>1, <3>1, HeadTailProperties
      <3>3. DOMAIN mails' = 1..Len(mails')
        BY <3>2, LenProperties
      <3>4. ASSUME NEW i \in DOMAIN mails, i # 1 PROVE \E j \in DOMAIN mails' : mails'[j] = mails[i]
        <4>1. i - 1 \in DOMAIN mails' /\ (i - 1) + 1 = i
          BY <3>1, <3>2, <3>3, <3>4
        <4>2. QED
          BY <4>1, <3>2, <3>3
      <3>5. mail = mails[1] /\ mail \in Mail
        BY <2>1, <2>2, <3>1, HeadTailProperties, TokenTyped
      <3>6. QED
        BY <3>4, <3>5
    <2>4. ASSUME NEW v \in Users \ (lost' \cup crossed'), NEW k \in Kind, Coming(v, k) PROVE Coming(v, k)'
      <3>1. ASSUME Queued(1, v, k) PROVE Coming(v, k)'
        <4>1. /\ mail.user = v /\ mail.kind = k /\ mail.link /\ Enabled(v, k) # {} /\ Right(v, k, mail.email)
          BY <3>1, <2>3 DEF Queued
        <4>2. Live(mail) = Enabled(v, k)
          BY <4>1 DEF Live
        <4>3. SendMail
          BY <1>6, <2>2, <2>4, <4>1 DEF MailWorker, MailFails
        <4>4. PICK t \in Enabled(v, k) : inbox' = inbox \cup {<<mail.email, t>>}
          BY <4>1, <4>2, <4>3, <2>2 DEF SendMail
        <4>5. mail.email \in Email /\ t \in Enabled(v, k)' /\ Enabled(v, k)' = Enabled(v, k)
          BY <2>1, <2>3 DEF Mail, Enabled
        <4>6. Received(v, k)'
          <5>1. k = "email" => mail.email = user'[v].email
            BY <4>1, <2>1 DEF Right
          <5>2. QED
            BY <4>4, <4>5, <5>1 DEF Received, Right
        <4>7. QED
          BY <4>6 DEF Coming
      <3>2. \A i \in DOMAIN mails : Queued(i, v, k) => Coming(v, k)' \/ \E j \in DOMAIN mails' : mails'[j] = mails[i]
        BY <3>1, <2>3
      <3>3. Enabled(v, k) \subseteq Enabled(v, k)'
        BY <2>1 DEF Enabled
      <3> DEFINE R == {r \in Request : FALSE}
      <3>4. R \in SUBSET Request /\ \A q : q \notin R
        OBVIOUS
      <3> HIDE DEF R
      <3>5. QED
        BY <2>1, <2>4, <3>2, <3>3, <3>4, ComingKept
    <2>5. \A v : Disabling(v, "email") => Disabling(v, "email")'
      BY <2>1 DEF Disabling, At, KindOf
    <2> DEFINE R == {r \in Request : FALSE}
    <2>6. R \in SUBSET Request /\ \A q : q \notin R
      OBVIOUS
    <2> HIDE DEF R
    <2>7. QED
      BY <2>1, <2>4, <2>5, <2>6, LInvKept
  <1>7. CASE UNCHANGED vars
    BY <1>1, <1>7 DEF vars, history
  <1>8. QED
    BY <1>3, <1>4, <1>5, <1>6, <1>7 DEF Next

\* When all is quiet, whoever asked for a link has got one that works, but for the
\* causes LinkDelivered names.
THEOREM AccountsLinkDelivered == Spec => []LinkDelivered
  <1>1. TInv /\ LInv => LinkDelivered
    <2> SUFFICES ASSUME TInv, LInv, Quiet, NEW u \in Users \ (lost \cup crossed), NEW k \in Kind, Asked(u, k)
                 PROVE  \E t \in Enabled(u, k), e \in Email :
                           <<e, t>> \in inbox /\ (k = "email" => e = user[u].email)
      BY DEF LinkDelivered
    <2>1. Coming(u, k)
      BY DEF Asked, Wanted, LInv
    <2>2. \A r \in Request : req[r].phase \notin Phase
      BY InFlightPhase DEF TInv, Quiet
    <2>3. \A r \in Request : ~ ComesBy(r, u, k)
      BY <2>2 DEF ComesBy, Phase
    <2>4. DOMAIN mails = {}
      BY DEF Quiet
    <2>5. Received(u, k)
      BY <2>1, <2>3, <2>4 DEF Coming
    <2>6. QED
      BY <2>5 DEF Received, Right
  <1>2. QED
    BY <1>1, InitTInv, StepTInv, InitLInv, StepLInv, PTL DEF Spec
=============================================================================
