------------------------------ MODULE Accounts ------------------------------
(***************************************************************************)
(* The accounts of people: signing up with an e-mail address, signing in   *)
(* with a Facebook or Google account, linking and unlinking such accounts, *)
(* changing and verifying the e-mail address, setting the password, and    *)
(* the worker of the mail queue, which sends the links for the last two.   *)
(*                                                                         *)
(* Nothing in the database keeps e-mail addresses apart, the requests look *)
(* before they write.  Each ORM statement commits by itself and requests   *)
(* run at once.  A request reads the account it acts for when it is        *)
(* authenticated and goes by that copy.                                    *)
(***************************************************************************)
EXTENDS Integers, Sequences, FiniteSets

CONSTANTS
    User,           \* the rows of table user there may be
    Founder,        \* the user who may have an account at the start
    Email,
    Account,        \* the accounts people have at each provider
    EmailOf,        \* EmailOf[a] is the address that the provider gives for a
    Request,        \* the API requests, each made once
    Workers,        \* how many requests are handled at a time
    Mixes,          \* sets of operations: a behaviour calls those of one
    None

Provider == {"facebook", "gplus"}

Kind == {"email", "reset"}

Op == {"sign_up", "sign_in", "link", "unlink", "change_email", "resend", "verify",
       "reset", "set_password", "change_password", "deactivate"}

Row == [email: Email, activated: BOOLEAN, active: BOOLEAN, password: BOOLEAN, profile: BOOLEAN]

ASSUME AccountsAssumption ==
    /\ Founder \in User
    /\ EmailOf \in [Account -> Email]
    /\ Workers \in Nat \ {0}
    /\ Mixes \subseteq SUBSET (Op \cup {"deauthorize"})
    /\ None \notin User \cup Email \cup Account \cup Row

VARIABLES
    mix,            \* the operations that clients call
    user,           \* the User rows, with whether the Profile row exists
    linked,         \* linked[p][u]: the account of provider p linked to u
    tokens,         \* the ConfirmToken rows
    mails,          \* the mail queue
    inbox,          \* <<e, t>>: a mail with the link of token t went to address e
    req,            \* the state of each request
    proved,         \* history: <<u, e>>: e was shown to be the address of u
    assumed,        \* history: <<u, e>>: u, with address e, was activated by linking an account
    overtaken,      \* history: users whose address changed under a request that activates
    crossed,        \* history: users two of whose changes of address overlapped
    misdirected,    \* history: users whose link went to an address they had left
    lost,           \* history: users a mail to whom was lost
    stripped        \* history: users who may have lost their last way to log in

history == <<proved, assumed, overtaken, crossed, misdirected, lost, stripped>>

vars == <<mix, user, linked, tokens, mails, inbox, req, history>>

Token == [user: User, kind: Kind, disabled: BOOLEAN]

\* A mail job has a copy of the user; link says that the mail is to have one.
Mail == [user: User, kind: Kind, email: Email, link: BOOLEAN]

Phase == {"check", "insert", "profile", "token", "mail", "find", "activate", "owner",
          "unlink", "create_link", "save_email", "disable", "read_user", "disable_one",
          "password", "deactivate"}

NotMade == [phase |-> "not_made"]

Done == [phase |-> "done"]

\* user is the account the request is about and seen the copy of its row.
Call == [phase: Phase, op: Op, user: User \cup {None}, seen: Row \cup {None},
         email: Email \cup {None}, provider: Provider, account: Account \cup {None}, token: Nat]

TypeOK ==
    /\ mix \in Mixes
    /\ user \in [User -> Row \cup {None}]
    /\ linked \in [Provider -> [User -> Account \cup {None}]]
    /\ tokens \in Seq(Token)
    /\ mails \in Seq(Mail)
    /\ inbox \subseteq Email \X DOMAIN tokens
    /\ req \in [Request -> Call \cup {NotMade, Done}]
    /\ proved \cup assumed \subseteq User \X Email
    /\ overtaken \cup crossed \cup misdirected \cup lost \cup stripped \subseteq User

-----------------------------------------------------------------------------
Users == {u \in User : user[u] # None}

Holders(e) == {u \in Users : user[u].email = e}

Enabled(u, kind) ==
    {t \in DOMAIN tokens : tokens[t].user = u /\ tokens[t].kind = kind /\ ~tokens[t].disabled}

LinkedTo(p, a) == {u \in User : linked[p][u] = a}

InFlight == {r \in Request : req[r] \notin {NotMade, Done}}

\* The other requests that are about user u.
Others(r, u) == {q \in InFlight \ {r} : req[q].user = u}

At(r, phase) == req[r].phase = phase

Goto(r, phase) == req' = [req EXCEPT ![r].phase = phase]

Finish(r) == req' = [req EXCEPT ![r] = Done]

\* An account that nobody has yet, one with a password, or one that came from
\* Facebook, has Google linked too and has none.
Init ==
    /\ mix \in Mixes
    /\ tokens = << >> /\ mails = << >> /\ inbox = {}
    /\ req = [r \in Request |-> NotMade]
    /\ assumed = {} /\ overtaken = {} /\ crossed = {} /\ misdirected = {} /\ lost = {} /\ stripped = {}
    /\ \E a \in Account, has \in {"none", "password", "links"} :
          /\ user = [u \in User |->
               IF u = Founder /\ has # "none"
               THEN [email |-> EmailOf[a], activated |-> TRUE, active |-> TRUE,
                     password |-> has = "password", profile |-> TRUE]
               ELSE None]
          /\ linked = [p \in Provider |-> [u \in User |->
               IF u = Founder /\ has = "links" THEN a ELSE None]]
          /\ proved = IF has = "none" THEN {} ELSE {<<Founder, EmailOf[a]>>}

-----------------------------------------------------------------------------
Arrives(r, op) == op \in mix /\ req[r] = NotMade /\ Cardinality(InFlight) < Workers

Blank ==
    [phase |-> "check", op |-> "sign_up", user |-> None, seen |-> None, email |-> None,
     provider |-> "facebook", account |-> None, token |-> 0]

\* The request of client u, or one about u, with the row as it is now.
About(u, op, phase) == [Blank EXCEPT !.op = op, !.user = u, !.seen = user[u], !.phase = phase]

\* Mutant: the addresses of others are not looked at.
Free_Any(e, but) == TRUE

\* The check that no other user has address e.
Free(e, but) == Holders(e) \ but = {}

\* grant_type=shoutit_signup: the validation of the e-mail ...
SignUp(r, e) ==
    /\ Arrives(r, "sign_up") /\ Free(e, {})
    /\ req' = [req EXCEPT ![r] = [Blank EXCEPT !.email = e]]
    /\ UNCHANGED <<mix, user, linked, tokens, mails, inbox, history>>

\* grant_type=facebook_access_token or gplus_code with an account that is not
\* linked; with one that is, nothing of this model changes.
SignIn(r, p, a) ==
    /\ Arrives(r, "sign_in") /\ LinkedTo(p, a) = {}
    /\ req' = [req EXCEPT ![r] =
         [Blank EXCEPT !.op = "sign_in", !.phase = "find", !.email = EmailOf[a],
                       !.provider = p, !.account = a]]
    /\ UNCHANGED <<mix, user, linked, tokens, mails, inbox, history>>

\* The user with the e-mail of the account, activated if need be; with Facebook
\* any of several, whom Google refuses.  One whose profile does not exist yet ends
\* the request, unless Google's has no location to write there: then he is
\* activated first.
FindByEmail(r) ==
    LET found == Holders(req[r].email)
        google == req[r].provider = "gplus"
    IN  /\ At(r, "find")
        /\ \/ found = {} /\ Goto(r, "check")
           \/ /\ (google /\ Cardinality(found) > 1) \/ \E u \in found : ~user[u].profile
              /\ Finish(r)
           \/ \E u \in found :
                /\ google => found = {u}
                /\ user[u].profile \/ (google /\ ~user[u].activated)
                /\ req' = [req EXCEPT ![r].user = u, ![r].seen = user[u],
                             ![r].phase = IF user[u].activated THEN "create_link" ELSE "activate"]
        /\ UNCHANGED <<mix, user, linked, tokens, mails, inbox, history>>

\* ... and that of create_user.
CheckEmail(r) ==
    /\ At(r, "check")
    /\ IF Free(req[r].email, {}) THEN Goto(r, "insert") ELSE Finish(r)
    /\ UNCHANGED <<mix, user, linked, tokens, mails, inbox, history>>

\* The User row.  The e-mail of a provider's account needs no verification.
InsertUser(r) ==
    LET bySignUp == req[r].op = "sign_up"
        row == [email |-> req[r].email, activated |-> ~bySignUp, active |-> TRUE,
                password |-> bySignUp, profile |-> FALSE]
    IN  /\ At(r, "insert")
        /\ \E u \in User \ Users :
              /\ user' = [user EXCEPT ![u] = row]
              /\ req' = [req EXCEPT ![r].phase = "profile", ![r].user = u, ![r].seen = row]
              /\ proved' = IF bySignUp THEN proved ELSE proved \cup {<<u, req[r].email>>}
        /\ UNCHANGED <<mix, linked, tokens, mails, inbox, assumed, overtaken, crossed, misdirected, lost, stripped>>

\* user_post_save creates the profile, ...
CreateProfile(r) ==
    /\ At(r, "profile")
    /\ user' = [user EXCEPT ![req[r].user].profile = TRUE]
    /\ Goto(r, IF req[r].seen.activated THEN "mail" ELSE "token")
    /\ UNCHANGED <<mix, linked, tokens, mails, inbox, history>>

KindOf(r) == IF req[r].op = "reset" THEN "reset" ELSE "email"

\* ... a token unless the account is activated ...
CreateToken(r) ==
    /\ At(r, "token")
    /\ tokens' = Append(tokens, [user |-> req[r].user, kind |-> KindOf(r), disabled |-> FALSE])
    /\ Goto(r, "mail")
    /\ UNCHANGED <<mix, user, linked, mails, inbox, history>>

\* Mutant: the address is that of the request.
Addressee_Request(r) == req[r].email

Addressee(r) == req[r].seen.email

\* ... and the job of the welcome mail; send_verification_email and
\* reset_password end with that of their own.
EnqueueMail(r) ==
    /\ At(r, "mail")
    /\ mails' = Append(mails, [user |-> req[r].user, kind |-> KindOf(r),
                               email |-> Addressee(r),
                               link |-> req[r].op = "reset" \/ ~req[r].seen.activated])
    /\ IF req[r].op = "sign_in" THEN Goto(r, "create_link") ELSE Finish(r)
    /\ UNCHANGED <<mix, user, linked, tokens, inbox, history>>
-----------------------------------------------------------------------------
\* User.activate, of an account that was read as not activated.  A click proves
\* the address the mail went to, a provider the one it reported.  Linking compares
\* no addresses: that of the user proves nothing, and is taken as it is.
Activate(r) ==
    LET u == req[r].user
    IN  /\ At(r, "activate")
        /\ user' = [user EXCEPT ![u].activated = TRUE]
        /\ IF req[r].op = "link"
           THEN assumed' = assumed \cup {<<u, user[u].email>>} /\ UNCHANGED proved
           ELSE proved' = proved \cup {<<u, req[r].email>>} /\ UNCHANGED assumed
        /\ CASE req[r].op = "sign_in" -> Goto(r, "create_link")
             [] req[r].op = "verify" -> Goto(r, "disable_one")
             [] OTHER -> Finish(r)
        /\ UNCHANGED <<mix, linked, tokens, mails, inbox, overtaken, crossed, misdirected, lost, stripped>>

\* The row that links the account, of which both columns are unique; a sign-in
\* asks for the profile first.
CreateLink(r) ==
    LET u == req[r].user  p == req[r].provider  a == req[r].account
    IN  /\ At(r, "create_link")
        /\ IF linked[p][u] = None /\ LinkedTo(p, a) = {} /\ (req[r].op = "sign_in" => user[u].profile)
           THEN /\ linked' = [linked EXCEPT ![p][u] = a]
                /\ IF req[r].op = "link" /\ ~req[r].seen.activated
                   THEN Goto(r, "activate") ELSE Finish(r)
                /\ UNCHANGED stripped
           ELSE /\ Finish(r)
                /\ stripped' = stripped \cup {u}
                /\ UNCHANGED linked
        /\ UNCHANGED <<mix, user, tokens, mails, inbox, proved, assumed, overtaken, crossed, misdirected, lost>>

\* PATCH profiles/me/link: the account must not be linked to another profile.
Link(r, u, p, a) ==
    /\ Arrives(r, "link") /\ u \in Users /\ user[u].active
    /\ req' = [req EXCEPT ![r] =
         [About(u, "link", "owner") EXCEPT !.provider = p, !.account = a]]
    /\ UNCHANGED <<mix, user, linked, tokens, mails, inbox, history>>

\* DELETE profiles/me/link: somebody without a password keeps an account linked.
Unlink(r, u, p) ==
    /\ Arrives(r, "unlink") /\ u \in Users /\ user[u].active
    /\ req' = [req EXCEPT ![r] = [About(u, "unlink", "owner") EXCEPT !.provider = p]]
    /\ UNCHANGED <<mix, user, linked, tokens, mails, inbox, history>>

\* Mutant: it is the account to be unlinked that is looked for.
KeepsALink_Same(r) == linked[req[r].provider][req[r].user] # None

KeepsALink(r) ==
    \E p \in Provider \ {req[r].provider} : linked[p][req[r].user] # None

CheckLinks(r) ==
    LET u == req[r].user
    IN  /\ At(r, "owner")
        /\ IF IF req[r].op = "link"
              THEN LinkedTo(req[r].provider, req[r].account) \subseteq {u}
              ELSE req[r].seen.password \/ KeepsALink(r)
           THEN Goto(r, "unlink") ELSE Finish(r)
        /\ UNCHANGED <<mix, user, linked, tokens, mails, inbox, history>>

\* Two requests to unlink the one and the other account of u, both past the check.
UnlinkBoth(r, q) ==
    /\ req[r].op = "unlink" /\ req[q].op = "unlink" /\ At(q, "unlink")
    /\ req[q].provider # req[r].provider

DeleteLink(r) ==
    LET u == req[r].user
    IN  /\ At(r, "unlink")
        /\ linked' = [linked EXCEPT ![req[r].provider][u] = None]
        /\ stripped' = IF \E q \in Others(r, u) : UnlinkBoth(r, q) THEN stripped \cup {u} ELSE stripped
        /\ IF req[r].op = "link" THEN Goto(r, "create_link") ELSE Finish(r)
        /\ UNCHANGED <<mix, user, tokens, mails, inbox, proved, assumed, overtaken, crossed, misdirected, lost>>

\* Facebook tells that u has removed the application.
Deauthorize(u) ==
    /\ "deauthorize" \in mix /\ linked["facebook"][u] # None
    /\ linked' = [linked EXCEPT !["facebook"][u] = None]
    /\ stripped' = stripped \cup {u}
    /\ UNCHANGED <<mix, user, tokens, mails, inbox, req, proved, assumed, overtaken, crossed, misdirected, lost>>
-----------------------------------------------------------------------------
\* PATCH profiles/me with another address.
ChangeEmail(r, u, e) ==
    /\ Arrives(r, "change_email") /\ u \in Users /\ user[u].active
    /\ user[u].email # e /\ Free(e, {u})
    /\ req' = [req EXCEPT ![r] = [About(u, "change_email", "save_email") EXCEPT !.email = e]]
    /\ UNCHANGED <<mix, user, linked, tokens, mails, inbox, history>>

\* POST auth/verify_email, with an address or without.
Resend(r, u, e) ==
    /\ Arrives(r, "resend") /\ u \in Users /\ user[u].active /\ ~user[u].activated
    /\ e # None => Free(e, {u})
    /\ req' = [req EXCEPT ![r] =
         [About(u, "resend", IF e = None THEN "disable" ELSE "save_email") EXCEPT !.email = e]]
    /\ UNCHANGED <<mix, user, linked, tokens, mails, inbox, history>>

\* Mutant: is_activated is not among the columns written.
Readdressed_Activated(row, e) == [row EXCEPT !.email = e]

\* user_pre_save: a user whose address is saved is not activated any more.
Readdressed(row, e) == [row EXCEPT !.email = e, !.activated = FALSE]

\* The two columns are written; user_post_save goes on with the link.
SaveEmail(r) ==
    LET u == req[r].user
        RacedBy(ops) == IF \E q \in Others(r, u) : req[q].op \in ops THEN {u} ELSE {}
    IN  /\ At(r, "save_email")
        /\ user' = [user EXCEPT ![u] = Readdressed(@, req[r].email)]
        /\ req' = [req EXCEPT ![r].phase = "disable", ![r].seen = Readdressed(@, req[r].email)]
        /\ overtaken' = overtaken \cup RacedBy({"verify", "link", "sign_in"})
        /\ crossed' = crossed \cup RacedBy({"change_email", "resend"})
        /\ UNCHANGED <<mix, linked, tokens, mails, inbox, proved, assumed, misdirected, lost, stripped>>

Earlier(r, t) == tokens[t].user = req[r].user /\ tokens[t].kind = KindOf(r)

\* The earlier tokens of the kind are disabled before the new one is created.
DisableTokens(r) ==
    /\ At(r, "disable")
    /\ tokens' = [t \in DOMAIN tokens |->
         IF Earlier(r, t) THEN [tokens[t] EXCEPT !.disabled = TRUE] ELSE tokens[t]]
    /\ Goto(r, "token")
    /\ UNCHANGED <<mix, user, linked, mails, inbox, history>>

\* GET auth/verify_email by whoever has got a mail at address e: the token, ...
Verify(r, e, t) ==
    /\ Arrives(r, "verify") /\ <<e, t>> \in inbox
    /\ tokens[t].kind = "email" /\ ~tokens[t].disabled
    /\ req' = [req EXCEPT ![r] =
         [Blank EXCEPT !.op = "verify", !.phase = "read_user", !.user = tokens[t].user,
                       !.email = e, !.token = t]]
    /\ overtaken' = IF \E q \in Others(r, tokens[t].user) : At(q, "disable")
                    THEN overtaken \cup {tokens[t].user} ELSE overtaken
    /\ UNCHANGED <<mix, user, linked, tokens, mails, inbox, proved, assumed, crossed, misdirected, lost, stripped>>

\* ... its user, activated if need be, ...
ReadUser(r) ==
    LET row == user[req[r].user]
    IN  /\ At(r, "read_user")
        /\ IF row.active
           THEN req' = [req EXCEPT ![r].seen = row,
                          ![r].phase = IF row.activated THEN "disable_one" ELSE "activate"]
           ELSE Finish(r)
        /\ UNCHANGED <<mix, user, linked, tokens, mails, inbox, history>>

\* ... and the token is disabled.
DisableToken(r) ==
    /\ At(r, "disable_one")
    /\ tokens' = [tokens EXCEPT ![req[r].token].disabled = TRUE]
    /\ Finish(r)
    /\ UNCHANGED <<mix, user, linked, mails, inbox, history>>
-----------------------------------------------------------------------------
\* POST auth/reset_password with the username, or the address if nobody shares it.
ResetPassword(r, u) ==
    /\ Arrives(r, "reset") /\ u \in Users /\ user[u].active
    /\ req' = [req EXCEPT ![r] = About(u, "reset", "disable")]
    /\ UNCHANGED <<mix, user, linked, tokens, mails, inbox, history>>

\* POST auth/set_password by whoever has got the mail; the token stays enabled.
SetPassword(r, t) ==
    /\ Arrives(r, "set_password") /\ \E e \in Email : <<e, t>> \in inbox
    /\ tokens[t].kind = "reset" /\ ~tokens[t].disabled /\ user[tokens[t].user].active
    /\ req' = [req EXCEPT ![r] = About(tokens[t].user, "set_password", "password")]
    /\ UNCHANGED <<mix, user, linked, tokens, mails, inbox, history>>

\* POST auth/change_password, for which an old password is not needed if unset.
ChangePassword(r, u) ==
    /\ Arrives(r, "change_password") /\ u \in Users /\ user[u].active
    /\ req' = [req EXCEPT ![r] = About(u, "change_password", "password")]
    /\ UNCHANGED <<mix, user, linked, tokens, mails, inbox, history>>

SavePassword(r) ==
    /\ At(r, "password")
    /\ user' = [user EXCEPT ![req[r].user].password = TRUE]
    /\ Finish(r)
    /\ UNCHANGED <<mix, linked, tokens, mails, inbox, history>>

\* POST profiles/me/deactivate, for which a password is needed.
Deactivate(r, u) ==
    /\ Arrives(r, "deactivate") /\ u \in Users /\ user[u].active /\ user[u].password
    /\ req' = [req EXCEPT ![r] = About(u, "deactivate", "deactivate")]
    /\ UNCHANGED <<mix, user, linked, tokens, mails, inbox, history>>

SaveInactive(r) ==
    /\ At(r, "deactivate")
    /\ user' = [user EXCEPT ![req[r].user].active = FALSE]
    /\ Finish(r)
    /\ UNCHANGED <<mix, linked, tokens, mails, inbox, history>>
-----------------------------------------------------------------------------
\* Mutant: the link may be that of a token that is disabled.
Live_Disabled(mail) ==
    {t \in DOMAIN tokens : mail.link /\ tokens[t].user = mail.user /\ tokens[t].kind = mail.kind}

\* The link is that of a token that is enabled when the job runs, whichever comes first.
Live(mail) == IF mail.link THEN Enabled(mail.user, mail.kind) ELSE {}

\* The mail goes to the address in the copy of the user.
SendMail ==
    LET mail == Head(mails)  live == Live(mail)
    IN  /\ mails # << >>
        /\ mails' = Tail(mails)
        /\ \/ live = {} /\ UNCHANGED inbox
           \/ \E t \in live : inbox' = inbox \cup {<<mail.email, t>>}
        /\ misdirected' = IF live # {} /\ mail.email # user[mail.user].email
                          THEN misdirected \cup {mail.user} ELSE misdirected
        /\ UNCHANGED <<mix, user, linked, tokens, req, proved, assumed, overtaken, crossed, lost, stripped>>

\* SendGrid fails or the worker is killed; rq does not run the job again.
MailFails ==
    /\ mails # << >>
    /\ mails' = Tail(mails)
    /\ lost' = lost \cup {Head(mails).user}
    /\ UNCHANGED <<mix, user, linked, tokens, inbox, req, proved, assumed, overtaken, crossed, misdirected, stripped>>

\* A request dies at gunicorn's timeout or of an exception.
Abort(r) ==
    LET u == {req[r].user} \ {None}
    IN  /\ r \in InFlight
        /\ Finish(r)
        /\ lost' = lost \cup u
        /\ overtaken' = IF At(r, "disable") THEN overtaken \cup u ELSE overtaken
        /\ stripped' = IF req[r].op \in {"sign_in", "link"} THEN stripped \cup u ELSE stripped
        /\ UNCHANGED <<mix, user, linked, tokens, mails, inbox, proved, assumed, crossed, misdirected>>

Start(r) ==
    \/ \E e \in Email : SignUp(r, e)
    \/ \E p \in Provider, a \in Account : SignIn(r, p, a) \/ \E u \in User : Link(r, u, p, a)
    \/ \E u \in User, p \in Provider : Unlink(r, u, p)
    \/ \E u \in User, e \in Email : ChangeEmail(r, u, e) \/ Resend(r, u, e)
    \/ \E u \in User : Resend(r, u, None)
    \/ \E e \in Email, t \in DOMAIN tokens : Verify(r, e, t)
    \/ \E t \in DOMAIN tokens : SetPassword(r, t)
    \/ \E u \in User : ResetPassword(r, u) \/ ChangePassword(r, u) \/ Deactivate(r, u)

Handle(r) ==
    \/ FindByEmail(r) \/ CheckEmail(r) \/ InsertUser(r) \/ CreateProfile(r)
    \/ CreateToken(r) \/ EnqueueMail(r) \/ Activate(r)
    \/ CreateLink(r) \/ CheckLinks(r) \/ DeleteLink(r)
    \/ SaveEmail(r) \/ DisableTokens(r) \/ ReadUser(r) \/ DisableToken(r)
    \/ SavePassword(r) \/ SaveInactive(r)

MailWorker == SendMail \/ MailFails

Next ==
    \/ \E r \in Request : Start(r) \/ Handle(r) \/ Abort(r)
    \/ \E u \in User : Deauthorize(u)
    \/ MailWorker

Spec == Init /\ [][Next]_vars
-----------------------------------------------------------------------------
\* The address of an account is meant for it alone; the requests that race may
\* share it, but no more of them than run at once, ever: who comes later finds
\* it taken, whatever the others have changed meanwhile.  Likewise, disabling the
\* earlier tokens of a kind leaves one enabled, or one per request that raced.
DuplicatesBounded ==
    /\ \A e \in Email : Cardinality(Holders(e)) <= Workers
    /\ \A u \in User, k \in Kind : Cardinality(Enabled(u, k)) <= Workers

\* When all is quiet, a user who asked for a link, or still has to verify the
\* address, has got one that works, the latter at that address, unless a mail was
\* lost or a request died, or two changes of the address overlapped.
Quiet == InFlight = {} /\ mails = << >>

Asked(u, k) ==
    /\ \E t \in DOMAIN tokens : tokens[t].user = u /\ tokens[t].kind = k
    /\ k = "email" => ~user[u].activated

LinkDelivered ==
    Quiet => \A u \in Users \ (lost \cup crossed), k \in Kind :
       Asked(u, k) => \E t \in Enabled(u, k), e \in Email :
                         <<e, t>> \in inbox /\ (k = "email" => e = user[u].email)

\* Nobody is left without a way to log in, unless Facebook removed the account,
\* a request that was to link one failed, or two requests unlinked the one and the
\* other account and each saw that of the other still there, though who unlinks the
\* last one is to be told "You must set your password first".  Linking anew, changes
\* of the password and requests to unlink the same account take nothing away.
LoginKept ==
    \A u \in Users \ stripped :
       \/ user[u].password
       \/ \E p \in Provider : linked[p][u] # None
       \/ \E r \in InFlight : req[r].user = u /\ req[r].op \in {"sign_in", "link"}

\* is_activated "designates whether this user have a verified email", that is,
\* somebody has followed a link sent to it or a provider vouched for it.  That is
\* not so in three cases: users activated, with the address they had, by linking
\* an account, whatever address that has; those whose address was saved while a
\* request was under way that activates them, or whose change died half-way; and
\* those a link of which was sent, by a job that had waited, to the address before.
ActivatedVerified ==
    \A u \in Users \ (overtaken \cup misdirected) :
       user[u].activated => <<u, user[u].email>> \in proved \cup assumed
=============================================================================
