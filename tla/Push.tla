-------------------------------- MODULE Push --------------------------------
(***************************************************************************)
(* Push notifications: the jobs of the push queue, one for each version of *)
(* the API, which look up the admins of a page (Pages), whether the person *)
(* is in the app (Presence) and his devices (PushTokens).                  *)
(*                                                                         *)
(* One of the three moves in a behaviour, on its own or against the jobs;  *)
(* the others are in a state they can be in.                               *)
(***************************************************************************)
EXTENDS Integers, Sequences, FiniteSets, SequencesExt

CONSTANTS
    Account, Guest, Page,
    Founder,        \* who created the pages that exist from the start
    Phone, Iphone,
    Version,        \* the versions of the API ...
    Latest,         \* ... and the one that most notifications are for
    Subscribable,   \* <<c, u>>: c is a presence channel that u may subscribe to
    Own,            \* those where c is the channel of u himself
    Requests, Registrations, Webhooks, MaxChanges, Workers,
    Nil

VARIABLES
    moving,         \* the component that moves
    activated, creator, admins, call, set, contested, outrun,
    online, outbox, changes, channels, rows, joins, hook, met, resorted, dropped,
    devices, inserted, guests, reg, owner, raced,
    queue,          \* the jobs of the push queue, oldest first
    job,            \* the job of the one worker, Nil if there is none
    sent,           \* history: the devices that pushes were sent to, by their ids, in order
    substitutes     \* history: devices that came to be a user's first between the two reads of a job

P == INSTANCE Pages WITH Person <- Account, Nobody <- Nil

O == INSTANCE Presence

D == INSTANCE PushTokens

ASSUME PushAssumption ==
    /\ P!PagesAssumption /\ O!PresenceAssumption /\ D!PushTokensAssumption
    /\ Own \subseteq Subscribable /\ IsFiniteSet(Version)

pagesVars == <<activated, creator, admins, call, set, contested, outrun>>

presenceVars == <<online, outbox, changes, channels, rows, joins, hook, met, resorted, dropped>>

deviceVars == <<devices, inserted, guests, reg, owner, raced>>

pushVars == <<queue, job, sent, substitutes>>

vars == <<moving, pagesVars, presenceVars, deviceVars, pushVars>>

Recipient == Account \cup Page

Job == [to: Recipient, version: Version]

TypeOK ==
    /\ moving \in {"pages", "presence", "devices"}
    /\ P!PagesTypeOK /\ O!PresenceTypeOK /\ D!PushTokensTypeOK
    /\ queue \in Seq(Job)
    /\ job \in [to: Recipient, version: Version, phase: {"check", "find", "send"},
                kinds: SUBSET D!Kind] \cup {Nil}
    /\ sent \in Seq(1..inserted)
    /\ substitutes \subseteq 1..inserted

\* Where nothing moves, one person is in the app and no page exists.
InApp(s) ==
    /\ channels = [c \in O!Channel |-> IF c = s[1] THEN 1 ELSE 0]
    /\ rows = 1 /\ joins = {<<1, s[2]>>} /\ online = {s}
    /\ outbox = << >> /\ changes = 0 /\ hook = [w \in O!Webhook |-> O!NotReceived]
    /\ met = {} /\ resorted = {} /\ dropped = {}

NoPages ==
    /\ creator = [p \in Page |-> Nil] /\ admins = {} /\ activated = {}
    /\ call = [r \in P!Request |-> P!NotSent]
    /\ set = {} /\ contested = {} /\ outrun = {}

Init ==
    /\ queue = << >> /\ job = Nil /\ sent = << >> /\ substitutes = {}
    /\ D!PushTokensInit
    /\ \/ moving = "pages" /\ P!PagesInit /\ \E s \in Own : InApp(s)
       \/ moving = "presence" /\ O!PresenceInit /\ NoPages
       \/ moving = "devices" /\ NoPages /\ \E s \in Own : InApp(s)
-----------------------------------------------------------------------------
JobsFor(x, versions) == SetToSeq({[to |-> x, version |-> v] : v \in versions})

NothingToSend == job = Nil /\ queue = << >>

\* A request other than those of the components notifies x, once at a time and
\* not again after a push was sent, so that sent is about one notification.
Notify(x, versions) ==
    /\ NothingToSend /\ sent = << >>
    /\ queue' = JobsFor(x, versions)
    /\ UNCHANGED <<moving, presenceVars, job, sent, substitutes>>

NotifyPage(r, x) ==
    /\ moving = "pages" /\ P!Arrives(r) /\ x \in P!Existing
    /\ call' = [call EXCEPT ![r] = P!Responded]
    /\ Notify(x, {Latest})
    /\ UNCHANGED <<activated, creator, admins, set, contested, outrun, deviceVars>>

NotifyPerson(r, x) ==
    /\ moving = "devices" /\ D!Arrives(r)
    /\ reg' = [reg EXCEPT ![r] = D!Done]
    /\ Notify(x, Version)
    /\ UNCHANGED <<devices, inserted, guests, owner, raced, pagesVars>>

OthersStand == UNCHANGED <<moving, pagesVars, presenceVars, deviceVars, substitutes>>

TakeJob ==
    /\ job = Nil /\ queue # << >>
    /\ job' = [to |-> Head(queue).to, version |-> Head(queue).version,
               phase |-> "check", kinds |-> {}]
    /\ queue' = Tail(queue)
    /\ UNCHANGED sent /\ OthersStand

Working(phase) == job # Nil /\ job.phase = phase

AdminRows(p) == SetToSeq({a \in admins : a[1] = p})

\* Mutant: the page itself is notified along with its admins.
AdminJobs_Page(p, v) ==
    Append([i \in DOMAIN AdminRows(p) |-> [to |-> AdminRows(p)[i][2], version |-> v]],
           [to |-> p, version |-> v])

AdminJobs(p, v) == [i \in DOMAIN AdminRows(p) |-> [to |-> AdminRows(p)[i][2], version |-> v]]

\* "Notify the Page admins if the notified user is a Page"
PushToAdmins ==
    /\ Working("check") /\ job.to \in Page
    /\ queue' = queue \o AdminJobs(job.to, job.version)
    /\ job' = Nil
    /\ UNCHANGED sent /\ OthersStand

\* "Do nothing if the user is in app (subscribed to Pusher)"
CheckPusher ==
    /\ Working("check") /\ job.to \in Account
    /\ job' = IF \E s \in Own : s[2] = job.to /\ O!Joined(s) THEN Nil
              ELSE [job EXCEPT !.phase = "find"]
    /\ UNCHANGED <<queue, sent>> /\ OthersStand

\* Mutant: the version of the client is not looked at.
Speaks_Any(kind) == D!DevicesOf(job.to, kind) # {}

\* The device that would be sent to has the version of the job.
Speaks(kind) ==
    D!DevicesOf(job.to, kind) # {} /\ D!First(job.to, kind).version = job.version

FindDevices ==
    LET kinds == {k \in D!Kind : Speaks(k)}
    IN  /\ Working("find")
        /\ job' = IF kinds = {} THEN Nil ELSE [job EXCEPT !.phase = "send", !.kinds = kinds]
        /\ UNCHANGED <<queue, sent>> /\ OthersStand

\* The device is read again to be sent to: APNS first, then GCM. If there is none
\* any more, or the service answers with an error, that is all.
SendPush ==
    LET kind == IF "apns" \in job.kinds THEN "apns" ELSE "gcm"
    IN  /\ Working("send")
        /\ \/ /\ D!DevicesOf(job.to, kind) # {}
              /\ sent' = Append(sent, D!First(job.to, kind).id)
           \/ UNCHANGED sent
        /\ job' = IF job.kinds = {kind} THEN Nil ELSE [job EXCEPT !.kinds = @ \ {kind}]
        /\ UNCHANGED queue /\ OthersStand

\* An exception, or the end of the worker, ends the job.
PushFails ==
    /\ job # Nil /\ job' = Nil
    /\ UNCHANGED <<queue, sent>> /\ OthersStand

PushWorker ==
    TakeJob \/ PushToAdmins \/ CheckPusher \/ FindDevices \/ SendPush \/ PushFails

PagesMove ==
    /\ moving = "pages" /\ P!PagesNext
    /\ UNCHANGED <<moving, presenceVars, deviceVars, pushVars>>

PresenceMoves ==
    /\ moving = "presence" /\ O!PresenceNext
    /\ UNCHANGED <<moving, pagesVars, deviceVars, pushVars>>

\* The device of the kind that u would get a push on, if there is one.
FirstOf(u, kind) == {d \in D!DevicesOf(u, kind) : \A e \in D!DevicesOf(u, kind) : d.id <= e.id}

\* The devices of the kinds that u would get pushes on.
Firsts(u, kinds) == {d.id : d \in UNION {FirstOf(u, kind) : kind \in kinds}}

DevicesMove ==
    /\ moving = "devices" /\ D!PushTokensNext
    /\ UNCHANGED <<moving, pagesVars, presenceVars, queue, job, sent>>
    /\ substitutes' =
          IF Working("send")
          THEN substitutes \cup (Firsts(job.to, job.kinds)' \ Firsts(job.to, job.kinds))
          ELSE substitutes

Next ==
    \/ PagesMove \/ PresenceMoves \/ DevicesMove
    \/ \E r \in P!Request, x \in Page : NotifyPage(r, x)
    \/ \E r \in D!Registration, x \in Account : NotifyPerson(r, x)
    \/ PushWorker

Spec == Init /\ [][Next]_vars

\* circus keeps one rqworker running on the queue.
FairSpec == Spec /\ WF_vars(PushWorker)
-----------------------------------------------------------------------------
\* A person who left is not taken for present: no push is withheld from him.
NoGhost == O!NoGhost

\* A person who is in the app is found to be: he gets no pushes there.
NotForgotten == O!NotForgotten

\* Somebody is left to manage a page, and to get the pushes for it, unless an admin
\* was removed while a removal that he had asked for was under way.
AdminKept == P!AdminKept

\* The pages of an activated user are activated.
PagesFollow == P!PagesFollow

\* A phone gets pushes for the user who registered it last.
PhoneHandedOn == D!PhoneHandedOn

\* What is looked up and then inserted is there as often as requests run at once
\* at most: an admin of a page, and the devices, each of which gets every push.
DuplicatesBounded == P!AdminRowsBounded /\ D!DevicesBounded

\* A device gets a notification once, from one of the jobs for the versions of the
\* API, however devices come, go, move up and are given their version meanwhile,
\* unless it took the place of the device a job had found before the job sent to it.
\* (A phone that is registered anew is another device.)
PushedOnce ==
    \A i, j \in DOMAIN sent : i # j /\ sent[i] = sent[j] => sent[i] \in substitutes

\* No page is, by way of others, an admin of itself.
Acyclic ==
    \A s \in SUBSET Page \ {{}} : \E p \in s : \A q \in s : ~P!HasRow(p, q)

\* The jobs that notifying a page leads to come to an end, unless pages are
\* admins of each other and remain so: then the jobs go round for good.
PushesEnd == <>[]Acyclic => []<>NothingToSend
=============================================================================
