------------------------------- MODULE Credit -------------------------------
(***************************************************************************)
(* Shoutit Credit: the transactions that reward users, which the rqworker  *)
(* of the credit queue creates, and those with which users promote their   *)
(* shouts, which the API requests create.  The credit of a user is the sum *)
(* of his transactions; nothing else holds it.                             *)
(*                                                                         *)
(* Each ORM statement commits by itself.  The reads with which a job       *)
(* starts are one action, as what they read is written by this one worker  *)
(* only; the reads of a request are one action each.                       *)
(***************************************************************************)
EXTENDS Integers, Sequences, FiniteSets, FiniteSetsExt

CONSTANTS
    User,
    Shout,
    Owner,          \* Owner[s] is the user whose shout s is
    Contacts,       \* <<u, v>> is in it iff v is among the contacts of u
    Option,         \* the rules of type promote_shouts
    Cost,           \* Cost[o] is the number of credits of option o
    MaxListens,     \* ListenToFriends.max_listens, 3 in the code
    MaxUsage,       \* INVITATION_CODE_MAX_USAGE, 10 in the code
    Request,        \* the API requests on credit, each made once
    Workers,        \* how many requests are handled at a time
    MaxJobs         \* bound on the jobs put on the credit queue

ASSUME CreditAssumption ==
    /\ Owner \in [Shout -> User]
    /\ Contacts \subseteq User \X User
    /\ Cost \in [Option -> Nat \ {0}]
    /\ \E dearest \in Option : \A o \in Option : Cost[o] <= Cost[dearest]
    /\ MaxListens \in Nat
    /\ MaxUsage \in Nat
    /\ Request \cap Nat = {}
    /\ Workers \in Nat \ {0}
    /\ MaxJobs \in Nat

VARIABLES
    transactions,   \* the CreditTransaction rows
    promotions,     \* the ShoutPromotion rows
    codes,          \* the InvitationCode rows, in order of creation
    jobs,           \* the credit queue
    enqueued,       \* how many jobs were put on it
    worker,         \* the job the credit worker is in the middle of
    announced,      \* the transactions whose notify_user job is enqueued
    req,            \* the state of each request
    uncounted       \* history: uses of a code whose job died before counting

vars == <<transactions, promotions, codes, jobs, enqueued, worker, announced, req, uncounted>>

Rule == {"share_shouts", "complete_profile", "invite_friends", "listen_to_friends"}

\* about is the shout shared, the profile listened to or the number of the code.
Job == [id: Nat, rule: Rule, user: User, about: User \cup Shout \cup Nat]

\* by is the number of the job, or the request, that created the row.
Transaction ==
    [by: Nat \cup Request, rule: Rule \cup {"promote_shouts"}, user: User,
     about: User \cup Shout \cup Nat, amount: Int]

\* An InvitationCode row.
Code == [user: User, used: 0..MaxUsage, active: BOOLEAN]

Idle == [step |-> "idle"]

NotMade == [phase |-> "not_made"]

Done == [phase |-> "done"]

Promote == [phase: {"credit", "promotions", "spend", "promote", "notify"}, shout: Shout, option: Option]

CodeCall == [phase: {"deactivate", "create"}, user: User, code: Nat]

TypeOK ==
    /\ transactions \subseteq Transaction
    /\ promotions \subseteq [shout: Shout, option: Option, transaction: Request]
    /\ codes \in Seq(Code)
    /\ jobs \in Seq(Job)
    /\ enqueued \in 0..MaxJobs
    /\ worker \in {Idle} \cup [step: {"grant", "count"}, job: Job]
    /\ announced \subseteq Nat \cup Request
    /\ req \in [Request -> Promote \cup CodeCall \cup {NotMade, Done}]
    /\ uncounted \in Seq(Nat)

-----------------------------------------------------------------------------
\* User.credit: the sum over the transactions.
Credit(u) == MapThenSumSet(LAMBDA t : t.amount, {t \in transactions : t.user = u})

Rewards(rule, u) == {t \in transactions : t.rule = rule /\ t.user = u}

Uses(c) == {t \in transactions : t.rule = "invite_friends" /\ t.about = c}

PromotionsOf(s) == {p \in promotions : p.shout = s}

InFlight == {r \in Request : req[r] \notin {NotMade, Done}}

Init ==
    /\ transactions = {} /\ promotions = {} /\ codes = << >>
    /\ jobs = << >> /\ enqueued = 0 /\ worker = Idle
    /\ announced = {}
    /\ req = [r \in Request |-> NotMade]
    /\ uncounted = << >>
-----------------------------------------------------------------------------
Enqueue(rule, u, about) ==
    /\ enqueued < MaxJobs
    /\ enqueued' = enqueued + 1
    /\ jobs' = Append(jobs, [id |-> enqueued', rule |-> rule, user |-> u, about |-> about])
    /\ UNCHANGED <<transactions, promotions, codes, worker, announced, req, uncounted>>

\* Every save of a shout that is published on Facebook.
SaveShout(s) == Enqueue("share_shouts", Owner[s], s)

\* Every save of a profile.
SaveProfile(u) == Enqueue("complete_profile", u, u)

\* Every Listen2 row for a profile; the user may stop and start over.  The jobs
\* about profiles that are not among his contacts, which do nothing, are left out.
Listen(u, v) == <<u, v>> \in Contacts /\ Enqueue("listen_to_friends", u, v)

\* u has signed up with invitation code c.
SignUp(u, c) == Enqueue("invite_friends", u, c)
-----------------------------------------------------------------------------
\* Mutant: a shared shout may be rewarded again.
NotYetRewarded_Anew(job) == TRUE

\* The checks for similar transactions in the apply methods.
NotYetRewarded(job) ==
    CASE job.rule = "complete_profile" -> Rewards(job.rule, job.user) = {}
      [] OTHER -> ~ \E t \in Rewards(job.rule, job.user) : t.about = job.about

\* Mutant: the limit itself is let through.
UsableCode_Full(c) == codes[c].used <= MaxUsage /\ codes[c].active

UsableCode(c) == codes[c].used < MaxUsage /\ codes[c].active

\* Mutant: listening is rewarded without limit.
Eligible_Unlimited(job) ==
    CASE job.rule = "invite_friends" -> UsableCode(job.about)
      [] OTHER -> NotYetRewarded(job)

Eligible(job) ==
    CASE job.rule = "invite_friends" -> UsableCode(job.about)
      [] job.rule = "listen_to_friends" ->
            /\ NotYetRewarded(job)
            /\ Cardinality(Rewards(job.rule, job.user)) < MaxListens
      [] OTHER -> NotYetRewarded(job)

\* A job starts.  It ends at once when the user is not eligible, the remaining
\* terms (his own profile is complete) are not met, or it fails.
TakeJob ==
    /\ worker = Idle /\ jobs # << >>
    /\ jobs' = Tail(jobs)
    /\ \/ Eligible(Head(jobs)) /\ worker' = [step |-> "grant", job |-> Head(jobs)]
       \/ UNCHANGED worker
    /\ UNCHANGED <<transactions, promotions, codes, enqueued, announced, req, uncounted>>

Step(step) == worker.step = step

\* Mutant: the reward goes by the code, not by its user.
Rewarded_Code(job) == IF job.rule = "invite_friends" THEN job.about ELSE job.user

\* The owner of the code is rewarded for an invitation.
Rewarded(job) == IF job.rule = "invite_friends" THEN codes[job.about].user ELSE job.user

\* The transaction is created and transaction_post_save enqueues its notification;
\* a job that dies in between loses no more than that.
GrantReward ==
    LET job == worker.job
    IN  /\ Step("grant")
        /\ transactions' = transactions \cup
             {[by |-> job.id, rule |-> job.rule, user |-> Rewarded(job), about |-> job.about,
               amount |-> 1]}
        /\ announced' = announced \cup {job.id}
        /\ worker' = IF job.rule = "invite_friends" THEN [worker EXCEPT !.step = "count"] ELSE Idle
        /\ UNCHANGED <<promotions, codes, jobs, enqueued, req, uncounted>>

\* The end of InviteFriends.apply: used_count = F('used_count') + 1.
CountUse ==
    /\ Step("count")
    /\ codes' = [codes EXCEPT ![worker.job.about].used = @ + 1]
    /\ worker' = Idle
    /\ UNCHANGED <<transactions, promotions, jobs, enqueued, announced, req, uncounted>>

\* A job raises an exception or is killed; rq does not run it again.
JobFails ==
    /\ worker # Idle
    /\ worker' = Idle
    /\ uncounted' = IF Step("count")
                    THEN [uncounted EXCEPT ![worker.job.about] = @ + 1] ELSE uncounted
    /\ UNCHANGED <<transactions, promotions, codes, jobs, enqueued, announced, req>>
-----------------------------------------------------------------------------
Goto(r, phase) == req' = [req EXCEPT ![r].phase = phase]

Finish(r) == req' = [req EXCEPT ![r] = Done]

Arrives(r) == req[r] = NotMade /\ Cardinality(InFlight) < Workers

At(r, phase) == req[r].phase = phase

Payer(r) == Owner[req[r].shout]

\* The promote endpoint; only the owner of a shout gets past its permission.
PromoteShout(r, s, o) ==
    /\ Arrives(r)
    /\ req' = [req EXCEPT ![r] = [phase |-> "credit", shout |-> s, option |-> o]]
    /\ UNCHANGED <<transactions, promotions, codes, jobs, enqueued, worker, announced, uncounted>>

\* Mutant: it is enough to have any credit at all.
EnoughCredit_Any(r) == Credit(Payer(r)) > 0

EnoughCredit(r) == Credit(Payer(r)) >= Cost[req[r].option]

\* can_promote: the credit, ...
CheckCredit(r) ==
    /\ At(r, "credit")
    /\ IF EnoughCredit(r) THEN Goto(r, "promotions") ELSE Finish(r)
    /\ UNCHANGED <<transactions, promotions, codes, jobs, enqueued, worker, announced, uncounted>>

\* Mutant: the promotions are not looked at.
CheckPromotions_None(r) ==
    /\ At(r, "promotions")
    /\ Goto(r, "spend")
    /\ UNCHANGED <<transactions, promotions, codes, jobs, enqueued, worker, announced, uncounted>>

\* ... then the promotions.
CheckPromotions(r) ==
    /\ At(r, "promotions")
    /\ IF PromotionsOf(req[r].shout) = {} THEN Goto(r, "spend") ELSE Finish(r)
    /\ UNCHANGED <<transactions, promotions, codes, jobs, enqueued, worker, announced, uncounted>>

Payment(r) ==
    [by |-> r, rule |-> "promote_shouts", user |-> Payer(r), about |-> req[r].shout,
     amount |-> -Cost[req[r].option]]

\* PromoteShouts.apply saves the transaction without notifying, ...
SpendCredit(r) ==
    /\ At(r, "spend")
    /\ transactions' = transactions \cup {Payment(r)}
    /\ Goto(r, "promote")
    /\ UNCHANGED <<promotions, codes, jobs, enqueued, worker, announced, uncounted>>

\* ... creates the promotion ...
CreatePromotion(r) ==
    /\ At(r, "promote")
    /\ promotions' = promotions \cup
         {[shout |-> req[r].shout, option |-> req[r].option, transaction |-> r]}
    /\ Goto(r, "notify")
    /\ UNCHANGED <<transactions, codes, jobs, enqueued, worker, announced, uncounted>>

\* ... and notifies.
NotifyPromotion(r) ==
    /\ At(r, "notify")
    /\ announced' = announced \cup {r}
    /\ Finish(r)
    /\ UNCHANGED <<transactions, promotions, codes, jobs, enqueued, worker, uncounted>>

\* user_invitation_code: one of the active codes of the user is looked at.
GetInvitationCode(r, u) ==
    LET active == {c \in DOMAIN codes : codes[c].user = u /\ codes[c].active}
    IN  /\ Arrives(r)
        /\ \/ /\ active = {}
              /\ req' = [req EXCEPT ![r] = [phase |-> "create", user |-> u, code |-> 0]]
           \/ \E c \in active :
                 req' = [req EXCEPT ![r] =
                           IF codes[c].used >= MaxUsage
                           THEN [phase |-> "deactivate", user |-> u, code |-> c] ELSE Done]
        /\ UNCHANGED <<transactions, promotions, codes, jobs, enqueued, worker, announced, uncounted>>

\* A code that is used up is deactivated, is_active being the only column written.
DeactivateCode(r) ==
    /\ At(r, "deactivate")
    /\ codes' = [codes EXCEPT ![req[r].code].active = FALSE]
    /\ Goto(r, "create")
    /\ UNCHANGED <<transactions, promotions, jobs, enqueued, worker, announced, uncounted>>

CreateCode(r) ==
    /\ At(r, "create")
    /\ codes' = Append(codes, [user |-> req[r].user, used |-> 0, active |-> TRUE])
    /\ uncounted' = Append(uncounted, 0)
    /\ Finish(r)
    /\ UNCHANGED <<transactions, promotions, jobs, enqueued, worker, announced>>

\* A request dies at gunicorn's timeout or of an exception.
Abort(r) ==
    /\ r \in InFlight
    /\ Finish(r)
    /\ UNCHANGED <<transactions, promotions, codes, jobs, enqueued, worker, announced, uncounted>>
-----------------------------------------------------------------------------
Earn ==
    \/ \E s \in Shout : SaveShout(s)
    \/ \E u \in User : SaveProfile(u)
    \/ \E u, v \in User : Listen(u, v)
    \/ \E u \in User, c \in DOMAIN codes : SignUp(u, c)

CreditWorker == TakeJob \/ GrantReward \/ CountUse \/ JobFails

Handle(r) ==
    \/ \E s \in Shout, o \in Option : PromoteShout(r, s, o)
    \/ CheckCredit(r) \/ CheckPromotions(r)
    \/ SpendCredit(r) \/ CreatePromotion(r) \/ NotifyPromotion(r)
    \/ \E u \in User : GetInvitationCode(r, u)
    \/ DeactivateCode(r) \/ CreateCode(r)

Next == Earn \/ CreditWorker \/ \E r \in Request : Handle(r) \/ Abort(r)

Spec == Init /\ [][Next]_vars
-----------------------------------------------------------------------------
\* Requests that run at once may all find the same credit, so a user can be in
\* debt; but only by what the other workers spend after the last check.  With
\* one worker nobody spends credit he does not have.
MaxCost == Max({Cost[o] : o \in Option})

OverdraftBounded == \A u \in User : Credit(u) >= -((Workers - 1) * MaxCost)

\* Likewise a shout is promoted at most once by each worker.
PromotionsBounded == \A s \in Shout : Cardinality(PromotionsOf(s)) <= Workers

\* However often a shout or a profile is saved, a profile is listened to again
\* and jobs fail, each reward is given once, and no more than MaxListens for
\* listening.
RewardedOnce ==
    \A t, v \in transactions :
       (t.rule = v.rule /\ t.user = v.user /\ t.rule \in Rule \ {"invite_friends"})
          => (t = v \/ (t.about # v.about /\ t.rule # "complete_profile"))

ListensLimited == \A u \in User : Cardinality(Rewards("listen_to_friends", u)) <= MaxListens

\* A code is rewarded as often as it was counted, jobs that died between the two
\* apart, and is counted no more than MaxUsage times: deactivating it meanwhile
\* loses no count.
Counting(c) ==
    IF Step("count") /\ worker.job.about = c THEN 1 ELSE 0

CodesCounted ==
    \A c \in DOMAIN codes :
       /\ Cardinality(Uses(c)) = codes[c].used + uncounted[c] + Counting(c)
       /\ codes[c].used <= MaxUsage

\* Transactions of the rule promote_shouts have a promotion.
PaymentHasPromotion ==
    InFlight = {} =>
        \A t \in transactions :
           t.rule = "promote_shouts" => \E p \in promotions : p.transaction = t.by
=============================================================================
