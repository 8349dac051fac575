---------------------------- MODULE CreditProofs ----------------------------
(***************************************************************************)
(* The safety properties of Credit, for every set of users, shouts and     *)
(* options, any limits and any number of workers.                          *)
(***************************************************************************)
EXTENDS Credit, SequenceTheorems, FiniteSetTheorems, WellFoundedInduction, TLAPS

\* A job about a code is about one that exists.
AboutACode(job) == job.rule = "invite_friends" => job.about \in DOMAIN codes

\* The inductive invariant of TypeOK: codes that jobs and requests hold a number
\* of exist, and the code that the worker is about to count can still be counted,
\* as no other process counts.
TInv ==
    /\ TypeOK
    /\ Len(uncounted) = Len(codes)
    /\ \A i \in DOMAIN jobs : AboutACode(jobs[i])
    /\ worker # Idle => /\ AboutACode(worker.job)
                        /\ worker.job.rule = "invite_friends" => codes[worker.job.about].used < MaxUsage
                        /\ Step("count") => worker.job.rule = "invite_friends"
    /\ \A r \in Request : At(r, "deactivate") => req[r].code \in DOMAIN codes

-----------------------------------------------------------------------------
\* The records of the worker and of the requests, by their step or phase.
LEMMA WorkerTyped ==
    ASSUME TypeOK, worker # Idle
    PROVE  /\ worker.job \in Job /\ worker.step \in {"grant", "count"}
           /\ worker = [step |-> worker.step, job |-> worker.job]
  BY DEF TypeOK, Job

LEMMA StepTyped ==
    ASSUME TypeOK
    PROVE  /\ worker = Idle <=> worker.step = "idle"
           /\ Step("grant") \/ Step("count") => worker # Idle
  BY DEF TypeOK, Idle, Step

LEMMA RequestTyped ==
    ASSUME TypeOK, NEW r \in Request
    PROVE  /\ req[r].phase \in {"credit", "promotions", "spend", "promote", "notify"} => req[r] \in Promote
           /\ req[r].phase \in {"deactivate", "create"} => req[r] \in CodeCall
           /\ r \in InFlight <=> req[r].phase \notin {"not_made", "done"}
  BY DEF TypeOK, Promote, CodeCall, NotMade, Done, InFlight

\* What moving a request on does to it.
LEMMA GotoPromote ==
    ASSUME TypeOK, NEW r \in Request, req[r] \in Promote,
           NEW phase \in {"credit", "promotions", "spend", "promote", "notify"}, Goto(r, phase)
    PROVE  /\ req' \in [Request -> Promote \cup CodeCall \cup {NotMade, Done}]
           /\ req'[r] \in Promote /\ req'[r].phase = phase
           /\ req'[r].shout = req[r].shout /\ req'[r].option = req[r].option
           /\ \A q \in Request \ {r} : req'[q] = req[q]
  <1> DEFINE c == [req[r] EXCEPT !.phase = phase]
  <1>1. c \in Promote /\ c.phase = phase /\ c.shout = req[r].shout /\ c.option = req[r].option
    BY DEF Promote
  <1> HIDE DEF c
  <1>2. req' = [req EXCEPT ![r] = c]
    BY DEF Goto, c
  <1>3. QED
    BY <1>1, <1>2 DEF TypeOK

LEMMA GotoCreate ==
    ASSUME TypeOK, NEW r \in Request, req[r] \in CodeCall, Goto(r, "create")
    PROVE  /\ req' \in [Request -> Promote \cup CodeCall \cup {NotMade, Done}]
           /\ req'[r] \in CodeCall /\ req'[r].phase = "create"
           /\ \A q \in Request \ {r} : req'[q] = req[q]
  <1> DEFINE c == [req[r] EXCEPT !.phase = "create"]
  <1>1. c \in CodeCall /\ c.phase = "create"
    BY DEF CodeCall
  <1> HIDE DEF c
  <1>2. req' = [req EXCEPT ![r] = c]
    BY DEF Goto, c
  <1>3. QED
    BY <1>1, <1>2 DEF TypeOK

LEMMA FinishTyped ==
    ASSUME TypeOK, NEW r \in Request, Finish(r)
    PROVE  /\ req' \in [Request -> Promote \cup CodeCall \cup {NotMade, Done}]
           /\ req'[r] = Done
           /\ \A q \in Request \ {r} : req'[q] = req[q]
  BY DEF Finish, TypeOK

\* Everything that earns credit puts a job on the queue, and that about a code is
\* about one that exists.
LEMMA EarnEnqueues ==
    ASSUME TypeOK, Earn
    PROVE  \E rule \in Rule, u \in User, about \in User \cup Shout \cup Nat :
              /\ Enqueue(rule, u, about)
              /\ rule = "invite_friends" => about \in DOMAIN codes
  <1> USE CreditAssumption
  <1>1. DOMAIN codes \subseteq Nat
    BY LenProperties DEF TypeOK
  <1>2. CASE \E s \in Shout : SaveShout(s)
    BY <1>2 DEF SaveShout, Rule
  <1>3. CASE \E u \in User : SaveProfile(u)
    BY <1>3 DEF SaveProfile, Rule
  <1>4. CASE \E u, v \in User : Listen(u, v)
    BY <1>4 DEF Listen, Rule
  <1>5. CASE \E u \in User, c \in DOMAIN codes : SignUp(u, c)
    BY <1>1, <1>5 DEF SignUp, Rule
  <1>6. QED
    BY <1>2, <1>3, <1>4, <1>5 DEF Earn

\* Putting a job on the queue leaves those that are there where they are.
LEMMA EnqueueProperties ==
    ASSUME TypeOK, NEW rule \in Rule, NEW u \in User, NEW about \in User \cup Shout \cup Nat,
           Enqueue(rule, u, about)
    PROVE  /\ enqueued \in Nat /\ enqueued' = enqueued + 1 /\ enqueued' \in 0..MaxJobs
           /\ jobs' \in Seq(Job)
           /\ DOMAIN jobs' = DOMAIN jobs \cup {Len(jobs) + 1}
           /\ \A i \in DOMAIN jobs : jobs'[i] = jobs[i] /\ i # Len(jobs) + 1
           /\ jobs'[Len(jobs) + 1] =
                [id |-> enqueued + 1, rule |-> rule, user |-> u, about |-> about]
  <1> USE CreditAssumption
  <1> DEFINE job == [id |-> enqueued + 1, rule |-> rule, user |-> u, about |-> about]
  <1>1. enqueued \in Nat /\ enqueued' = enqueued + 1 /\ enqueued' \in 0..MaxJobs
    BY DEF Enqueue, TypeOK
  <1>2. job \in Job /\ jobs \in Seq(Job)
    BY <1>1 DEF Job, TypeOK
  <1>3. jobs' = Append(jobs, job)
    BY <1>1 DEF Enqueue
  <1> HIDE DEF job
  <1>4. /\ jobs' \in Seq(Job) /\ Len(jobs') = Len(jobs) + 1
        /\ \A i \in 1..Len(jobs) : jobs'[i] = jobs[i]
        /\ jobs'[Len(jobs) + 1] = job
    BY <1>2, <1>3, AppendProperties
  <1>5. Len(jobs) \in Nat /\ DOMAIN jobs = 1..Len(jobs) /\ DOMAIN jobs' = 1..(Len(jobs) + 1)
    BY <1>2, <1>4, LenProperties
  <1>6. QED
    BY <1>1, <1>4, <1>5 DEF job

\* Taking a job off the queue moves the others up.
LEMMA TakeProperties ==
    ASSUME TypeOK, jobs # << >>, jobs' = Tail(jobs)
    PROVE  /\ jobs' \in Seq(Job) /\ 1 \in DOMAIN jobs
           /\ Head(jobs) \in Job /\ Head(jobs) = jobs[1]
           /\ \A i \in DOMAIN jobs' : i \in Nat /\ i + 1 \in DOMAIN jobs /\ jobs'[i] = jobs[i + 1] /\ i + 1 # 1
  <1>1. jobs \in Seq(Job)
    BY DEF TypeOK
  <1>2. /\ Head(jobs) \in Job /\ jobs' \in Seq(Job) /\ Len(jobs') = Len(jobs) - 1
        /\ \A i \in 1..Len(jobs') : jobs'[i] = jobs[i + 1]
    BY <1>1, HeadTailProperties
  <1>3. Len(jobs) \in Nat /\ DOMAIN jobs = 1..Len(jobs) /\ DOMAIN jobs' = 1..Len(jobs')
    BY <1>1, <1>2, LenProperties
  <1>4. Len(jobs) # 0 /\ Head(jobs) = jobs[1]
    BY <1>1, EmptySeq, LenProperties
  <1>5. QED
    BY <1>2, <1>3, <1>4
-----------------------------------------------------------------------------
LEMMA InitTInv == Init => TInv
  <1> SUFFICES ASSUME Init PROVE TInv
    OBVIOUS
  <1> USE CreditAssumption
  <1>1. TypeOK
    BY DEF Init, TypeOK
  <1>2. DOMAIN jobs = {} /\ Len(uncounted) = Len(codes)
    BY DEF Init
  <1>3. \A r \in Request : ~ At(r, "deactivate")
    BY DEF Init, At, NotMade
  <1>4. worker = Idle
    BY DEF Init
  <1>5. QED
    BY <1>1, <1>2, <1>3, <1>4 DEF TInv

LEMMA StepTInv == TInv /\ [Next]_vars => TInv'
  <1> SUFFICES ASSUME TInv, [Next]_vars PROVE TInv'
    OBVIOUS
  <1> USE CreditAssumption
  <1>0. TypeOK
    BY DEF TInv
  <1>1. CASE UNCHANGED vars
    BY <1>1 DEF vars, TInv, TypeOK, AboutACode, Step, At
  <1>2. CASE Earn
    <2>1. PICK rule \in Rule, u \in User, about \in User \cup Shout \cup Nat :
             Enqueue(rule, u, about) /\ (rule = "invite_friends" => about \in DOMAIN codes)
      BY <1>0, <1>2, EarnEnqueues
    <2>2. UNCHANGED <<transactions, promotions, codes, worker, announced, req, uncounted>>
      BY <2>1 DEF Enqueue
    <2>3. TypeOK'
      BY <1>0, <2>1, <2>2, EnqueueProperties DEF TypeOK
    <2>4. (\A i \in DOMAIN jobs : AboutACode(jobs[i]))'
      <3> DEFINE n == Len(jobs) + 1
      <3>0. Enqueue(rule, u, about)
        BY <2>1
      <3>1. /\ DOMAIN jobs' = DOMAIN jobs \cup {n}
            /\ \A i \in DOMAIN jobs : jobs'[i] = jobs[i] /\ i # n
            /\ jobs'[n] = [id |-> enqueued + 1, rule |-> rule, user |-> u, about |-> about]
        BY ONLY <1>0, <3>0, EnqueueProperties, rule \in Rule, u \in User, about \in User \cup Shout \cup Nat
      <3> HIDE DEF n
      <3>2. jobs'[n].rule = rule /\ jobs'[n].about = about
        BY <3>1
      <3>3. QED
        BY <2>1, <2>2, <3>1, <3>2 DEF TInv, AboutACode
    <2>5. QED
      BY <2>2, <2>3, <2>4 DEF TInv, AboutACode, Step, At
  <1>3. CASE TakeJob
    <2>1. /\ worker = Idle /\ jobs # << >> /\ jobs' = Tail(jobs)
          /\ UNCHANGED <<transactions, promotions, codes, enqueued, announced, req, uncounted>>
      BY <1>3 DEF TakeJob
    <2>2. (\A i \in DOMAIN jobs : AboutACode(jobs[i]))'
      BY <1>0, <2>1, TakeProperties DEF TInv, AboutACode
    <2>3. CASE UNCHANGED worker
      <3>1. TypeOK'
        BY <1>0, <2>1, <2>3, TakeProperties DEF TypeOK
      <3>2. QED
        BY <2>1, <2>2, <2>3, <3>1 DEF TInv, AboutACode, Step, At
    <2>4. CASE Eligible(Head(jobs)) /\ worker' = [step |-> "grant", job |-> Head(jobs)]
      <3>1. Head(jobs) \in Job /\ AboutACode(Head(jobs))
        BY <1>0, <2>1, TakeProperties DEF TInv
      <3>2. Head(jobs).rule = "invite_friends" => codes[Head(jobs).about].used < MaxUsage
        BY <2>4 DEF Eligible, UsableCode
      <3>3. worker'.job = Head(jobs) /\ worker'.step = "grant"
        BY <2>4
      <3>4. TypeOK'
        BY <1>0, <2>1, <2>4, <3>1, TakeProperties DEF TypeOK
      <3>5. QED
        BY <2>1, <2>2, <3>1, <3>2, <3>3, <3>4 DEF TInv, AboutACode, Step, At
    <2>5. QED
      BY <2>3, <2>4, <1>3 DEF TakeJob
  <1>4. CASE GrantReward
    <2> DEFINE job == worker.job
               t == [by |-> job.id, rule |-> job.rule, user |-> Rewarded(job), about |-> job.about,
                     amount |-> 1]
    <2>1. /\ Step("grant") /\ transactions' = transactions \cup {t}
          /\ announced' = announced \cup {job.id}
          /\ worker' = IF job.rule = "invite_friends" THEN [worker EXCEPT !.step = "count"] ELSE Idle
          /\ UNCHANGED <<promotions, codes, jobs, enqueued, req, uncounted>>
      BY <1>4 DEF GrantReward
    <2>2. /\ worker # Idle /\ job \in Job /\ AboutACode(job)
          /\ worker = [step |-> worker.step, job |-> job]
      BY <1>0, <2>1, StepTyped, WorkerTyped DEF TInv
    <2>3. Rewarded(job) \in User
      <3>1. ASSUME job.rule = "invite_friends" PROVE codes[job.about].user \in User
        <4>1. codes \in Seq(Code) /\ job.about \in 1..Len(codes)
          BY <3>1, <2>2, <1>0, LenProperties DEF AboutACode, TypeOK
        <4>2. codes[job.about] \in Code
          BY <4>1, ElementOfSeq
        <4>3. QED
          BY <4>2 DEF Code
      <3>2. QED
        BY <3>1, <2>2 DEF Rewarded, Job
    <2>4. t \in Transaction
      BY <2>2, <2>3 DEF Transaction, Job
    <2>5. /\ job.rule = "invite_friends" => worker' = [step |-> "count", job |-> job]
          /\ job.rule # "invite_friends" => worker' = Idle
      BY <2>1, <2>2
    <2> HIDE DEF t
    <2>6. TypeOK'
      <3>1. job.id \in Nat
        BY <2>2 DEF Job
      <3>2. worker' \in {Idle} \cup [step: {"grant", "count"}, job: Job]
        BY <2>2, <2>5
      <3>3. QED
        BY <1>0, <2>1, <2>4, <3>1, <3>2 DEF TypeOK
    <2>7. worker' # Idle => /\ AboutACode(worker.job)'
                            /\ worker'.job.rule = "invite_friends"
                            /\ codes'[worker'.job.about].used < MaxUsage
      BY <2>1, <2>2, <2>5 DEF TInv, AboutACode
    <2>8. QED
      BY <2>1, <2>6, <2>7 DEF TInv, AboutACode, Step, At
  <1>5. CASE CountUse
    <2> DEFINE c == worker.job.about
               code == [codes[c] EXCEPT !.used = @ + 1]
    <2>1. /\ Step("count") /\ worker' = Idle /\ codes' = [codes EXCEPT ![c] = code]
          /\ UNCHANGED <<transactions, promotions, jobs, enqueued, announced, req, uncounted>>
      BY <1>5 DEF CountUse
    <2>2. c \in DOMAIN codes /\ codes[c].used < MaxUsage
      BY <1>0, <2>1, StepTyped DEF TInv, AboutACode
    <2>3. codes[c] \in Code /\ codes \in Seq(Code)
      <3>1. codes \in Seq(Code) /\ c \in 1..Len(codes)
        BY <1>0, <2>2, LenProperties DEF TypeOK
      <3>2. QED
        BY <3>1, ElementOfSeq
    <2>4. code \in Code
      <3>1. codes[c].used \in 0..MaxUsage
        BY <2>3 DEF Code
      <3>2. codes[c].used + 1 \in 0..MaxUsage
        BY <2>2, <3>1
      <3>3. QED
        BY <2>3, <3>2 DEF Code
    <2> HIDE DEF c, code
    <2>5. codes' \in Seq(Code) /\ Len(codes') = Len(codes) /\ DOMAIN codes' = DOMAIN codes
      BY <2>1, <2>2, <2>3, <2>4, ExceptSeq, LenProperties
    <2>6. TypeOK'
      BY <1>0, <2>1, <2>5 DEF TypeOK, Code
    <2>7. QED
      BY <2>1, <2>5, <2>6 DEF TInv, AboutACode, Step, At
  <1>6. CASE JobFails
    <2>1. /\ worker # Idle /\ worker' = Idle
          /\ UNCHANGED <<transactions, promotions, codes, jobs, enqueued, announced, req>>
      BY <1>6 DEF JobFails
    <2>2. uncounted' \in Seq(Nat) /\ Len(uncounted') = Len(uncounted)
      <3>1. uncounted \in Seq(Nat)
        BY <1>0 DEF TypeOK
      <3>2. CASE Step("count")
        <4> DEFINE c == worker.job.about
        <4>1. c \in DOMAIN codes
          BY <2>1, <3>2 DEF TInv, AboutACode
        <4>2. c \in 1..Len(uncounted)
          BY <4>1, <1>0, LenProperties DEF TypeOK, TInv
        <4>3. uncounted[c] \in Nat
          BY <3>1, <4>2, ElementOfSeq
        <4>4. uncounted' = [uncounted EXCEPT ![c] = uncounted[c] + 1]
          BY <1>6, <3>2 DEF JobFails
        <4> HIDE DEF c
        <4>5. QED
          BY <3>1, <4>2, <4>3, <4>4, ExceptSeq, LenProperties
      <3>3. CASE ~ Step("count")
        BY <1>6, <3>1, <3>3 DEF JobFails
      <3>4. QED
        BY <3>2, <3>3
    <2>3. TypeOK'
      BY <1>0, <2>1, <2>2 DEF TypeOK
    <2>4. QED
      BY <2>1, <2>2, <2>3 DEF TInv, AboutACode, Step, At
  <1>7. ASSUME NEW r \in Request, Handle(r) \/ Abort(r) PROVE TInv'
    <2> DEFINE Kept == UNCHANGED <<transactions, codes, jobs, enqueued, worker, uncounted>>
    <2>1. ASSUME Kept, promotions' \subseteq [shout: Shout, option: Option, transaction: Request],
                 announced' \subseteq Nat \cup Request,
                 req' \in [Request -> Promote \cup CodeCall \cup {NotMade, Done}],
                 \A q \in Request : req'[q] = req[q] \/ (req'[q].phase = "deactivate" => req'[q].code \in DOMAIN codes)
          PROVE  TInv'
      <3>1. TypeOK'
        BY <1>0, <2>1 DEF TypeOK
      <3>2. QED
        BY <2>1, <3>1 DEF TInv, AboutACode, Step, At
    <2> HIDE DEF Kept
    <2>2. ASSUME Finish(r)
          PROVE  /\ req' \in [Request -> Promote \cup CodeCall \cup {NotMade, Done}]
                 /\ \A q \in Request : req'[q] = req[q] \/ (req'[q].phase = "deactivate" => req'[q].code \in DOMAIN codes)
      BY <1>0, <2>2, FinishTyped DEF Done
    <2>3. ASSUME req[r] \in Promote,
                 NEW phase \in {"credit", "promotions", "spend", "promote", "notify"}, Goto(r, phase)
          PROVE  /\ req' \in [Request -> Promote \cup CodeCall \cup {NotMade, Done}]
                 /\ \A q \in Request : req'[q] = req[q] \/ (req'[q].phase = "deactivate" => req'[q].code \in DOMAIN codes)
      BY <1>0, <2>3, GotoPromote
    <2>4. /\ promotions \subseteq [shout: Shout, option: Option, transaction: Request]
          /\ announced \subseteq Nat \cup Request
      BY <1>0 DEF TypeOK
    <2>5. ASSUME NEW s \in Shout, NEW o \in Option, PromoteShout(r, s, o) PROVE TInv'
      <3> DEFINE c == [phase |-> "credit", shout |-> s, option |-> o]
      <3>1. c \in Promote /\ c.phase = "credit"
        BY DEF Promote
      <3>2. Kept /\ req' = [req EXCEPT ![r] = c] /\ UNCHANGED <<promotions, announced>>
        BY <2>5 DEF PromoteShout, Kept
      <3> HIDE DEF c
      <3>3. QED
        BY <1>0, <2>1, <2>4, <3>1, <3>2 DEF TypeOK
    <2>6. ASSUME CheckCredit(r) PROVE TInv'
      <3>1. Kept /\ UNCHANGED <<promotions, announced>> /\ (Goto(r, "promotions") \/ Finish(r))
        BY <2>6 DEF CheckCredit, Kept
      <3>2. req[r] \in Promote
        BY <1>0, <2>6, RequestTyped DEF CheckCredit, At
      <3>3. QED
        BY <2>1, <2>2, <2>3, <2>4, <3>1, <3>2
    <2>7. ASSUME CheckPromotions(r) PROVE TInv'
      <3>1. Kept /\ UNCHANGED <<promotions, announced>> /\ (Goto(r, "spend") \/ Finish(r))
        BY <2>7 DEF CheckPromotions, Kept
      <3>2. req[r] \in Promote
        BY <1>0, <2>7, RequestTyped DEF CheckPromotions, At
      <3>3. QED
        BY <2>1, <2>2, <2>3, <2>4, <3>1, <3>2
    <2>8. ASSUME SpendCredit(r) PROVE TInv'
      <3>1. /\ UNCHANGED <<promotions, codes, jobs, enqueued, worker, announced, uncounted>>
            /\ Goto(r, "promote") /\ transactions' = transactions \cup {Payment(r)}
        BY <2>8 DEF SpendCredit
      <3>2. req[r] \in Promote
        BY <1>0, <2>8, RequestTyped DEF SpendCredit, At
      <3>3. Payment(r) \in Transaction
        <4>1. req[r].shout \in Shout /\ req[r].option \in Option
          BY <3>2 DEF Promote
        <4>2. Owner[req[r].shout] \in User /\ -Cost[req[r].option] \in Int
          BY <4>1
        <4>3. QED
          BY <4>1, <4>2 DEF Payment, Payer, Transaction
      <3>4. TypeOK'
        BY <1>0, <2>3, <3>1, <3>2, <3>3 DEF TypeOK
      <3>5. QED
        BY <2>3, <3>1, <3>2, <3>4 DEF TInv, AboutACode, Step, At
    <2>9. ASSUME CreatePromotion(r) PROVE TInv'
      <3>1. Kept /\ UNCHANGED announced /\ Goto(r, "notify")
        BY <2>9 DEF CreatePromotion, Kept
      <3>2. req[r] \in Promote
        BY <1>0, <2>9, RequestTyped DEF CreatePromotion, At
      <3>3. promotions' \subseteq [shout: Shout, option: Option, transaction: Request]
        BY <2>4, <2>9, <3>2 DEF CreatePromotion, Promote
      <3>4. QED
        BY <2>1, <2>3, <2>4, <3>1, <3>2, <3>3
    <2>10. ASSUME NotifyPromotion(r) PROVE TInv'
      <3>1. Kept /\ UNCHANGED promotions /\ announced' = announced \cup {r} /\ Finish(r)
        BY <2>10 DEF NotifyPromotion, Kept
      <3>2. QED
        BY <2>1, <2>2, <2>4, <3>1
    <2>11. ASSUME NEW u \in User, GetInvitationCode(r, u) PROVE TInv'
      <3>1. /\ Kept /\ UNCHANGED <<promotions, announced>>
            /\ \/ req' = [req EXCEPT ![r] = [phase |-> "create", user |-> u, code |-> 0]]
               \/ \E c \in DOMAIN codes :
                     req' = [req EXCEPT ![r] = [phase |-> "deactivate", user |-> u, code |-> c]]
               \/ Finish(r)
        BY <2>11 DEF GetInvitationCode, Kept, Finish
      <3>2. CASE req' = [req EXCEPT ![r] = [phase |-> "create", user |-> u, code |-> 0]]
        <4> DEFINE d == [phase |-> "create", user |-> u, code |-> 0]
        <4>1. d \in CodeCall /\ d.phase = "create"
          BY DEF CodeCall
        <4>2. req' = [req EXCEPT ![r] = d]
          BY <3>2
        <4> HIDE DEF d
        <4>3. QED
          BY <1>0, <2>1, <2>4, <3>1, <4>1, <4>2 DEF TypeOK
      <3>3. ASSUME NEW c \in DOMAIN codes,
                   req' = [req EXCEPT ![r] = [phase |-> "deactivate", user |-> u, code |-> c]]
            PROVE  TInv'
        <4> DEFINE d == [phase |-> "deactivate", user |-> u, code |-> c]
        <4>1. c \in Nat
          BY <1>0, LenProperties DEF TypeOK
        <4>2. d \in CodeCall /\ d.code = c
          BY <4>1 DEF CodeCall
        <4>3. req' = [req EXCEPT ![r] = d]
          BY <3>3
        <4> HIDE DEF d
        <4>4. QED
          BY <1>0, <2>1, <2>4, <3>1, <4>2, <4>3 DEF TypeOK
      <3>4. CASE Finish(r)
        BY <2>1, <2>2, <2>4, <3>1, <3>4
      <3>5. QED
        BY <3>1, <3>2, <3>3, <3>4
    <2>12. ASSUME DeactivateCode(r) PROVE TInv'
      <3> DEFINE c == req[r].code
                 code == [codes[c] EXCEPT !.active = FALSE]
      <3>1. /\ codes' = [codes EXCEPT ![c] = code] /\ Goto(r, "create") /\ At(r, "deactivate")
            /\ UNCHANGED <<transactions, promotions, jobs, enqueued, worker, announced, uncounted>>
        BY <2>12 DEF DeactivateCode
      <3>2. req[r] \in CodeCall /\ c \in DOMAIN codes
        BY <1>0, <3>1, RequestTyped DEF TInv, At
      <3>3. codes[c] \in Code /\ codes \in Seq(Code)
        <4>1. codes \in Seq(Code) /\ c \in 1..Len(codes)
          BY <1>0, <3>2, LenProperties DEF TypeOK
        <4>2. QED
          BY <4>1, ElementOfSeq
      <3>4. code \in Code /\ code.used = codes[c].used
        BY <3>3 DEF Code
      <3> HIDE DEF c, code
      <3>5. /\ codes' \in Seq(Code) /\ Len(codes') = Len(codes) /\ DOMAIN codes' = DOMAIN codes
            /\ \A i \in DOMAIN codes : codes'[i].used = codes[i].used
        BY <3>1, <3>2, <3>3, <3>4, ExceptSeq, LenProperties
      <3>6. /\ req' \in [Request -> Promote \cup CodeCall \cup {NotMade, Done}]
            /\ \A q \in Request : req'[q] = req[q] \/ req'[q].phase = "create"
        BY <1>0, <3>1, <3>2, GotoCreate
      <3>7. TypeOK'
        BY <1>0, <3>1, <3>5, <3>6 DEF TypeOK, Code
      <3>8. worker # Idle => /\ AboutACode(worker.job)'
                             /\ worker.job.rule = "invite_friends" => codes'[worker.job.about].used < MaxUsage
        BY <3>5, <3>1 DEF TInv, AboutACode
      <3>9. QED
        BY <3>1, <3>5, <3>6, <3>7, <3>8 DEF TInv, AboutACode, Step, At
    <2>13. ASSUME CreateCode(r) PROVE TInv'
      <3> DEFINE code == [user |-> req[r].user, used |-> 0, active |-> TRUE]
      <3>1. /\ codes' = Append(codes, code) /\ uncounted' = Append(uncounted, 0) /\ Finish(r)
            /\ UNCHANGED <<transactions, promotions, jobs, enqueued, worker, announced>>
        BY <2>13 DEF CreateCode
      <3>2. req[r] \in CodeCall
        BY <1>0, <2>13, RequestTyped DEF CreateCode, At
      <3>3. code \in Code /\ codes \in Seq(Code) /\ uncounted \in Seq(Nat)
        BY <1>0, <3>2 DEF TypeOK, Code, CodeCall
      <3> HIDE DEF code
      <3>4. /\ codes' \in Seq(Code) /\ Len(codes') = Len(codes) + 1
            /\ \A i \in 1..Len(codes) : codes'[i] = codes[i]
            /\ uncounted' \in Seq(Nat) /\ Len(uncounted') = Len(uncounted) + 1
        BY <3>1, <3>3, AppendProperties
      <3>5. DOMAIN codes \subseteq DOMAIN codes' /\ \A i \in DOMAIN codes : codes'[i] = codes[i]
        <4>1. Len(codes) \in Nat /\ DOMAIN codes = 1..Len(codes) /\ DOMAIN codes' = 1..Len(codes')
          BY <3>3, <3>4, LenProperties
        <4>2. QED
          BY <3>4, <4>1
      <3>6. TypeOK'
        BY <1>0, <2>2, <3>1, <3>4 DEF TypeOK, Code
      <3>7. QED
        BY <2>2, <3>1, <3>4, <3>5, <3>6 DEF TInv, AboutACode, Step, At
    <2>14. ASSUME Abort(r) PROVE TInv'
      BY <2>1, <2>2, <2>4, <2>14 DEF Abort, Kept
    <2>15. QED
      BY <1>7, <2>5, <2>6, <2>7, <2>8, <2>9, <2>10, <2>11, <2>12, <2>13, <2>14 DEF Handle
  <1>8. QED
    BY <1>1, <1>2, <1>3, <1>4, <1>5, <1>6, <1>7 DEF Next, CreditWorker

THEOREM InvariantTInv == Spec => []TInv
  BY InitTInv, StepTInv, PTL DEF Spec

\* Type correctness: the rows, the jobs and the requests have the values that the
\* code can give them; a code is never counted more than MaxUsage times, however
\* many jobs about it wait while it is deactivated.
THEOREM CreditTypeOK == Spec => []TypeOK
  <1>1. TInv => TypeOK
    BY DEF TInv
  <1>2. QED
    BY <1>1, InvariantTInv, PTL
-----------------------------------------------------------------------------
\* The inductive invariant of CodesCounted: the jobs have numbers of their own,
\* which no transaction carries before its job has run, so that a reward is a row
\* of its own, and no transaction is about a code that does not exist yet.
CInv ==
    /\ CodesCounted
    /\ IsFiniteSet(transactions)
    /\ \A i, j \in DOMAIN jobs : jobs[i].id = jobs[j].id => i = j
    /\ \A i \in DOMAIN jobs : /\ jobs[i].id <= enqueued
                              /\ worker # Idle => jobs[i].id # worker.job.id
    /\ worker # Idle => worker.job.id <= enqueued
    /\ \A t \in transactions :
          /\ t.by \in Nat => t.by <= enqueued
          /\ \A i \in DOMAIN jobs : t.by # jobs[i].id
          /\ Step("grant") => t.by # worker.job.id
          /\ t.rule = "invite_friends" => t.about \in DOMAIN codes

\* Steps that leave the counts of the codes, the transactions and the worker alone.
LEMMA CInvKept ==
    ASSUME CInv, UNCHANGED <<transactions, jobs, enqueued, worker, uncounted>>,
           DOMAIN codes' = DOMAIN codes, \A c \in DOMAIN codes : codes'[c].used = codes[c].used
    PROVE  CInv'
  BY DEF CInv, CodesCounted, Uses, Counting, Step

\* What the steps of the requests do to all but the requests themselves.
LEMMA HandleKept ==
    ASSUME NEW r \in Request, Handle(r) \/ Abort(r)
    PROVE  /\ UNCHANGED <<jobs, enqueued, worker>>
           /\ UNCHANGED transactions \/ SpendCredit(r)
           /\ UNCHANGED codes \/ DeactivateCode(r) \/ CreateCode(r)
           /\ UNCHANGED uncounted \/ CreateCode(r)
           /\ UNCHANGED promotions \/ CreatePromotion(r)
           /\ UNCHANGED announced \/ NotifyPromotion(r)
  <1>1. CASE Abort(r)
    BY <1>1 DEF Abort
  <1>2. CASE \E s \in Shout, o \in Option : PromoteShout(r, s, o)
    BY <1>2 DEF PromoteShout
  <1>3. CASE \E u \in User : GetInvitationCode(r, u)
    BY <1>3 DEF GetInvitationCode
  <1>4. CASE CheckCredit(r) \/ CheckPromotions(r)
    BY <1>4 DEF CheckCredit, CheckPromotions
  <1>5. CASE SpendCredit(r)
    BY <1>5 DEF SpendCredit
  <1>6. CASE CreatePromotion(r)
    BY <1>6 DEF CreatePromotion
  <1>7. CASE NotifyPromotion(r)
    BY <1>7 DEF NotifyPromotion
  <1>8. CASE DeactivateCode(r)
    BY <1>8 DEF DeactivateCode
  <1>9. CASE CreateCode(r)
    BY <1>9 DEF CreateCode
  <1>10. QED
    BY <1>1, <1>2, <1>3, <1>4, <1>5, <1>6, <1>7, <1>8, <1>9 DEF Handle

\* The row that a payment adds.
LEMMA SpendTyped ==
    ASSUME TypeOK, NEW r \in Request, SpendCredit(r)
    PROVE  /\ req[r] \in Promote
           /\ transactions' = transactions \cup {Payment(r)}
           /\ Payment(r).by = r /\ Payment(r).rule = "promote_shouts"
           /\ Payment(r).user = Payer(r) /\ Payment(r).amount = -Cost[req[r].option]
           /\ UNCHANGED <<promotions, codes, jobs, enqueued, worker, announced, uncounted>>
  BY RequestTyped DEF SpendCredit, At, Payment

\* The row that a reward adds.
Reward ==
    [by |-> worker.job.id, rule |-> worker.job.rule, user |-> Rewarded(worker.job),
     about |-> worker.job.about, amount |-> 1]

LEMMA GrantTyped ==
    ASSUME TypeOK, GrantReward
    PROVE  /\ Step("grant") /\ worker # Idle /\ worker.job \in Job
           /\ transactions' = transactions \cup {Reward}
           /\ announced' = announced \cup {worker.job.id}
           /\ Reward.by = worker.job.id /\ Reward.rule = worker.job.rule
           /\ Reward.user = Rewarded(worker.job) /\ Reward.about = worker.job.about
           /\ Reward.amount = 1
           /\ worker.job.rule = "invite_friends" =>
                 worker' = [step |-> "count", job |-> worker.job]
           /\ worker.job.rule # "invite_friends" => worker' = Idle
           /\ UNCHANGED <<promotions, codes, jobs, enqueued, req, uncounted>>
  <1>1. Step("grant")
    BY DEF GrantReward
  <1>2. worker # Idle /\ worker.job \in Job /\ worker = [step |-> worker.step, job |-> worker.job]
    BY <1>1, StepTyped, WorkerTyped
  <1>3. [worker EXCEPT !.step = "count"] = [step |-> "count", job |-> worker.job]
    BY <1>2
  <1>4. QED
    BY <1>1, <1>2, <1>3 DEF GrantReward, Reward

LEMMA InitCInv == Init => CInv
  <1> SUFFICES ASSUME Init PROVE CInv
    OBVIOUS
  <1>1. transactions = {} /\ DOMAIN jobs = {} /\ DOMAIN codes = {} /\ worker = Idle
    BY DEF Init
  <1>2. QED
    BY <1>1, FS_EmptySet DEF CInv, CodesCounted

LEMMA StepCInv == TInv /\ TInv' /\ CInv /\ [Next]_vars => CInv'
  <1> SUFFICES ASSUME TInv, TInv', CInv, [Next]_vars PROVE CInv'
    OBVIOUS
  <1> USE CreditAssumption
  <1>0. TypeOK
    BY DEF TInv
  <1>1. CASE UNCHANGED vars
    BY <1>1, CInvKept DEF vars
  <1>2. CASE Earn
    <2>1. PICK rule \in Rule, u \in User, about \in User \cup Shout \cup Nat :
             Enqueue(rule, u, about)
      BY <1>0, <1>2, EarnEnqueues
    <2>2. UNCHANGED <<transactions, promotions, codes, worker, announced, req, uncounted>>
      BY <2>1 DEF Enqueue
    <2> DEFINE n == Len(jobs) + 1
               job == [id |-> enqueued + 1, rule |-> rule, user |-> u, about |-> about]
    <2>3. /\ DOMAIN jobs' = DOMAIN jobs \cup {n}
          /\ \A i \in DOMAIN jobs : jobs'[i] = jobs[i] /\ i # n
          /\ jobs'[n] = job
          /\ enqueued \in Nat /\ enqueued' = enqueued + 1
      BY ONLY <1>0, <2>1, EnqueueProperties, rule \in Rule, u \in User, about \in User \cup Shout \cup Nat
    <2>4. job.id = enqueued + 1
      OBVIOUS
    <2> HIDE DEF n, job
    <2>5. \A i \in DOMAIN jobs : jobs[i].id \in Nat
      <3>1. \A i \in DOMAIN jobs : jobs[i] \in Job
        BY <1>0, ElementOfSeq, LenProperties DEF TypeOK
      <3>2. QED
        BY <3>1 DEF Job
    <2>6. worker # Idle => worker.job.id \in Nat
      BY <1>0, WorkerTyped DEF Job
    <2>7. \A i, j \in DOMAIN jobs' : jobs'[i].id = jobs'[j].id => i = j
      BY <2>3, <2>4, <2>5 DEF CInv
    <2>8. \A i \in DOMAIN jobs' : /\ jobs'[i].id <= enqueued'
                                  /\ worker' # Idle => jobs'[i].id # worker'.job.id
      BY <2>2, <2>3, <2>4, <2>5, <2>6 DEF CInv
    <2>9. worker' # Idle => worker'.job.id <= enqueued'
      BY <2>2, <2>3, <2>6 DEF CInv
    <2>10. ASSUME NEW t \in transactions'
           PROVE  /\ t.by \in Nat => t.by <= enqueued'
                  /\ \A i \in DOMAIN jobs' : t.by # jobs'[i].id
                  /\ Step("grant")' => t.by # worker'.job.id
                  /\ t.rule = "invite_friends" => t.about \in DOMAIN codes'
      <3>1. t \in transactions
        BY <2>2
      <3>2. t.by \in Nat => t.by <= enqueued'
        BY <2>3, <3>1 DEF CInv
      <3>3. t.by # enqueued + 1
        BY <2>3, <3>1 DEF CInv
      <3>4. QED
        BY <2>2, <2>3, <2>4, <3>1, <3>2, <3>3 DEF CInv, Step
    <2>11. CodesCounted' /\ IsFiniteSet(transactions')
      BY <2>2 DEF CInv, CodesCounted, Uses, Counting, Step
    <2>12. QED
      BY <2>7, <2>8, <2>9, <2>10, <2>11 DEF CInv
  <1>3. CASE TakeJob
    <2>1. /\ worker = Idle /\ jobs # << >> /\ jobs' = Tail(jobs)
          /\ worker' = worker \/ worker' = [step |-> "grant", job |-> Head(jobs)]
          /\ UNCHANGED <<transactions, promotions, codes, enqueued, announced, req, uncounted>>
      BY <1>3 DEF TakeJob
    <2>2. /\ 1 \in DOMAIN jobs /\ Head(jobs) = jobs[1]
          /\ \A i \in DOMAIN jobs' : i \in Nat /\ i + 1 \in DOMAIN jobs /\ jobs'[i] = jobs[i + 1] /\ i + 1 # 1
      BY <1>0, <2>1, TakeProperties
    <2>3. worker' # Idle => worker'.job = jobs[1]
      BY <2>1, <2>2
    <2>4. ~ Step("count") /\ ~ Step("count")'
      BY <2>1 DEF Step, Idle
    <2>5. Step("grant")' => worker' # Idle
      BY DEF Step, Idle
    <2>6. CodesCounted' /\ IsFiniteSet(transactions')
      BY <2>1, <2>4 DEF CInv, CodesCounted, Uses, Counting
    <2>7. \A i, j \in DOMAIN jobs' : jobs'[i].id = jobs'[j].id => i = j
      <3>1. \A i, j \in Nat : i + 1 = j + 1 => i = j
        OBVIOUS
      <3>2. QED
        BY <2>2, <3>1 DEF CInv
    <2>8. \A i \in DOMAIN jobs' : /\ jobs'[i].id <= enqueued'
                                  /\ worker' # Idle => jobs'[i].id # worker'.job.id
      BY <2>1, <2>2, <2>3 DEF CInv
    <2>9. worker' # Idle => worker'.job.id <= enqueued'
      BY <2>1, <2>2, <2>3 DEF CInv
    <2>10. ASSUME NEW t \in transactions'
           PROVE  /\ t.by \in Nat => t.by <= enqueued'
                  /\ \A i \in DOMAIN jobs' : t.by # jobs'[i].id
                  /\ Step("grant")' => t.by # worker'.job.id
                  /\ t.rule = "invite_friends" => t.about \in DOMAIN codes'
      BY <2>1, <2>2, <2>3, <2>5 DEF CInv
    <2>11. QED
      BY <2>6, <2>7, <2>8, <2>9, <2>10 DEF CInv
  <1>4. CASE GrantReward
    <2> DEFINE job == worker.job
    <2>1. /\ Step("grant") /\ worker # Idle /\ job \in Job
          /\ transactions' = transactions \cup {Reward}
          /\ Reward.by = job.id /\ Reward.rule = job.rule /\ Reward.about = job.about
          /\ job.rule = "invite_friends" => worker' = [step |-> "count", job |-> job]
          /\ job.rule # "invite_friends" => worker' = Idle
          /\ UNCHANGED <<promotions, codes, jobs, enqueued, req, uncounted>>
      BY <1>0, <1>4, GrantTyped
    <2>2. Reward \notin transactions
      BY <2>1 DEF CInv
    <2>3. job.rule = "invite_friends" => job.about \in DOMAIN codes
      BY <2>1 DEF TInv, AboutACode
    <2>4. ~ Step("count") /\ ~ Step("grant")'
      BY <2>1 DEF Step, Idle
    <2>5. worker' # Idle => worker'.job = job
      BY <2>1
    <2>6. Step("count")' <=> job.rule = "invite_friends"
      BY <2>1 DEF Step, Idle
    <2>7. IsFiniteSet(transactions')
      BY <2>1, FS_AddElement DEF CInv
    <2>8. ASSUME NEW c \in DOMAIN codes'
          PROVE  /\ Cardinality(Uses(c)') = codes'[c].used + uncounted'[c] + Counting(c)'
                 /\ codes'[c].used <= MaxUsage
      <3>1. /\ c \in DOMAIN codes /\ Cardinality(Uses(c)) = codes[c].used + uncounted[c] + 0
            /\ codes[c].used <= MaxUsage
        BY <2>1, <2>4, <2>8 DEF CInv, CodesCounted, Counting
      <3>2. CASE job.rule = "invite_friends" /\ job.about = c
        <4>1. Uses(c)' = Uses(c) \cup {Reward}
          BY <2>1, <3>2 DEF Uses
        <4>2. Reward \notin Uses(c) /\ IsFiniteSet(Uses(c))
          BY <2>2, FS_Subset DEF Uses, CInv
        <4>3. Cardinality(Uses(c)') = Cardinality(Uses(c)) + 1
          BY <4>1, <4>2, FS_AddElement
        <4>4. Counting(c)' = 1
          BY <2>1, <3>2 DEF Counting, Step
        <4>5. codes[c].used \in Nat /\ uncounted[c] \in Nat
          <5>1. codes \in Seq(Code) /\ c \in 1..Len(codes) /\ uncounted \in Seq(Nat) /\ c \in 1..Len(uncounted)
            BY <1>0, <3>1, LenProperties DEF TInv, TypeOK
          <5>2. codes[c] \in Code /\ uncounted[c] \in Nat
            BY <5>1, ElementOfSeq
          <5>3. QED
            BY <5>2 DEF Code
        <4>6. QED
          BY <2>1, <3>1, <4>3, <4>4, <4>5
      <3>3. CASE ~ (job.rule = "invite_friends" /\ job.about = c)
        <4>1. Uses(c)' = Uses(c)
          BY <2>1, <3>3 DEF Uses
        <4>2. Counting(c)' = 0
          BY <2>5, <2>6, <3>3, <2>1 DEF Counting
        <4>3. QED
          BY <2>1, <3>1, <4>1, <4>2
      <3>4. QED
        BY <3>2, <3>3
    <2>9. CodesCounted'
      BY <2>8 DEF CodesCounted
    <2>10. \A i \in DOMAIN jobs' : worker' # Idle => jobs'[i].id # worker'.job.id
      BY <2>1, <2>5 DEF CInv
    <2>11. worker' # Idle => worker'.job.id <= enqueued'
      BY <2>1, <2>5 DEF CInv
    <2>12. ASSUME NEW t \in transactions'
           PROVE  /\ t.by \in Nat => t.by <= enqueued'
                  /\ \A i \in DOMAIN jobs' : t.by # jobs'[i].id
                  /\ t.rule = "invite_friends" => t.about \in DOMAIN codes'
      BY <2>1, <2>3 DEF CInv
    <2>13. QED
      BY <2>1, <2>4, <2>7, <2>9, <2>10, <2>11, <2>12 DEF CInv
  <1>5. CASE CountUse
    <2> DEFINE d == worker.job.about
               code == [codes[d] EXCEPT !.used = @ + 1]
    <2>1. /\ Step("count") /\ worker' = Idle /\ codes' = [codes EXCEPT ![d] = code]
          /\ UNCHANGED <<transactions, promotions, jobs, enqueued, announced, req, uncounted>>
      BY <1>5 DEF CountUse
    <2>2. d \in DOMAIN codes /\ codes[d].used < MaxUsage
      BY <1>0, <2>1, StepTyped DEF TInv, AboutACode
    <2>3. \A c \in DOMAIN codes : codes[c].used \in Nat /\ uncounted[c] \in Nat /\ codes[c] \in Code
      <3>1. ASSUME NEW c \in DOMAIN codes PROVE codes[c] \in Code /\ uncounted[c] \in Nat
        <4>1. codes \in Seq(Code) /\ c \in 1..Len(codes) /\ uncounted \in Seq(Nat) /\ c \in 1..Len(uncounted)
          BY <1>0, <3>1, LenProperties DEF TInv, TypeOK
        <4>2. QED
          BY <4>1, ElementOfSeq
      <3>2. QED
        BY <3>1 DEF Code
    <2>4. code.used = codes[d].used + 1
      BY <2>2, <2>3 DEF Code
    <2>5. \A c : Counting(c) = IF c = d THEN 1 ELSE 0
      BY <2>1 DEF Counting
    <2>6. \A c : Counting(c)' = 0
      BY <2>1 DEF Counting, Step, Idle
    <2>7. ~ Step("grant")'
      BY <2>1 DEF Step, Idle
    <2> HIDE DEF d, code
    <2>8. DOMAIN codes' = DOMAIN codes
      BY <2>1
    <2>9. ASSUME NEW c \in DOMAIN codes
          PROVE  /\ Cardinality(Uses(c)') = codes'[c].used + uncounted'[c] + Counting(c)'
                 /\ codes'[c].used <= MaxUsage
      <3>1. Uses(c)' = Uses(c)
        BY <2>1 DEF Uses
      <3>2. /\ Cardinality(Uses(c)) = codes[c].used + uncounted[c] + Counting(c)
            /\ codes[c].used <= MaxUsage
        BY DEF CInv, CodesCounted
      <3>3. codes'[c].used = IF c = d THEN codes[c].used + 1 ELSE codes[c].used
        BY <2>1, <2>2, <2>4
      <3>4. QED
        BY <2>1, <2>2, <2>3, <2>5, <2>6, <3>1, <3>2, <3>3
    <2>10. CodesCounted'
      BY <2>8, <2>9 DEF CodesCounted
    <2>11. QED
      BY <2>1, <2>7, <2>8, <2>10 DEF CInv
  <1>6. CASE JobFails
    <2> DEFINE d == worker.job.about
    <2>1. /\ worker # Idle /\ worker' = Idle
          /\ uncounted' = IF Step("count") THEN [uncounted EXCEPT ![d] = uncounted[d] + 1] ELSE uncounted
          /\ UNCHANGED <<transactions, promotions, codes, jobs, enqueued, announced, req>>
      BY <1>6 DEF JobFails
    <2>2. ~ Step("grant")' /\ \A c : Counting(c)' = 0
      BY <2>1 DEF Step, Idle, Counting
    <2>3. \A c \in DOMAIN codes : c \in DOMAIN uncounted /\ codes[c].used \in Nat /\ uncounted[c] \in Nat
      <3>1. ASSUME NEW c \in DOMAIN codes
            PROVE  codes[c] \in Code /\ uncounted[c] \in Nat /\ c \in DOMAIN uncounted
        <4>1. /\ codes \in Seq(Code) /\ c \in 1..Len(codes) /\ uncounted \in Seq(Nat)
              /\ c \in 1..Len(uncounted) /\ c \in DOMAIN uncounted
          BY <1>0, <3>1, LenProperties DEF TInv, TypeOK
        <4>2. QED
          BY <4>1, ElementOfSeq
      <3>2. QED
        BY <3>1 DEF Code
    <2>4. ASSUME NEW c \in DOMAIN codes
          PROVE  Cardinality(Uses(c)') = codes'[c].used + uncounted'[c] + Counting(c)'
      <3>1. Uses(c)' = Uses(c) /\ codes'[c].used = codes[c].used
        BY <2>1 DEF Uses
      <3>2. Cardinality(Uses(c)) = codes[c].used + uncounted[c] + Counting(c)
        BY DEF CInv, CodesCounted
      <3>3. uncounted'[c] = uncounted[c] + Counting(c)
        BY <2>1, <2>3 DEF Counting
      <3>4. Counting(c) \in Nat
        BY DEF Counting
      <3>5. QED
        BY <2>2, <2>3, <3>1, <3>2, <3>3, <3>4
    <2>5. CodesCounted'
      BY <2>1, <2>4 DEF CodesCounted, CInv
    <2>6. QED
      BY <2>1, <2>2, <2>5 DEF CInv
  <1>7. ASSUME NEW r \in Request, Handle(r) \/ Abort(r) PROVE CInv'
    <2>1. UNCHANGED <<jobs, enqueued, worker>>
      BY <1>7, HandleKept
    <2>2. CASE SpendCredit(r)
      <3>1. /\ transactions' = transactions \cup {Payment(r)}
            /\ Payment(r).by = r /\ Payment(r).rule = "promote_shouts"
            /\ UNCHANGED <<codes, jobs, enqueued, worker, uncounted>>
        BY <1>0, <2>2, SpendTyped
      <3>2. r \notin Nat
        OBVIOUS
      <3>3. \A i \in DOMAIN jobs : jobs[i].id \in Nat
        <4>1. \A i \in DOMAIN jobs : jobs[i] \in Job
          BY <1>0, ElementOfSeq, LenProperties DEF TypeOK
        <4>2. QED
          BY <4>1 DEF Job
      <3>4. Step("grant") => worker.job.id \in Nat
        BY <1>0, StepTyped, WorkerTyped DEF Job
      <3>5. IsFiniteSet(transactions')
        BY <3>1, FS_AddElement DEF CInv
      <3>6. \A c : Uses(c)' = Uses(c) /\ Counting(c)' = Counting(c)
        BY <3>1 DEF Uses, Counting, Step
      <3>7. CodesCounted'
        BY <3>1, <3>6 DEF CodesCounted, CInv
      <3>8. \A t \in transactions' :
              /\ t.by \in Nat => t.by <= enqueued
              /\ \A i \in DOMAIN jobs : t.by # jobs[i].id
              /\ Step("grant") => t.by # worker.job.id
              /\ t.rule = "invite_friends" => t.about \in DOMAIN codes
        BY <3>1, <3>2, <3>3, <3>4 DEF CInv
      <3>9. QED
        BY <3>1, <3>5, <3>7, <3>8 DEF CInv, Step
    <2>3. CASE DeactivateCode(r)
      <3> DEFINE c == req[r].code
                 code == [codes[c] EXCEPT !.active = FALSE]
      <3>1. /\ codes' = [codes EXCEPT ![c] = code] /\ At(r, "deactivate")
            /\ UNCHANGED <<transactions, promotions, jobs, enqueued, worker, announced, uncounted>>
        BY <2>3 DEF DeactivateCode
      <3>2. c \in DOMAIN codes
        BY <3>1 DEF TInv
      <3>3. codes[c] \in Code
        BY <1>0, <3>2, ElementOfSeq, LenProperties DEF TypeOK
      <3>4. code.used = codes[c].used
        BY <3>3 DEF Code
      <3> HIDE DEF c, code
      <3>5. DOMAIN codes' = DOMAIN codes /\ \A i \in DOMAIN codes : codes'[i].used = codes[i].used
        BY <3>1, <3>2, <3>4
      <3>6. QED
        BY <3>1, <3>5, CInvKept
    <2>4. CASE CreateCode(r)
      <3> DEFINE code == [user |-> req[r].user, used |-> 0, active |-> TRUE]
                 n == Len(codes) + 1
      <3>1. /\ codes' = Append(codes, code) /\ uncounted' = Append(uncounted, 0) /\ At(r, "create")
            /\ UNCHANGED <<transactions, promotions, jobs, enqueued, worker, announced>>
        BY <2>4 DEF CreateCode
      <3>2. req[r] \in CodeCall
        BY <1>0, <3>1, RequestTyped DEF At
      <3>3. code \in Code /\ codes \in Seq(Code) /\ uncounted \in Seq(Nat) /\ code.used = 0
        BY <1>0, <3>2 DEF TypeOK, Code, CodeCall
      <3> HIDE DEF code
      <3>4. /\ Len(codes') = Len(codes) + 1 /\ codes'[n] = code /\ codes' \in Seq(Code)
            /\ \A i \in 1..Len(codes) : codes'[i] = codes[i]
            /\ Len(uncounted') = Len(uncounted) + 1 /\ uncounted'[Len(uncounted) + 1] = 0
            /\ \A i \in 1..Len(uncounted) : uncounted'[i] = uncounted[i]
        BY <3>1, <3>3, AppendProperties
      <3>5. /\ Len(codes) \in Nat /\ DOMAIN codes = 1..Len(codes) /\ DOMAIN codes' = 1..Len(codes')
            /\ Len(uncounted) = Len(codes)
        BY <3>3, <3>4, LenProperties DEF TInv
      <3> HIDE DEF n
      <3>6. /\ DOMAIN codes' = DOMAIN codes \cup {n} /\ n \notin DOMAIN codes
            /\ \A i \in DOMAIN codes : codes'[i] = codes[i] /\ uncounted'[i] = uncounted[i]
            /\ codes'[n] = code /\ uncounted'[n] = 0
        BY <3>4, <3>5 DEF n
      <3>7. Step("count") => worker.job.about \in DOMAIN codes
        BY <1>0, StepTyped DEF TInv, AboutACode
      <3>8. \A c : Uses(c)' = Uses(c) /\ Counting(c)' = Counting(c)
        BY <3>1 DEF Uses, Counting, Step
      <3>9. Cardinality(Uses(n)) = 0 /\ Counting(n) = 0
        <4>1. Uses(n) = {}
          BY <3>6 DEF CInv, Uses
        <4>2. QED
          BY <4>1, <3>6, <3>7, FS_EmptySet DEF Counting
      <3>10. CodesCounted'
        <4>1. ASSUME NEW c \in DOMAIN codes'
              PROVE  /\ Cardinality(Uses(c)') = codes'[c].used + uncounted'[c] + Counting(c)'
                     /\ codes'[c].used <= MaxUsage
          <5>1. CASE c = n
            <6>1. codes'[c].used = 0 /\ uncounted'[c] = 0 /\ Counting(c)' = 0 /\ Cardinality(Uses(c)') = 0
              BY <5>1, <3>3, <3>6, <3>8, <3>9
            <6>2. QED
              BY <6>1
          <5>2. CASE c \in DOMAIN codes
            BY <5>2, <3>6, <3>8 DEF CInv, CodesCounted
          <5>3. QED
            BY <4>1, <3>6, <5>1, <5>2
        <4>2. QED
          BY <4>1 DEF CodesCounted
      <3>11. QED
        BY <3>1, <3>6, <3>10 DEF CInv, Step
    <2>5. CASE UNCHANGED <<transactions, codes, uncounted>>
      BY <2>1, <2>5, CInvKept
    <2>6. QED
      BY <1>7, <2>2, <2>3, <2>4, <2>5, HandleKept
  <1>8. QED
    BY <1>1, <1>2, <1>3, <1>4, <1>5, <1>6, <1>7 DEF Next, CreditWorker

THEOREM InvariantCInv == Spec => []CInv
  BY InitCInv, StepCInv, InvariantTInv, PTL DEF Spec

\* A code is rewarded as often as it was counted, jobs that died between the
\* reward and the count apart, and no more than MaxUsage times: the update with
\* F('used_count') + 1 and the one that deactivates the code lose nothing of each
\* other.
THEOREM CreditCodesCounted == Spec => []CodesCounted
  <1>1. CInv => CodesCounted
    BY DEF CInv
  <1>2. QED
    BY <1>1, InvariantCInv, PTL
-----------------------------------------------------------------------------
\* The inductive invariant of RewardedOnce and ListensLimited: what the worker
\* checked when it took the job is still so when it grants the reward.
RInv ==
    /\ RewardedOnce
    /\ ListensLimited
    /\ Step("grant") /\ worker.job.rule # "invite_friends" => Eligible(worker.job)

\* Steps that add no rewards.
LEMMA RInvKept ==
    ASSUME TypeOK, RInv, UNCHANGED worker,
           \A t \in transactions : t \in transactions',
           \A t \in transactions' : t \in transactions \/ t.rule = "promote_shouts"
    PROVE  RInv'
  <1>1. ASSUME NEW rule \in Rule, NEW u PROVE Rewards(rule, u)' = Rewards(rule, u)
    BY DEF Rewards, Rule
  <1>2. RewardedOnce'
    BY DEF RInv, RewardedOnce, Rule
  <1>3. ListensLimited'
    <2>1. "listen_to_friends" \in Rule
      BY DEF Rule
    <2>2. QED
      BY <1>1, <2>1 DEF RInv, ListensLimited
  <1>4. ASSUME Step("grant")', worker'.job.rule # "invite_friends"
        PROVE  Eligible(worker.job)'
    <2>1. Step("grant") /\ worker.job.rule # "invite_friends"
      BY <1>4 DEF Step
    <2>2. worker.job.rule \in Rule
      BY <2>1, StepTyped, WorkerTyped DEF Job
    <2>3. Rewards(worker.job.rule, worker.job.user)' = Rewards(worker.job.rule, worker.job.user)
      BY <1>1, <2>2
    <2>4. Eligible(worker.job)
      BY <2>1 DEF RInv
    <2>5. QED
      BY <2>1, <2>3, <2>4 DEF Eligible, NotYetRewarded
  <1>5. QED
    BY <1>2, <1>3, <1>4 DEF RInv

LEMMA InitRInv == Init => RInv
  <1> SUFFICES ASSUME Init PROVE RInv
    OBVIOUS
  <1> USE CreditAssumption
  <1>1. transactions = {} /\ ~ Step("grant")
    BY DEF Init, Step, Idle
  <1>2. \A u : Rewards("listen_to_friends", u) = {}
    BY <1>1 DEF Rewards
  <1>3. QED
    BY SMTT(30), <1>1, <1>2, FS_EmptySet DEF RInv, RewardedOnce, ListensLimited

LEMMA StepRInv == TInv /\ CInv /\ RInv /\ [Next]_vars => RInv'
  <1> SUFFICES ASSUME TInv, CInv, RInv, [Next]_vars PROVE RInv'
    OBVIOUS
  <1> USE CreditAssumption
  <1>0. TypeOK
    BY DEF TInv
  <1>1. CASE UNCHANGED vars
    BY <1>0, <1>1, RInvKept DEF vars
  <1>2. CASE Earn
    <2>1. UNCHANGED <<transactions, worker>>
      BY <1>0, <1>2, EarnEnqueues DEF Enqueue
    <2>2. QED
      BY <1>0, <2>1, RInvKept
  <1>3. CASE TakeJob
    <2>1. /\ \/ worker' = worker /\ worker = Idle
             \/ Eligible(Head(jobs)) /\ worker' = [step |-> "grant", job |-> Head(jobs)]
          /\ UNCHANGED <<transactions, codes>>
      BY <1>3 DEF TakeJob
    <2>2. Step("grant")' => worker'.job = Head(jobs) /\ Eligible(Head(jobs))
      BY <2>1 DEF Step, Idle
    <2>3. RewardedOnce' /\ ListensLimited'
      BY <2>1 DEF RInv, RewardedOnce, ListensLimited, Rewards
    <2>4. ASSUME Step("grant")', worker'.job.rule # "invite_friends"
          PROVE  Eligible(worker.job)'
      <3>1. worker'.job = Head(jobs) /\ Eligible(Head(jobs))
        BY <2>2, <2>4
      <3>2. \A rule, u : Rewards(rule, u)' = Rewards(rule, u)
        BY <2>1 DEF Rewards
      <3>3. PICK job : job = Head(jobs)
        OBVIOUS
      <3>4. Eligible(job) /\ worker'.job = job
        BY <3>1, <3>3
      <3>5. QED
        BY <2>1, <3>2, <3>4 DEF Eligible, NotYetRewarded, UsableCode
    <2>5. QED
      BY <2>3, <2>4 DEF RInv
  <1>4. CASE GrantReward
    <2> DEFINE job == worker.job
    <2>1. /\ Step("grant") /\ worker # Idle /\ job \in Job
          /\ transactions' = transactions \cup {Reward}
          /\ Reward.rule = job.rule /\ Reward.user = Rewarded(job) /\ Reward.about = job.about
          /\ job.rule = "invite_friends" => worker' = [step |-> "count", job |-> job]
          /\ job.rule # "invite_friends" => worker' = Idle
      BY <1>0, <1>4, GrantTyped
    <2>2. ~ Step("grant")'
      BY <2>1 DEF Step, Idle
    <2>3. ASSUME job.rule # "invite_friends"
          PROVE  /\ Reward.user = job.user
                 /\ \A t \in transactions :
                       t.rule = Reward.rule /\ t.user = Reward.user =>
                          t.about # Reward.about /\ t.rule # "complete_profile"
                 /\ job.rule = "listen_to_friends" =>
                       Cardinality(Rewards("listen_to_friends", Reward.user)) < MaxListens
      <3>1. Eligible(job) /\ Reward.user = job.user
        BY <2>1, <2>3 DEF RInv, Rewarded
      <3>2. NotYetRewarded(job)
        BY <3>1, <2>3 DEF Eligible
      <3>3. QED
        BY <2>1, <2>3, <3>1, <3>2 DEF Eligible, NotYetRewarded, Rewards
    <2>4. RewardedOnce'
      <3>1. ASSUME NEW t \in transactions', NEW v \in transactions',
                   t.rule = v.rule, t.user = v.user, t.rule \in Rule \ {"invite_friends"}
            PROVE  t = v \/ (t.about # v.about /\ t.rule # "complete_profile")
        <4>1. CASE t \in transactions /\ v \in transactions
          BY <3>1, <4>1 DEF RInv, RewardedOnce
        <4>2. CASE t = Reward /\ v \in transactions
          BY <2>1, <2>3, <3>1, <4>2
        <4>3. CASE t \in transactions /\ v = Reward
          BY <2>1, <2>3, <3>1, <4>3
        <4>4. QED
          BY <2>1, <4>1, <4>2, <4>3
      <3>2. QED
        BY <3>1 DEF RewardedOnce
    <2>5. ASSUME NEW u \in User
          PROVE  Cardinality(Rewards("listen_to_friends", u)') <= MaxListens
      <3> DEFINE S == Rewards("listen_to_friends", u)
      <3>1. IsFiniteSet(S) /\ Cardinality(S) \in Nat /\ Cardinality(S) <= MaxListens
        BY FS_Subset, FS_CardinalityType DEF CInv, RInv, ListensLimited, Rewards
      <3>2. CASE job.rule = "listen_to_friends" /\ Reward.user = u
        <4>1. S' = S \cup {Reward} /\ Reward \notin S
          BY <2>1, <2>3, <3>2 DEF Rewards
        <4>2. Cardinality(S') = Cardinality(S) + 1
          BY <3>1, <4>1, FS_AddElement
        <4>3. Cardinality(S) < MaxListens
          BY <2>3, <3>2
        <4>4. QED
          BY <3>1, <4>2, <4>3
      <3>3. CASE ~ (job.rule = "listen_to_friends" /\ Reward.user = u)
        <4>1. S' = S
          BY <2>1, <3>3 DEF Rewards
        <4>2. QED
          BY <3>1, <4>1
      <3>4. QED
        BY <3>2, <3>3
    <2>6. QED
      BY <2>2, <2>4, <2>5 DEF RInv, ListensLimited
  <1>5. CASE CountUse \/ JobFails
    <2>1. UNCHANGED transactions /\ worker' = Idle
      BY <1>5 DEF CountUse, JobFails
    <2>2. ~ Step("grant")'
      BY <2>1 DEF Step, Idle
    <2>3. RewardedOnce' /\ ListensLimited'
      BY <2>1 DEF RInv, RewardedOnce, ListensLimited, Rewards
    <2>4. QED
      BY <2>2, <2>3 DEF RInv
  <1>6. ASSUME NEW r \in Request, Handle(r) \/ Abort(r) PROVE RInv'
    <2>1. UNCHANGED worker /\ (UNCHANGED transactions \/ SpendCredit(r))
      BY <1>6, HandleKept
    <2>2. CASE UNCHANGED transactions
      BY <1>0, <2>1, <2>2, RInvKept
    <2>3. CASE SpendCredit(r)
      <3>1. /\ transactions' = transactions \cup {Payment(r)}
            /\ Payment(r).rule = "promote_shouts"
        BY <1>0, <2>3, SpendTyped
      <3>2. QED
        BY <1>0, <2>1, <3>1, RInvKept
    <2>4. QED
      BY <2>1, <2>2, <2>3
  <1>7. QED
    BY <1>1, <1>2, <1>3, <1>4, <1>5, <1>6 DEF Next, CreditWorker

THEOREM InvariantRInv == Spec => []RInv
  BY InitRInv, StepRInv, InvariantTInv, InvariantCInv, PTL DEF Spec

\* A shout or a profile is rewarded once, however often it is saved, a profile is
\* listened to again and jobs fail in between.
THEOREM CreditRewardedOnce == Spec => []RewardedOnce
  <1>1. RInv => RewardedOnce
    BY DEF RInv
  <1>2. QED
    BY <1>1, InvariantRInv, PTL

\* Nobody is rewarded for listening more than MaxListens times.
THEOREM CreditListensLimited == Spec => []ListensLimited
  <1>1. RInv => ListensLimited
    BY DEF RInv
  <1>2. QED
    BY <1>1, InvariantRInv, PTL
-----------------------------------------------------------------------------
\* Which requests are in flight after a step of one of them.
LEMMA InFlightStep ==
    ASSUME TypeOK, TypeOK', NEW r \in Request, \A q \in Request \ {r} : req'[q] = req[q]
    PROVE  /\ r \in InFlight' => InFlight' = InFlight \cup {r}
           /\ r \notin InFlight' => InFlight' = InFlight \ {r}
  BY DEF InFlight

\* The requests that are past the check of the promotions of s, and have not
\* created theirs.
Promoting(s) == {r \in InFlight : req[r].phase \in {"spend", "promote"} /\ req[r].shout = s}

\* The inductive invariant of PromotionsBounded: a request that passed the check
\* counts as a promotion, and there are no more requests than workers.
PInv ==
    /\ IsFiniteSet(InFlight) /\ Cardinality(InFlight) <= Workers
    /\ IsFiniteSet(promotions)
    /\ \A s \in Shout : Cardinality(PromotionsOf(s)) + Cardinality(Promoting(s)) <= Workers

\* Steps of a request that ends, or is not past the check and does not pass it.
LEMMA PInvKept ==
    ASSUME PInv, UNCHANGED promotions,
           IsFiniteSet(InFlight'), Cardinality(InFlight') <= Workers,
           \A s \in Shout : Promoting(s)' \subseteq Promoting(s)
    PROVE  PInv'
  <1> USE CreditAssumption
  <1>1. ASSUME NEW s \in Shout
        PROVE  Cardinality(PromotionsOf(s)') + Cardinality(Promoting(s)') <= Workers
    <2>1. IsFiniteSet(Promoting(s)) /\ IsFiniteSet(PromotionsOf(s))
      BY FS_Subset DEF PInv, Promoting, PromotionsOf
    <2>2. /\ Cardinality(Promoting(s)') <= Cardinality(Promoting(s))
          /\ Cardinality(Promoting(s)') \in Nat /\ Cardinality(Promoting(s)) \in Nat
      BY <2>1, FS_Subset, FS_CardinalityType
    <2>3. PromotionsOf(s)' = PromotionsOf(s) /\ Cardinality(PromotionsOf(s)) \in Nat
      BY <2>1, FS_CardinalityType DEF PromotionsOf
    <2>4. Cardinality(PromotionsOf(s)) + Cardinality(Promoting(s)) <= Workers
      BY DEF PInv
    <2>5. QED
      BY <2>2, <2>3, <2>4
  <1>2. QED
    BY <1>1 DEF PInv

LEMMA InitPInv == Init => PInv
  <1> SUFFICES ASSUME Init PROVE PInv
    OBVIOUS
  <1> USE CreditAssumption
  <1>1. InFlight = {} /\ promotions = {}
    BY DEF Init, InFlight
  <1>2. \A s : PromotionsOf(s) = {} /\ Promoting(s) = {}
    BY <1>1 DEF PromotionsOf, Promoting
  <1>3. IsFiniteSet({}) /\ Cardinality({}) = 0 /\ 0 <= Workers /\ 0 + 0 = 0
    BY FS_EmptySet
  <1>4. \A s : Cardinality(PromotionsOf(s)) + Cardinality(Promoting(s)) <= Workers
    BY <1>2, <1>3
  <1>5. QED
    BY <1>1, <1>3, <1>4 DEF PInv

LEMMA StepPInv == TInv /\ TInv' /\ PInv /\ [Next]_vars => PInv'
  <1> SUFFICES ASSUME TInv, TInv', PInv, [Next]_vars PROVE PInv'
    OBVIOUS
  <1> USE CreditAssumption
  <1>0. TypeOK /\ TypeOK'
    BY DEF TInv
  <1>a. IsFiniteSet(InFlight) /\ Cardinality(InFlight) \in Nat /\ Cardinality(InFlight) <= Workers
    BY FS_CardinalityType DEF PInv
  <1>1. ASSUME UNCHANGED <<promotions, req>> PROVE PInv'
    <2>1. InFlight' = InFlight
      BY <1>1 DEF InFlight
    <2>2. \A s : Promoting(s)' = Promoting(s)
      BY <1>1, <2>1 DEF Promoting
    <2>3. QED
      BY <1>1, <1>a, <2>1, <2>2, PInvKept
  <1>2. CASE Earn
    <2>1. UNCHANGED <<promotions, req>>
      BY <1>0, <1>2, EarnEnqueues DEF Enqueue
    <2>2. QED
      BY <1>1, <2>1
  <1>3. CASE CreditWorker
    BY <1>1, <1>3 DEF CreditWorker, TakeJob, GrantReward, CountUse, JobFails
  <1>4. ASSUME NEW r \in Request, Handle(r) \/ Abort(r) PROVE PInv'
    <2>1. ASSUME r \in InFlight, \A q \in Request \ {r} : req'[q] = req[q]
          PROVE  IsFiniteSet(InFlight') /\ Cardinality(InFlight') <= Workers
      <3>1. CASE r \in InFlight'
        <4>0. InFlight' = InFlight \cup {r}
          BY <1>0, <2>1, <3>1, InFlightStep
        <4>1. InFlight' = InFlight
          BY <2>1, <4>0
        <4>2. QED
          BY <1>a, <4>1
      <3>2. CASE r \notin InFlight'
        <4>1. InFlight' \subseteq InFlight
          BY <1>0, <2>1, <3>2, InFlightStep
        <4>2. /\ IsFiniteSet(InFlight') /\ Cardinality(InFlight') \in Nat
              /\ Cardinality(InFlight') <= Cardinality(InFlight)
          BY <4>1, <1>a, FS_Subset, FS_CardinalityType
        <4>3. QED
          BY <1>a, <4>2
      <3>3. QED
        BY <3>1, <3>2
    <2>2. ASSUME Arrives(r), \A q \in Request \ {r} : req'[q] = req[q]
          PROVE  IsFiniteSet(InFlight') /\ Cardinality(InFlight') <= Workers
      <3>1. r \notin InFlight /\ Cardinality(InFlight) < Workers
        BY <2>2 DEF Arrives, InFlight
      <3>2. Cardinality(InFlight \cup {r}) = Cardinality(InFlight) + 1 /\ IsFiniteSet(InFlight \cup {r})
        BY <1>a, <3>1, FS_AddElement
      <3>3. InFlight' = InFlight \cup {r} \/ InFlight' = InFlight
        BY <1>0, <2>2, <3>1, InFlightStep
      <3>4. CASE InFlight' = InFlight \cup {r}
        <4>1. Cardinality(InFlight') = Cardinality(InFlight) + 1 /\ IsFiniteSet(InFlight')
          BY <3>2, <3>4
        <4>2. QED
          BY <1>a, <3>1, <4>1
      <3>5. CASE InFlight' = InFlight
        BY <1>a, <3>5
      <3>6. QED
        BY <3>3, <3>4, <3>5
    <2>3. ASSUME \A q \in Request \ {r} : req'[q] = req[q],
                 req'[r].phase \notin {"spend", "promote"}
          PROVE  \A s \in Shout : Promoting(s)' \subseteq Promoting(s)
      BY <2>3 DEF Promoting, InFlight
    <2>4. ASSUME Finish(r), r \in InFlight, UNCHANGED promotions
          PROVE  PInv'
      <3>1. req'[r].phase \notin {"spend", "promote"} /\ \A q \in Request \ {r} : req'[q] = req[q]
        BY <1>0, <2>4, FinishTyped DEF Done
      <3>2. QED
        BY <2>1, <2>3, <2>4, <3>1, PInvKept
    <2>5. ASSUME req[r] \in Promote, Goto(r, "promotions"), UNCHANGED promotions
          PROVE  PInv'
      <3>1. req'[r].phase = "promotions" /\ \A q \in Request \ {r} : req'[q] = req[q]
        BY <1>0, <2>5, GotoPromote
      <3>2. r \in InFlight
        BY <1>0, <2>5, RequestTyped DEF Promote
      <3>3. QED
        BY <2>1, <2>3, <2>5, <3>1, <3>2, PInvKept
    <2>6. ASSUME NEW s \in Shout, NEW o \in Option, PromoteShout(r, s, o) PROVE PInv'
      <3>1. /\ req'[r].phase = "credit" /\ \A q \in Request \ {r} : req'[q] = req[q]
            /\ Arrives(r) /\ UNCHANGED promotions
        BY <1>0, <2>6 DEF PromoteShout, TypeOK
      <3>2. QED
        BY <2>2, <2>3, <3>1, PInvKept
    <2>7. ASSUME CheckCredit(r) PROVE PInv'
      <3>1. req[r] \in Promote /\ r \in InFlight
        BY <1>0, <2>7, RequestTyped DEF CheckCredit, At
      <3>2. QED
        BY <2>4, <2>5, <2>7, <3>1 DEF CheckCredit
    <2>8. ASSUME CheckPromotions(r) PROVE PInv'
      <3>1. req[r] \in Promote /\ r \in InFlight /\ req[r].phase = "promotions" /\ UNCHANGED promotions
        BY <1>0, <2>8, RequestTyped DEF CheckPromotions, At
      <3>2. CASE PromotionsOf(req[r].shout) = {}
        <4>1. PICK s \in Shout : s = req[r].shout
          BY <3>1 DEF Promote
        <4>2. Goto(r, "spend")
          BY <2>8, <3>2 DEF CheckPromotions
        <4>3. req'[r].phase = "spend" /\ req'[r].shout = s /\ \A q \in Request \ {r} : req'[q] = req[q]
          BY <1>0, <3>1, <4>1, <4>2, GotoPromote
        <4>4. IsFiniteSet(InFlight') /\ Cardinality(InFlight') <= Workers
          BY <2>1, <3>1, <4>3
        <4>5. ASSUME NEW p \in Shout
              PROVE  Cardinality(PromotionsOf(p)') + Cardinality(Promoting(p)') <= Workers
          <5>1. PromotionsOf(p)' = PromotionsOf(p)
            BY <3>1 DEF PromotionsOf
          <5>2. CASE p = s
            <6>1. PromotionsOf(p) = {} /\ Cardinality(PromotionsOf(p)) = 0
              BY <3>2, <4>1, <5>2, FS_EmptySet
            <6>2. Promoting(p)' \subseteq InFlight'
              BY DEF Promoting
            <6>3. /\ Cardinality(Promoting(p)') <= Cardinality(InFlight')
                  /\ Cardinality(Promoting(p)') \in Nat /\ Cardinality(InFlight') \in Nat
              BY <4>4, <6>2, FS_Subset, FS_CardinalityType
            <6>4. QED
              BY <4>4, <5>1, <6>1, <6>3
          <5>3. CASE p # s
            <6>1. Promoting(p)' = Promoting(p)
              BY <3>1, <4>3, <5>3 DEF Promoting, InFlight
            <6>2. QED
              BY <5>1, <6>1 DEF PInv
          <5>4. QED
            BY <5>2, <5>3
        <4>6. QED
          BY <3>1, <4>4, <4>5 DEF PInv
      <3>3. CASE PromotionsOf(req[r].shout) # {}
        BY <2>4, <2>8, <3>1, <3>3 DEF CheckPromotions
      <3>4. QED
        BY <3>2, <3>3
    <2>9. ASSUME SpendCredit(r) PROVE PInv'
      <3>1. /\ req[r] \in Promote /\ r \in InFlight /\ req[r].phase = "spend"
            /\ Goto(r, "promote") /\ UNCHANGED promotions
        BY <1>0, <2>9, RequestTyped DEF SpendCredit, At
      <3>2. /\ req'[r].phase = "promote" /\ req'[r].shout = req[r].shout
            /\ \A q \in Request \ {r} : req'[q] = req[q]
        BY <1>0, <3>1, GotoPromote
      <3>3. IsFiniteSet(InFlight') /\ Cardinality(InFlight') <= Workers
        BY <2>1, <3>1, <3>2
      <3>4. \A s \in Shout : Promoting(s)' \subseteq Promoting(s)
        BY <3>1, <3>2 DEF Promoting, InFlight
      <3>5. QED
        BY <3>1, <3>3, <3>4, PInvKept
    <2>10. ASSUME CreatePromotion(r) PROVE PInv'
      <3>1. /\ req[r] \in Promote /\ r \in InFlight /\ req[r].phase = "promote"
            /\ Goto(r, "notify")
        BY <1>0, <2>10, RequestTyped DEF CreatePromotion, At
      <3>2. PICK s \in Shout, o \in Option :
               /\ s = req[r].shout
               /\ promotions' = promotions \cup {[shout |-> s, option |-> o, transaction |-> r]}
        BY <2>10, <3>1 DEF CreatePromotion, Promote
      <3>3. req'[r].phase = "notify" /\ \A q \in Request \ {r} : req'[q] = req[q]
        BY <1>0, <3>1, GotoPromote
      <3>4. IsFiniteSet(InFlight') /\ Cardinality(InFlight') <= Workers
        BY <2>1, <3>1, <3>3
      <3> DEFINE row == [shout |-> s, option |-> o, transaction |-> r]
      <3>5. IsFiniteSet(promotions) /\ row.shout = s /\ promotions' = promotions \cup {row}
        BY <3>2 DEF PInv
      <3> HIDE DEF row
      <3>6. IsFiniteSet(promotions')
        BY <3>5, FS_AddElement
      <3>7. ASSUME NEW p \in Shout
            PROVE  Cardinality(PromotionsOf(p)') + Cardinality(Promoting(p)') <= Workers
        <4>1. /\ IsFiniteSet(Promoting(p)) /\ IsFiniteSet(PromotionsOf(p))
              /\ Cardinality(Promoting(p)) \in Nat /\ Cardinality(PromotionsOf(p)) \in Nat
              /\ Cardinality(PromotionsOf(p)) + Cardinality(Promoting(p)) <= Workers
          BY FS_Subset, FS_CardinalityType DEF PInv, Promoting, PromotionsOf
        <4>2. CASE p = s
          <5>1. Promoting(p)' = Promoting(p) \ {r} /\ r \in Promoting(p)
            BY <3>1, <3>2, <3>3, <4>2 DEF Promoting, InFlight
          <5>2. Cardinality(Promoting(p)') = Cardinality(Promoting(p)) - 1
            BY ZenonT(60), <4>1, <5>1, FS_RemoveElement
          <5>3. PromotionsOf(p)' = PromotionsOf(p) \cup {row}
            BY <3>5, <4>2 DEF PromotionsOf
          <5>4. Cardinality(PromotionsOf(p)') \in {Cardinality(PromotionsOf(p)), Cardinality(PromotionsOf(p)) + 1}
            BY <4>1, <5>3, FS_AddElement
          <5>5. QED
            BY <4>1, <5>2, <5>4
        <4>3. CASE p # s
          <5>1. Promoting(p)' = Promoting(p) /\ PromotionsOf(p)' = PromotionsOf(p)
            BY <3>1, <3>2, <3>3, <3>5, <4>3 DEF Promoting, PromotionsOf, InFlight
          <5>2. QED
            BY <4>1, <5>1
        <4>4. QED
          BY <4>2, <4>3
      <3>8. QED
        BY <3>4, <3>6, <3>7 DEF PInv
    <2>11. ASSUME NotifyPromotion(r) PROVE PInv'
      BY <1>0, <2>4, <2>11, RequestTyped DEF NotifyPromotion, At
    <2>12. ASSUME NEW u \in User, GetInvitationCode(r, u) PROVE PInv'
      <3>1. /\ Arrives(r) /\ UNCHANGED promotions
            /\ \/ req' = [req EXCEPT ![r] = [phase |-> "create", user |-> u, code |-> 0]]
               \/ \E c \in DOMAIN codes :
                     req' = [req EXCEPT ![r] = [phase |-> "deactivate", user |-> u, code |-> c]]
               \/ req' = [req EXCEPT ![r] = Done]
        BY <2>12 DEF GetInvitationCode
      <3>2. /\ req'[r].phase \notin {"spend", "promote"}
            /\ \A q \in Request \ {r} : req'[q] = req[q]
        BY <1>0, <3>1 DEF TypeOK, Done
      <3>3. QED
        BY <2>2, <2>3, <3>1, <3>2, PInvKept
    <2>13. ASSUME DeactivateCode(r) PROVE PInv'
      <3>1. req[r] \in CodeCall /\ r \in InFlight /\ Goto(r, "create") /\ UNCHANGED promotions
        BY <1>0, <2>13, RequestTyped DEF DeactivateCode, At
      <3>2. req'[r].phase = "create" /\ \A q \in Request \ {r} : req'[q] = req[q]
        BY <1>0, <3>1, GotoCreate
      <3>3. QED
        BY <2>1, <2>3, <3>1, <3>2, PInvKept
    <2>14. ASSUME CreateCode(r) PROVE PInv'
      BY <1>0, <2>4, <2>14, RequestTyped DEF CreateCode, At
    <2>15. ASSUME Abort(r) PROVE PInv'
      BY <2>4, <2>15 DEF Abort
    <2>16. QED
      BY <1>4, <2>6, <2>7, <2>8, <2>9, <2>10, <2>11, <2>12, <2>13, <2>14, <2>15 DEF Handle
  <1>5. CASE UNCHANGED vars
    BY <1>1, <1>5 DEF vars
  <1>6. QED
    BY <1>2, <1>3, <1>4, <1>5 DEF Next

THEOREM InvariantPInv == Spec => []PInv
  BY InitPInv, StepPInv, InvariantTInv, PTL DEF Spec

\* A shout is promoted no more often than there are workers, although the check of
\* its promotions and the creation of one are statements of their own.
THEOREM CreditPromotionsBounded == Spec => []PromotionsBounded
  <1>1. PInv => PromotionsBounded
    <2> SUFFICES ASSUME PInv, NEW s \in Shout PROVE Cardinality(PromotionsOf(s)) <= Workers
      BY DEF PromotionsBounded
    <2>1. IsFiniteSet(Promoting(s)) /\ IsFiniteSet(PromotionsOf(s))
      BY FS_Subset DEF PInv, Promoting, PromotionsOf
    <2>2. Cardinality(Promoting(s)) \in Nat /\ Cardinality(PromotionsOf(s)) \in Nat
      BY <2>1, FS_CardinalityType
    <2>3. QED
      BY <2>2, CreditAssumption DEF PInv
  <1>2. QED
    BY <1>1, InvariantPInv, PTL
-----------------------------------------------------------------------------
\* The sum of the amounts of a set of rows, which is how Credit adds them up, ...
Sum(T) == MapThenSumSet(LAMBDA t : t.amount, T)

\* ... is the value at T of the function f that sums up the subsets of T, one row
\* after the other.
Some(T) == CHOOSE t \in T : TRUE

SumsUp(f, T) ==
    f = [s \in SUBSET T |-> IF s = {} THEN 0 ELSE Some(s).amount + f[s \ {Some(s)}]]

\* Of some subsets of a finite set, one contains no other.
LEMMA MinimalSubset ==
    ASSUME NEW T, IsFiniteSet(T), NEW B \in SUBSET SUBSET T, B # {}
    PROVE  \E s \in B : \A t \in B : t \subseteq s => t = s
  <1>1. IsWellFoundedOn(StrictSubsetOrdering(T), SUBSET T)
    BY FS_StrictSubsetOrderingWellFounded, FS_FiniteSubsetsOfFinite
  <1>2. PICK s \in B : \A t \in B : ~ (<<t, s>> \in StrictSubsetOrdering(T))
    BY <1>1, WFMin
  <1>3. \A t \in B : t \subseteq s => t = s
    BY <1>2 DEF StrictSubsetOrdering
  <1>4. QED
    BY <1>3

\* Functions that sum up agree.
LEMMA SumsUpUnique ==
    ASSUME NEW S, NEW T, IsFiniteSet(S), NEW f, NEW g, SumsUp(f, S), SumsUp(g, T),
           NEW u \in SUBSET (S \cap T)
    PROVE  f[u] = g[u]
  <1> DEFINE B == {s \in SUBSET (S \cap T) : f[s] # g[s]}
  <1>1. SUFFICES ASSUME B # {} PROVE FALSE
    OBVIOUS
  <1>2. PICK s \in B : \A t \in B : t \subseteq s => t = s
    <2>1. B \in SUBSET SUBSET S
      OBVIOUS
    <2> HIDE DEF B
    <2>2. QED
      BY <1>1, <2>1, MinimalSubset
  <1>3. s \in SUBSET S /\ s \in SUBSET T /\ f[s] # g[s]
    OBVIOUS
  <1>4. /\ f[s] = IF s = {} THEN 0 ELSE Some(s).amount + f[s \ {Some(s)}]
        /\ g[s] = IF s = {} THEN 0 ELSE Some(s).amount + g[s \ {Some(s)}]
    BY <1>3 DEF SumsUp
  <1>5. s # {} /\ Some(s) \in s
    BY <1>3, <1>4 DEF Some
  <1>6. s \ {Some(s)} \in SUBSET (S \cap T) /\ s \ {Some(s)} # s /\ s \ {Some(s)} \subseteq s
    BY <1>3, <1>5
  <1>7. f[s \ {Some(s)}] = g[s \ {Some(s)}]
    BY <1>2, <1>6
  <1>8. QED
    BY <1>3, <1>4, <1>5, <1>7

LEMMA SumsUpExists ==
    ASSUME NEW T, IsFiniteSet(T)
    PROVE  \E f : SumsUp(f, T)
  <1> DEFINE B == {s \in SUBSET T : ~ \E f : SumsUp(f, s)}
  <1>1. SUFFICES ASSUME B # {} PROVE FALSE
    OBVIOUS
  <1>2. PICK s \in B : \A t \in B : t \subseteq s => t = s
    <2>1. B \in SUBSET SUBSET T
      OBVIOUS
    <2> HIDE DEF B
    <2>2. QED
      BY <1>1, <2>1, MinimalSubset
  <1> DEFINE H(t) == CHOOSE f : SumsUp(f, t)
             val(t) == IF t = {} THEN 0 ELSE Some(t).amount + H(t \ {Some(t)})[t \ {Some(t)}]
             g == [t \in SUBSET s |-> val(t)]
  <1>3. s \in SUBSET T /\ ~ \E f : SumsUp(f, s)
    OBVIOUS
  <1>4. \A t \in SUBSET s : t # s => SumsUp(H(t), t)
    <2>1. \A t \in SUBSET s : t # s => \E f : SumsUp(f, t)
      BY <1>2, <1>3
    <2>2. QED
      BY <2>1
  <1>5. ASSUME NEW t \in SUBSET s, t # {}
        PROVE  g[t] = Some(t).amount + g[t \ {Some(t)}]
    <2> DEFINE u == t \ {Some(t)}
    <2>1. u \in SUBSET s /\ u # s /\ IsFiniteSet(u)
      <3>1. Some(t) \in t
        BY <1>5 DEF Some
      <3>2. IsFiniteSet(s)
        BY <1>3, FS_Subset
      <3>3. QED
        BY <3>1, <3>2, FS_Subset
    <2>2. SumsUp(H(u), u)
      BY <1>4, <2>1
    <2> HIDE DEF u, H
    <2>3. H(u)[u] = IF u = {} THEN 0 ELSE Some(u).amount + H(u)[u \ {Some(u)}]
      BY <2>2 DEF SumsUp
    <2>4. H(u)[u] = val(u)
      <3>1. CASE u = {}
        BY <2>3, <3>1
      <3>2. CASE u # {}
        <4> DEFINE w == u \ {Some(u)}
        <4>1. Some(u) \in u
          BY <3>2 DEF Some
        <4>2. w \in SUBSET s /\ w # s /\ w \in SUBSET (u \cap w)
          BY <4>1, <2>1
        <4>3. SumsUp(H(w), w)
          BY <1>4, <4>2
        <4> HIDE DEF w
        <4>4. H(u)[w] = H(w)[w]
          BY <2>1, <2>2, <4>2, <4>3, SumsUpUnique
        <4>5. QED
          BY <2>3, <3>2, <4>4 DEF w
      <3>3. QED
        BY <3>1, <3>2
    <2>5. g[t] = Some(t).amount + H(u)[u]
      BY <1>5 DEF u
    <2>6. g[u] = val(u)
      BY <2>1
    <2>7. g[t] = Some(t).amount + g[u]
      BY <2>4, <2>5, <2>6
    <2>8. QED
      BY <2>7 DEF u
  <1>6. g[{}] = 0
    OBVIOUS
  <1> DEFINE h == [t \in SUBSET s |-> IF t = {} THEN 0 ELSE Some(t).amount + g[t \ {Some(t)}]]
  <1>7. \A t \in SUBSET s : g[t] = h[t]
    BY <1>5, <1>6
  <1>8. g = h
    BY <1>7
  <1>9. SumsUp(g, s)
    BY <1>8 DEF SumsUp
  <1>10. QED
    BY <1>3, <1>9

LEMMA SumIs ==
    ASSUME NEW T, IsFiniteSet(T)
    PROVE  \E f : SumsUp(f, T) /\ Sum(T) = f[T]
  <1>1. Sum(T) = (CHOOSE f : SumsUp(f, T))[T]
    BY DEF Sum, MapThenSumSet, MapThenFoldSet, SumsUp, Some
  <1>2. QED
    BY <1>1, SumsUpExists

\* Whole amounts have a whole sum, in which it does not matter what comes first.
LEMMA SumsUpInt ==
    ASSUME NEW T, IsFiniteSet(T), \A t \in T : t.amount \in Int, NEW f, SumsUp(f, T)
    PROVE  \A s \in SUBSET T : f[s] \in Int
  <1> DEFINE B == {s \in SUBSET T : f[s] \notin Int}
  <1>1. SUFFICES ASSUME B # {} PROVE FALSE
    OBVIOUS
  <1>2. PICK s \in B : \A t \in B : t \subseteq s => t = s
    <2>1. B \in SUBSET SUBSET T
      OBVIOUS
    <2> HIDE DEF B
    <2>2. QED
      BY <1>1, <2>1, MinimalSubset
  <1>3. f[s] = IF s = {} THEN 0 ELSE Some(s).amount + f[s \ {Some(s)}]
    BY <1>2 DEF SumsUp
  <1>4. s # {} /\ Some(s) \in s /\ s \in SUBSET T
    BY <1>2, <1>3 DEF Some
  <1>5. s \ {Some(s)} \in SUBSET T /\ s \ {Some(s)} # s /\ s \ {Some(s)} \subseteq s
    BY <1>4
  <1>6. f[s \ {Some(s)}] \in Int
    BY <1>2, <1>5
  <1>7. Some(s).amount \in Int
    BY <1>4
  <1>8. QED
    BY <1>2, <1>3, <1>4, <1>6, <1>7

LEMMA SumsUpAnyOrder ==
    ASSUME NEW T, IsFiniteSet(T), \A t \in T : t.amount \in Int, NEW f, SumsUp(f, T)
    PROVE  \A s \in SUBSET T : \A x \in s : f[s] = x.amount + f[s \ {x}]
  <1> DEFINE B == {s \in SUBSET T : \E x \in s : f[s] # x.amount + f[s \ {x}]}
  <1>1. SUFFICES ASSUME B # {} PROVE FALSE
    OBVIOUS
  <1>2. PICK s \in B : \A t \in B : t \subseteq s => t = s
    <2>1. B \in SUBSET SUBSET T
      OBVIOUS
    <2> HIDE DEF B
    <2>2. QED
      BY <1>1, <2>1, MinimalSubset
  <1>3. PICK x \in s : f[s] # x.amount + f[s \ {x}]
    BY <1>2
  <1> DEFINE y == Some(s)
  <1>4. s # {} /\ y \in s /\ s \in SUBSET T
    BY <1>2, <1>3 DEF Some
  <1>5. f[s] = y.amount + f[s \ {y}]
    BY <1>4 DEF SumsUp
  <1>6. x # y
    BY <1>3, <1>5
  <1> HIDE DEF y
  <1>7. f[s \ {y}] = x.amount + f[(s \ {y}) \ {x}]
    <2>1. s \ {y} \in SUBSET T /\ s \ {y} # s /\ x \in s \ {y}
      BY <1>4, <1>6
    <2>2. QED
      BY <1>2, <2>1
  <1>8. f[s \ {x}] = y.amount + f[(s \ {x}) \ {y}]
    <2>1. s \ {x} \in SUBSET T /\ s \ {x} # s /\ y \in s \ {x}
      BY <1>4, <1>6
    <2>2. QED
      BY <1>2, <2>1
  <1>9. (s \ {x}) \ {y} = (s \ {y}) \ {x} /\ (s \ {x}) \ {y} \in SUBSET T
    BY <1>4
  <1>10. f[(s \ {x}) \ {y}] \in Int /\ x.amount \in Int /\ y.amount \in Int
    BY <1>4, <1>9, SumsUpInt
  <1>11. \A a, b, c \in Int : a + (b + c) = b + (a + c)
    OBVIOUS
  <1>12. y.amount + (x.amount + f[(s \ {x}) \ {y}]) = x.amount + (y.amount + f[(s \ {x}) \ {y}])
    BY <1>10, <1>11
  <1>13. f[s] = x.amount + f[s \ {x}]
    BY <1>5, <1>7, <1>8, <1>9, <1>12
  <1>14. QED
    BY <1>3, <1>13

\* What adding a row does to the sum.
LEMMA SumAdd ==
    ASSUME NEW T, IsFiniteSet(T), \A t \in T : t.amount \in Int,
           NEW x, x \notin T, x.amount \in Int
    PROVE  Sum(T) \in Int /\ Sum(T \cup {x}) = Sum(T) + x.amount
  <1> DEFINE S == T \cup {x}
  <1>1. IsFiniteSet(S) /\ \A t \in S : t.amount \in Int
    BY FS_AddElement
  <1>2. S \ {x} = T /\ T \in SUBSET S /\ x \in S /\ T \in SUBSET (T \cap S)
    OBVIOUS
  <1> HIDE DEF S
  <1>3. PICK f : SumsUp(f, S) /\ Sum(S) = f[S]
    BY <1>1, SumIs
  <1>4. PICK g : SumsUp(g, T) /\ Sum(T) = g[T]
    BY SumIs
  <1>5. f[S] = x.amount + f[T]
    BY <1>1, <1>2, <1>3, SumsUpAnyOrder
  <1>6. f[T] = g[T]
    BY <1>2, <1>3, <1>4, SumsUpUnique
  <1>7. g[T] \in Int
    BY <1>4, SumsUpInt
  <1>8. QED
    BY <1>3, <1>4, <1>5, <1>6, <1>7 DEF S

LEMMA SumEmpty == Sum({}) = 0
  <1>1. PICK f : SumsUp(f, {}) /\ Sum({}) = f[{}]
    BY SumIs, FS_EmptySet
  <1>2. QED
    BY <1>1 DEF SumsUp
-----------------------------------------------------------------------------
\* The dearest option costs MaxCost.
LEMMA MaxCostProperties ==
    /\ MaxCost \in Nat
    /\ \A o \in Option : Cost[o] \in Nat /\ Cost[o] <= MaxCost
  <1> USE CreditAssumption
  <1> DEFINE S == {Cost[o] : o \in Option}
  <1>1. PICK dearest \in Option : \A o \in Option : Cost[o] <= Cost[dearest]
    OBVIOUS
  <1>2. \A o \in Option : Cost[o] \in Nat
    OBVIOUS
  <1>3. \E x \in S : \A y \in S : x >= y
    BY <1>1, <1>2
  <1>4. MaxCost = CHOOSE x \in S : \A y \in S : x >= y
    BY DEF MaxCost, Max
  <1> HIDE DEF S
  <1>5. MaxCost \in S /\ \A y \in S : MaxCost >= y
    BY <1>3, <1>4
  <1>6. QED
    BY <1>2, <1>5 DEF S

\* What a new transaction does to the credit of the users.
LEMMA CreditAdd ==
    ASSUME TypeOK, IsFiniteSet(transactions), NEW x \in Transaction,
           transactions' = transactions \cup {x}, NEW u \in User
    PROVE  /\ Credit(u) \in Int
           /\ Credit(u)' = Credit(u) \/ (x.user = u /\ Credit(u)' = Credit(u) + x.amount)
  <1> DEFINE T == {t \in transactions : t.user = u}
  <1>1. Credit(u) = Sum(T) /\ Credit(u)' = Sum({t \in transactions' : t.user = u})
    <2>1. Credit(u) = Sum(T)
      BY DEF Credit, Sum
    <2>2. Credit(u)' = Sum({t \in transactions' : t.user = u})
      BY DEF Credit, Sum, MapThenSumSet, MapThenFoldSet
    <2>3. QED
      BY <2>1, <2>2
  <1>2. IsFiniteSet(T) /\ \A t \in T : t.amount \in Int
    BY FS_Subset DEF TypeOK, Transaction
  <1>3. x.amount \in Int
    BY DEF Transaction
  <1>4. CASE x.user # u \/ x \in transactions
    <2>1. {t \in transactions' : t.user = u} = T
      BY <1>4
    <2>2. Sum(T) \in Int
      <3>1. PICK f : SumsUp(f, T) /\ Sum(T) = f[T]
        BY <1>2, SumIs
      <3>2. QED
        BY <1>2, <3>1, SumsUpInt
    <2>3. QED
      BY <1>1, <2>1, <2>2
  <1>5. CASE x.user = u /\ x \notin transactions
    <2>1. {t \in transactions' : t.user = u} = T \cup {x} /\ x \notin T
      BY <1>5
    <2>2. Sum(T) \in Int /\ Sum(T \cup {x}) = Sum(T) + x.amount
      BY <1>2, <1>3, <2>1, SumAdd
    <2>3. QED
      BY <1>1, <1>5, <2>1, <2>2
  <1>6. QED
    BY <1>4, <1>5

LEMMA CreditInt ==
    ASSUME TypeOK, IsFiniteSet(transactions), NEW u \in User
    PROVE  Credit(u) \in Int
  <1> DEFINE T == {t \in transactions : t.user = u}
  <1>1. Credit(u) = Sum(T)
    BY DEF Credit, Sum
  <1>2. IsFiniteSet(T) /\ \A t \in T : t.amount \in Int
    BY FS_Subset DEF TypeOK, Transaction
  <1>3. PICK f : SumsUp(f, T) /\ Sum(T) = f[T]
    BY <1>2, SumIs
  <1>4. QED
    BY <1>1, <1>2, <1>3, SumsUpInt

\* The requests that are past the check of the credit of u, and have not spent it.
Spending(u) == {r \in InFlight : req[r].phase \in {"promotions", "spend"} /\ Payer(r) = u}

\* With n requests about to spend, the credit c is enough for one of them, whose
\* cost is cost, if all the workers but n took MaxCost off it before.
Suffices(c, n, cost) == c >= cost + (n - Workers) * MaxCost

\* The inductive invariant of OverdraftBounded: of the requests about to spend,
\* all but one take at most MaxCost off the credit, and that one no more than was
\* there for it.
Bounded(u) ==
    /\ Credit(u) >= -((Workers - 1) * MaxCost)
    /\ Spending(u) # {} =>
          \E r \in Spending(u) : Suffices(Credit(u), Cardinality(Spending(u)), Cost[req[r].option])

OInv == \A u \in User : Bounded(u)

\* The arithmetic: the request for which the credit suffices spends, another one
\* does, or one of them ends.
LEMMA SpendBounds ==
    ASSUME NEW c \in Int, NEW n \in Nat, n >= 1, NEW cost \in 0..MaxCost, Suffices(c, n, cost)
    PROVE  /\ c - cost >= -((Workers - 1) * MaxCost)
           /\ \A x \in 0..MaxCost : /\ Suffices(c - cost, n - 1, x)
                                    /\ Suffices(c, n - 1, x)
                                    /\ Suffices(c - x, n - 1, cost)
                                    /\ n >= 2 => c - x >= -((Workers - 1) * MaxCost)
  <1> USE CreditAssumption, MaxCostProperties
  <1> DEFINE M == MaxCost
             D == (n - Workers) * M
  <1>1. M \in Nat /\ Workers \in Nat /\ D \in Int
    OBVIOUS
  <1>2. ((n - 1) - Workers) * M = D - M
    BY <1>1
  <1>3. -((Workers - 1) * M) = (1 - Workers) * M
    BY <1>1
  <1>4. D >= (1 - Workers) * M
    <2>1. D = (1 - Workers) * M + (n - 1) * M
      BY <1>1
    <2>2. (n - 1) * M >= 0
      BY <1>1
    <2>3. (1 - Workers) * M \in Int /\ (n - 1) * M \in Int
      BY <1>1
    <2>4. QED
      BY <2>1, <2>2, <2>3
  <1>5. n >= 2 => D >= (1 - Workers) * M + M
    <2>1. D = ((1 - Workers) * M + M) + (n - 2) * M
      BY <1>1
    <2>2. n >= 2 => (n - 2) * M >= 0
      BY <1>1
    <2>3. (1 - Workers) * M \in Int /\ (n - 2) * M \in Int
      BY <1>1
    <2>4. QED
      BY <2>1, <2>2, <2>3, <1>1
  <1>6. c >= cost + D
    BY DEF Suffices
  <1>7. (1 - Workers) * M \in Int
    BY <1>1
  <1>8. ASSUME NEW x \in 0..MaxCost
        PROVE  /\ c - cost >= x + (D - M) /\ c >= x + (D - M) /\ c - x >= cost + (D - M)
               /\ n >= 2 => c - x >= (1 - Workers) * M
    <2> HIDE DEF D
    <2>1. x <= M /\ x >= 0 /\ cost <= M /\ cost >= 0
      BY <1>1
    <2>2. QED
      BY <1>1, <1>5, <1>6, <1>7, <2>1
  <1>9. c - cost >= (1 - Workers) * M
    <2> HIDE DEF D
    <2>1. QED
      BY <1>1, <1>4, <1>6, <1>7
  <1>10. QED
    BY <1>2, <1>3, <1>8, <1>9 DEF Suffices

\* Steps that leave those who are about to spend alone and take no credit off.
LEMMA OInvKept ==
    ASSUME NEW u \in User, Bounded(u), Credit(u) \in Int, Credit(u)' \in Int,
           Credit(u)' >= Credit(u), Spending(u)' = Spending(u),
           \A r \in Spending(u) : req'[r].option = req[r].option /\ Cost[req[r].option] \in Nat,
           IsFiniteSet(Spending(u))
    PROVE  Bounded(u)'
  <1> USE CreditAssumption, MaxCostProperties
  <1>1. -((Workers - 1) * MaxCost) \in Int
    OBVIOUS
  <1>2. Credit(u)' >= -((Workers - 1) * MaxCost)
    BY <1>1 DEF Bounded
  <1>3. ASSUME Spending(u) # {}
        PROVE  \E r \in Spending(u)' : Suffices(Credit(u)', Cardinality(Spending(u)'), Cost[req'[r].option])
    <2>1. PICK r \in Spending(u) : Suffices(Credit(u), Cardinality(Spending(u)), Cost[req[r].option])
      BY <1>3 DEF Bounded
    <2>2. Cardinality(Spending(u)) \in Nat
      BY FS_CardinalityType
    <2>3. PICK n \in Nat : n = Cardinality(Spending(u))
      BY <2>2
    <2>4. Cost[req[r].option] + (n - Workers) * MaxCost \in Int
      BY <2>1
    <2>5. Suffices(Credit(u)', n, Cost[req[r].option])
      BY <2>1, <2>3, <2>4 DEF Suffices
    <2>6. QED
      BY <2>1, <2>3, <2>5
  <1>4. QED
    BY <1>2, <1>3 DEF Bounded, Suffices

LEMMA InitOInv == Init => OInv
  <1> SUFFICES ASSUME Init, NEW u \in User PROVE Bounded(u)
    BY DEF OInv
  <1> USE CreditAssumption, MaxCostProperties
  <1>1. {t \in transactions : t.user = u} = {}
    BY DEF Init
  <1>2. Credit(u) = 0
    BY <1>1, SumEmpty DEF Credit, Sum
  <1>3. Spending(u) = {}
    BY DEF Init, Spending, InFlight
  <1>4. (Workers - 1) * MaxCost \in Nat
    <2>1. Workers - 1 \in Nat /\ MaxCost \in Nat
      OBVIOUS
    <2>2. QED
      BY <2>1
  <1>5. QED
    BY <1>2, <1>3, <1>4 DEF Bounded

LEMMA StepOInv == TInv /\ TInv' /\ CInv /\ CInv' /\ PInv /\ PInv' /\ OInv /\ [Next]_vars => OInv'
  <1> SUFFICES ASSUME TInv, TInv', CInv, CInv', PInv, PInv', OInv, [Next]_vars, NEW u \in User
               PROVE  Bounded(u)'
    BY DEF OInv
  <1> USE CreditAssumption, MaxCostProperties
  <1>0. TypeOK /\ TypeOK' /\ IsFiniteSet(transactions) /\ IsFiniteSet(transactions') /\ Bounded(u)
    BY DEF TInv, CInv, OInv
  <1>a. Credit(u) \in Int
    BY <1>0, CreditInt
  <1>b. /\ IsFiniteSet(Spending(u)) /\ Cardinality(Spending(u)) \in Nat
        /\ IsFiniteSet(Spending(u)') /\ Cardinality(Spending(u)') \in Nat
        /\ Cardinality(Spending(u)') <= Workers
    <2>1. Spending(u) \subseteq InFlight /\ Spending(u)' \subseteq InFlight'
      BY DEF Spending
    <2>2. /\ IsFiniteSet(InFlight) /\ IsFiniteSet(InFlight') /\ Cardinality(InFlight') <= Workers
          /\ Cardinality(InFlight') \in Nat
      BY FS_CardinalityType DEF PInv
    <2>3. QED
      BY <2>1, <2>2, FS_Subset, FS_CardinalityType
  <1>c. \A r \in Spending(u) : req[r] \in Promote /\ Cost[req[r].option] \in 0..MaxCost
    <2>1. \A r \in Spending(u) : req[r] \in Promote
      BY <1>0, RequestTyped DEF Spending, InFlight
    <2>2. QED
      BY <2>1 DEF Promote
  <1>d. UNCHANGED transactions => Credit(u)' = Credit(u)
    BY DEF Credit, MapThenSumSet, MapThenFoldSet
  <1>e. UNCHANGED req => Spending(u)' = Spending(u)
    BY DEF Spending, InFlight, Payer
  <1>1. ASSUME UNCHANGED <<transactions, req>> PROVE Bounded(u)'
    BY <1>0, <1>1, <1>a, <1>b, <1>c, <1>d, <1>e, OInvKept
  <1>2. CASE Earn
    <2>1. UNCHANGED <<transactions, req>>
      BY <1>0, <1>2, EarnEnqueues DEF Enqueue
    <2>2. QED
      BY <1>1, <2>1
  <1>3. CASE TakeJob \/ CountUse \/ JobFails \/ UNCHANGED vars
    BY <1>1, <1>3 DEF TakeJob, CountUse, JobFails, vars
  <1>4. CASE GrantReward
    <2>1. transactions' = transactions \cup {Reward} /\ Reward.amount = 1 /\ UNCHANGED req
      BY <1>0, <1>4, GrantTyped
    <2>2. Reward \in Transaction
      BY <1>0, <2>1 DEF TypeOK
    <2>3. Credit(u)' = Credit(u) \/ Credit(u)' = Credit(u) + 1
      BY <1>0, <2>1, <2>2, CreditAdd
    <2>4. Credit(u)' \in Int /\ Credit(u)' >= Credit(u)
      BY <1>a, <2>3
    <2>5. QED
      BY <1>0, <1>a, <1>b, <1>c, <1>e, <2>1, <2>4, OInvKept
  <1>5. ASSUME NEW r \in Request, Handle(r) \/ Abort(r) PROVE Bounded(u)'
    <2> DEFINE S == Spending(u)
               n == Cardinality(S)
    \* The credit and those about to spend stay as they are, or r ends.
    <2>1. ASSUME UNCHANGED transactions, \A q \in Request \ {r} : req'[q] = req[q], r \notin S'
          PROVE  Bounded(u)'
      <3>1. S' = S \ {r}
        BY <2>1 DEF Spending, InFlight, Payer
      <3>2. \A q \in S' : q \in S /\ req'[q] = req[q]
        BY <2>1, <3>1 DEF Spending, InFlight
      <3>3. Credit(u)' = Credit(u)
        BY <2>1, <1>d
      <3>4. CASE r \notin S
        <4>1. S' = S
          BY <3>1, <3>4
        <4>2. \A q \in S : req'[q].option = req[q].option /\ Cost[req[q].option] \in Nat
          BY <3>2, <4>1, <1>c
        <4>3. QED
          BY <1>0, <1>a, <1>b, <3>3, <4>1, <4>2, OInvKept
      <3>5. CASE r \in S
        <4>1. Cardinality(S') = n - 1 /\ n >= 1
          <5>1. Cardinality(S \ {r}) = n - 1
            BY <1>b, <3>5, FS_RemoveElement
          <5>2. QED
            BY <1>b, <3>1, <5>1
        <4>2. PICK w \in S : Suffices(Credit(u), n, Cost[req[w].option])
          BY <1>0, <3>5 DEF Bounded
        <4>3. ASSUME S' # {}
              PROVE  \E q \in S' : Suffices(Credit(u)', Cardinality(S'), Cost[req'[q].option])
          <5>1. PICK q \in S' : TRUE
            BY <4>3
          <5>2. q \in S /\ req'[q] = req[q] /\ Cost[req[q].option] \in 0..MaxCost
            BY <3>2, <1>c
          <5>3. Suffices(Credit(u), n - 1, Cost[req[q].option])
            BY <1>a, <1>b, <1>c, <4>1, <4>2, <5>2, SpendBounds
          <5>4. QED
            BY <3>3, <4>1, <5>2, <5>3
        <4>4. QED
          BY <1>0, <3>3, <4>3 DEF Bounded, Suffices
      <3>6. QED
        BY <3>4, <3>5
    <2>2. ASSUME Finish(r), UNCHANGED transactions PROVE Bounded(u)'
      <3>1. \A q \in Request \ {r} : req'[q] = req[q]
        BY <1>0, <2>2, FinishTyped
      <3>2. r \notin S'
        BY <1>0, <2>2, FinishTyped DEF Spending, InFlight
      <3>3. QED
        BY <2>1, <2>2, <3>1, <3>2
    <2>3. ASSUME NEW s \in Shout, NEW o \in Option, PromoteShout(r, s, o) PROVE Bounded(u)'
      <3>1. /\ req'[r].phase = "credit" /\ \A q \in Request \ {r} : req'[q] = req[q]
            /\ UNCHANGED transactions
        BY <1>0, <2>3 DEF PromoteShout, TypeOK
      <3>2. r \notin S'
        BY <3>1 DEF Spending
      <3>3. QED
        BY <2>1, <3>1, <3>2
    <2>4. ASSUME CheckCredit(r) PROVE Bounded(u)'
      <3>1. req[r] \in Promote /\ UNCHANGED transactions /\ req[r].phase = "credit"
        BY <1>0, <2>4, RequestTyped DEF CheckCredit, At
      <3>2. CASE EnoughCredit(r)
        <4>1. Goto(r, "promotions")
          BY <2>4, <3>2 DEF CheckCredit
        <4>2. /\ req'[r] \in Promote /\ req'[r].phase = "promotions"
              /\ req'[r].shout = req[r].shout /\ req'[r].option = req[r].option
              /\ \A q \in Request \ {r} : req'[q] = req[q]
          BY <1>0, <3>1, <4>1, GotoPromote
        <4>3. CASE Payer(r) # u
          <5>1. r \notin S'
            BY <4>2, <4>3 DEF Spending, Payer
          <5>2. QED
            BY <2>1, <3>1, <4>2, <5>1
        <4>4. CASE Payer(r) = u
          <5>1. r \in S'
            BY <4>2, <4>4 DEF Spending, Payer, InFlight, NotMade, Done
          <5>2. Credit(u)' = Credit(u) /\ Credit(u) >= Cost[req'[r].option]
            BY <1>d, <3>1, <3>2, <4>2, <4>4 DEF EnoughCredit
          <5>3. Cost[req'[r].option] \in Nat
            BY <4>2 DEF Promote
          <5>4. (Cardinality(S') - Workers) * MaxCost <= 0 /\ (Cardinality(S') - Workers) * MaxCost \in Int
            <6>1. \A k \in Int, m \in Nat : k <= 0 => k * m <= 0 /\ k * m \in Int
              OBVIOUS
            <6>2. Cardinality(S') - Workers \in Int /\ Cardinality(S') - Workers <= 0
              BY <1>b
            <6>3. QED
              BY <6>1, <6>2
          <5>5. Suffices(Credit(u)', Cardinality(S'), Cost[req'[r].option])
            <6> HIDE DEF S
            <6>1. QED
              BY <1>a, <5>2, <5>3, <5>4 DEF Suffices
          <5>6. QED
            BY <1>0, <5>1, <5>2, <5>5 DEF Bounded, Suffices
        <4>5. QED
          BY <4>3, <4>4
      <3>3. CASE ~ EnoughCredit(r)
        BY <2>2, <2>4, <3>1, <3>3 DEF CheckCredit
      <3>4. QED
        BY <3>2, <3>3
    <2>5. ASSUME CheckPromotions(r) PROVE Bounded(u)'
      <3>1. /\ req[r] \in Promote /\ UNCHANGED transactions /\ req[r].phase = "promotions"
            /\ Goto(r, "spend") \/ Finish(r)
        BY <1>0, <2>5, RequestTyped DEF CheckPromotions, At
      <3>2. CASE Goto(r, "spend")
        <4>1. /\ req'[r] \in Promote /\ req'[r].phase = "spend"
              /\ req'[r].shout = req[r].shout /\ req'[r].option = req[r].option
              /\ \A q \in Request \ {r} : req'[q] = req[q]
          BY <1>0, <3>1, <3>2, GotoPromote
        <4>2. S' = S
          <5>1. r \in InFlight /\ r \in InFlight'
            BY <3>1, <4>1 DEF InFlight, NotMade, Done
          <5>2. InFlight' = InFlight
            BY <4>1, <5>1 DEF InFlight
          <5>3. Payer(r)' = Payer(r)
            BY <4>1 DEF Payer
          <5>4. ASSUME NEW q \in InFlight PROVE q \in S' <=> q \in S
            <6>1. CASE q = r
              BY <3>1, <4>1, <5>1, <5>2, <5>3, <6>1 DEF Spending
            <6>2. CASE q # r
              BY <4>1, <5>2, <6>2 DEF Spending, Payer, InFlight
            <6>3. QED
              BY <6>1, <6>2
          <5>5. S \subseteq InFlight /\ S' \subseteq InFlight
            BY <5>2 DEF Spending
          <5>6. QED
            BY <5>4, <5>5
        <4>3. \A q \in S : req'[q].option = req[q].option /\ Cost[req[q].option] \in Nat
          BY <4>1, <1>c DEF Spending, InFlight
        <4>4. Credit(u)' = Credit(u)
          BY <1>d, <3>1
        <4>5. QED
          BY <1>0, <1>a, <1>b, <4>2, <4>3, <4>4, OInvKept
      <3>3. QED
        BY <2>2, <3>1, <3>2
    <2>6. ASSUME SpendCredit(r) PROVE Bounded(u)'
      <3>1. /\ req[r] \in Promote /\ req[r].phase = "spend" /\ Goto(r, "promote")
            /\ transactions' = transactions \cup {Payment(r)}
            /\ Payment(r).user = Payer(r) /\ Payment(r).amount = -Cost[req[r].option]
        BY <1>0, <2>6, SpendTyped DEF SpendCredit, At
      <3>2. Payment(r) \in Transaction /\ r \in InFlight
        BY <1>0, <3>1, RequestTyped DEF TypeOK
      <3>3. req'[r].phase = "promote" /\ \A q \in Request \ {r} : req'[q] = req[q]
        BY <1>0, <3>1, GotoPromote
      <3>4. S' = S \ {r} /\ \A q \in S' : q \in S /\ q # r /\ req'[q] = req[q]
        BY <3>3 DEF Spending, InFlight, Payer
      <3>5. \/ Credit(u)' = Credit(u)
            \/ Payer(r) = u /\ Credit(u)' = Credit(u) + (-Cost[req[r].option])
        BY <1>0, <3>1, <3>2, CreditAdd
      <3>6. CASE Payer(r) # u
        <4>1. r \notin S
          BY <3>6 DEF Spending
        <4>2. S' = S /\ Credit(u)' = Credit(u)
          BY <3>4, <3>5, <3>6, <4>1
        <4>3. \A q \in S : req'[q].option = req[q].option /\ Cost[req[q].option] \in Nat
          BY <3>4, <4>2, <1>c
        <4>4. QED
          BY <1>0, <1>a, <1>b, <4>2, <4>3, OInvKept
      <3>7. CASE Payer(r) = u
        <4>1. r \in S
          BY <3>1, <3>2, <3>7 DEF Spending
        <4>2. Cardinality(S') = n - 1 /\ n >= 1
          <5>1. Cardinality(S \ {r}) = n - 1
            BY <1>b, <4>1, FS_RemoveElement
          <5>2. QED
            BY <1>b, <3>4, <5>1
        <4>3. PICK w \in S : Suffices(Credit(u), n, Cost[req[w].option])
          BY <1>0, <4>1 DEF Bounded
        <4>4. PICK cost \in 0..MaxCost, x \in 0..MaxCost :
                 cost = Cost[req[w].option] /\ x = Cost[req[r].option]
          BY <1>c, <4>1
        <4>5. Credit(u)' = Credit(u) \/ Credit(u)' = Credit(u) - x
          BY <1>a, <3>5, <4>4
        <4>6. /\ Credit(u) - cost >= -((Workers - 1) * MaxCost)
              /\ \A y \in 0..MaxCost : /\ Suffices(Credit(u) - cost, n - 1, y)
                                       /\ Suffices(Credit(u), n - 1, y)
                                       /\ Suffices(Credit(u) - y, n - 1, cost)
                                       /\ n >= 2 => Credit(u) - y >= -((Workers - 1) * MaxCost)
          BY <1>a, <1>b, <4>2, <4>3, <4>4, SpendBounds
        <4>7. Credit(u)' >= -((Workers - 1) * MaxCost)
          <5>1. CASE Credit(u)' = Credit(u)
            BY <1>0, <5>1 DEF Bounded
          <5>2. CASE Credit(u)' = Credit(u) - x
            <6>1. CASE w = r
              BY <4>4, <4>6, <5>2, <6>1
            <6>2. CASE w # r
              <7>1. n >= 2
                <8>1. w \in S' /\ S' # {}
                  BY <3>4, <4>3, <6>2
                <8>2. Cardinality(S') # 0
                  BY <1>b, <8>1, FS_EmptySet
                <8>3. QED
                  BY <1>b, <4>2, <8>2
              <7>2. QED
                BY <4>4, <4>6, <5>2, <7>1
            <6>3. QED
              BY <6>1, <6>2
          <5>3. QED
            BY <4>5, <5>1, <5>2
        <4>8. ASSUME S' # {}
              PROVE  \E q \in S' : Suffices(Credit(u)', Cardinality(S'), Cost[req'[q].option])
          <5>1. PICK q \in S' : TRUE
            BY <4>8
          <5>2. q \in S /\ req'[q] = req[q] /\ Cost[req[q].option] \in 0..MaxCost
            BY <3>4, <1>c
          <5>3. CASE Credit(u)' = Credit(u)
            <6>1. Suffices(Credit(u)', n - 1, Cost[req'[q].option])
              BY <4>6, <5>2, <5>3
            <6>2. QED
              BY <4>2, <6>1
          <5>4. CASE Credit(u)' = Credit(u) - x /\ w = r
            <6>1. Suffices(Credit(u)', n - 1, Cost[req'[q].option])
              BY <4>4, <4>6, <5>2, <5>4
            <6>2. QED
              BY <4>2, <6>1
          <5>5. CASE Credit(u)' = Credit(u) - x /\ w # r
            <6>1. w \in S' /\ req'[w] = req[w]
              BY <3>4, <4>3, <5>5
            <6>2. Suffices(Credit(u)', n - 1, Cost[req'[w].option])
              BY <4>4, <4>6, <5>5, <6>1
            <6>3. QED
              BY <4>2, <6>1, <6>2
          <5>6. QED
            BY <4>5, <5>3, <5>4, <5>5
        <4>9. QED
          BY <4>7, <4>8 DEF Bounded, Suffices
      <3>8. QED
        BY <3>6, <3>7
    <2>7. ASSUME CreatePromotion(r) PROVE Bounded(u)'
      <3>1. req[r] \in Promote /\ UNCHANGED transactions /\ Goto(r, "notify")
        BY <1>0, <2>7, RequestTyped DEF CreatePromotion, At
      <3>2. req'[r].phase = "notify" /\ \A q \in Request \ {r} : req'[q] = req[q]
        BY <1>0, <3>1, GotoPromote
      <3>3. r \notin S'
        BY <3>2 DEF Spending
      <3>4. QED
        BY <2>1, <3>1, <3>2, <3>3
    <2>8. ASSUME NotifyPromotion(r) \/ CreateCode(r) \/ Abort(r) PROVE Bounded(u)'
      BY <2>2, <2>8 DEF NotifyPromotion, CreateCode, Abort
    <2>9. ASSUME NEW v \in User, GetInvitationCode(r, v) PROVE Bounded(u)'
      <3>1. /\ UNCHANGED transactions
            /\ \/ req' = [req EXCEPT ![r] = [phase |-> "create", user |-> v, code |-> 0]]
               \/ \E c \in DOMAIN codes :
                     req' = [req EXCEPT ![r] = [phase |-> "deactivate", user |-> v, code |-> c]]
               \/ req' = [req EXCEPT ![r] = Done]
        BY <2>9 DEF GetInvitationCode
      <3>2. /\ req'[r].phase \notin {"promotions", "spend"}
            /\ \A q \in Request \ {r} : req'[q] = req[q]
        BY <1>0, <3>1 DEF TypeOK, Done
      <3>3. r \notin S'
        BY <3>2 DEF Spending
      <3>4. QED
        BY <2>1, <3>1, <3>2, <3>3
    <2>10. ASSUME DeactivateCode(r) PROVE Bounded(u)'
      <3>1. req[r] \in CodeCall /\ Goto(r, "create") /\ UNCHANGED transactions
        BY <1>0, <2>10, RequestTyped DEF DeactivateCode, At
      <3>2. req'[r].phase = "create" /\ \A q \in Request \ {r} : req'[q] = req[q]
        BY <1>0, <3>1, GotoCreate
      <3>3. r \notin S'
        BY <3>2 DEF Spending
      <3>4. QED
        BY <2>1, <3>1, <3>2, <3>3
    <2>11. QED
      BY <1>5, <2>3, <2>4, <2>5, <2>6, <2>7, <2>8, <2>9, <2>10 DEF Handle
  <1>6. QED
    BY <1>2, <1>3, <1>4, <1>5 DEF Next, CreditWorker

THEOREM InvariantOInv == Spec => []OInv
  BY InitOInv, StepOInv, InvariantTInv, InvariantCInv, InvariantPInv, PTL DEF Spec

\* A user is in debt by no more than the other workers spend after the last check
\* of his credit: with one worker, by nothing.
THEOREM CreditOverdraftBounded == Spec => []OverdraftBounded
  <1>1. OInv => OverdraftBounded
    BY DEF OInv, Bounded, OverdraftBounded
  <1>2. QED
    BY <1>1, InvariantOInv, PTL
=============================================================================
