----------------------------- MODULE PushTokens -----------------------------
(***************************************************************************)
(* The devices that push notifications are sent to.  A client registers    *)
(* its push token for the user that is signed in on the phone; that takes  *)
(* four statements, each of which commits by itself, in requests that run  *)
(* at once.  The token of a phone also tells which guest used it before.   *)
(***************************************************************************)
EXTENDS Integers, FiniteSets

CONSTANTS
    Account,        \* the users with an account
    Guest,          \* the guest users that may be created
    Phone,          \* the push tokens; phones and tokens are one here
    Iphone,         \* the tokens of APNS, which are unique in the database
    Version,        \* the versions of the API ...
    Latest,         \* ... and the one that has guests
    Registrations,  \* bound on the requests that update tokens, numbered as they arrive
    Workers,        \* how many requests are handled at a time
    Nil

\* Assumed in Push.
PushTokensAssumption ==
    /\ Iphone \subseteq Phone /\ Latest \in Version /\ Nil \notin Phone \cup Version
    /\ Registrations \in Nat /\ Workers \in Nat \ {0}

Registration == 1..Registrations

Kind == {"apns", "gcm"}

KindOf(t) == IF t \in Iphone THEN "apns" ELSE "gcm"

User == Account \cup Guest

VARIABLES
    devices,        \* the rows of the two device tables, each with its Device row
    inserted,       \* how many rows were inserted: the next id
    guests,         \* the guests that were created
    reg,            \* the state of each request
    owner,          \* history: owner[t]: who registered t last
    raced           \* history: phones that two requests registered at once

pushTokensVars == <<devices, inserted, guests, reg, owner, raced>>

NotMade == [phase |-> "not_made"]

Done == [phase |-> "done"]

Underway ==
    [phase: {"find", "create", "own", "phone", "insert", "version"},
     user: User \cup {Nil}, kind: Kind, phone: Phone \cup {Nil}, version: Version, id: Nat]

PushTokensTypeOK ==
    /\ devices \subseteq [id: 1..inserted, user: Account \cup guests, phone: Phone,
                         version: Version \cup {Nil}]
    /\ inserted \in Nat
    /\ guests \subseteq Guest
    /\ reg \in [Registration -> Underway \cup {NotMade, Done}]
    /\ owner \in [Phone -> Account \cup guests \cup {Nil}]
    /\ raced \subseteq Phone

PushTokensInit ==
    /\ devices = {} /\ inserted = 0 /\ guests = {}
    /\ reg = [r \in Registration |-> NotMade]
    /\ owner = [t \in Phone |-> Nil] /\ raced = {}
-----------------------------------------------------------------------------
Registering == {r \in Registration : reg[r] \notin {NotMade, Done}}

In(r, phase) == reg[r].phase = phase

GoOn(r, phase) == reg' = [reg EXCEPT ![r].phase = phase]

Finish(r) == reg' = [reg EXCEPT ![r] = Done]

DevicesOf(u, kind) == {d \in devices : d.user = u /\ KindOf(d.phone) = kind}

DevicesWith(t) == {d \in devices : d.phone = t}

\* user.apns_device, user.gcm_device: first() orders by the id.
First(u, kind) ==
    CHOOSE d \in DevicesOf(u, kind) : \A e \in DevicesOf(u, kind) : d.id <= e.id

Arrives(r) ==
    /\ reg[r] = NotMade /\ \A q \in 1..r-1 : reg[q] # NotMade
    /\ Cardinality(Registering) < Workers

Arrive(r, phase, u, kind, t, v) ==
    /\ reg' = [reg EXCEPT ![r] =
         [phase |-> phase, user |-> u, kind |-> kind, phone |-> t, version |-> v, id |-> 0]]
    /\ raced' = raced \cup {s \in {t} \cap Phone : \E q \in Registering : reg[q].phone = s}
-----------------------------------------------------------------------------
\* The client of u registers its phone, ...
Register(r, u, t, v) ==
    /\ Arrive(r, "own", u, KindOf(t), t, v)
    /\ UNCHANGED <<devices, inserted, guests, owner>>

\* ... or sends null for it when u signs out.
Unregister(r, u, kind) ==
    /\ Arrive(r, "own", u, kind, Nil, Latest)
    /\ UNCHANGED <<devices, inserted, guests, owner>>

\* The app is opened on a phone by nobody who has an account.
EnterAsGuest(r, t) ==
    /\ Arrive(r, "find", Nil, KindOf(t), t, Latest)
    /\ UNCHANGED <<devices, inserted, guests, owner>>

GuestsOf(t) == {d \in DevicesWith(t) : d.user \in Guest}

\* The guest of that phone is used again; with several rows, get() raises
\* MultipleObjectsReturned, which is not caught.
FindGuest(r) ==
    /\ In(r, "find")
    /\ IF GuestsOf(reg[r].phone) = {} THEN GoOn(r, "create") ELSE Finish(r)
    /\ UNCHANGED <<devices, inserted, guests, owner, raced>>

CreateGuest(r) ==
    /\ In(r, "create") /\ guests # Guest
    /\ LET g == CHOOSE h \in Guest \ guests : TRUE
       IN  /\ guests' = guests \cup {g}
           /\ reg' = [reg EXCEPT ![r].phase = "own", ![r].user = g]
    /\ UNCHANGED <<devices, inserted, owner, raced>>

\* update_push_tokens: "Delete user devices", ...
DeleteOwn(r) ==
    /\ In(r, "own")
    /\ devices' = devices \ DevicesOf(reg[r].user, reg[r].kind)
    /\ IF reg[r].phone = Nil THEN Finish(r) ELSE GoOn(r, "phone")
    /\ UNCHANGED <<inserted, guests, owner, raced>>

\* Mutant: the phone stays with whoever used it before.
SamePhone_Guests(r) == GuestsOf(reg[r].phone)

\* Mutant: the phone stays with everybody who used it before.
SamePhone_None(r) == {}

SamePhone(r) == DevicesWith(reg[r].phone)

\* ... "Delete devices with same token", ...
DeletePhone(r) ==
    /\ In(r, "phone")
    /\ devices' = devices \ SamePhone(r)
    /\ GoOn(r, "insert")
    /\ UNCHANGED <<inserted, guests, owner, raced>>

\* ... "Create new device", unless the unique constraint of APNS refuses it, ...
InsertDevice(r) ==
    LET c == reg[r]
    IN  /\ In(r, "insert")
        /\ IF c.phone \in Iphone /\ DevicesWith(c.phone) # {}
           THEN Finish(r) /\ UNCHANGED <<devices, inserted, owner>>
           ELSE /\ inserted' = inserted + 1
                /\ devices' = devices \cup
                     {[id |-> inserted', user |-> c.user, phone |-> c.phone, version |-> Nil]}
                /\ owner' = [owner EXCEPT ![c.phone] = c.user]
                /\ reg' = [reg EXCEPT ![r].phase = "version", ![r].id = inserted']
        /\ UNCHANGED <<guests, raced>>

\* ... and its post_save receiver adds the version the client speaks.
InsertVersion(r) ==
    /\ In(r, "version")
    /\ devices' = {IF d.id = reg[r].id THEN [d EXCEPT !.version = reg[r].version] ELSE d :
                     d \in devices}
    /\ Finish(r)
    /\ UNCHANGED <<inserted, guests, owner, raced>>

AbortRegistration(r) ==
    /\ r \in Registering
    /\ Finish(r)
    /\ UNCHANGED <<devices, inserted, guests, owner, raced>>

PushTokensNext ==
    \E r \in Registration :
       \/ /\ Arrives(r)
          /\ \/ \E u \in Account, t \in Phone, v \in Version : Register(r, u, t, v)
             \/ \E u \in Account, kind \in Kind : Unregister(r, u, kind)
             \/ \E t \in Phone : EnterAsGuest(r, t)
       \/ FindGuest(r) \/ CreateGuest(r)
       \/ DeleteOwn(r) \/ DeletePhone(r) \/ InsertDevice(r) \/ InsertVersion(r)
       \/ AbortRegistration(r)
-----------------------------------------------------------------------------
\* A phone that was handed on gets no pushes for those who used it before, and
\* is found to have one guest at most, unless it was registered twice at once.
PhoneHandedOn ==
    \A t \in Phone \ raced :
       Cardinality(DevicesWith(t)) <= 1 /\ \A d \in DevicesWith(t) : d.user = owner[t]

\* Requests that race leave no more devices of a user, or rows of a phone, than
\* run at once; and one row where the database says so.
DevicesBounded ==
    /\ \A u \in User, kind \in Kind : Cardinality(DevicesOf(u, kind)) <= Workers
    /\ \A t \in Phone : Cardinality(DevicesWith(t)) <= IF t \in Iphone THEN 1 ELSE Workers
=============================================================================
