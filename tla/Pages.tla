-------------------------------- MODULE Pages --------------------------------
(***************************************************************************)
(* Pages and their admins: creating a page, acting for it, adding and      *)
(* removing admins, and the activation of a user, which activates the      *)
(* pages he is an admin of.  Each ORM statement commits by itself and      *)
(* requests run at once; nothing in the database keeps an admin from being *)
(* added twice or the last one from being removed, and nothing in the code *)
(* keeps a page from being the creator or an admin of a page.              *)
(***************************************************************************)
EXTENDS Integers, FiniteSets

CONSTANTS
    Person,         \* the users who are people
    Founder,        \* the person who created the pages that exist from the start
    Page,           \* the pages there may be
    Requests,       \* bound on the API requests, which are numbered as they arrive
    Workers,        \* how many requests are handled at a time
    Nobody

\* Assumed in Push.
PagesAssumption ==
    /\ Founder \in Person /\ Person \cap Page = {} /\ Nobody \notin Person \cup Page
    /\ Requests \in Nat /\ Workers \in Nat \ {0}

Profile == Person \cup Page

Request == 1..Requests

VARIABLES
    activated,      \* the people and the pages whose user is activated
    creator,        \* creator[p], Nobody as long as p does not exist
    admins,         \* the PageAdmin rows: <<p, profile, request that created it or 0>>
    call,           \* the state of each request
    set,            \* history: pages that have had an admin
    contested,      \* history: pages an admin of which was removed while another removal
                    \* that rests on his right was under way
    outrun          \* history: <<p, u>>: u was made an admin of p too late for his activation to
                    \* activate p, or the request that would have activated p died

pagesVars == <<activated, creator, admins, call, set, contested, outrun>>

NotSent == [phase |-> "not_sent"]

Responded == [phase |-> "responded"]

\* by is the person who sent the request, actor he or the page he acts for.
PageCall ==
    [phase: {"insert", "own", "check", "add", "remove", "activate", "pages", "page"},
     by: Person, actor: Profile, seen: BOOLEAN, page: Page \cup {Nobody},
     whom: Profile \cup {Nobody}, pages: SUBSET Page]

Existing == {p \in Page : creator[p] # Nobody}

PagesTypeOK ==
    /\ activated \subseteq Person \cup Existing
    /\ creator \in [Page -> Profile \cup {Nobody}]
    /\ admins \subseteq Existing \X (Person \cup Existing) \X (0..Requests)
    /\ call \in [Request -> PageCall \cup {NotSent, Responded}]
    /\ set \cup contested \subseteq Existing
    /\ outrun \subseteq Existing \X Profile

\* None of the pages exists, or all of them do.
PagesInit ==
    /\ \E u \in {Founder, Nobody} : creator = [p \in Page |-> u]
    /\ admins = {<<p, creator[p], 0>> : p \in Existing}
    /\ \E a \in {{}, {Founder}} : activated = a \cup {p \in Existing : creator[p] \in a}
    /\ call = [r \in Request |-> NotSent]
    /\ set = Existing /\ contested = {} /\ outrun = {}
-----------------------------------------------------------------------------
HasRow(p, x) == \E r \in 0..Requests : <<p, x, r>> \in admins

\* A page counts as an admin of itself.
IsAdmin(p, x) == x = p \/ HasRow(p, x)

RowsOf(p, x) == {a \in admins : a[1] = p /\ a[2] = x}

Serving == {r \in Request : call[r] \notin {NotSent, Responded}}

In(r, phase) == call[r].phase = phase

GoOn(r, phase) == call' = [call EXCEPT ![r].phase = phase]

Respond(r) == call' = [call EXCEPT ![r] = Responded]

Arrives(r) ==
    /\ call[r] = NotSent /\ \A q \in 1..r-1 : call[q] # NotSent
    /\ Cardinality(Serving) < Workers

\* Authentication: u acts for himself or for a page he is an admin of.
Send(r, phase, u, x, p, whom) ==
    /\ x = u \/ (x \in Existing /\ HasRow(x, u))
    /\ call' = [call EXCEPT ![r] =
         [phase |-> phase, by |-> u, actor |-> x, seen |-> x \in activated, page |-> p,
          whom |-> whom, pages |-> {}]]

\* u has been activated, and his pages are about to be.
Activating(u) == \E r \in Serving : call[r].by = u /\ call[r].phase \in {"pages", "page"}
-----------------------------------------------------------------------------
\* POST pages: x was read when u was authenticated.
CreatePage(r, u, x) ==
    /\ Send(r, "insert", u, x, Nobody, Nobody)
    /\ UNCHANGED <<activated, creator, admins, set, contested, outrun>>

\* Mutant: a new page is not activated.
Inherited_Never(r) == FALSE

\* The page is activated if its creator is.
Inherited(r) == call[r].seen

\* create_page: the user of the page and the page, ...
InsertPage(r) ==
    LET u == call[r].actor
    IN  /\ In(r, "insert")
        /\ \E p \in Page \ Existing :
              /\ creator' = [creator EXCEPT ![p] = u]
              /\ activated' = IF Inherited(r) THEN activated \cup {p} ELSE activated
              /\ call' = [call EXCEPT ![r].phase = "own", ![r].page = p]
        /\ UNCHANGED <<admins, set, contested, outrun>>

\* ... of which page_post_save makes its creator the first admin.
OwnPage(r) ==
    LET u == call[r].actor  p == call[r].page
    IN  /\ In(r, "own")
        /\ admins' = admins \cup {<<p, u, r>>}
        /\ set' = set \cup {p}
        /\ outrun' = IF u \in activated /\ ~call[r].seen THEN outrun \cup {<<p, u>>} ELSE outrun
        /\ Respond(r)
        /\ UNCHANGED <<activated, creator, contested>>

\* Mutant: an admin may remove himself.
NotOneself_Either(u, x, v) == TRUE

\* "You can't make actions against your own profile"
NotOneself(u, x, v) == v \notin {u, x}

\* POST pages/admin: u, or x for him, adds a profile to a page x is an admin of ...
AddAdmin(r, u, x, p, v) ==
    /\ {p, v} \subseteq Person \cup Existing
    /\ IsAdmin(p, x) /\ NotOneself(u, x, v)
    /\ Send(r, "check", u, x, p, v)
    /\ UNCHANGED <<activated, creator, admins, set, contested, outrun>>

\* Mutant: whether v is an admin is not looked at.
AlreadyAdmin_Never(r) == FALSE

AlreadyAdmin(r) == IsAdmin(call[r].page, call[r].whom)

\* ... unless he is one, ...
CheckAdmin(r) ==
    /\ In(r, "check")
    /\ IF AlreadyAdmin(r) THEN Respond(r) ELSE GoOn(r, "add")
    /\ UNCHANGED <<activated, creator, admins, set, contested, outrun>>

\* ... by a row of his own.
InsertAdmin(r) ==
    LET p == call[r].page  v == call[r].whom
    IN  /\ In(r, "add")
        /\ admins' = admins \cup {<<p, v, r>>}
        /\ outrun' = IF v \in activated /\ p \notin activated THEN outrun \cup {<<p, v>>} ELSE outrun
        /\ Respond(r)
        /\ UNCHANGED <<activated, creator, set, contested>>

\* DELETE pages/admin: he removes v, who is an admin ...
RemoveAdmin(r, u, x, p, v) ==
    /\ {p, v} \subseteq Person \cup Existing
    /\ IsAdmin(p, x) /\ IsAdmin(p, v) /\ NotOneself(u, x, v)
    /\ Send(r, "remove", u, x, p, v)
    /\ UNCHANGED <<activated, creator, admins, set, contested, outrun>>

\* The profile whose row lets the request be made.
Entitled(r) == IF call[r].actor = call[r].page THEN call[r].by ELSE call[r].actor

\* The other removals from page p under way that x's being an admin gives a right to.
RestOn(r, p, x) ==
    {q \in Serving \ {r} : In(q, "remove") /\ call[q].page = p /\ Entitled(q) = x}

\* ... with all his rows.
DeleteAdmin(r) ==
    LET p == call[r].page  v == call[r].whom
    IN  /\ In(r, "remove")
        /\ admins' = admins \ RowsOf(p, v)
        /\ contested' = IF RestOn(r, p, v) = {} THEN contested ELSE contested \cup {p}
        /\ Respond(r)
        /\ UNCHANGED <<activated, creator, set, outrun>>
-----------------------------------------------------------------------------
\* A request of u that is to activate him: see Accounts.
StartActivation(r, u) ==
    /\ Send(r, "activate", u, u, Nobody, Nobody)
    /\ UNCHANGED <<activated, creator, admins, set, contested, outrun>>

\* User.activate: u himself, ...
ActivateUser(r) ==
    /\ In(r, "activate")
    /\ activated' = activated \cup {call[r].by}
    /\ GoOn(r, "pages")
    /\ UNCHANGED <<creator, admins, set, contested, outrun>>

\* ... and of the pages of which he is an admin those that are not activated ...
FindPages(r) ==
    LET found == {p \in Page \ activated : HasRow(p, call[r].by)}
    IN  /\ In(r, "pages")
        /\ IF found = {} THEN Respond(r)
           ELSE call' = [call EXCEPT ![r].phase = "page", ![r].pages = found]
        /\ UNCHANGED <<activated, creator, admins, set, contested, outrun>>

\* ... one by one.
ActivatePage(r) ==
    /\ In(r, "page")
    /\ \E p \in call[r].pages :
          /\ activated' = activated \cup {p}
          /\ IF call[r].pages = {p} THEN Respond(r)
             ELSE call' = [call EXCEPT ![r].pages = @ \ {p}]
    /\ UNCHANGED <<creator, admins, set, contested, outrun>>

\* u changes his address and is not activated any more; his pages remain so.
DeactivateUser(u) ==
    /\ u \in activated
    /\ activated' = activated \ {u}
    /\ UNCHANGED <<creator, admins, call, set, contested, outrun>>

\* The pages that a request was still to activate.
Left(r) == IF In(r, "page") THEN call[r].pages ELSE IF In(r, "pages") THEN Existing ELSE {}

\* A request dies at gunicorn's timeout or of an exception.
AbortCall(r) ==
    /\ r \in Serving
    /\ Respond(r)
    /\ outrun' = outrun \cup {<<p, call[r].by>> : p \in Left(r)}
    /\ UNCHANGED <<activated, creator, admins, set, contested>>

PagesNext ==
    \/ \E r \in Request :
          \/ Arrives(r) /\ \E u \in Person :
                \/ StartActivation(r, u)
                \/ \E x \in Profile : CreatePage(r, u, x)
                \/ \E x, v \in Profile, p \in Page :
                      AddAdmin(r, u, x, p, v) \/ RemoveAdmin(r, u, x, p, v)
          \/ InsertPage(r) \/ OwnPage(r)
          \/ CheckAdmin(r) \/ InsertAdmin(r) \/ DeleteAdmin(r)
          \/ ActivateUser(r) \/ FindPages(r) \/ ActivatePage(r)
          \/ AbortCall(r)
    \/ \E u \in Person : DeactivateUser(u)
-----------------------------------------------------------------------------
\* A page keeps an admin, whatever else is created, added and removed at once, unless
\* an admin was removed while a removal was under way that he, or the page for him,
\* had asked for: that is not stopped any more, and two admins who remove each other
\* leave nobody.
AdminKept == \A p \in set \ contested : \E x \in Profile : HasRow(p, x)

\* The requests that race to add an admin add it once each, and it gets every
\* push for the page as often; but never more than run at once.
AdminRowsBounded == \A p \in Page, x \in Profile : Cardinality(RowsOf(p, x)) <= Workers

\* The pages that an activated user is an admin of are activated, unless he was
\* made an admin of the page after he was activated: of one that he creates that
\* holds if the request had read him before; or a request that was to activate the
\* page died.
PagesFollow ==
    \A p \in Page, u \in Person :
       (HasRow(p, u) /\ u \in activated /\ ~Activating(u) /\ <<p, u>> \notin outrun) => p \in activated
=============================================================================
