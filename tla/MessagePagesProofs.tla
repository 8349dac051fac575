------------------------- MODULE MessagePagesProofs -------------------------
(***************************************************************************)
(* Theorems about MessagePages: the links know whole seconds only, but the *)
(* pages that a client walks through by them are in order and repeat no    *)
(* message; and what they do not show is less than two seconds from what   *)
(* they do.                                                                *)
(***************************************************************************)
EXTENDS MessagePages, FiniteSetTheorems, FunctionTheorems, SequenceTheorems, TLAPS

Ascending(s) == \A i, j \in DOMAIN s : i < j => s[i] < s[j]

\* The numbers of S before n.
Below(S, n) == {k \in S : k < n}

-----------------------------------------------------------------------------
LEMMA BelowGrows ==
    ASSUME NEW S, S \subseteq Nat, NEW m \in Nat, NEW n \in Nat
    PROVE  /\ m <= n => Below(S, m) \subseteq Below(S, n)
           /\ m < n /\ m \in S => m \in Below(S, n) /\ m \notin Below(S, m)
  <1>1. ASSUME m <= n, NEW k \in Below(S, m)
        PROVE  k \in Below(S, n)
    BY <1>1 DEF Below
  <1>2. m < n /\ m \in S => m \in Below(S, n) /\ m \notin Below(S, m)
    BY DEF Below
  <1>3. QED
    BY <1>1, <1>2

\* The places in a finite set of numbers are taken by one of them each: the more
\* are before a number the later it comes, and there are as many places as numbers.
LEMMA Places ==
    ASSUME NEW S, S \subseteq Nat, IsFiniteSet(S)
    PROVE  \A i \in 1..Cardinality(S) : \E n \in S : Cardinality(Below(S, n)) = i - 1
  <1>1. Cardinality(S) \in Nat
    BY FS_CardinalityType
  <1>2. \A n \in S : /\ IsFiniteSet(Below(S, n)) /\ Cardinality(Below(S, n)) \in Nat
                     /\ Cardinality(Below(S, n)) < Cardinality(S)
    <2> TAKE n \in S
    <2>1. Below(S, n) \subseteq S \ {n}
      BY DEF Below
    <2>2. IsFiniteSet(S \ {n}) /\ Cardinality(S \ {n}) = Cardinality(S) - 1
      BY FS_RemoveElement
    <2>3. IsFiniteSet(Below(S, n)) /\ Cardinality(Below(S, n)) <= Cardinality(S \ {n})
      BY <2>1, <2>2, FS_Subset
    <2>4. QED
      BY <1>1, <2>2, <2>3, FS_CardinalityType
  <1>3. \A m, n \in S : m < n => Cardinality(Below(S, m)) < Cardinality(Below(S, n))
    <2> SUFFICES ASSUME NEW m \in S, NEW n \in S, m < n
                 PROVE  Cardinality(Below(S, m)) < Cardinality(Below(S, n))
      OBVIOUS
    <2>1. Below(S, m) \subseteq Below(S, n) \ {m} /\ m \in Below(S, n)
      <3>1. m \in Nat /\ n \in Nat /\ m <= n
        OBVIOUS
      <3>2. Below(S, m) \subseteq Below(S, n) /\ m \in Below(S, n) /\ m \notin Below(S, m)
        BY <3>1, BelowGrows
      <3>3. QED
        BY <3>2
    <2>2. /\ IsFiniteSet(Below(S, n) \ {m})
          /\ Cardinality(Below(S, n) \ {m}) = Cardinality(Below(S, n)) - 1
      BY <1>2, <2>1, FS_RemoveElement
    <2>3. Cardinality(Below(S, m)) <= Cardinality(Below(S, n) \ {m})
      BY <2>1, <2>2, FS_Subset
    <2>4. QED
      BY <1>2, <2>2, <2>3
  <1>4. PICK f : f = [n \in S |-> Cardinality(Below(S, n)) + 1]
    OBVIOUS
  <1>5. f \in [S -> 1..Cardinality(S)]
    BY <1>1, <1>2, <1>4
  <1>6. \A m, n \in S : f[m] = f[n] => m = n
    <2> SUFFICES ASSUME NEW m \in S, NEW n \in S, m # n
                 PROVE  f[m] # f[n]
      OBVIOUS
    <2>1. m < n \/ n < m
      OBVIOUS
    <2>2. QED
      BY <1>2, <1>3, <1>4, <2>1
  <1>7. f \in Injection(S, 1..Cardinality(S))
    BY <1>5, <1>6, Fun_IsInj
  <1>8. IsFiniteSet(1..Cardinality(S)) /\ Cardinality(1..Cardinality(S)) = Cardinality(S)
    BY <1>1, FS_Interval
  <1>9. f \in Surjection(S, 1..Cardinality(S))
    BY <1>7, <1>8, FS_Injection
  <1>10. \A i \in 1..Cardinality(S) : \E n \in S : f[n] = i
    BY <1>9, Fun_SurjectionProperties
  <1>11. QED
    BY <1>1, <1>2, <1>4, <1>10

\* Sorted(S) has the numbers of S, once each and in order.
LEMMA SortedIs ==
    ASSUME NEW S, S \subseteq Nat, IsFiniteSet(S)
    PROVE  /\ Cardinality(S) \in Nat
           /\ Sorted(S) \in Seq(S) /\ Len(Sorted(S)) = Cardinality(S)
           /\ Ascending(Sorted(S))
           /\ \A i \in 1..Cardinality(S) : Cardinality(Below(S, Sorted(S)[i])) = i - 1
  <1>1. Cardinality(S) \in Nat
    BY FS_CardinalityType
  <1>2. PICK c : c = Cardinality(S)
    OBVIOUS
  <1>3. PICK s : s = Sorted(S)
    OBVIOUS
  <1>4. s = [i \in 1..c |-> CHOOSE n \in S : Cardinality(Below(S, n)) = i - 1]
    BY <1>2, <1>3 DEF Sorted, Below
  <1>5. \A i \in 1..c : s[i] \in S /\ Cardinality(Below(S, s[i])) = i - 1
    <2> TAKE i \in 1..c
    <2>1. \E n \in S : Cardinality(Below(S, n)) = i - 1
      BY <1>2, Places
    <2>2. s[i] = CHOOSE n \in S : Cardinality(Below(S, n)) = i - 1
      BY <1>4
    <2>3. QED
      BY <2>1, <2>2
  <1>6. DOMAIN s = 1..c /\ s \in [1..c -> S]
    BY <1>4, <1>5
  <1>7. s \in Seq(S) /\ Len(s) = c
    BY <1>1, <1>2, <1>6
  <1>8. Ascending(s)
    <2> SUFFICES ASSUME NEW i \in 1..c, NEW j \in 1..c, i < j
                 PROVE  s[i] < s[j]
      BY <1>6 DEF Ascending
    <2>1. s[i] \in Nat /\ s[j] \in Nat /\ c \in Nat
      BY <1>1, <1>2, <1>5
    <2>2. SUFFICES ASSUME s[j] <= s[i]
                   PROVE  FALSE
      BY <2>1
    <2>3. Below(S, s[j]) \subseteq Below(S, s[i])
      BY <2>1, <2>2, BelowGrows
    <2>4. IsFiniteSet(Below(S, s[i]))
      <3>1. Below(S, s[i]) \in SUBSET S
        BY DEF Below
      <3>2. QED
        BY <3>1, FS_Subset
    <2>5. Cardinality(Below(S, s[j])) <= Cardinality(Below(S, s[i]))
      BY <2>3, <2>4, FS_Subset
    <2>6. QED
      BY <1>5, <2>5
  <1>9. QED
    BY <1>1, <1>2, <1>3, <1>5, <1>7, <1>8

\* The first numbers are at their own places.
LEMMA SortedInterval ==
    ASSUME NEW n \in Nat
    PROVE  Sorted(1..n) = [i \in 1..n |-> i]
  <1>1. IsFiniteSet(1..n) /\ Cardinality(1..n) = n
    BY FS_Interval
  <1>2. PICK s : s = Sorted(1..n)
    OBVIOUS
  <1>3. s \in Seq(1..n) /\ Len(s) = n /\ \A i \in 1..n : Cardinality(Below(1..n, s[i])) = i - 1
    <2>1. 1..n \subseteq Nat
      OBVIOUS
    <2>2. QED
      BY <1>1, <1>2, <2>1, SortedIs
  <1>4. \A i \in 1..n : s[i] = i
    <2> TAKE i \in 1..n
    <2>1. s[i] \in 1..n
      BY <1>3
    <2>2. Below(1..n, s[i]) = 1..(s[i] - 1)
      BY <2>1 DEF Below
    <2>3. Cardinality(1..(s[i] - 1)) = s[i] - 1
      BY <2>1, FS_Interval
    <2>4. QED
      BY <1>3, <2>1, <2>2, <2>3
  <1>5. QED
    BY <1>2, <1>3, <1>4

\* Keeping places leaves what is at them in order.
LEMMA KeepIs ==
    ASSUME NEW S, S \subseteq Nat, NEW s \in Seq(S), Ascending(s), NEW K \in SUBSET DOMAIN s
    PROVE  /\ Keep(s, K) \in Seq(S)
           /\ Len(Keep(s, K)) <= Len(s)
           /\ Ascending(Keep(s, K))
           /\ K = DOMAIN s => Keep(s, K) = s
  <1>1. Len(s) \in Nat /\ DOMAIN s = 1..Len(s) /\ s \in [1..Len(s) -> S]
    BY LenProperties
  <1>2. /\ IsFiniteSet(1..Len(s)) /\ Cardinality(1..Len(s)) = Len(s)
        /\ K \in SUBSET (1..Len(s))
    BY <1>1, FS_Interval
  <1>3. IsFiniteSet(K) /\ Cardinality(K) <= Len(s) /\ K \subseteq Nat
    BY <1>1, <1>2, FS_Subset
  <1>4. PICK t, c : t = Sorted(K) /\ c = Cardinality(K)
    OBVIOUS
  <1>5. c \in Nat /\ t \in Seq(K) /\ Len(t) = c /\ Ascending(t)
    BY <1>3, <1>4, SortedIs
  <1>6. PICK k : k = Keep(s, K)
    OBVIOUS
  <1>7. k = [j \in 1..c |-> s[t[j]]]
    BY <1>4, <1>6 DEF Keep
  <1>8. t \in [1..c -> K]
    BY <1>5, LenProperties
  <1>9. \A j \in 1..c : t[j] \in 1..Len(s) /\ k[j] = s[t[j]] /\ k[j] \in S
    BY <1>1, <1>2, <1>7, <1>8
  <1>10. k \in [1..c -> S] /\ DOMAIN k = 1..c
    BY <1>7, <1>9
  <1>11. k \in Seq(S) /\ Len(k) = c
    BY <1>5, <1>10
  <1>12. Ascending(k)
    <2> SUFFICES ASSUME NEW i \in 1..c, NEW j \in 1..c, i < j
                 PROVE  k[i] < k[j]
      BY <1>10 DEF Ascending
    <2>1. t[i] < t[j]
      BY <1>5, <1>8 DEF Ascending
    <2>2. QED
      BY <1>1, <1>9, <2>1 DEF Ascending
  <1>13. ASSUME K = DOMAIN s
         PROVE  k = s
    <2>1. t = [i \in 1..Len(s) |-> i] /\ c = Len(s)
      BY <1>1, <1>2, <1>4, <1>13, SortedInterval
    <2>2. k = [j \in 1..Len(s) |-> s[j]]
      BY <1>7, <2>1
    <2>3. QED
      BY <1>1, <2>2
  <1>14. QED
    BY <1>3, <1>4, <1>6, <1>11, <1>12, <1>13

\* What follows each other in a list in order does so in a part of it.
LEMMA PartIs ==
    ASSUME NEW S, S \subseteq Nat, NEW s \in Seq(S), Ascending(s),
           NEW a \in Nat \ {0}, NEW b \in Nat, b <= Len(s),
           NEW t, t = SubSeq(s, a, b)
    PROVE  /\ t \in Seq(S) /\ Ascending(t)
           /\ a <= b => Len(t) = b - a + 1
           /\ b < a => Len(t) = 0
           /\ \A i \in 1..(b - a + 1) : t[i] = s[a + i - 1]
  <1>1. Len(s) \in Nat /\ DOMAIN s = 1..Len(s) /\ s \in [1..Len(s) -> S]
    BY LenProperties
  <1>2. \A i \in a..b : s[i] \in S
    BY <1>1
  <1>4. /\ t \in Seq(S) /\ Len(t) = IF a <= b THEN b - a + 1 ELSE 0
        /\ \A i \in 1..(b - a + 1) : t[i] = s[a + i - 1]
    BY <1>2, SubSeqProperties
  <1>5. Ascending(t)
    <2>1. DOMAIN t \subseteq 1..(b - a + 1)
      BY <1>4, LenProperties
    <2> SUFFICES ASSUME NEW i \in DOMAIN t, NEW j \in DOMAIN t, i < j
                 PROVE  t[i] < t[j]
      BY DEF Ascending
    <2>2. t[i] = s[a + i - 1] /\ t[j] = s[a + j - 1]
      BY <1>4, <2>1
    <2>3. a + i - 1 \in DOMAIN s /\ a + j - 1 \in DOMAIN s /\ a + i - 1 < a + j - 1
      BY <1>1, <2>1
    <2>4. QED
      BY <2>2, <2>3 DEF Ascending
  <1>6. QED
    BY <1>4, <1>5

\* Each query gives a page of messages it asks for, in order.
PageOf(s, S) == s \in Seq(S) /\ Ascending(s) /\ Len(s) <= PageSize

LEMMA QueriesArePages ==
    ASSUME NEW S, S \subseteq Nat, IsFiniteSet(S)
    PROVE  PageOf(LastOf(S), S) /\ PageOf(FirstOf(S), S)
  <1> USE MessagePagesAssumption
  <1>1. PICK s, n : s = Sorted(S) /\ n = Len(s)
    OBVIOUS
  <1>2. s \in Seq(S) /\ Ascending(s) /\ n \in Nat
    BY <1>1, SortedIs
  <1>3. PageOf(LastOf(S), S)
    <2>1. PICK a : a = IF n > PageSize THEN n - PageSize + 1 ELSE 1
      OBVIOUS
    <2>2. a \in Nat \ {0} /\ (IF a <= n THEN n - a + 1 ELSE 0) <= PageSize
      BY <1>2, <2>1
    <2>3. PICK t : t = SubSeq(s, a, n) /\ t = LastOf(S)
      BY <1>1, <2>1 DEF LastOf
    <2>4. s \in Seq(S) /\ Ascending(s) /\ a \in Nat \ {0} /\ n \in Nat /\ n <= Len(s)
      BY <1>1, <1>2, <2>2
    <2>5. Ascending(t)
      BY <2>3, <2>4, PartIs, Zenon
    <2>6. /\ t \in Seq(S)
          /\ (a <= n => Len(t) = n - a + 1) /\ (n < a => Len(t) = 0)
          /\ \A i \in 1..(n - a + 1) : t[i] = s[a + i - 1]
      <3>1. t = SubSeq(s, a, n)
        BY <2>3
      <3>2. QED
        BY <2>4, <3>1, PartIs, SMT
    <2>7. QED
      BY <1>2, <2>2, <2>3, <2>5, <2>6 DEF PageOf
  <1>4. PageOf(FirstOf(S), S)
    <2>1. PICK a, b : a = 1 /\ b = IF n > PageSize THEN PageSize ELSE n
      OBVIOUS
    <2>2. a \in Nat \ {0} /\ b \in Nat /\ b <= n /\ b <= PageSize
      BY <1>2, <2>1
    <2>3. PICK t : t = SubSeq(s, a, b) /\ t = FirstOf(S)
      BY <1>1, <2>1 DEF FirstOf
    <2>4. s \in Seq(S) /\ Ascending(s) /\ a \in Nat \ {0} /\ b \in Nat /\ b <= Len(s)
      BY <1>1, <1>2, <2>2
    <2>5. Ascending(t)
      BY <2>3, <2>4, PartIs, Zenon
    <2>6. /\ t \in Seq(S)
          /\ (a <= b => Len(t) = b - a + 1) /\ (b < a => Len(t) = 0)
          /\ \A i \in 1..(b - a + 1) : t[i] = s[a + i - 1]
      <3>1. t = SubSeq(s, a, b)
        BY <2>3
      <3>2. QED
        BY <2>4, <3>1, PartIs, SMT
    <2>7. QED
      BY <2>1, <2>2, <2>3, <2>5, <2>6 DEF PageOf
  <1>5. QED
    BY <1>3, <1>4

\* So is what the loop leaves of it; all of it if nothing was deleted.
LEMMA KeptIsAPage ==
    ASSUME NEW S, S \subseteq Nat, NEW s, PageOf(s, S)
    PROVE  PageOf(KeepNotDeleted(s), S) /\ (hidden = {} => KeepNotDeleted(s) = s)
  <1>1. PICK taken : taken = {s[i] : i \in Visited(s)} \cap hidden
    OBVIOUS
  <1>2. PICK K : K = {i \in DOMAIN s : s[i] \notin taken}
    OBVIOUS
  <1>3. KeepNotDeleted(s) = Keep(s, K)
    BY <1>1, <1>2 DEF KeepNotDeleted
  <1>4. K \in SUBSET DOMAIN s /\ (hidden = {} => K = DOMAIN s)
    BY <1>1, <1>2
  <1>5. s \in Seq(S) /\ Ascending(s) /\ Len(s) <= PageSize
    BY DEF PageOf
  <1>6. /\ Keep(s, K) \in Seq(S) /\ Len(Keep(s, K)) <= Len(s) /\ Ascending(Keep(s, K))
        /\ K = DOMAIN s => Keep(s, K) = s
    BY <1>4, <1>5, KeepIs
  <1>7. Len(s) \in Nat /\ Len(Keep(s, K)) \in Nat /\ PageSize \in Nat
    BY <1>5, <1>6, LenProperties, MessagePagesAssumption
  <1>8. QED
    BY <1>3, <1>4, <1>5, <1>6, <1>7 DEF PageOf

-----------------------------------------------------------------------------
\* Messages are stored in the order they were written.
Rising == \A i, j \in Messages : i < j => created[i] < created[j]

\* The type invariant is not inductive: that the links of the page that was shown
\* are seconds of messages on it says where the next query starts.
TInv ==
    /\ TypeOK
    /\ Rising
    /\ Ascending(page)
    /\ links = LinksOf(page)
    /\ newest <= Len(created)

\* A walk back on which nothing was passed over: what it has not shown is before
\* the oldest message of a full page.
WInv ==
    (walk \in {"first", "back"} /\ Apart /\ hidden = {})
       => \A m \in 1..newest : m \in seen \/ (Len(page) >= PageSize /\ m < page[1])

\* A second begins at or before a tick of it, and the next one after.
LEMMA WholeSeconds ==
    ASSUME NEW a \in Nat, NEW b \in Nat \ {0}
    PROVE  a \div b \in Nat /\ (a \div b) * b <= a /\ a < ((a \div b) + 1) * b
  <1>1. a \div b \in Nat /\ b * (a \div b) <= a /\ a < b * ((a \div b) + 1)
    OBVIOUS
  <1>2. PICK q : q = a \div b
    OBVIOUS
  <1>3. q \in Nat /\ b \in Nat /\ b * q = q * b /\ b * (q + 1) = (q + 1) * b
    BY <1>1, <1>2
  <1>4. QED
    BY <1>1, <1>2, <1>3

LEMMA MessagesAre ==
    ASSUME created \in Seq(Nat)
    PROVE  /\ Messages = 1..Len(created) /\ Len(created) \in Nat
           /\ IsFiniteSet(Messages) /\ Messages \subseteq Nat
           /\ \A m \in Messages : created[m] \in Nat
  <1>1. /\ Messages = 1..Len(created) /\ Len(created) \in Nat
        /\ \A m \in Messages : created[m] \in Nat
    BY LenProperties DEF Messages
  <1>2. IsFiniteSet(1..Len(created))
    BY <1>1, FS_Interval
  <1>3. QED
    BY <1>1, <1>2

LEMMA UnixIs ==
    ASSUME created \in Seq(Nat), NEW m \in Messages
    PROVE  /\ Unix(m) \in Nat
           /\ Unix(m) * Tick <= created[m] /\ created[m] < (Unix(m) + 1) * Tick
  <1>1. created[m] \in Nat /\ Tick \in Nat \ {0}
    BY LenProperties, MessagePagesAssumption DEF Messages
  <1>2. QED
    BY <1>1, WholeSeconds DEF Unix

\* What the links of a page tell of it.
LEMMA LinksAre ==
    ASSUME created \in Seq(Nat), NEW s \in Seq(Messages)
    PROVE  /\ LinksOf(s) \in [next: Nat \cup {NoLink}, previous: Nat \cup {NoLink}]
           /\ LinksOf(s).previous # NoLink
                => Len(s) >= 1 /\ s[1] \in Messages /\ LinksOf(s).previous = Unix(s[1])
           /\ LinksOf(s).next # NoLink
                => /\ Len(s) >= 1 /\ s[Len(s)] \in Messages
                   /\ LinksOf(s).next = Unix(s[Len(s)])
           /\ LinksOf(s).previous = NoLink => Len(s) < PageSize
  <1>1. Len(s) \in Nat /\ DOMAIN s = 1..Len(s) /\ s \in [1..Len(s) -> Messages]
    BY LenProperties
  <1>2. CASE Len(s) < PageSize
    <2>1. LinksOf(s) = NoLinks
      BY <1>2 DEF LinksOf
    <2>2. QED
      BY <1>2, <2>1 DEF NoLinks, NoLink
  <1>3. CASE ~ (Len(s) < PageSize)
    <2>1. Len(s) >= 1 /\ s[1] \in Messages /\ s[Len(s)] \in Messages
      BY <1>1, <1>3, MessagePagesAssumption
    <2>2. Head(s) = s[1] /\ Last(s) = s[Len(s)]
      BY <2>1 DEF Last
    <2>3. LinksOf(s) = [next |-> Unix(s[Len(s)]), previous |-> Unix(s[1])]
      BY <1>3, <2>2 DEF LinksOf
    <2>4. Unix(s[1]) \in Nat /\ Unix(s[Len(s)]) \in Nat
      BY <2>1, UnixIs
    <2>5. Unix(s[1]) # NoLink /\ Unix(s[Len(s)]) # NoLink
      BY <2>4 DEF NoLink
    <2>6. QED
      BY <2>1, <2>3, <2>4, <2>5
  <1>4. QED
    BY <1>2, <1>3

\* Showing the answer to a query gives a page of the messages it asked for.
LEMMA ShownIs ==
    ASSUME TInv, NEW S \in SUBSET Messages, NEW s, PageOf(s, S), Show(s)
    PROVE  /\ UNCHANGED store
           /\ page' \in Seq(S) /\ page' \in Seq(Messages)
           /\ Len(page') <= PageSize /\ Ascending(page)'
           /\ links' = LinksOf(page)'
           /\ links' \in [next: Nat \cup {NoLink}, previous: Nat \cup {NoLink}]
           /\ hidden = {} => page' = s
  <1>1. created \in Seq(Nat) /\ Messages = 1..Len(created) /\ Len(created) \in Nat
    BY LenProperties DEF TInv, TypeOK, Messages
  <1>2. S \subseteq Nat
    BY <1>1
  <1>3. PICK p : p = KeepNotDeleted(s)
    OBVIOUS
  <1>4. PageOf(p, S) /\ (hidden = {} => p = s)
    BY <1>2, <1>3, KeptIsAPage
  <1>5. page' = p /\ links' = LinksOf(p) /\ UNCHANGED store
    BY <1>3 DEF Show
  <1>6. p \in Seq(S) /\ Ascending(p) /\ Len(p) <= PageSize
    BY <1>4 DEF PageOf
  <1>7. p \in Seq(Messages)
    <2>1. Len(p) \in Nat /\ p \in [1..Len(p) -> Messages]
      BY <1>6, LenProperties
    <2>2. QED
      BY <2>1
  <1>8. LinksOf(p) \in [next: Nat \cup {NoLink}, previous: Nat \cup {NoLink}]
    BY <1>1, <1>7, LinksAre
  <1>9. links' = LinksOf(page)'
    BY <1>5 DEF LinksOf, Unix, store
  <1>10. Ascending(page)'
    BY <1>5, <1>6 DEF Ascending
  <1>11. QED
    BY <1>4, <1>5, <1>6, <1>7, <1>8, <1>9, <1>10

LEMMA InitTInv == Init => TInv
  <1> SUFFICES ASSUME Init
               PROVE  TInv
    OBVIOUS
  <1>1. created = << >> /\ hidden = {} /\ page = << >> /\ links = NoLinks
        /\ walk = "none" /\ seen = {} /\ newest = 0
    BY DEF Init
  <1>2. Len(page) = 0 /\ Len(created) = 0 /\ PageSize \in Nat \ {0}
    BY <1>1, MessagePagesAssumption
  <1>3. TypeOK
    BY <1>1, <1>2 DEF TypeOK, NoLinks
  <1>4. links = LinksOf(page)
    BY <1>1, <1>2 DEF LinksOf
  <1>5. Rising /\ Ascending(page)
    BY <1>1 DEF Rising, Ascending, Messages
  <1>6. QED
    BY <1>1, <1>2, <1>3, <1>4, <1>5 DEF TInv

\* A message that is written comes after all there were, and changes none.
LEMMA PostGrows ==
    ASSUME TInv, NEW gap \in Gap, Post(gap)
    PROVE  /\ created' \in Seq(Nat) /\ Len(created') = Len(created) + 1
           /\ Messages \subseteq Messages'
           /\ \A m \in Messages : created'[m] = created[m]
           /\ Rising'
  <1>1. created \in Seq(Nat) /\ Rising
    BY DEF TInv, TypeOK
  <1>2. PICK n : n = Len(created)
    OBVIOUS
  <1>3. n \in Nat /\ Messages = 1..n /\ created \in [1..n -> Nat]
    BY <1>1, <1>2, LenProperties DEF Messages
  <1>4. PICK t : t = gap + IF created = << >> THEN 0 ELSE Last(created)
    OBVIOUS
  <1>5. created' = Append(created, t)
    BY <1>4 DEF Post
  <1>6. gap \in Nat /\ gap > 0
    BY MessagePagesAssumption
  <1>7. t \in Nat /\ \A i \in 1..n : created[i] < t
    <2>1. CASE created = << >>
      BY <1>2, <1>4, <1>6, <2>1
    <2>2. CASE created # << >>
      <3>1. n >= 1
        BY <1>1, <1>2, <1>3, <2>2, EmptySeq
      <3>2. Last(created) = created[n] /\ created[n] \in Nat
        BY <1>2, <1>3, <3>1 DEF Last
      <3>3. t = gap + created[n]
        BY <1>4, <2>2, <3>2
      <3>4. \A i \in 1..n : created[i] \in Nat /\ created[i] <= created[n]
        <4> TAKE i \in 1..n
        <4>1. i = n \/ i < n
          BY <1>3
        <4>2. QED
          BY <1>1, <1>3, <3>1, <3>2, <4>1 DEF Rising
      <3>5. QED
        BY <1>6, <3>2, <3>3, <3>4
    <2>3. QED
      BY <2>1, <2>2
  <1>8. /\ created' \in Seq(Nat) /\ Len(created') = n + 1
        /\ \A i \in 1..n : created'[i] = created[i]
        /\ created'[n + 1] = t
    BY <1>1, <1>2, <1>5, <1>7, AppendProperties
  <1>9. Messages' = 1..(n + 1)
    BY <1>8, LenProperties DEF Messages
  <1>10. Rising'
    <2> SUFFICES ASSUME NEW i \in 1..(n + 1), NEW j \in 1..(n + 1), i < j
                 PROVE  created'[i] < created'[j]
      BY <1>9 DEF Rising
    <2>1. i \in 1..n /\ (j \in 1..n \/ j = n + 1)
      BY <1>3
    <2>2. QED
      BY <1>1, <1>3, <1>7, <1>8, <2>1 DEF Rising
  <1>11. QED
    BY <1>2, <1>3, <1>8, <1>9, <1>10

\* A list of messages is one of messages after more have been written.
LEMMA MoreMessages ==
    ASSUME NEW S, NEW T, S \subseteq T, NEW s \in Seq(S)
    PROVE  s \in Seq(T)
  <1>1. Len(s) \in Nat /\ s \in [1..Len(s) -> S]
    BY LenProperties
  <1>2. QED
    BY <1>1

LEMMA StepTInv == TInv /\ [Next]_vars => TInv'
  <1> SUFFICES ASSUME TInv, [Next]_vars
               PROVE  TInv'
    OBVIOUS
  <1>1. /\ created \in Seq(Nat) /\ hidden \subseteq Messages
        /\ page \in Seq(Messages) /\ Len(page) <= PageSize /\ Ascending(page)
        /\ links \in [next: Nat \cup {NoLink}, previous: Nat \cup {NoLink}]
        /\ walk \in {"none", "first", "back", "forth", "both"}
        /\ seen \subseteq Messages /\ newest \in Nat /\ newest <= Len(created)
        /\ Rising /\ links = LinksOf(page)
    BY DEF TInv, TypeOK
  <1>2. /\ Messages = 1..Len(created) /\ Len(created) \in Nat
        /\ IsFiniteSet(Messages) /\ Messages \subseteq Nat
    BY <1>1, MessagesAre
  <1>3. ASSUME NEW gap \in Gap, Post(gap)
        PROVE  TInv'
    <2>1. UNCHANGED <<hidden, page, links, walk, seen, newest>>
      BY <1>3 DEF Post
    <2>2. /\ created' \in Seq(Nat) /\ Len(created') = Len(created) + 1
          /\ Messages \subseteq Messages'
          /\ \A m \in Messages : created'[m] = created[m]
          /\ Rising'
      BY <1>3, PostGrows
    <2>3. page \in Seq(Messages')
      BY <1>1, <2>2, MoreMessages
    <2>4. TypeOK'
      BY <1>1, <2>1, <2>2, <2>3 DEF TypeOK
    <2>5. LinksOf(page)' = LinksOf(page)
      <3>1. Len(page) \in Nat /\ page \in [1..Len(page) -> Messages]
        BY <1>1, LenProperties
      <3>2. CASE Len(page) < PageSize
        BY <2>1, <3>2 DEF LinksOf
      <3>3. CASE ~ (Len(page) < PageSize)
        <4>1. Len(page) >= 1
          BY <3>1, <3>3, MessagePagesAssumption
        <4>2. /\ Head(page) = page[1] /\ Last(page) = page[Len(page)]
              /\ page[1] \in Messages /\ page[Len(page)] \in Messages
          BY <3>1, <4>1 DEF Last
        <4>3. /\ Unix(Head(page))' = Unix(Head(page))
              /\ Unix(Last(page))' = Unix(Last(page))
          BY <2>1, <2>2, <4>2 DEF Unix, Last
        <4>4. QED
          BY <2>1, <3>3, <4>3 DEF LinksOf
      <3>4. QED
        BY <3>2, <3>3
    <2>6. Ascending(page)'
      BY <1>1, <2>1 DEF Ascending
    <2>7. newest' <= Len(created')
      BY <1>1, <1>2, <2>1, <2>2
    <2>8. links' = LinksOf(page)'
      BY <1>1, <2>1, <2>5
    <2>9. QED
      BY <2>2, <2>4, <2>6, <2>7, <2>8 DEF TInv
  <1>4. ASSUME NEW m \in Messages \ hidden, Hide(m)
        PROVE  TInv'
    <2>1. hidden' = hidden \cup {m} /\ UNCHANGED <<created, page, links, walk, seen, newest>>
      BY <1>4 DEF Hide
    <2>2. Messages' = Messages
      BY <2>1 DEF Messages
    <2>3. TypeOK'
      BY <1>1, <2>1, <2>2 DEF TypeOK
    <2>4. links' = LinksOf(page)'
      BY <1>1, <2>1 DEF LinksOf, Unix
    <2>5. QED
      BY <1>1, <2>1, <2>3, <2>4 DEF TInv, Rising, Ascending, Messages
  <1>5. ASSUME NEW S \in SUBSET Messages, NEW s, PageOf(s, S), Show(s),
               walk' \in {"none", "first", "back", "forth", "both"},
               seen' \subseteq seen \cup ToSet(page'),
               newest' \in {newest, Len(created)}
        PROVE  TInv'
    <2>1. /\ UNCHANGED store /\ page' \in Seq(Messages)
          /\ Len(page') <= PageSize /\ Ascending(page)' /\ links' = LinksOf(page)'
          /\ links' \in [next: Nat \cup {NoLink}, previous: Nat \cup {NoLink}]
      BY <1>5, ShownIs
    <2>2. UNCHANGED <<created, hidden>> /\ Messages' = Messages
      BY <2>1 DEF store, Messages
    <2>3. ToSet(page') \subseteq Messages
      BY <2>1, LenProperties DEF ToSet
    <2>4. newest' \in Nat /\ newest' <= Len(created')
      BY <1>1, <1>2, <1>5, <2>2
    <2>5. TypeOK'
      BY <1>1, <1>5, <2>1, <2>2, <2>3, <2>4 DEF TypeOK
    <2>6. Rising'
      BY <1>1, <2>2 DEF Rising, Messages
    <2>7. QED
      BY <2>1, <2>4, <2>5, <2>6 DEF TInv
  <1>6. CASE FirstPage
    <2>1. PICK s : s = LastOf(All)
      OBVIOUS
    <2>2. PageOf(s, Messages)
      BY <1>2, <2>1, QueriesArePages DEF All
    <2>3. Show(s) /\ walk' = "first" /\ seen' = ToSet(page') /\ newest' = Len(created)
      BY <1>6, <2>1 DEF FirstPage
    <2>4. QED
      BY <1>5, <2>2, <2>3
  <1>7. CASE PreviousPage
    <2>1. PICK S, s : S = Before(links.previous) /\ s = LastOf(S)
      OBVIOUS
    <2>2. S \in SUBSET Messages /\ S \subseteq Nat /\ IsFiniteSet(S)
      BY <1>2, <2>1, FS_Subset DEF Before
    <2>3. PageOf(s, S)
      BY <2>1, <2>2, QueriesArePages
    <2>4. Show(s) /\ walk' \in {"back", "both"} /\ seen' = seen \cup ToSet(page') /\ newest' = newest
      BY <1>7, <2>1 DEF PreviousPage
    <2>5. QED
      BY <1>5, <2>2, <2>3, <2>4
  <1>8. CASE NextPage
    <2>1. PICK S, s : S = After(links.next) /\ s = FirstOf(S)
      OBVIOUS
    <2>2. S \in SUBSET Messages /\ S \subseteq Nat /\ IsFiniteSet(S)
      BY <1>2, <2>1, FS_Subset DEF After
    <2>3. PageOf(s, S)
      BY <2>1, <2>2, QueriesArePages
    <2>4. Show(s) /\ walk' \in {"forth", "both"} /\ seen' = seen \cup ToSet(page') /\ newest' = newest
      BY <1>8, <2>1 DEF NextPage
    <2>5. QED
      BY <1>5, <2>2, <2>3, <2>4
  <1>9. CASE UNCHANGED vars
    <2>1. UNCHANGED <<created, hidden, page, links, walk, seen, newest>>
      BY <1>9 DEF vars, store
    <2>2. TypeOK' /\ Rising'
      BY <1>1, <2>1 DEF TypeOK, Rising, Messages
    <2>3. Ascending(page)' /\ links' = LinksOf(page)' /\ newest' <= Len(created')
      BY <1>1, <2>1 DEF Ascending, LinksOf, Unix
    <2>4. QED
      BY <2>2, <2>3 DEF TInv
  <1>10. QED
    BY <1>3, <1>4, <1>6, <1>7, <1>8, <1>9 DEF Next

\* The type invariant of MessagePages holds throughout: whatever is written, deleted
\* and asked for, a page is at most page_size messages of the conversation.
THEOREM MessagePagesTypeOK == Spec => []TypeOK
  <1>1. TInv => TypeOK
    BY DEF TInv
  <1>2. QED
    BY <1>1, InitTInv, StepTInv, PTL DEF Spec

\* Every page is in order, oldest first: the first page and those before a second
\* are queried backwards and turned around, and the loop that takes the deleted
\* messages from the list leaves the others in their order.
THEOREM MessagePagesPageInOrder == Spec => []PageInOrder
  <1>1. ASSUME TInv
        PROVE  PageInOrder
    <2>1. page \in [DOMAIN page -> Messages] /\ Rising /\ Ascending(page)
      BY <1>1, LenProperties DEF TInv, TypeOK
    <2>2. QED
      BY <2>1 DEF PageInOrder, Rising, Ascending
  <1>2. QED
    BY <1>1, InitTInv, StepTInv, PTL DEF Spec

-----------------------------------------------------------------------------
\* The second of the oldest message of a page starts no later than it, and that of
\* the newest ends after it: a query a second before or after repeats none of them.
LEMMA PreviousIsOlder ==
    ASSUME TInv, PreviousPage
    PROVE  \A m \in ToSet(page), k \in ToSet(page') : k < m
  <1>1. /\ created \in Seq(Nat) /\ page \in Seq(Messages) /\ Ascending(page)
        /\ Rising /\ links = LinksOf(page)
    BY DEF TInv, TypeOK
  <1>2. /\ Messages = 1..Len(created) /\ Len(created) \in Nat
        /\ IsFiniteSet(Messages) /\ \A m \in Messages : created[m] \in Nat
    BY <1>1, MessagesAre
  <1>3. PICK t, S, s : t = links.previous /\ S = Before(t) /\ s = LastOf(S)
    OBVIOUS
  <1>4. t # NoLink /\ Show(s)
    BY <1>3 DEF PreviousPage
  <1>5. PICK h : h = page[1]
    OBVIOUS
  <1>6. Len(page) >= 1 /\ h \in Messages /\ t = Unix(h)
    BY <1>1, <1>3, <1>4, <1>5, LinksAre
  <1>7. t \in Nat /\ t * Tick <= created[h] /\ created[h] \in Nat /\ Tick \in Nat \ {0}
    BY <1>1, <1>2, <1>6, UnixIs, MessagePagesAssumption
  <1>8. S \in SUBSET Messages /\ S \subseteq Nat /\ IsFiniteSet(S)
    BY <1>2, <1>3, FS_Subset DEF Before
  <1>9. PageOf(s, S)
    BY <1>3, <1>8, QueriesArePages
  <1>10. page' \in Seq(S)
    BY <1>4, <1>8, <1>9, ShownIs
  <1>11. \A k \in ToSet(page') : k \in S
    BY <1>10, LenProperties DEF ToSet
  <1>12. \A k \in S : created[k] < created[h]
    <2> TAKE k \in S
    <2>1. k \in Messages /\ created[k] < (t - 1) * Tick /\ created[k] \in Nat
      BY <1>2, <1>3, <1>8 DEF Before
    <2>2. (t - 1) * Tick = t * Tick - Tick
      BY <1>7
    <2>3. QED
      BY <1>7, <2>1, <2>2
  <1>13. \A m \in ToSet(page) : m \in Messages /\ h <= m
    <2>1. Len(page) \in Nat /\ DOMAIN page = 1..Len(page) /\ page \in [1..Len(page) -> Messages]
      BY <1>1, LenProperties
    <2> SUFFICES ASSUME NEW i \in 1..Len(page)
                 PROVE  page[i] \in Messages /\ h <= page[i]
      BY <2>1 DEF ToSet
    <2>2. i = 1 \/ 1 < i
      OBVIOUS
    <2>3. QED
      BY <1>1, <1>2, <1>5, <1>6, <2>1, <2>2 DEF Ascending
  <1>14. \A k \in S : k < h
    <2> TAKE k \in S
    <2>1. k \in Messages /\ created[k] < created[h] /\ created[k] \in Nat
      BY <1>2, <1>8, <1>12
    <2>2. h < k => created[h] < created[k]
      BY <1>1, <1>6, <2>1 DEF Rising
    <2>3. QED
      BY <1>2, <1>6, <1>7, <2>1, <2>2
  <1>15. QED
    <2> SUFFICES ASSUME NEW m \in ToSet(page), NEW k \in ToSet(page')
                 PROVE  k < m
      OBVIOUS
    <2>1. k \in S /\ k < h /\ h <= m /\ m \in Messages /\ k \in Messages
      BY <1>8, <1>11, <1>13, <1>14
    <2>2. QED
      BY <1>2, <1>6, <2>1

LEMMA NextIsNewer ==
    ASSUME TInv, NextPage
    PROVE  \A m \in ToSet(page), k \in ToSet(page') : k > m
  <1>1. /\ created \in Seq(Nat) /\ page \in Seq(Messages) /\ Ascending(page)
        /\ Rising /\ links = LinksOf(page)
    BY DEF TInv, TypeOK
  <1>2. /\ Messages = 1..Len(created) /\ Len(created) \in Nat
        /\ IsFiniteSet(Messages) /\ \A m \in Messages : created[m] \in Nat
    BY <1>1, MessagesAre
  <1>3. PICK t, S, s : t = links.next /\ S = After(t) /\ s = FirstOf(S)
    OBVIOUS
  <1>4. t # NoLink /\ Show(s)
    BY <1>3 DEF NextPage
  <1>5. PICK l : l = page[Len(page)]
    OBVIOUS
  <1>6. Len(page) >= 1 /\ l \in Messages /\ t = Unix(l)
    BY <1>1, <1>3, <1>4, <1>5, LinksAre
  <1>7. t \in Nat /\ created[l] < (t + 1) * Tick /\ created[l] \in Nat /\ Tick \in Nat \ {0}
    BY <1>1, <1>2, <1>6, UnixIs, MessagePagesAssumption
  <1>8. S \in SUBSET Messages /\ S \subseteq Nat /\ IsFiniteSet(S)
    BY <1>2, <1>3, FS_Subset DEF After
  <1>9. PageOf(s, S)
    BY <1>3, <1>8, QueriesArePages
  <1>10. page' \in Seq(S)
    BY <1>4, <1>8, <1>9, ShownIs
  <1>11. \A k \in ToSet(page') : k \in S
    BY <1>10, LenProperties DEF ToSet
  <1>12. \A k \in S : created[k] > created[l]
    <2> TAKE k \in S
    <2>1. k \in Messages /\ created[k] > (t + 1) * Tick /\ created[k] \in Nat
      BY <1>2, <1>3, <1>8 DEF After
    <2>2. (t + 1) * Tick \in Nat
      BY <1>7
    <2>3. QED
      BY <1>7, <2>1, <2>2
  <1>13. \A m \in ToSet(page) : m \in Messages /\ m <= l
    <2>1. PICK n : n = Len(page)
      OBVIOUS
    <2>2. n \in Nat /\ DOMAIN page = 1..n /\ page \in [1..n -> Messages]
      BY <1>1, <2>1, LenProperties
    <2> SUFFICES ASSUME NEW i \in 1..n
                 PROVE  page[i] \in Messages /\ page[i] <= l
      BY <2>2 DEF ToSet
    <2>3. l = page[n] /\ n \in 1..n /\ (i = n \/ i < n)
      BY <1>5, <2>1, <2>2
    <2>4. i < n => page[i] < page[n]
      BY <1>1, <2>2, <2>3 DEF Ascending
    <2>5. page[i] \in Messages
      BY <2>2
    <2>6. QED
      BY <1>2, <1>6, <2>3, <2>4, <2>5
  <1>14. \A k \in S : k > l
    <2> TAKE k \in S
    <2>1. k \in Messages /\ created[k] > created[l] /\ created[k] \in Nat
      BY <1>2, <1>8, <1>12
    <2>2. k < l => created[k] < created[l]
      BY <1>1, <1>6, <2>1 DEF Rising
    <2>3. QED
      BY <1>2, <1>6, <1>7, <2>1, <2>2
  <1>15. QED
    <2> SUFFICES ASSUME NEW m \in ToSet(page), NEW k \in ToSet(page')
                 PROVE  k > m
      OBVIOUS
    <2>1. k \in S /\ k > l /\ m <= l /\ m \in Messages /\ k \in Messages
      BY <1>8, <1>11, <1>13, <1>14
    <2>2. QED
      BY <1>2, <1>6, <2>1

\* No message is shown twice: what the previous page shows is older than all of the
\* page that its link is on, and what the next page shows is newer.
THEOREM MessagePagesNoRepeats == Spec => NoRepeats
  <1>1. TInv /\ [Next]_vars =>
          [/\ PreviousPage => \A m \in ToSet(page), k \in ToSet(page') : k < m
           /\ NextPage     => \A m \in ToSet(page), k \in ToSet(page') : k > m]_vars
    BY PreviousIsOlder, NextIsNewer
  <1>2. QED
    BY <1>1, InitTInv, StepTInv, PTL DEF Spec, NoRepeats

-----------------------------------------------------------------------------
\* The last page of the first n messages leaves out only what is before it.
LEMMA LastOfFirst ==
    ASSUME NEW n \in Nat
    PROVE  \A m \in 1..n : \/ m \in ToSet(LastOf(1..n))
                           \/ Len(LastOf(1..n)) >= PageSize /\ m < LastOf(1..n)[1]
  <1> USE MessagePagesAssumption
  <1>1. PICK S, s : S = 1..n /\ s = Sorted(S)
    OBVIOUS
  <1>2. s = [i \in 1..n |-> i] /\ s \in Seq(S) /\ Len(s) = n
    BY <1>1, SortedInterval
  <1>3. S \subseteq Nat /\ Ascending(s)
    BY <1>1, <1>2 DEF Ascending
  <1>4. PICK a : a = IF n > PageSize THEN n - PageSize + 1 ELSE 1
    OBVIOUS
  <1>5. a \in Nat \ {0} /\ (n > PageSize => a <= n) /\ n <= Len(s)
    BY <1>2, <1>4
  <1>6. PICK t : t = SubSeq(s, a, n)
    OBVIOUS
  <1>7. LastOf(S) = t
    BY <1>1, <1>2, <1>4, <1>6 DEF LastOf
  <1>8. /\ t \in Seq(S)
        /\ (a <= n => Len(t) = n - a + 1) /\ (n < a => Len(t) = 0)
        /\ \A i \in 1..(n - a + 1) : t[i] = s[a + i - 1]
    BY <1>2, <1>3, <1>5, <1>6, PartIs, SMT
  <1>9. ASSUME NEW m \in 1..n
        PROVE  m \in ToSet(t) \/ (Len(t) >= PageSize /\ m < t[1])
    <2>1. CASE m >= a
      <3>1. PICK i : i = m - a + 1
        OBVIOUS
      <3>2. i \in 1..(n - a + 1) /\ a <= n /\ a + i - 1 = m /\ i \in 1..Len(t)
        BY <1>5, <1>8, <2>1, <3>1
      <3>3. t[i] = m
        BY <1>2, <1>8, <3>2
      <3>4. i \in DOMAIN t
        BY <1>8, <3>2, LenProperties
      <3>5. QED
        BY <3>3, <3>4 DEF ToSet
    <2>2. CASE m < a
      <3>1. n > PageSize /\ a = n - PageSize + 1
        BY <1>4, <2>2
      <3>2. a <= n /\ Len(t) = PageSize /\ 1 \in 1..(n - a + 1) /\ a + 1 - 1 = a /\ a \in 1..n
        BY <1>5, <1>8, <3>1
      <3>3. t[1] = s[a] /\ s[a] = a
        BY <1>2, <1>8, <3>2
      <3>4. QED
        BY <2>2, <3>2, <3>3
    <2>3. QED
      BY <1>5, <2>1, <2>2
  <1>10. QED
    BY <1>1, <1>7, <1>9

\* Messages two seconds apart: whole seconds tell them all from each other.
LEMMA BeforeIsAll ==
    ASSUME TInv, Apart, NEW h \in Messages
    PROVE  Before(Unix(h)) = 1..(h - 1)
  <1>1. created \in Seq(Nat) /\ Rising
    BY DEF TInv, TypeOK
  <1>2. /\ Messages = 1..Len(created) /\ Len(created) \in Nat
        /\ \A m \in Messages : created[m] \in Nat
    BY <1>1, MessagesAre
  <1>3. PICK t : t = Unix(h)
    OBVIOUS
  <1>4. /\ t \in Nat /\ t * Tick <= created[h] /\ created[h] < (t + 1) * Tick
        /\ created[h] \in Nat /\ Tick \in Nat \ {0}
    BY <1>1, <1>2, <1>3, UnixIs, MessagePagesAssumption
  <1>5. (t - 1) * Tick = t * Tick - Tick /\ (t + 1) * Tick = t * Tick + Tick /\ t * Tick \in Nat
    BY <1>4
  <1>6. ASSUME NEW m \in Before(t)
        PROVE  m \in 1..(h - 1)
    <2>1. m \in Messages /\ created[m] < created[h]
      BY <1>2, <1>4, <1>5, <1>6 DEF Before
    <2>2. h < m => created[h] < created[m]
      BY <1>1, <2>1 DEF Rising
    <2>3. QED
      BY <1>2, <2>1, <2>2
  <1>7. ASSUME NEW m \in 1..(h - 1)
        PROVE  m \in Before(t)
    <2>1. m \in Messages /\ h \in Messages \ {1} /\ h - 1 \in Messages
      BY <1>2
    <2>2. created[h] - created[h - 1] >= 2 * Tick
      BY <2>1 DEF Apart
    <2>3. m < h - 1 => created[m] < created[h - 1]
      BY <1>1, <2>1 DEF Rising
    <2>4. created[m] <= created[h - 1]
      BY <1>2, <2>1, <2>3
    <2>5. created[m] < t * Tick - Tick
      <3>1. PICK q, b, c : q = t * Tick /\ b = created[h - 1] /\ c = created[m]
        OBVIOUS
      <3>2. q \in Nat /\ b \in Nat /\ c \in Nat
        BY <1>2, <1>5, <2>1, <3>1
      <3>3. created[h] < q + Tick /\ created[h] - b >= 2 * Tick /\ c <= b
        BY <1>4, <1>5, <2>2, <2>4, <3>1
      <3>4. c < q - Tick
        BY <1>4, <3>2, <3>3
      <3>5. QED
        BY <3>1, <3>4
    <2>6. QED
      BY <1>5, <2>1, <2>5 DEF Before
  <1>8. QED
    BY <1>3, <1>6, <1>7

LEMMA StepWInv == TInv /\ WInv /\ [Next]_vars => WInv'
  <1> SUFFICES ASSUME TInv, WInv, [Next]_vars
               PROVE  WInv'
    OBVIOUS
  <1>1. /\ created \in Seq(Nat) /\ page \in Seq(Messages) /\ Ascending(page)
        /\ newest \in Nat /\ newest <= Len(created) /\ Rising /\ links = LinksOf(page)
        /\ hidden \subseteq Messages
    BY DEF TInv, TypeOK
  <1>2. /\ Messages = 1..Len(created) /\ Len(created) \in Nat
        /\ IsFiniteSet(Messages) /\ Messages \subseteq Nat
    BY <1>1, MessagesAre
  <1>3. SUFFICES ASSUME walk' \in {"first", "back"}, Apart', hidden' = {},
                        NEW m \in 1..newest'
                 PROVE  m \in seen' \/ (Len(page') >= PageSize /\ m < page'[1])
    BY DEF WInv
  <1>4. ASSUME NEW gap \in Gap, Post(gap)
        PROVE  m \in seen' \/ (Len(page') >= PageSize /\ m < page'[1])
    <2>1. UNCHANGED <<hidden, page, links, walk, seen, newest>>
      BY <1>4 DEF Post
    <2>2. /\ Len(created') = Len(created) + 1 /\ created' \in Seq(Nat)
          /\ \A k \in Messages : created'[k] = created[k]
      BY <1>4, PostGrows
    <2>3. Messages' = 1..(Len(created) + 1)
      BY <2>2, LenProperties DEF Messages
    <2>4. Apart
      <3> SUFFICES ASSUME NEW k \in Messages \ {1}
                   PROVE  created[k] - created[k - 1] >= 2 * Tick
        BY DEF Apart
      <3>1. k \in Messages' \ {1} /\ k \in Messages /\ k - 1 \in Messages
        BY <1>2, <2>3
      <3>2. created'[k] - created'[k - 1] >= 2 * Tick
        BY <1>3, <3>1 DEF Apart
      <3>3. QED
        BY <2>2, <3>1, <3>2
    <2>5. QED
      BY <1>3, <2>1, <2>4 DEF WInv
  <1>5. ASSUME NEW k \in Messages \ hidden, Hide(k)
        PROVE  FALSE
    BY <1>3, <1>5 DEF Hide
  <1>6. ASSUME NEW n \in Nat, 1..n \subseteq Messages, Show(LastOf(1..n)), hidden = {}
        PROVE  \A k \in 1..n : k \in ToSet(page') \/ (Len(page') >= PageSize /\ k < page'[1])
    <2>1. PICK S, s : S = 1..n /\ s = LastOf(S)
      OBVIOUS
    <2>2. S \in SUBSET Messages /\ S \subseteq Nat /\ IsFiniteSet(S)
      BY <1>6, <2>1, FS_Interval
    <2>3. PageOf(s, S)
      BY <2>1, <2>2, QueriesArePages
    <2>4. Show(s)
      BY <1>6, <2>1
    <2>5. page' = s
      BY <1>6, <2>2, <2>3, <2>4, ShownIs
    <2>6. QED
      BY <1>6, <2>1, <2>5, LastOfFirst
  <1>7. CASE FirstPage
    <2>1. /\ Show(LastOf(All)) /\ seen' = ToSet(page') /\ newest' = Len(created)
          /\ UNCHANGED store
      BY <1>7 DEF FirstPage, Show
    <2>2. hidden = {} /\ All = 1..Len(created)
      BY <1>2, <1>3, <2>1 DEF store, All
    <2>3. Show(LastOf(1..Len(created)))
      BY <2>1, <2>2
    <2>4. QED
      BY <1>2, <1>3, <1>6, <2>1, <2>2, <2>3
  <1>8. CASE PreviousPage
    <2>1. /\ links.previous # NoLink /\ Show(LastOf(Before(links.previous)))
          /\ seen' = seen \cup ToSet(page') /\ newest' = newest /\ UNCHANGED store
      BY <1>8 DEF PreviousPage, Show
    <2>2. walk \in {"first", "back"}
      BY <1>3, <1>8 DEF PreviousPage
    <2>3. hidden = {} /\ Apart
      BY <1>3, <2>1 DEF store, Apart, Messages
    <2>4. PICK h : h = page[1]
      OBVIOUS
    <2>5. h \in Messages /\ links.previous = Unix(h)
      BY <1>1, <2>1, <2>4, LinksAre
    <2>6. Before(links.previous) = 1..(h - 1)
      BY <2>3, <2>5, BeforeIsAll
    <2>7. h - 1 \in Nat /\ 1..(h - 1) \subseteq Messages /\ h \in Nat
      BY <1>2, <2>5
    <2>8. Show(LastOf(1..(h - 1)))
      BY <2>1, <2>6
    <2>9. \A k \in 1..(h - 1) : k \in ToSet(page') \/ (Len(page') >= PageSize /\ k < page'[1])
      BY <1>6, <2>3, <2>7, <2>8
    <2>10. m \in seen \/ m < h
      BY <1>3, <2>1, <2>2, <2>3, <2>4 DEF WInv
    <2>11. m \in 1..newest
      BY <1>3, <2>1
    <2>12. m \in seen \/ m \in 1..(h - 1)
      BY <1>1, <2>7, <2>10, <2>11
    <2>13. QED
      BY <2>1, <2>9, <2>12
  <1>9. CASE NextPage
    BY <1>3, <1>9 DEF NextPage
  <1>10. CASE UNCHANGED vars
    <2>1. UNCHANGED <<created, hidden, page, links, walk, seen, newest>>
      BY <1>10 DEF vars, store
    <2>2. Apart
      BY <1>3, <2>1 DEF Apart, Messages
    <2>3. QED
      BY <1>3, <2>1, <2>2 DEF WInv
  <1>11. QED
    BY <1>4, <1>5, <1>7, <1>8, <1>9, <1>10 DEF Next

\* When no two messages are less than two seconds apart and the user has deleted
\* none, a walk back that has come to its end has shown every message there was at
\* its first page, whatever was written meanwhile: a page that is full has a link,
\* and the query of its link starts where the page does.
THEOREM MessagePagesSpacedWalkComplete == Spec => []SpacedWalkComplete
  <1>1. Init => WInv
    BY DEF Init, WInv
  <1>2. ASSUME TInv, WInv
        PROVE  SpacedWalkComplete
    <2>1. created \in Seq(Nat) /\ page \in Seq(Messages) /\ links = LinksOf(page)
      BY <1>2 DEF TInv, TypeOK
    <2>2. links.previous = NoLink => Len(page) < PageSize
      BY <2>1, LinksAre
    <2>3. Len(page) \in Nat /\ PageSize \in Nat
      BY <2>1, LenProperties, MessagePagesAssumption
    <2>4. QED
      BY <1>2, <2>2, <2>3 DEF WInv, SpacedWalkComplete
  <1>3. QED
    BY <1>1, <1>2, InitTInv, StepTInv, StepWInv, PTL DEF Spec
=============================================================================
