---------------------------- MODULE ListingProofs ----------------------------
(***************************************************************************)
(* Proofs about Listing, for any finite set of emails with any dates, any    *)
(* filter, any limit and any emails stored while a client pages.            *)
(***************************************************************************)
EXTENDS Listing, FiniteSetTheorems, TLAPS

\* The emails a query yields before m, which are the position of an email that
\* is alone at its date; those that were there at the beginning; those stored
\* since.
Before(m) == {n \in Matching : Precedes(n, m)}
OldBefore(m) == Before(m) \cap first
NewBefore(m) == Before(m) \ first

\* Nothing has happened before the client begins.
IdleHasNothing ==
    at = "idle" => offset = 0 /\ page = {} /\ first = {} /\ \A m \in Emails : times[m] = 0

\* What the client knows of is in the table while the account lives.
KnownAreStored ==
    acct => /\ first \subseteq stored
            /\ \A m \in Emails : times[m] > 0 \/ m \in page => m \in stored

\* The offset never passes an email that was there at the beginning and that
\* the client was not given.
NotPassed ==
    acct => \A m \in first : Matches(m) /\ Alone(m) /\ times[m] = 0 =>
        /\ at \in {"account", "query", "count"} => offset <= Cardinality(Before(m))
        /\ at = "count" => \/ m \in page
                           \/ page # {} /\ offset + Limit <= Cardinality(Before(m))
        /\ at # "done"

\* Every time an email is given again, another one has been stored before it:
\* the offset has passed its old position and as many more as it was given.
GivenAgainForNew ==
    \A m \in stored :
        /\ times[m] > 0 \/ m \in page => Matches(m)
        /\ Alone(m) =>
            /\ times[m] > 0 => /\ Cardinality(OldBefore(m)) + times[m] <= offset
                               /\ times[m] <= 1 + Cardinality(NewBefore(m))
            /\ m \in page =>
                /\ Cardinality(OldBefore(m)) + times[m] + 1 <= offset + Limit
                /\ times[m] <= Cardinality(NewBefore(m))

\* The inductive invariant.
LInv ==
    /\ TypeOK
    /\ IdleHasNothing
    /\ KnownAreStored
    /\ NotPassed
    /\ GivenAgainForNew

------------------------------------------------------------------------------
(* Sizes of sets of emails.                                                  *)

LEMMA SmallerSubset ==
    ASSUME NEW S \in SUBSET Emails, NEW T \in SUBSET S
    PROVE  /\ Cardinality(S) \in Nat /\ Cardinality(T) \in Nat
           /\ Cardinality(T) <= Cardinality(S)
           /\ T # S => Cardinality(T) < Cardinality(S)
<1>1. IsFiniteSet(S)
  BY ListingAssumption, FS_Subset
<1>2. /\ IsFiniteSet(T) /\ Cardinality(T) <= Cardinality(S)
      /\ Cardinality(S) = Cardinality(T) => S = T
  BY <1>1, FS_Subset
<1>3. Cardinality(S) \in Nat /\ Cardinality(T) \in Nat
  BY <1>1, <1>2, FS_CardinalityType
<1>4. T # S => Cardinality(T) # Cardinality(S)
  BY <1>2
<1> QED
  BY <1>2, <1>3, <1>4

LEMMA DisjointSizes ==
    ASSUME NEW S \in SUBSET Emails, NEW T \in SUBSET Emails, S \cap T = {}
    PROVE  Cardinality(S \cup T) = Cardinality(S) + Cardinality(T)
<1>1. IsFiniteSet(S) /\ IsFiniteSet(T)
  BY ListingAssumption, FS_Subset
<1>2. Cardinality(S \cup T) = Cardinality(S) + Cardinality(T) - Cardinality(S \cap T)
  BY <1>1, FS_Union
<1>3. Cardinality(S \cap T) = 0
  BY FS_EmptySet
<1>4. Cardinality(S) \in Nat /\ Cardinality(T) \in Nat
  BY <1>1, FS_CardinalityType
<1> QED
  BY <1>2, <1>3, <1>4

------------------------------------------------------------------------------
(* Where the emails of a page are.                                           *)

LEMMA LimitTyped == TypeOK => Limit \in 1..MaxLimit /\ AnsweredLimit = Limit
BY ListingAssumption DEF TypeOK, Limit, AnsweredLimit, Least

\* The emails before m are a proper part of those the query yields, and those
\* before it that were there at the beginning are some of them.
LEMMA BeforeTyped ==
    ASSUME TypeOK, NEW m \in Matching
    PROVE  /\ Matching \in SUBSET Emails
           /\ Before(m) \in SUBSET Matching /\ m \notin Before(m)
           /\ Cardinality(Before(m)) \in Nat
           /\ Cardinality(Before(m)) < Cardinality(Matching)
           /\ Cardinality(OldBefore(m)) \in Nat /\ Cardinality(NewBefore(m)) \in Nat
           /\ Cardinality(Before(m)) = Cardinality(OldBefore(m)) + Cardinality(NewBefore(m))
<1>1. Matching \in SUBSET Emails /\ Before(m) \in SUBSET Matching
  BY DEF TypeOK, Matching, Before
<1>2. m \notin Before(m)
  BY ListingAssumption DEF TypeOK, Before, Precedes, Matching, NoDate
<1>3. Cardinality(Before(m)) \in Nat /\ Cardinality(Before(m)) < Cardinality(Matching)
  BY <1>1, <1>2, SmallerSubset
<1>4. /\ OldBefore(m) \in SUBSET Emails /\ NewBefore(m) \in SUBSET Emails
      /\ OldBefore(m) \cap NewBefore(m) = {} /\ OldBefore(m) \cup NewBefore(m) = Before(m)
  BY <1>1 DEF OldBefore, NewBefore
<1>5. Cardinality(Before(m)) = Cardinality(OldBefore(m)) + Cardinality(NewBefore(m))
  BY <1>4, DisjointSizes
<1>6. Cardinality(OldBefore(m)) \in Nat /\ Cardinality(NewBefore(m)) \in Nat
  BY <1>4, SmallerSubset
<1> QED
  BY <1>1, <1>2, <1>3, <1>5, <1>6

\* Of an email alone at its date and another one, one is before the other.
LEMMA AloneIsOrdered ==
    ASSUME TypeOK, NEW m \in Matching, Alone(m), NEW n \in Matching, n # m
    PROVE  Precedes(m, n) \/ Precedes(n, m)
<1>1. date[m] \in Nat /\ date[n] \in Nat /\ date[m] # date[n]
  BY ListingAssumption DEF TypeOK, Matching, Alone, Tied, NoDate
<1> QED
  BY <1>1 DEF Precedes, NoDate

\* The first k rows have m if and only if its position is among them.
LEMMA FrontHasPosition ==
    ASSUME TypeOK, NEW k \in Nat, NEW S \in Fronts(k), NEW m \in Matching, Alone(m)
    PROVE  m \in S <=> Cardinality(Before(m)) < k
<1> DEFINE n == Cardinality(Matching)
           rank == Cardinality(Before(m))
<1>1. S \in SUBSET Matching /\ Cardinality(S) = Least(k, n) /\ Front(S)
  BY DEF Fronts
<1>2. /\ Matching \in SUBSET Emails /\ Before(m) \in SUBSET Matching /\ m \notin Before(m)
      /\ rank \in Nat /\ rank < n
  BY BeforeTyped
<1>3. n \in Nat
  BY <1>2, SmallerSubset
<1>4. CASE m \in S
  <2>1. Before(m) \in SUBSET S /\ Before(m) # S
    BY <1>1, <1>2, <1>4 DEF Front, Before
  <2>2. rank < Cardinality(S)
    BY <1>1, <1>2, <2>1, SmallerSubset
  <2> HIDE DEF rank, n
  <2>3. rank < k
    BY <1>1, <1>2, <1>3, <2>2 DEF Least
  <2> QED
    BY <1>4, <2>3 DEF rank
<1>5. CASE m \notin S
  <2>1. S \in SUBSET Before(m)
    <3> SUFFICES ASSUME NEW x \in S
                 PROVE  x \in Before(m)
      OBVIOUS
    <3>1. x \in Matching /\ x # m /\ ~Precedes(m, x)
      BY <1>1, <1>5 DEF Front
    <3> QED
      BY <3>1, AloneIsOrdered DEF Before
  <2>2. Cardinality(S) <= rank
    BY <1>2, <2>1, SmallerSubset
  <2> HIDE DEF rank, n
  <2>3. ~(rank < k)
    BY <1>1, <1>2, <1>3, <2>2 DEF Least
  <2> QED
    BY <1>5, <2>3 DEF rank
<1> QED
  BY <1>4, <1>5

\* A page has m if and only if its position is on it, and it is not empty
\* before the last email.
LEMMA PageHasPosition ==
    ASSUME TypeOK, NEW P \in Pages(Limit, offset), NEW m \in Matching, Alone(m)
    PROVE  /\ m \in P <=> /\ offset <= Cardinality(Before(m))
                          /\ Cardinality(Before(m)) < offset + Limit
           /\ offset <= Cardinality(Before(m)) => P # {}
<1>1. Limit \in Nat /\ Limit > 0 /\ offset \in Nat /\ offset + Limit \in Nat
  BY LimitTyped, ListingAssumption DEF TypeOK
<1>2. PICK S \in Fronts(offset) : S \cap P = {} /\ S \cup P \in Fronts(offset + Limit)
  BY DEF Pages
<1> DEFINE rank == Cardinality(Before(m))
<1>3. rank \in Nat
  BY BeforeTyped
<1>4. m \in S <=> rank < offset
  BY <1>1, <1>2, FrontHasPosition
<1>5. m \in S \cup P <=> rank < offset + Limit
  BY <1>1, <1>2, FrontHasPosition
<1> HIDE DEF rank
<1>6. m \in P <=> offset <= rank /\ rank < offset + Limit
  BY <1>1, <1>2, <1>3, <1>4, <1>5
<1>7. offset <= rank => P # {}
  <2> SUFFICES ASSUME offset <= rank, P = {}
               PROVE  FALSE
    OBVIOUS
  <2> DEFINE n == Cardinality(Matching)
  <2>1. Cardinality(S) = Least(offset, n) /\ Cardinality(S \cup P) = Least(offset + Limit, n)
    BY <1>2 DEF Fronts
  <2>2. S \cup P = S
    OBVIOUS
  <2>3. n \in Nat /\ rank < n
    BY BeforeTyped, SmallerSubset DEF rank
  <2>4. Least(offset, n) = Least(offset + Limit, n)
    BY <2>1, <2>2
  <2> HIDE DEF n
  <2> QED
    BY <1>1, <1>3, <2>3, <2>4 DEF Least
<1> QED
  BY <1>6, <1>7 DEF rank

\* A page is no longer than the limit, and what it has is in the table.
LEMMA PageTyped ==
    ASSUME TypeOK, NEW P \in Pages(Limit, offset)
    PROVE  P \in SUBSET Matching /\ P \in SUBSET Emails /\ Cardinality(P) <= MaxLimit
<1>1. Matching \in SUBSET Emails
  BY DEF TypeOK, Matching
<1>2. /\ Limit \in Nat /\ Limit <= MaxLimit /\ offset \in Nat
      /\ MaxLimit \in Nat
  BY LimitTyped, ListingAssumption DEF TypeOK
<1>3. PICK S \in Fronts(offset) : S \cap P = {} /\ S \cup P \in Fronts(offset + Limit)
  BY DEF Pages
<1>4. P \in SUBSET Matching /\ P \in SUBSET Emails /\ S \in SUBSET Emails
  BY <1>1, <1>3 DEF Pages, Fronts
<1> DEFINE n == Cardinality(Matching)
           s == Cardinality(S)
           p == Cardinality(P)
<1>5. /\ s = Least(offset, n) /\ Cardinality(S \cup P) = Least(offset + Limit, n)
      /\ Cardinality(S \cup P) = s + p
  BY <1>3, <1>4, DisjointSizes DEF Fronts
<1>6. s + p = Least(offset + Limit, n) /\ s = Least(offset, n)
  BY <1>5
<1>7. n \in Nat /\ p \in Nat
  BY <1>1, <1>4, SmallerSubset
<1> HIDE DEF n, s, p
<1>8. p <= MaxLimit
  BY <1>2, <1>6, <1>7 DEF Least
<1> QED
  BY <1>4, <1>8 DEF p

------------------------------------------------------------------------------
(* Every step keeps the invariant.                                           *)

LEMMA TypeStep == TypeOK /\ [Next]_vars => TypeOK'
<1> SUFFICES ASSUME TypeOK, [Next]_vars
             PROVE  TypeOK'
  OBVIOUS
<1> USE DEF TypeOK, contents, store, request
<1>1. ASSUME QueryPage
      PROVE  TypeOK'
  <2>1. page' \in SUBSET Emails /\ Cardinality(page') <= MaxLimit
    BY <1>1, PageTyped DEF QueryPage
  <2> QED
    BY <1>1, <2>1 DEF QueryPage
<1>2. ASSUME CountTotal
      PROVE  TypeOK'
  <2>1. Cardinality({}) = 0
    BY FS_EmptySet
  <2>2. offset' \in Nat
    BY <1>2, LimitTyped, ListingAssumption DEF CountTotal
  <2>3. times' \in [Emails -> Nat]
    BY <1>2 DEF CountTotal
  <2> QED
    BY <1>2, <2>1, <2>2, <2>3, ListingAssumption DEF CountTotal
<1>3. ASSUME Begin \/ CheckAccount \/ DeleteAccount \/ UNCHANGED vars
      PROVE  TypeOK'
  BY <1>3 DEF Begin, CheckAccount, DeleteAccount, vars
<1>4. ASSUME NEW m \in Emails, StoreEmail(m)
      PROVE  TypeOK'
  BY <1>4 DEF StoreEmail
<1>5. ASSUME QueryFails
      PROVE  TypeOK'
  <2>1. page' = {} /\ Cardinality(page') = 0
    BY <1>5, FS_EmptySet DEF QueryFails
  <2> QED
    BY <1>5, <2>1, ListingAssumption DEF QueryFails
<1> QED
  BY <1>1, <1>2, <1>3, <1>4, <1>5 DEF Next

\* What the query yields does not change while its tables do not.
LEMMA SameRows ==
    ASSUME UNCHANGED <<contents, store, request, first>>
    PROVE  /\ Matching' = Matching /\ Limit' = Limit
           /\ \A m : /\ Before(m)' = Before(m) /\ OldBefore(m)' = OldBefore(m)
                     /\ NewBefore(m)' = NewBefore(m)
                     /\ Matches(m)' <=> Matches(m)
                     /\ Alone(m)' <=> Alone(m)
BY DEF contents, store, request, Matching, Matches, Before, OldBefore, NewBefore, Precedes,
   Alone, Tied, Limit

\* What was there at the beginning and matches is among what the query yields.
LEMMA FirstMatching ==
    ASSUME TypeOK, KnownAreStored, acct, NEW m \in first, Matches(m)
    PROVE  m \in Matching /\ m \in stored /\ m \in Emails
BY DEF TypeOK, KnownAreStored, Matching

\* A request begins with what is in the table.
LEMMA BeginStep == LInv /\ TypeOK' /\ Begin => LInv'
<1> SUFFICES ASSUME LInv, TypeOK', Begin
             PROVE  LInv'
  OBVIOUS
<1>1. /\ at = "idle" /\ at' = "account" /\ first' = stored
      /\ UNCHANGED <<contents, store, request, offset, page, times, acct, stored>>
      /\ TypeOK
  BY DEF Begin, store, LInv
<1>2. offset = 0 /\ page = {} /\ \A m \in Emails : times[m] = 0
  BY <1>1 DEF LInv, IdleHasNothing
<1>3. IdleHasNothing' /\ KnownAreStored'
  BY <1>1, <1>2 DEF IdleHasNothing, KnownAreStored
<1>4. NotPassed'
  <2> SUFFICES ASSUME acct', NEW m \in first', Matches(m)'
               PROVE  offset' <= Cardinality(Before(m)')
    BY <1>1 DEF NotPassed
  <2>1. m \in Matching'
    BY <1>1 DEF Matching
  <2>2. Cardinality(Before(m)') \in Nat
    <3>1. Before(m)' \in SUBSET Emails
      BY <1>1 DEF TypeOK, Before, Matching, store
    <3> QED
      BY <3>1, SmallerSubset
  <2> QED
    BY <1>1, <1>2, <2>2
<1>5. GivenAgainForNew'
  BY <1>1, <1>2 DEF TypeOK, GivenAgainForNew
<1> QED
  BY <1>3, <1>4, <1>5 DEF LInv

LEMMA CheckAccountStep == LInv /\ TypeOK' /\ CheckAccount => LInv'
<1> SUFFICES ASSUME LInv, TypeOK', CheckAccount
             PROVE  LInv'
  OBVIOUS
<1>1. /\ at = "account" /\ at' \in {"query", "gone"}
      /\ UNCHANGED <<contents, store, request, offset, page, times, first, acct, stored>>
  BY DEF CheckAccount, store
<1> QED
  BY <1>1, SameRows DEF LInv, IdleHasNothing, KnownAreStored, NotPassed, GivenAgainForNew

\* The page the query yields.
LEMMA QueryPageStep == LInv /\ TypeOK' /\ QueryPage => LInv'
<1> SUFFICES ASSUME LInv, TypeOK', QueryPage
             PROVE  LInv'
  OBVIOUS
<1>1. /\ at = "query" /\ at' = "count" /\ page' \in Pages(Limit, offset)
      /\ UNCHANGED <<contents, store, request, offset, times, first, acct, stored>>
      /\ TypeOK /\ KnownAreStored /\ NotPassed /\ GivenAgainForNew
      /\ Limit \in Nat /\ Limit > 0 /\ offset \in Nat
  BY LimitTyped, ListingAssumption DEF QueryPage, store, LInv, TypeOK
<1>2. page' \in SUBSET Matching /\ Matching \subseteq stored
  BY <1>1, PageTyped DEF Matching
<1>3. IdleHasNothing' /\ KnownAreStored'
  BY <1>1, <1>2 DEF IdleHasNothing, KnownAreStored
<1>4. NotPassed'
  <2> SUFFICES ASSUME acct, NEW m \in first, Matches(m), Alone(m), times[m] = 0, m \notin page'
               PROVE  page' # {} /\ offset + Limit <= Cardinality(Before(m))
    BY <1>1, SameRows DEF NotPassed
  <2>1. m \in Matching
    BY <1>1, FirstMatching
  <2>2. offset <= Cardinality(Before(m))
    BY <1>1 DEF NotPassed
  <2>3. Cardinality(Before(m)) \in Nat
    BY <1>1, <2>1, BeforeTyped
  <2> QED
    BY <1>1, <2>1, <2>2, <2>3, PageHasPosition
<1>5. GivenAgainForNew'
  <2>1. ASSUME NEW m \in stored
        PROVE  times[m] > 0 \/ m \in page' => Matches(m)
    BY <1>1, <1>2 DEF GivenAgainForNew, Matching
  <2>2. ASSUME NEW m \in stored, Alone(m), m \in page'
        PROVE  /\ Cardinality(OldBefore(m)) + times[m] + 1 <= offset + Limit
               /\ times[m] <= Cardinality(NewBefore(m))
    <3>1. m \in Matching /\ times[m] \in Nat
      BY <1>1, <1>2, <2>2 DEF TypeOK
    <3>2. offset <= Cardinality(Before(m)) /\ Cardinality(Before(m)) < offset + Limit
      BY <1>1, <2>2, <3>1, PageHasPosition
    <3>3. /\ Cardinality(OldBefore(m)) \in Nat /\ Cardinality(NewBefore(m)) \in Nat
          /\ Cardinality(Before(m)) = Cardinality(OldBefore(m)) + Cardinality(NewBefore(m))
      BY <1>1, <3>1, BeforeTyped
    <3>4. times[m] > 0 => Cardinality(OldBefore(m)) + times[m] <= offset
      BY <1>1, <2>2 DEF GivenAgainForNew
    <3> QED
      BY <1>1, <3>1, <3>2, <3>3, <3>4
  <2> QED
    BY <1>1, <2>1, <2>2, SameRows DEF GivenAgainForNew
<1> QED
  BY <1>3, <1>4, <1>5 DEF LInv

\* The client takes the page, and asks for the next one or stops.
LEMMA CountTotalStep == LInv /\ TypeOK' /\ CountTotal => LInv'
<1> SUFFICES ASSUME LInv, TypeOK', CountTotal
             PROVE  LInv'
  OBVIOUS
<1>1. /\ at = "count" /\ page' = {} /\ offset' = offset + Limit
      /\ at' \in {"done", "account"}
      /\ at' = "done" => page = {} \/ offset' >= Total
      /\ UNCHANGED <<contents, store, request, first, acct, stored>>
      /\ TypeOK /\ KnownAreStored /\ NotPassed /\ GivenAgainForNew
      /\ Limit \in Nat /\ Limit > 0 /\ offset \in Nat
  BY LimitTyped, ListingAssumption DEF CountTotal, store, LInv, TypeOK
<1>2. \A m \in Emails : /\ times[m] \in Nat
                        /\ times'[m] = times[m] + IF m \in page THEN 1 ELSE 0
  BY <1>1 DEF CountTotal, TypeOK
<1>3. IdleHasNothing' /\ KnownAreStored'
  BY <1>1, <1>2 DEF IdleHasNothing, KnownAreStored
<1>4. NotPassed'
  <2> SUFFICES ASSUME acct, NEW m \in first, Matches(m), Alone(m), times'[m] = 0
               PROVE  offset' <= Cardinality(Before(m)) /\ at' # "done"
    BY <1>1, SameRows DEF NotPassed
  <2>1. m \in Matching /\ m \in Emails
    BY <1>1, FirstMatching
  <2>2. times[m] = 0 /\ m \notin page
    BY <1>2, <2>1
  <2>3. page # {} /\ offset + Limit <= Cardinality(Before(m))
    BY <1>1, <2>2 DEF NotPassed
  <2>4. Cardinality(Before(m)) < Total /\ Cardinality(Before(m)) \in Nat /\ Total \in Nat
    <3>1. /\ Cardinality(Before(m)) < Cardinality(Matching) /\ Cardinality(Before(m)) \in Nat
          /\ Matching \in SUBSET Emails
      BY <1>1, <2>1, BeforeTyped
    <3>2. stored \in SUBSET Emails /\ Matching \in SUBSET stored
      BY <1>1 DEF TypeOK, Matching
    <3>3. /\ Cardinality(Matching) \in Nat /\ Cardinality(stored) \in Nat
          /\ Cardinality(Matching) <= Cardinality(stored)
      BY <3>2, SmallerSubset
    <3>4. Total = Cardinality(stored) \/ Total = Cardinality(Matching)
      BY DEF Total
    <3> QED
      BY <3>1, <3>3, <3>4
  <2> QED
    BY <1>1, <2>3, <2>4
<1>5. GivenAgainForNew'
  <2> SUFFICES ASSUME NEW m \in stored
               PROVE  /\ times'[m] > 0 => Matches(m)
                      /\ Alone(m) /\ times'[m] > 0 =>
                            /\ Cardinality(OldBefore(m)) + times'[m] <= offset'
                            /\ times'[m] <= 1 + Cardinality(NewBefore(m))
    BY <1>1, SameRows DEF GivenAgainForNew
  <2>1. m \in Emails /\ times[m] \in Nat /\ times'[m] = times[m] + IF m \in page THEN 1 ELSE 0
    BY <1>1, <1>2 DEF TypeOK
  <2>2. times'[m] > 0 => Matches(m)
    BY <1>1, <2>1 DEF GivenAgainForNew
  <2>3. ASSUME Alone(m), times'[m] > 0
        PROVE  /\ Cardinality(OldBefore(m)) + times'[m] <= offset'
               /\ times'[m] <= 1 + Cardinality(NewBefore(m))
    <3>1. m \in Matching
      BY <2>2, <2>3 DEF Matching
    <3>2. Cardinality(OldBefore(m)) \in Nat /\ Cardinality(NewBefore(m)) \in Nat
      BY <1>1, <3>1, BeforeTyped
    <3>3. /\ times[m] > 0 => /\ Cardinality(OldBefore(m)) + times[m] <= offset
                             /\ times[m] <= 1 + Cardinality(NewBefore(m))
          /\ m \in page => /\ Cardinality(OldBefore(m)) + times[m] + 1 <= offset + Limit
                           /\ times[m] <= Cardinality(NewBefore(m))
      BY <1>1, <2>3 DEF GivenAgainForNew
    <3> QED
      BY <1>1, <2>1, <2>3, <3>2, <3>3
  <2> QED
    BY <2>2, <2>3
<1> QED
  BY <1>3, <1>4, <1>5 DEF LInv

\* A page that was read and not given to the client is as good as not read.
LEMMA QueryFailsStep == LInv /\ TypeOK' /\ QueryFails => LInv'
<1> SUFFICES ASSUME LInv, TypeOK', QueryFails
             PROVE  LInv'
  OBVIOUS
<1>1. /\ at \in {"query", "count"} /\ at' = "account" /\ page' = {}
      /\ UNCHANGED <<contents, store, request, offset, times, first, acct, stored>>
  BY DEF QueryFails, store
<1> QED
  BY <1>1, SameRows DEF LInv, IdleHasNothing, KnownAreStored, NotPassed, GivenAgainForNew

\* An email that is stored comes before others, and changes nothing for those
\* that were there at the beginning but their positions.
LEMMA StoreEmailStep ==
    ASSUME LInv, TypeOK', NEW e \in Emails, StoreEmail(e)
    PROVE  LInv'
<1>1. /\ acct /\ e \notin stored /\ stored' = stored \cup {e} /\ acct'
      /\ UNCHANGED <<contents, request, at, offset, page, times, first>>
      /\ TypeOK /\ KnownAreStored /\ NotPassed /\ GivenAgainForNew
      /\ Limit' = Limit /\ Limit \in Nat /\ offset \in Nat
  BY LimitTyped, ListingAssumption DEF StoreEmail, LInv, TypeOK, Limit, request
<1>2. e \notin first /\ e \notin page /\ times[e] = 0
  BY <1>1 DEF KnownAreStored, TypeOK
<1>3. \A m : Matches(m)' <=> Matches(m)
  BY <1>1 DEF Matches, contents, request
<1>4. \A m : Alone(m)' => Alone(m)
  BY <1>1, <1>3 DEF Alone, Tied, Matching, contents
<1>5. ASSUME NEW m \in stored
      PROVE  /\ OldBefore(m)' = OldBefore(m)
             /\ Cardinality(NewBefore(m)) <= Cardinality(NewBefore(m)')
             /\ Cardinality(Before(m)) <= Cardinality(Before(m)')
             /\ {Cardinality(NewBefore(m)), Cardinality(NewBefore(m)'),
                 Cardinality(Before(m)), Cardinality(Before(m)')} \subseteq Nat
  <2>1. OldBefore(m)' = OldBefore(m)
    BY <1>1, <1>2, <1>3 DEF OldBefore, Before, Matching, Precedes, contents
  <2>2. NewBefore(m) \in SUBSET (NewBefore(m)') /\ NewBefore(m)' \in SUBSET Emails
    BY <1>1, <1>3 DEF NewBefore, Before, Matching, Precedes, contents, TypeOK
  <2>3. Before(m) \in SUBSET (Before(m)') /\ Before(m)' \in SUBSET Emails
    BY <1>1, <1>3 DEF Before, Matching, Precedes, contents, TypeOK
  <2> QED
    BY <2>1, <2>2, <2>3, SmallerSubset
<1>6. IdleHasNothing' /\ KnownAreStored'
  BY <1>1 DEF LInv, IdleHasNothing, KnownAreStored
<1>7. NotPassed'
  <2> SUFFICES ASSUME NEW m \in first, Matches(m)', Alone(m)', times[m] = 0
               PROVE  /\ at \in {"account", "query", "count"} => offset <= Cardinality(Before(m)')
                      /\ at = "count" =>
                            \/ m \in page
                            \/ page # {} /\ offset + Limit <= Cardinality(Before(m)')
                      /\ at # "done"
    BY <1>1 DEF NotPassed
  <2>1. m \in stored /\ Matches(m) /\ Alone(m)
    BY <1>1, <1>3, <1>4 DEF KnownAreStored
  <2>2. /\ at \in {"account", "query", "count"} => offset <= Cardinality(Before(m))
        /\ at = "count" => \/ m \in page
                           \/ page # {} /\ offset + Limit <= Cardinality(Before(m))
        /\ at # "done"
    BY <1>1, <2>1 DEF NotPassed
  <2> QED
    BY <1>1, <1>5, <2>1, <2>2
<1>8. GivenAgainForNew'
  <2>1. ASSUME NEW m \in stored
        PROVE  /\ times[m] > 0 \/ m \in page => Matches(m)
               /\ Alone(m)' =>
                   /\ times[m] > 0 => /\ Cardinality(OldBefore(m)') + times[m] <= offset
                                      /\ times[m] <= 1 + Cardinality(NewBefore(m)')
                   /\ m \in page =>
                       /\ Cardinality(OldBefore(m)') + times[m] + 1 <= offset + Limit
                       /\ times[m] <= Cardinality(NewBefore(m)')
    <3>1. times[m] \in Nat
      BY <1>1 DEF TypeOK
    <3>2. /\ times[m] > 0 \/ m \in page => Matches(m)
          /\ Alone(m) =>
              /\ times[m] > 0 => /\ Cardinality(OldBefore(m)) + times[m] <= offset
                                 /\ times[m] <= 1 + Cardinality(NewBefore(m))
              /\ m \in page =>
                  /\ Cardinality(OldBefore(m)) + times[m] + 1 <= offset + Limit
                  /\ times[m] <= Cardinality(NewBefore(m))
      BY <1>1 DEF GivenAgainForNew
    <3> QED
      BY <1>4, <1>5, <3>1, <3>2
  <2> QED
    BY <1>1, <1>2, <1>3, <2>1 DEF GivenAgainForNew
<1> QED
  BY <1>6, <1>7, <1>8 DEF LInv

LEMMA LInvStep == LInv /\ [Next]_vars => LInv'
<1> SUFFICES ASSUME LInv, [Next]_vars
             PROVE  LInv'
  OBVIOUS
<1>1. TypeOK'
  BY TypeStep DEF LInv
<1>2. CASE DeleteAccount
  BY <1>1, <1>2 DEF DeleteAccount, LInv, IdleHasNothing, KnownAreStored, NotPassed,
     GivenAgainForNew
<1>3. CASE UNCHANGED vars
  <2>1. UNCHANGED <<contents, store, request, at, offset, page, times, first, acct, stored>>
    BY <1>3 DEF vars, store
  <2> QED
    BY <1>1, <2>1, SameRows DEF LInv, IdleHasNothing, KnownAreStored, NotPassed, GivenAgainForNew
<1> QED
  BY <1>1, <1>2, <1>3, BeginStep, CheckAccountStep, QueryPageStep, CountTotalStep,
     QueryFailsStep, StoreEmailStep DEF Next

LEMMA LInvInit == Init => LInv
<1> SUFFICES ASSUME Init
             PROVE  LInv
  OBVIOUS
<1>1. TypeOK
  <2>1. Cardinality({}) = 0
    BY FS_EmptySet
  <2> QED
    BY <2>1, ListingAssumption DEF Init, TypeOK
<1>2. IdleHasNothing /\ KnownAreStored /\ NotPassed /\ GivenAgainForNew
  BY <1>1 DEF Init, TypeOK, IdleHasNothing, KnownAreStored, NotPassed, GivenAgainForNew
<1> QED
  BY <1>1, <1>2 DEF LInv

LEMMA LInvHolds == Spec => []LInv
BY LInvInit, LInvStep, PTL DEF Spec

\* Pages are never longer than maxLimit and hold what is in the table
\* (request.go, emails.sql:17-25, 49-56).
THEOREM PagesAreBounded == Spec => []TypeOK
BY LInvHolds, PTL DEF LInv

\* A client that pages to the end is given every matching email that was there
\* when it began and is alone at its date, whatever is stored meanwhile
\* (message_handler.go:125-178, search_handler.go:77-138).
THEOREM PagingMissesNothing == Spec => []NothingMissed
<1>1. LInv => NothingMissed
  <2> SUFFICES ASSUME LInv, at = "done", acct, NEW m \in first, Matches(m), Alone(m)
               PROVE  times[m] > 0
    BY DEF NothingMissed
  <2>1. times[m] \in Nat /\ times[m] # 0
    BY DEF LInv, TypeOK, NotPassed
  <2> QED
    BY <2>1
<1> QED
  BY <1>1, LInvHolds, PTL

\* An email is given once more at most for each match that was stored before it
\* since the client began (emails.sql:17-25, 49-56).
THEOREM PagingRepeatsOnlyForNew == Spec => []RepeatsExplained
<1>1. LInv => RepeatsExplained
  <2> SUFFICES ASSUME LInv, NEW m \in stored, Alone(m)
               PROVE  times[m] <= 1 + Cardinality({n \in Matching \ first : Precedes(n, m)})
    BY DEF RepeatsExplained
  <2>1. {n \in Matching \ first : Precedes(n, m)} = NewBefore(m)
    BY DEF NewBefore, Before
  <2>2. NewBefore(m) \in SUBSET Emails
    BY DEF LInv, TypeOK, NewBefore, Before, Matching
  <2>3. Cardinality(NewBefore(m)) \in Nat
    BY <2>2, SmallerSubset
  <2>4. times[m] \in Nat /\ (times[m] > 0 => times[m] <= 1 + Cardinality(NewBefore(m)))
    BY DEF LInv, TypeOK, GivenAgainForNew
  <2> QED
    BY <2>1, <2>3, <2>4
<1> QED
  BY <1>1, LInvHolds, PTL
==============================================================================
