------------------------------- MODULE Listing -------------------------------
(***************************************************************************)
(* Lists of emails by pages: MessageHandler.ListMessages and                *)
(* SearchHandler.Search over EmailRepository, and a client that asks for    *)
(* page after page while emails are stored and the account may be deleted.  *)
(* A page is one query and its total another.                               *)
(***************************************************************************)
EXTENDS Integers, FiniteSets

CONSTANTS Emails,    \* emails of one folder of the account
          MaxDate,   \* dates are 1..MaxDate; an email without one has NoDate
          MaxLimit   \* maxLimit, the longest page there is

NoDate == 0

ASSUME ListingAssumption ==
    /\ IsFiniteSet(Emails)
    /\ MaxDate \in Nat
    /\ MaxLimit \in Nat \ {0}

VARIABLES date,    \* date[m]: the date of email m
          hit,     \* emails that match the text a search asks for
          stored,  \* emails in the table
          acct,    \* whether the account is there
          kind,    \* "list" or "search"
          before,  \* the parameters "before" and "after" of a list, or NoDate
          after,
          ask,     \* the limit the client asks for
          at,      \* "idle", "account", "query", "count", "done" or "gone"
          offset,  \* the offset of the next page
          page,    \* the page read, while its total is counted
          times,   \* times[m]: how often the client was given m
          first    \* history: emails there when the client began

contents == <<date, hit>>
store == <<stored, acct>>
request == <<kind, before, after, ask>>
vars == <<contents, store, request, at, offset, page, times, first>>

Init ==
    /\ date \in [Emails -> NoDate..MaxDate]
    /\ hit \in SUBSET Emails
    /\ stored \in SUBSET Emails
    /\ acct = TRUE
    /\ kind \in {"list", "search"}
    /\ before \in NoDate..MaxDate
    /\ after \in NoDate..MaxDate
    /\ kind = "search" => before = NoDate /\ after = NoDate
    /\ kind = "list" => hit = Emails
    /\ ask \in 1..(MaxLimit + 1)
    /\ at = "idle"
    /\ offset = 0
    /\ page = {}
    /\ times = [m \in Emails |-> 0]
    /\ first = {}

------------------------------------------------------------------------------
(* The queries                                                               *)

\* WHERE: a comparison with a date that is NULL is not true.
Matches(m) ==
    /\ m \in hit
    /\ before = NoDate \/ (date[m] # NoDate /\ date[m] < before)
    /\ after = NoDate \/ (date[m] # NoDate /\ date[m] > after)

Matching == {m \in stored : Matches(m)}

\* A plausible bug: the query has no ORDER BY.
Unordered(m, n) == FALSE

\* ORDER BY date DESC: NULL comes first, and equal dates come in any order.
Precedes(m, n) == date[n] # NoDate /\ (date[m] = NoDate \/ date[m] > date[n])
Tied(m, n) == m # n /\ date[m] = date[n]

\* S may be what the query yields before some row.
Front(S) == \A m \in S, n \in Matching \ S : ~Precedes(n, m)

Least(a, b) == IF a < b THEN a ELSE b

\* What the query may yield as its first k rows.
Fronts(k) ==
    {S \in SUBSET Matching : Cardinality(S) = Least(k, Cardinality(Matching)) /\ Front(S)}

\* LIMIT and OFFSET: what follows one front up to the next one.
Pages(limit, from) ==
    {P \in SUBSET Matching : \E S \in Fronts(from) :
         S \cap P = {} /\ S \cup P \in Fronts(from + limit)}

\* A plausible bug: the answer repeats the limit of the request.
AskedLimit == ask

\* parsePaginationParams; the answer says which limit was used.
Limit == Least(ask, MaxLimit)
AnsweredLimit == Limit

\* The total of a list is that of its folder; a search counts what it matches.
Total == Cardinality(IF kind = "list" THEN stored ELSE Matching)

------------------------------------------------------------------------------
(* A request for a page                                                      *)

Begin ==
    /\ at = "idle"
    /\ at' = "account"
    /\ first' = stored
    /\ UNCHANGED <<contents, store, request, offset, page, times>>

\* accountRepo.Get
CheckAccount ==
    /\ at = "account"
    /\ at' = IF acct THEN "query" ELSE "gone"
    /\ UNCHANGED <<contents, store, request, offset, page, times, first>>

QueryPage ==
    /\ at = "query"
    /\ at' = "count"
    /\ page' \in Pages(Limit, offset)
    /\ UNCHANGED <<contents, store, request, offset, times, first>>

\* The client goes on by the limit it is told, until that covers the total or
\* a page is empty.
CountTotal ==
    /\ at = "count"
    /\ times' = [m \in Emails |-> times[m] + IF m \in page THEN 1 ELSE 0]
    /\ offset' = offset + AnsweredLimit
    /\ page' = {}
    /\ at' = IF page = {} \/ offset' >= Total THEN "done" ELSE "account"
    /\ UNCHANGED <<contents, store, request, first>>

\* A query fails: the request is answered with an error and no page, and the
\* client asks for the same page again.
QueryFails ==
    /\ at \in {"query", "count"}
    /\ at' = "account"
    /\ page' = {}
    /\ UNCHANGED <<contents, store, request, offset, times, first>>

------------------------------------------------------------------------------
(* Meanwhile                                                                 *)

StoreEmail(m) ==
    /\ acct
    /\ m \notin stored
    /\ stored' = stored \cup {m}
    /\ UNCHANGED <<contents, acct, request, at, offset, page, times, first>>

DeleteAccount ==
    /\ acct
    /\ acct' = FALSE
    /\ stored' = {}
    /\ UNCHANGED <<contents, request, at, offset, page, times, first>>

Next ==
    \/ Begin \/ CheckAccount \/ QueryPage \/ CountTotal \/ QueryFails
    \/ \E m \in Emails : StoreEmail(m)
    \/ DeleteAccount

Spec == Init /\ [][Next]_vars

------------------------------------------------------------------------------

\* Type invariant; a page is never longer than the limit, and what it holds was
\* stored.
TypeOK ==
    /\ date \in [Emails -> NoDate..MaxDate]
    /\ hit \subseteq Emails /\ stored \subseteq Emails /\ first \subseteq Emails
    /\ acct \in BOOLEAN
    /\ kind \in {"list", "search"} /\ ask \in 1..(MaxLimit + 1)
    /\ before \in NoDate..MaxDate /\ after \in NoDate..MaxDate
    /\ at \in {"idle", "account", "query", "count", "done", "gone"}
    /\ offset \in Nat
    /\ page \subseteq Emails /\ Cardinality(page) <= MaxLimit
    /\ times \in [Emails -> Nat]

\* The position of m among the emails a query yields is its own.
Alone(m) == ~\E n \in Matching : Tied(m, n)

\* message_handler.go:125-178, search_handler.go:77-138, emails.sql: a client
\* that pages to the end is given every matching email that was there when it
\* began, whatever is stored meanwhile, whichever limit it asks for and whatever
\* requests fail, if no other matching email has the same date.
NothingMissed ==
    at = "done" /\ acct =>
        \A m \in first : Matches(m) /\ Alone(m) => times[m] > 0

\* emails.sql:17-25, 49-56: it is given one again only for a matching email that
\* was stored before it in the list since it began.
RepeatsExplained ==
    \A m \in stored :
        Alone(m) => times[m] <= 1 + Cardinality({n \in Matching \ first : Precedes(n, m)})
==============================================================================
