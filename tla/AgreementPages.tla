--------------------------- MODULE AgreementPages ---------------------------
(***************************************************************************)
(* Listing one account's agreements page by page                           *)
(* (apps/web/server/agreements/application/service.ts list and             *)
(* persistence/prisma-repository.ts list), while the handlers of           *)
(* AgreementVersions create and revise them.  Pages are a keyset: newest   *)
(* first, ties by identifier, the cursor is the last row sent.  Each page  *)
(* is a query of its own, so a revision can move an agreement across the   *)
(* boundary between two of them.                                           *)
(*                                                                         *)
(* Filters are left out: they narrow the rows a query may return and are   *)
(* bound to the cursor as the scope is.  Memberships are active ones.      *)
(***************************************************************************)
EXTENDS AgreementVersions

CONSTANTS
  Lister,       \* the account whose agreements are listed
  MaxLimit,     \* bound: rows of a page
  CursorLife    \* how long a cursor is good for

\* Identifiers are ordered; here they are the numbers of that order.
ASSUME PagesAssumption ==
  /\ Agreements \subseteq Int /\ IsFiniteSet(Agreements)
  /\ MaxLimit \in Nat \ {0} /\ CursorLife \in Nat

VARIABLES
  cursor,       \* the client's: None before the first page and after the last
  stage,        \* the client's: start, query, between pages, done or refused
  scope,        \* the agreement ids the service read for the query at hand
  listed,       \* history: how often the pages so far held each agreement
  untouched     \* history: agreements of the first page's scope not revised since

reader    == <<cursor, stage, scope, listed, untouched>>
pagesVars == <<vars, reader>>

Cursor == [at : Nat, id : Agreements, scope : SUBSET Agreements, expiresAt : Nat]

ASSUME CursorAssumption == None \notin Cursor

Mine == {a \in Agreements : Exists(a) /\ \E m \in members[a] : m.account = Lister}

-----------------------------------------------------------------------------
(* The query. *)

UpdatedAt(a) == head[a].updatedAt

\* The order of the list.
Before(a, b) == UpdatedAt(a) > UpdatedAt(b) \/ (UpdatedAt(a) = UpdatedAt(b) /\ a < b)

\* Mutants of Beyond: the boundary row itself again; ties with it are skipped.
BeyondInclusive(a) ==
  cursor = None \/ UpdatedAt(a) < cursor.at \/ (UpdatedAt(a) = cursor.at /\ a >= cursor.id)
BeyondStrict(a) == cursor = None \/ UpdatedAt(a) < cursor.at

Beyond(a) ==
  cursor = None \/ UpdatedAt(a) < cursor.at \/ (UpdatedAt(a) = cursor.at /\ a > cursor.id)

Rows == {a \in scope : Beyond(a)}
PageOf(limit) == {a \in Rows : Cardinality({b \in Rows : Before(b, a)}) < limit}

LastOf(page) == CHOOSE a \in page : \A b \in page \ {a} : Before(b, a)

\* A cursor is bound to the agreements its query ranged over, and expires.
Accepted == cursor # None => cursor.scope = scope /\ cursor.expiresAt > clock

-----------------------------------------------------------------------------
(* Steps. *)

\* list reads the account's agreement ids first, for the page's query.
ReadScope ==
  /\ stage \in {"start", "between"} \/ (stage = "refused" /\ cursor # None)
  /\ stage' = "query"
  /\ scope' = Mine
  /\ untouched' = IF stage = "start" THEN Mine ELSE untouched
  /\ UNCHANGED <<vars, cursor, listed>>

ListPage(limit) ==
  LET page == PageOf(limit)
      hasMore == page # Rows
  IN
  /\ stage = "query"
  /\ Accepted
  /\ listed' = [a \in Agreements |-> IF a \in page THEN listed[a] + 1 ELSE listed[a]]
  /\ cursor' = IF hasMore
               THEN [at |-> UpdatedAt(LastOf(page)), id |-> LastOf(page), scope |-> scope,
                     expiresAt |-> clock + CursorLife]
               ELSE None
  /\ stage' = IF hasMore THEN "between" ELSE "done"
  /\ UNCHANGED <<vars, scope, untouched>>

\* INVALID_REQUEST, for a cursor that is not accepted and for a query that
\* fails: the client asks again, or starts from the first page.
Refuse ==
  /\ stage = "query"
  /\ stage' = "refused"
  /\ UNCHANGED <<vars, cursor, scope, listed, untouched>>

Restart ==
  /\ stage \in {"done", "refused"}
  /\ stage' = "start" /\ cursor' = None
  /\ listed' = [a \in Agreements |-> 0]
  /\ untouched' = {} /\ scope' = {}
  /\ UNCHANGED vars

\* Handlers go on, whatever is being listed.
Elsewhere ==
  /\ Next
  /\ untouched' = {a \in untouched : head'[a] = head[a]}
  /\ UNCHANGED <<cursor, stage, scope, listed>>

PagesInit ==
  /\ Init
  /\ cursor = None /\ stage = "start" /\ scope = {}
  /\ listed = [a \in Agreements |-> 0] /\ untouched = {}

PagesNext ==
  \/ Elsewhere \/ ReadScope \/ Refuse \/ Restart
  \/ \E limit \in 1..MaxLimit : ListPage(limit)

PagesSpec == PagesInit /\ [][PagesNext]_pagesVars

-----------------------------------------------------------------------------
(* Properties. *)

\* No agreement is on two pages, however it moves between them.
NoneListedTwice == \A a \in Agreements : listed[a] <= 1

\* Once the last page is in, every agreement that was there at the start and
\* was not revised meanwhile has been listed, exactly once.
UntouchedAreListed == stage = "done" => \A a \in untouched : listed[a] = 1
=============================================================================
