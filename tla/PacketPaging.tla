---------------------------- MODULE PacketPaging -----------------------------
(***************************************************************************)
(* A client lists packet_logs page by page through GET /api/v1/packets     *)
(* while savers go on inserting rows.  It asks for next_cursor of the last *)
(* answer until an answer has none.                                        *)
(*                                                                         *)
(* The server keeps nothing between two requests (HandleListPackets): a    *)
(* page is the first Limit rows, in the order asked for, of those later    *)
(* than the cursor.  Rows with equal times come in any order.  The cursor  *)
(* is the time of the last row of the page, written without fractions of a *)
(* second; a row whose time column was not asked for has the zero time.    *)
(* Cursor, filters and limit are arguments that the query names by number. *)
(*                                                                         *)
(* Filters compare one column, Length; the others compare alike.  Requests *)
(* that are refused for a parameter change nothing and are left out.       *)
(***************************************************************************)
EXTENDS Naturals, Sequences, FiniteSets

CONSTANTS
  Ids,       \* the rows packet_logs may come to hold
  Times,     \* the times they may carry, in ticks
  Second,    \* ticks in a second
  Length,    \* Length[i]: the column length of row i
  Queries,   \* the requests a client may start with
  NoCursor   \* no cursor parameter

Orders == {"ASC", "DESC"}

(* validExpressions *)
Operators == {"eq", "ne", "gt", "lt", "gte", "lte"}

Filters == [op : Operators, value : Nat]

ASSUME PacketPagingAssumption ==
  /\ Times \subseteq Nat \ {0}
  /\ Second \in Nat \ {0}
  /\ Queries \subseteq [order : Orders, hasTime : BOOLEAN, limit : Nat \ {0},
                 filters : Seq(Filters)]
  /\ Length \in [Ids -> Nat]
  /\ NoCursor \notin Nat
  /\ IsFiniteSet(Ids)

VARIABLES
  at,       \* at[i]: the time column of row i
  stored,   \* the rows in packet_logs
  q,        \* the request, all pages alike but for the cursor
  cursor,   \* the cursor of the next request
  ended,    \* the last answer had no next_cursor
  early,    \* observation: the rows stored before the first request
  seen,     \* observation: the rows the client was given
  again     \* observation: the rows it was given more than once

vars == <<at, stored, q, cursor, ended, early, seen, again>>

Init ==
  /\ at \in [Ids -> Times]
  /\ stored \in SUBSET Ids
  /\ q \in Queries
  /\ cursor = NoCursor
  /\ ended = FALSE
  /\ early = stored
  /\ seen = {} /\ again = {}

(* A saver copies a row into packet_logs. *)
Insert(i) ==
  /\ i \notin stored
  /\ stored' = stored \union {i}
  /\ UNCHANGED <<at, q, cursor, ended, early, seen, again>>

(* The arguments before those of the filters. *)
CursorArg == IF cursor = NoCursor THEN <<>> ELSE <<cursor>>

FilterArgs == [k \in DOMAIN q.filters |-> q.filters[k].value]

(* args of buildPacketQuery *)
Args == CursorArg \o FilterArgs \o <<q.limit>>

(* Mutant: the cursor does not count. *)
ArgIdxAlone(k) == k

(* argIdx at the k-th filter, and after the last one at the limit *)
ArgIdx(k) == Len(CursorArg) + k

Holds(op, x, y) ==
  \/ op = "eq" /\ x = y
  \/ op = "ne" /\ x # y
  \/ op = "gt" /\ x > y
  \/ op = "lt" /\ x < y
  \/ op = "gte" /\ x >= y
  \/ op = "lte" /\ x <= y

(* WHERE time > $1 AND length <op> $n ..., whatever the order. *)
Matching ==
  {i \in stored :
    /\ cursor # NoCursor => at[i] > Args[1]
    /\ \A k \in DOMAIN q.filters : Holds(q.filters[k].op, Length[i], Args[ArgIdx(k)])}

(* ORDER BY time *)
ComesBefore(i, j) ==
  IF q.order = "ASC" THEN at[i] < at[j] ELSE at[i] > at[j]

(* A page that ORDER BY and LIMIT allow. *)
IsPage(page) ==
  /\ page \subseteq Matching
  /\ \A i \in page, j \in Matching \ page : ~ComesBefore(j, i)
  /\ LET limit == Args[ArgIdx(Len(q.filters) + 1)] IN
     \/ Cardinality(page) = limit
     \/ Cardinality(page) < limit /\ page = Matching

IsLast(i, page) == i \in page /\ \A j \in page : ~ComesBefore(i, j)

(* Mutant: the cursor is rounded up. *)
RFC3339Up(t) == ((t + Second - 1) \div Second) * Second

(* Mutant: the cursor is rounded down to two seconds. *)
RFC3339Coarse(t) == (t \div (2 * Second)) * (2 * Second)

(* Timestamp.Format(time.RFC3339), parsed again *)
RFC3339(t) == (t \div Second) * Second

NextCursor(i) == IF q.hasTime THEN RFC3339(at[i]) ELSE 0

(* Mutant: an empty page ends the listing, a short one does not. *)
PageIsFullEver(page) == page # {}

PageIsFull(page) == Cardinality(page) = q.limit

Fetch ==
  /\ ~ended
  /\ \E page \in SUBSET stored :
       /\ IsPage(page)
       /\ seen' = seen \union page
       /\ again' = again \union (seen \cap page)
       /\ \/ /\ PageIsFull(page)
             /\ \E i \in page : IsLast(i, page) /\ cursor' = NextCursor(i)
             /\ UNCHANGED ended
          \/ /\ ~PageIsFull(page)
             /\ ended' = TRUE
             /\ UNCHANGED cursor
  /\ UNCHANGED <<at, stored, q, early>>

(* The client has its last page. *)
Listed == ended /\ UNCHANGED vars

Next == Fetch \/ Listed \/ \E i \in Ids : Insert(i)

Spec == Init /\ [][Next]_vars

(* The client keeps asking and the server keeps answering. *)
FairSpec == Spec /\ WF_vars(Fetch)

-----------------------------------------------------------------------------
(* Properties *)

(* The filters as the client has written them. *)
Passes(i) == \A k \in DOMAIN q.filters : Holds(q.filters[k].op, Length[i], q.filters[k].value)

(* Every cursor is one the server can compare with, and the client holds   *)
(* stored rows only, and of these only what passes its filters: whichever  *)
(* page it is on, each placeholder of the query names its own argument.    *)
TypeOK ==
  /\ at \in [Ids -> Times]
  /\ stored \subseteq Ids /\ early \subseteq stored
  /\ q \in Queries
  /\ cursor \in Nat \union {NoCursor}
  /\ ended \in BOOLEAN
  /\ again \subseteq seen /\ seen \subseteq {i \in stored : Passes(i)}

WholeSecond(t) == t % Second = 0

(* An ascending listing that has ended gave the client every row that was  *)
(* there when it began and passes its filters, except that of several rows *)
(* with one and the same whole-second time it may have skipped some, at a  *)
(* page boundary.                                                          *)
MissedOnlyTies ==
  ended /\ q.order = "ASC" =>
    \A i \in {e \in early : Passes(e)} \ seen :
      WholeSecond(at[i]) /\ \E j \in seen : at[j] = at[i]

(* An ascending listing repeats a row only when the cursor dropped the     *)
(* fraction of its time.                                                   *)
RepeatsOnlyFractions ==
  q.order = "ASC" /\ q.hasTime => \A i \in again : ~WholeSecond(at[i])

Fractions(i) == {j \in Ids : RFC3339(at[j]) = RFC3339(at[i]) /\ ~WholeSecond(at[j])}

Sparse == \A i \in Ids : Cardinality(Fractions(i)) < q.limit

(* If no second holds enough rows with fractions to fill a page, the       *)
(* cursor of an ascending listing moves on and the listing ends.           *)
ListingEnds == Sparse /\ q.order = "ASC" /\ q.hasTime ~> ended
=============================================================================
