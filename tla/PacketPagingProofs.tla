-------------------------- MODULE PacketPagingProofs -------------------------
(***************************************************************************)
(* What an ascending listing may miss and what it may repeat, for any      *)
(* number of rows, any times, any page size and any saver running beside.  *)
(***************************************************************************)
EXTENDS PacketPaging, SequenceTheorems, TLAPS

-----------------------------------------------------------------------------
(* Timestamp.Format(time.RFC3339) and back: the start of the second.       *)

LEMMA RFC3339IsNat ==
  ASSUME NEW t \in Nat
  PROVE  RFC3339(t) \in Nat
<1>1. t \div Second \in Nat
  BY PacketPagingAssumption
<1> QED BY <1>1, PacketPagingAssumption DEF RFC3339

LEMMA RFC3339Below ==
  ASSUME NEW t \in Nat
  PROVE  /\ RFC3339(t) <= t
         /\ RFC3339(t) = t => WholeSecond(t)
<1>1. t \div Second \in Nat /\ t % Second \in 0..(Second - 1)
  BY PacketPagingAssumption
<1>2. t = (t \div Second) * Second + (t % Second)
  BY PacketPagingAssumption
<1>3. RFC3339(t) \in Nat
  BY RFC3339IsNat
<1> DEFINE a == RFC3339(t)
           b == t % Second
<1>4. t = a + b /\ a \in Nat /\ b \in Nat
  BY <1>1, <1>2, <1>3, PacketPagingAssumption DEF RFC3339
<1> HIDE DEF a, b
<1>5. a <= t /\ (a = t => b = 0)
  BY <1>4
<1> QED BY <1>5 DEF a, b, WholeSecond

LEMMA RFC3339Exact ==
  ASSUME NEW t \in Nat, WholeSecond(t)
  PROVE  RFC3339(t) = t
<1>1. t \div Second \in Nat
  BY PacketPagingAssumption
<1>2. t = (t \div Second) * Second + (t % Second)
  BY PacketPagingAssumption
<1>3. RFC3339(t) \in Nat
  BY RFC3339IsNat
<1>4. t = RFC3339(t) + 0
  BY <1>2 DEF RFC3339, WholeSecond
<1> QED BY <1>3, <1>4

LEMMA RFC3339Monotone ==
  ASSUME NEW t \in Nat, NEW u \in Nat, t <= u
  PROVE  RFC3339(t) <= RFC3339(u)
<1>1. t \div Second \in Nat /\ u \div Second \in Nat /\ t \div Second <= u \div Second
  BY PacketPagingAssumption
<1>2. \A m, n \in Nat : m <= n => m * Second <= n * Second
  BY PacketPagingAssumption
<1> QED BY <1>1, <1>2 DEF RFC3339

LEMMA RFC3339Idempotent ==
  ASSUME NEW t \in Nat
  PROVE  RFC3339(RFC3339(t)) = RFC3339(t)
<1>1. t \div Second \in Nat
  BY PacketPagingAssumption
<1>2. \A m \in Nat : (m * Second) \div Second = m
  BY PacketPagingAssumption
<1>3. (RFC3339(t) \div Second) = t \div Second
  BY <1>1, <1>2 DEF RFC3339
<1> QED BY <1>3 DEF RFC3339

-----------------------------------------------------------------------------
(* The query that buildPacketQuery writes: each placeholder names the      *)
(* argument it stands for, with a cursor and without, whatever the filters.*)

LEMMA RequestType ==
  ASSUME q \in Queries
  PROVE  /\ q.filters \in Seq(Filters)
         /\ DOMAIN q.filters = 1..Len(q.filters) /\ Len(q.filters) \in Nat
         /\ FilterArgs \in Seq(Nat) /\ Len(FilterArgs) = Len(q.filters)
         /\ q.limit \in Nat
<1>1. q.filters \in Seq(Filters) /\ q.limit \in Nat
  BY PacketPagingAssumption
<1>2. DOMAIN q.filters = 1..Len(q.filters) /\ Len(q.filters) \in Nat
  BY <1>1
<1>3. \A k \in 1..Len(q.filters) : q.filters[k].value \in Nat
  <2>1. \A k \in 1..Len(q.filters) : q.filters[k] \in Filters
    BY <1>1, ElementOfSeq
  <2> QED BY <2>1 DEF Filters
<1>4. FilterArgs \in [1..Len(q.filters) -> Nat]
  BY <1>2, <1>3 DEF FilterArgs
<1>5. FilterArgs \in Seq(Nat) /\ Len(FilterArgs) = Len(q.filters)
  BY <1>2, <1>4
<1> QED BY <1>1, <1>2, <1>5

LEMMA Placeholders ==
  ASSUME q \in Queries, cursor \in Nat \union {NoCursor}
  PROVE  /\ cursor # NoCursor => Args[1] = cursor
         /\ \A k \in DOMAIN q.filters : Args[ArgIdx(k)] = q.filters[k].value
         /\ Args[ArgIdx(Len(q.filters) + 1)] = q.limit
<1> DEFINE c == CursorArg
           f == FilterArgs
           n == Len(q.filters)
<1>1. /\ n \in Nat /\ DOMAIN q.filters = 1..n
      /\ f \in Seq(Nat) /\ Len(f) = n /\ q.limit \in Nat
  BY RequestType
<1>2. /\ c \in Seq(Nat) /\ Len(c) \in Nat
      /\ cursor # NoCursor => Len(c) = 1 /\ c[1] = cursor
  BY DEF CursorArg
<1>3. \A k \in 1..n : f[k] = q.filters[k].value
  BY <1>1 DEF FilterArgs
<1> HIDE DEF c, f, n
<1> DEFINE d == c \o f
<1>4. /\ d \in Seq(Nat) /\ Len(d) = Len(c) + n
      /\ \A k \in 1..(Len(c) + n) : d[k] = IF k <= Len(c) THEN c[k] ELSE f[k - Len(c)]
  BY <1>1, <1>2, ConcatProperties
<1>5. Args = d \o <<q.limit>>
  BY DEF Args, c, f
<1> HIDE DEF d
<1>6. \A k \in 1..(Len(c) + n + 1) : Args[k] = IF k <= Len(c) + n THEN d[k] ELSE q.limit
  <2>1. <<q.limit>> \in Seq(Nat) /\ Len(<<q.limit>>) = 1 /\ <<q.limit>>[1] = q.limit
    BY <1>1
  <2>2. \A k \in 1..(Len(d) + 1) :
          Args[k] = IF k <= Len(d) THEN d[k] ELSE <<q.limit>>[k - Len(d)]
    BY <1>4, <1>5, <2>1, ConcatProperties
  <2>3. \A m \in Nat : \A k \in 1..(m + 1) : k <= m \/ k - m = 1
    OBVIOUS
  <2>4. Len(d) \in Nat
    BY <1>1, <1>2, <1>4
  <2> QED BY <1>4, <2>1, <2>2, <2>3, <2>4
<1>7. \A k \in 1..n : /\ Len(c) + k \in 1..(Len(c) + n + 1)
                       /\ Len(c) + k \in 1..(Len(c) + n)
                       /\ Len(c) + k <= Len(c) + n
                       /\ ~(Len(c) + k <= Len(c)) /\ (Len(c) + k) - Len(c) = k
  BY <1>1, <1>2
<1>8. \A k \in Nat : ArgIdx(k) = Len(c) + k
  BY DEF ArgIdx, c
<1>9. ASSUME cursor # NoCursor
      PROVE  Args[1] = cursor
  <2>1. Len(c) = 1 /\ c[1] = cursor
    BY <1>2, <1>9
  <2>2. 1 \in 1..(Len(c) + n) /\ 1 \in 1..(Len(c) + n + 1) /\ 1 <= Len(c)
    BY <1>1, <2>1
  <2>3. 1 <= Len(c) + n
    BY <1>1, <2>1
  <2> QED BY <1>4, <1>6, <2>1, <2>2, <2>3
<1>10. \A k \in 1..n : Args[ArgIdx(k)] = q.filters[k].value
  <2> SUFFICES ASSUME NEW k \in 1..n
               PROVE  Args[ArgIdx(k)] = q.filters[k].value
    OBVIOUS
  <2>1. ArgIdx(k) = Len(c) + k
    BY <1>1, <1>8
  <2>2. Args[Len(c) + k] = d[Len(c) + k]
    BY <1>6, <1>7
  <2>3. d[Len(c) + k] = f[k]
    BY <1>4, <1>7
  <2> QED BY <1>3, <2>1, <2>2, <2>3
<1>11. Args[ArgIdx(n + 1)] = q.limit
  <2>1. /\ n + 1 \in Nat
        /\ Len(c) + (n + 1) \in 1..(Len(c) + n + 1) /\ ~(Len(c) + (n + 1) <= Len(c) + n)
    BY <1>1, <1>2
  <2> QED BY <1>6, <1>8, <2>1
<1> QED BY <1>1, <1>9, <1>10, <1>11 DEF n

(* What the query finds: the rows later than the cursor that pass the      *)
(* filters as the client has written them.                                 *)
LEMMA MatchingMeaning ==
  ASSUME TypeOK
  PROVE  Matching = {i \in stored : (cursor # NoCursor => at[i] > cursor) /\ Passes(i)}
  BY Placeholders DEF TypeOK, Matching, Passes

LEMMA PageSize ==
  ASSUME TypeOK, NEW page, IsPage(page), ~PageIsFull(page)
  PROVE  page = Matching
  BY Placeholders DEF TypeOK, IsPage, PageIsFull

-----------------------------------------------------------------------------
(* Row i shares its time, a whole second, with a row the client has.       *)
Tied(i) == WholeSecond(at[i]) /\ \E j \in seen : at[j] = at[i]

(* A row that was there from the start, passes the filters and has not     *)
(* been given out is still ahead of the cursor, or is tied; once the       *)
(* listing has ended it is tied.                                           *)
Ahead ==
  q.order = "ASC" =>
    \A i \in {e \in early : Passes(e)} \ seen :
      \/ Tied(i)
      \/ ~ended /\ (cursor # NoCursor => at[i] > cursor)

(* The cursor stands at the start of a second, and no row given out lies   *)
(* in a later second.                                                      *)
Behind ==
  q.order = "ASC" /\ q.hasTime =>
    /\ cursor # NoCursor => RFC3339(cursor) = cursor
    /\ ~ended => \A i \in seen : cursor # NoCursor /\ RFC3339(at[i]) <= cursor

Inv == TypeOK /\ Ahead /\ Behind /\ RepeatsOnlyFractions

LEMMA InitInv == Init => Inv
  BY PacketPagingAssumption
     DEF Init, Inv, TypeOK, Ahead, Behind, RepeatsOnlyFractions

(* A saver may insert at any time: the new row is not one of early.        *)
LEMMA InsertInv ==
  ASSUME Inv, NEW i \in Ids, Insert(i)
  PROVE  Inv'
<1>1. q' = q /\ at' = at
  BY DEF Insert
<1>2. \A j : Passes(j)' = Passes(j)
  BY <1>1 DEF Passes, Holds
<1> QED BY <1>2 DEF Insert, Inv, TypeOK, Ahead, Tied, WholeSecond, Behind, RFC3339,
                    RepeatsOnlyFractions

(* The times the server compares are numbers. *)
LEMMA TimesAreNumbers ==
  ASSUME TypeOK, NEW i \in Ids
  PROVE  at[i] \in Nat /\ at[i] > 0
<1>1. at[i] \in Times
  BY DEF TypeOK
<1>2. at[i] \in Nat /\ at[i] # 0
  BY <1>1, PacketPagingAssumption
<1> QED BY <1>2

(* One answer of the server keeps Inv. *)
LEMMA FetchInv ==
  ASSUME Inv, Fetch
  PROVE  Inv'
<1> USE PacketPagingAssumption
<1>0. TypeOK /\ Ahead /\ Behind /\ RepeatsOnlyFractions
  BY DEF Inv
<1>1. PICK page \in SUBSET stored :
        /\ IsPage(page)
        /\ seen' = seen \union page
        /\ again' = again \union (seen \cap page)
        /\ \/ /\ PageIsFull(page)
              /\ \E i \in page : IsLast(i, page) /\ cursor' = NextCursor(i)
              /\ UNCHANGED ended
           \/ /\ ~PageIsFull(page)
              /\ ended' = TRUE
              /\ UNCHANGED cursor
  BY DEF Fetch
<1>2. ~ended /\ UNCHANGED <<at, stored, q, early>>
  BY DEF Fetch
<1>3. page \subseteq Ids /\ page \subseteq Matching
  BY <1>0, <1>1 DEF TypeOK, IsPage
<1>31. \A i : Passes(i)' = Passes(i)
  BY <1>2 DEF Passes, Holds
<1>32. seen' \subseteq {i \in stored' : Passes(i)'}
  BY <1>0, <1>1, <1>2, <1>3, <1>31, MatchingMeaning DEF TypeOK
<1>4. ASSUME q.order = "ASC", q.hasTime, NEW i \in seen \cap page
      PROVE  ~WholeSecond(at[i])
  <2>1. cursor # NoCursor /\ RFC3339(at[i]) <= cursor /\ at[i] > cursor
    BY <1>0, <1>2, <1>3, <1>4, MatchingMeaning DEF Behind
  <2>2. at[i] \in Nat /\ cursor \in Nat
    BY <1>0, <2>1, <1>3, TimesAreNumbers DEF TypeOK
  <2>3. RFC3339(at[i]) # at[i]
    BY <2>1, <2>2, RFC3339IsNat
  <2> QED BY <2>2, <2>3, RFC3339Exact
<1>5. RepeatsOnlyFractions'
  BY <1>0, <1>1, <1>2, <1>4 DEF RepeatsOnlyFractions, WholeSecond
<1>6. CASE PageIsFull(page)
  <2>1. ended' = ended
    BY <1>1, <1>6
  <2>2. PICK l \in page : IsLast(l, page) /\ cursor' = NextCursor(l)
    BY <1>1, <1>6
  <2>3. /\ at[l] \in Nat /\ at[l] > 0
        /\ \A i \in page : at[i] \in Nat
        /\ RFC3339(at[l]) \in Nat /\ RFC3339(at[l]) <= at[l]
    BY <1>0, <1>3, TimesAreNumbers, RFC3339IsNat, RFC3339Below
  <2>4. cursor' \in Nat /\ cursor' <= at[l]
    BY <2>2, <2>3 DEF NextCursor
  <2>5. TypeOK'
    BY <1>0, <1>1, <1>2, <1>32, <2>1, <2>4 DEF TypeOK
  <2>6. ASSUME q.order = "ASC", NEW i \in {e \in early : Passes(e)} \ seen'
        PROVE  Tied(i)' \/ at[i] > cursor'
    <3>1. i \in Ids /\ i \in stored /\ i \in {e \in early : Passes(e)} \ seen /\ i \notin page
      BY <1>0, <1>1, <2>6 DEF TypeOK
    <3>2. at[i] \in Nat /\ at[i] > 0
      BY <1>0, <3>1, TimesAreNumbers
    <3>3. CASE Tied(i)
      BY <1>1, <1>2, <3>3 DEF Tied
    <3>4. CASE ~Tied(i)
      <4>1. i \in Matching
        BY <1>0, <2>6, <3>1, <3>4, MatchingMeaning DEF Ahead
      <4>2. at[l] <= at[i]
        BY <1>1, <2>2, <2>3, <2>6, <3>1, <3>2, <4>1 DEF IsPage, ComesBefore
      <4>3. CASE at[i] = cursor'
        <5>1. RFC3339(at[l]) = at[l] /\ at[i] = at[l]
          BY <2>2, <2>3, <2>4, <3>2, <4>2, <4>3 DEF NextCursor
        <5>2. WholeSecond(at[i])
          BY <2>3, <5>1, RFC3339Below
        <5>3. l \in seen'
          BY <1>1, <2>2
        <5> QED BY <1>2, <5>1, <5>2, <5>3 DEF Tied, WholeSecond
      <4>4. CASE at[i] # cursor'
        BY <2>3, <2>4, <3>2, <4>2, <4>4
      <4> QED BY <4>3, <4>4
    <3> QED BY <3>3, <3>4
  <2>7. Ahead'
    BY <1>2, <1>31, <2>1, <2>6 DEF Ahead
  <2>8. ASSUME q.order = "ASC", q.hasTime, NEW i \in seen'
        PROVE  RFC3339(at[i]) <= cursor'
    <3>1. cursor' = RFC3339(at[l])
      BY <2>2, <2>8 DEF NextCursor
    <3>2. CASE i \in page
      <4>1. at[i] <= at[l]
        BY <2>2, <2>3, <2>8, <3>2 DEF IsLast, ComesBefore
      <4> QED BY <2>3, <3>1, <3>2, <4>1, RFC3339Monotone
    <3>3. CASE i \in seen
      <4>1. /\ cursor \in Nat /\ RFC3339(at[i]) <= cursor
            /\ RFC3339(cursor) = cursor /\ at[l] > cursor
            /\ i \in Ids
        BY <1>0, <1>2, <1>3, <2>2, <2>8, <3>3, MatchingMeaning DEF Behind, TypeOK
      <4>2. cursor <= RFC3339(at[l])
        BY <2>3, <4>1, RFC3339Monotone
      <4>3. RFC3339(at[i]) \in Nat
        BY <1>0, <4>1, TimesAreNumbers, RFC3339IsNat
      <4> QED BY <2>3, <3>1, <4>1, <4>2, <4>3
    <3> QED BY <1>1, <3>2, <3>3
  <2>9. q.hasTime => RFC3339(cursor') = cursor'
    BY <2>2, <2>3, RFC3339Idempotent DEF NextCursor
  <2>10. Behind'
    <3>1. q' = q /\ at' = at
      BY <1>2
    <3>2. cursor' # NoCursor
      BY <2>4
    <3> QED BY <2>8, <2>9, <3>1, <3>2 DEF Behind, RFC3339
  <2> QED BY <1>5, <2>5, <2>7, <2>10 DEF Inv
<1>7. CASE ~PageIsFull(page)
  <2>1. ended' = TRUE /\ cursor' = cursor /\ page = Matching
    BY <1>0, <1>1, <1>7, PageSize
  <2>2. TypeOK'
    BY <1>0, <1>1, <1>2, <1>32, <2>1 DEF TypeOK
  <2>3. ASSUME q.order = "ASC", NEW i \in {e \in early : Passes(e)} \ seen'
        PROVE  Tied(i)'
    <3>1. i \in stored /\ i \in {e \in early : Passes(e)} \ seen /\ i \notin Matching
      BY <1>0, <1>1, <2>1, <2>3 DEF TypeOK
    <3>2. Tied(i)
      BY <1>0, <1>2, <2>3, <3>1, MatchingMeaning DEF Ahead
    <3> QED BY <1>1, <1>2, <3>2 DEF Tied, WholeSecond
  <2>4. Ahead'
    BY <1>2, <1>31, <2>3 DEF Ahead
  <2>5. Behind'
    BY <1>0, <1>2, <2>1 DEF Behind, RFC3339
  <2> QED BY <1>5, <2>2, <2>4, <2>5 DEF Inv
<1> QED BY <1>6, <1>7

LEMMA StepInv == Inv /\ [Next]_vars => Inv'
<1> SUFFICES ASSUME Inv, [Next]_vars
             PROVE  Inv'
  OBVIOUS
<1>1. CASE Fetch
  BY <1>1, FetchInv
<1>2. ASSUME NEW i \in Ids, Insert(i)
      PROVE  Inv'
  BY <1>2, InsertInv
<1>3. CASE UNCHANGED vars
  <2>1. q' = q /\ at' = at
    BY <1>3 DEF vars
  <2>2. \A j : Passes(j)' = Passes(j)
    BY <2>1 DEF Passes, Holds
  <2> QED BY <1>3, <2>2 DEF vars, Inv, TypeOK, Ahead, Tied, WholeSecond, Behind,
                            RFC3339, RepeatsOnlyFractions
<1> QED BY <1>1, <1>2, <1>3 DEF Next, Listed

(* A client that lists packets in ascending order misses nothing but rows  *)
(* that share a whole-second time with one it has, however savers insert.  *)
THEOREM ListingMissesOnlyTies == Spec => []MissedOnlyTies
<1>1. Inv => MissedOnlyTies
  BY DEF Inv, Ahead, Tied, MissedOnlyTies
<1> QED BY <1>1, InitInv, StepInv, PTL DEF Spec

(* And it gets no row with a whole-second time twice.                      *)
THEOREM ListingRepeatsOnlyFractions == Spec => []RepeatsOnlyFractions
<1>1. Inv => RepeatsOnlyFractions
  BY DEF Inv
<1> QED BY <1>1, InitInv, StepInv, PTL DEF Spec

(* The cursor a client is handed is one the server can compare with.       *)
THEOREM ListingTypeCorrect == Spec => []TypeOK
<1>1. Inv => TypeOK
  BY DEF Inv
<1> QED BY <1>1, InitInv, StepInv, PTL DEF Spec
=============================================================================
