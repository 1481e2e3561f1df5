-------------------------- MODULE RateLimiterProofs --------------------------
(***************************************************************************)
(* BurstBound and PatientIsServed for any number of requests, any burst    *)
(* and any price, from the inductive invariant Inv of RateLimiter.         *)
(***************************************************************************)
EXTENDS RateLimiter, TLAPS

(* The mutex lets one call at a time into Allow (rate_limiter.go:27-28),   *)
(* so the bucket is only ever touched by the request that holds it.        *)
LEMMA HolderIsAlone ==
  ASSUME TypeOK, OneHolder, NEW r \in Requests, Holding(r)
  PROVE  \A s \in Requests \ {r} : ~Holding(s)
  BY DEF OneHolder

(* What is covered up to the last stamp is covered up to now. *)
LEMMA LaterIsCovered ==
  ASSUME NEW t \in Nat, NEW x \in Nat, NEW from \in Nat, NEW stamp \in Nat,
         NEW clock \in Nat, from <= clock, stamp <= clock,
         x = 0 \/ t + x <= Cap + (stamp - from)
  PROVE  x <= Cap + (clock - from)
  BY RateLimiterAssumption

(* The bucket starts full (NewRateLimit). *)
LEMMA InitInv == Init => Inv
  BY RateLimiterAssumption
     DEF Init, Inv, TypeOK, OneHolder, Holding, Budget, Idle, Covered, Pcs,
         BurstBound, PatientIsServed

(* Every step of Allow, of the clock and of the observer keeps Inv. *)
LEMMA StepInv == Inv /\ [Next]_vars => Inv'
<1> SUFFICES ASSUME Inv, [Next]_vars
             PROVE  Inv'
  OBVIOUS
<1> USE RateLimiterAssumption DEF Inv
<1>0. TypeOK /\ OneHolder /\ Budget /\ BurstBound /\ PatientIsServed
  OBVIOUS
<1>1. ASSUME NEW r \in Requests, Lock(r)
      PROVE  Inv'
  <2>1. TypeOK' /\ OneHolder' /\ BurstBound' /\ PatientIsServed'
    BY <1>0, <1>1 DEF Lock, LockIsFree, Goes, TypeOK, OneHolder, Holding, Pcs,
                      BurstBound, PatientIsServed
  <2>2. Budget'
    BY <1>0, <1>1 DEF Lock, LockIsFree, Goes, TypeOK, Budget, Idle, Covered, Pcs
  <2> QED BY <2>1, <2>2
<1>2. ASSUME NEW r \in Requests, Refill(r)
      PROVE  Inv'
  <2>0. \A s \in Requests \ {r} : ~Holding(s)
    BY <1>0, <1>2, HolderIsAlone DEF Refill, Holding
  <2>1. TypeOK' /\ OneHolder' /\ BurstBound' /\ PatientIsServed'
    BY <1>0, <1>2 DEF Refill, Goes, TypeOK, OneHolder, Holding, Pcs,
                      BurstBound, PatientIsServed
  <2>2. tokens <= Cap /\ Covered(lastUpdate)
    BY <1>0, <1>2, <2>0 DEF Refill, Budget, Idle, Holding
  <2>3. Covered(now)'
    BY <1>0, <1>2, <2>2 DEF Refill, Covered, TypeOK
  <2>4. Budget'
    BY <1>0, <1>2, <2>0, <2>3 DEF Refill, Goes, TypeOK, Budget, Idle, Holding, Pcs
  <2> QED BY <2>1, <2>4
<1>3. ASSUME NEW r \in Requests, Stamp(r)
      PROVE  Inv'
  <2>0. \A s \in Requests \ {r} : ~Holding(s)
    BY <1>0, <1>3, HolderIsAlone DEF Stamp, Holding
  <2>1. TypeOK' /\ OneHolder' /\ BurstBound' /\ PatientIsServed'
    BY <1>0, <1>3 DEF Stamp, Goes, TypeOK, OneHolder, Holding, Pcs,
                      BurstBound, PatientIsServed
  <2>2. Covered(lastUpdate)'
    BY <1>0, <1>3 DEF Stamp, Budget, Covered, TypeOK
  <2>3. Budget'
    BY <1>0, <1>3, <2>0, <2>2 DEF Stamp, Goes, TypeOK, Budget, Idle, Holding, Pcs
  <2> QED BY <2>1, <2>3
<1>4. ASSUME NEW r \in Requests, Decide(r)
      PROVE  Inv'
  <2>0. \A s \in Requests \ {r} : ~Holding(s)
    BY <1>0, <1>4, HolderIsAlone DEF Decide, Holding
  <2>1. Covered(lastUpdate) /\ since[r] <= tokens
    BY <1>0, <1>4 DEF Decide, Budget
  <2>2. CASE /\ ~Enough(Capped(tokens))
             /\ tokens' = Capped(tokens)
             /\ Goes(r, "refused")
             /\ UNCHANGED spent
    <3>1. since[r] < Cost
      BY <1>0, <2>1, <2>2 DEF Capped, Enough, TypeOK
    <3>2. TypeOK' /\ OneHolder' /\ BurstBound' /\ PatientIsServed'
      BY <1>0, <1>4, <2>2, <3>1 DEF Decide, Goes, Capped, Enough, TypeOK, OneHolder,
         Holding, Pcs, BurstBound, PatientIsServed
    <3>3. (tokens <= Cap /\ Covered(lastUpdate))'
      BY <1>0, <1>4, <2>1, <2>2 DEF Decide, Capped, Enough, Covered, TypeOK
    <3>4. Budget'
      BY <1>0, <1>4, <2>0, <2>2, <3>3 DEF Decide, Goes, TypeOK, Budget, Idle,
         Holding, Pcs
    <3> QED BY <3>2, <3>4
  <2>3. CASE /\ Enough(Capped(tokens))
             /\ tokens' = Capped(tokens) - Cost
             /\ spent' = IF opened <= lastUpdate THEN spent + Cost ELSE spent
             /\ Goes(r, "allowed")
    <3>1. tokens' \in Nat /\ spent' \in Nat
      BY <1>0, <2>3 DEF Capped, Enough, TypeOK
    <3>2. (tokens <= Cap /\ Covered(lastUpdate))'
      BY <1>0, <1>4, <2>1, <2>3, <3>1 DEF Decide, Capped, Enough, Covered, TypeOK
    <3>6. UNCHANGED <<now, lastUpdate, opened>>
      BY <1>4 DEF Decide
    <3>7. spent' = 0 \/ tokens' + spent' <= Cap + (lastUpdate - opened)
      BY <3>2, <3>6 DEF Covered
    <3>8. spent' <= Cap + (now - opened)
      BY <1>0, <3>1, <3>7, LaterIsCovered DEF TypeOK
    <3>3. BurstBound'
      BY <3>6, <3>8 DEF BurstBound
    <3>4. TypeOK' /\ OneHolder' /\ PatientIsServed'
      BY <1>0, <1>4, <2>3, <3>1 DEF Decide, Goes, TypeOK, OneHolder, Holding,
         Pcs, PatientIsServed
    <3>5. Budget'
      BY <1>0, <1>4, <2>0, <2>3, <3>2 DEF Decide, Goes, TypeOK, Budget, Idle,
         Holding, Pcs
    <3> QED BY <3>3, <3>4, <3>5
  <2> QED BY <1>4, <2>2, <2>3 DEF Decide
<1>5. ASSUME NEW r \in Requests, Leave(r)
      PROVE  Inv'
  <2>1. TypeOK' /\ OneHolder' /\ BurstBound' /\ PatientIsServed'
    BY <1>0, <1>5 DEF Leave, Goes, TypeOK, OneHolder, Holding, Pcs, BurstBound,
                      PatientIsServed
  <2>2. Budget'
    BY <1>0, <1>5 DEF Leave, Goes, TypeOK, Budget, Idle, Covered, Pcs
  <2> QED BY <2>1, <2>2
<1>6. CASE Tick
  BY <1>0, <1>6 DEF Tick, TypeOK, OneHolder, Holding, Budget, Idle, Covered, Pcs,
                    BurstBound, PatientIsServed
<1>7. CASE OpenWindow
  BY <1>0, <1>7 DEF OpenWindow, TypeOK, OneHolder, Holding, Budget, Idle, Covered,
                    Pcs, BurstBound, PatientIsServed
<1>8. CASE UNCHANGED vars
  BY <1>0, <1>8 DEF vars, TypeOK, OneHolder, Holding, Budget, Idle, Covered, Pcs,
                    BurstBound, PatientIsServed
<1> QED BY <1>1, <1>2, <1>3, <1>4, <1>5, <1>6, <1>7, <1>8 DEF Next

(* The limiter's state is what its fields can hold (rate_limiter.go:9-15). *)
THEOREM LimiterTypeCorrect == Spec => []TypeOK
<1>1. Inv => TypeOK
  BY DEF Inv
<1> QED BY <1>1, InitInv, StepInv, PTL DEF Spec

(* No window of time sees more than a full bucket and its own earnings go  *)
(* through Allow, for any number of concurrent requests.                   *)
THEOREM BurstIsBounded == Spec => []BurstBound
<1>1. Inv => BurstBound
  BY DEF Inv
<1> QED BY <1>1, InitInv, StepInv, PTL DEF Spec

(* Allow never refuses a request that comes a token's worth of time after  *)
(* the last call.                                                          *)
THEOREM PatienceIsServed == Spec => []PatientIsServed
<1>1. Inv => PatientIsServed
  BY DEF Inv
<1> QED BY <1>1, InitInv, StepInv, PTL DEF Spec
=============================================================================
