----------------------------- MODULE RateLimiter -----------------------------
(***************************************************************************)
(* The token bucket in front of the job routes (api.rateLimiter).  Every   *)
(* request to /api/v1/jobs, whoever sends it, calls Allow, and the calls   *)
(* share one bucket under one mutex.                                       *)
(*                                                                         *)
(* Time is counted in ticks, and so are the tokens: a tick earns one unit  *)
(* and a request costs Cost units.  With NewRateLimit(10, 10) a tick of    *)
(* 1 ms earns 1/100 of a token, so Cost is 100 and Cap is 1000.  The       *)
(* rounding of float64 is left out.  Time may pass between any two steps   *)
(* of Allow: it reads the clock twice.                                     *)
(***************************************************************************)
EXTENDS Naturals

CONSTANTS
  Requests,   \* the requests that may call Allow at the same time
  Cap,        \* maxToken, in units
  Cost,       \* one token, in units
  MaxNow      \* where the clock stops

ASSUME RateLimiterAssumption ==
  /\ Cap \in Nat /\ Cost \in Nat \ {0}
  /\ Cost <= Cap
  /\ MaxNow \in Nat

VARIABLES
  now,         \* the clock
  tokens,      \* currentToken
  lastUpdate,  \* lastUpdate
  pc,          \* where each request is in Allow
  since,       \* observation: what a call found the bucket to have earned
  opened,      \* observation: when the window that is watched was opened
  spent        \* observation: units of the calls stamped since and let through

vars == <<now, tokens, lastUpdate, pc, since, opened, spent>>

Pcs == {"outside", "locked", "refilled", "stamped", "allowed", "refused"}

Init ==
  /\ now = 0
  /\ tokens = Cap
  /\ lastUpdate = 0
  /\ pc = [r \in Requests |-> "outside"]
  /\ since = [r \in Requests |-> 0]
  /\ opened = 0
  /\ spent = 0

Goes(r, x) == pc' = [pc EXCEPT ![r] = x]

(* Mutant: Allow without its mutex. *)
LockIsFreeAlways == TRUE

LockIsFree == \A r \in Requests : pc[r] \in {"outside", "allowed", "refused"}

(* mu.Lock() *)
Lock(r) ==
  /\ pc[r] = "outside"
  /\ LockIsFree
  /\ Goes(r, "locked")
  /\ UNCHANGED <<now, tokens, lastUpdate, since, opened, spent>>

(* Mutant: lastUpdate is moved before it is read. *)
RefillLate(r) ==
  /\ pc[r] = "locked"
  /\ since' = [since EXCEPT ![r] = now - lastUpdate]
  /\ Goes(r, "refilled")
  /\ UNCHANGED <<now, tokens, lastUpdate, opened, spent>>

(* currentToken += time.Since(lastUpdate) * rateLimit *)
Refill(r) ==
  /\ pc[r] = "locked"
  /\ tokens' = tokens + (now - lastUpdate)
  /\ since' = [since EXCEPT ![r] = now - lastUpdate]
  /\ Goes(r, "refilled")
  /\ UNCHANGED <<now, lastUpdate, opened, spent>>

(* lastUpdate = time.Now() *)
Stamp(r) ==
  /\ pc[r] = "refilled"
  /\ lastUpdate' = now
  /\ Goes(r, "stamped")
  /\ UNCHANGED <<now, tokens, since, opened, spent>>

Capped(t) == IF t > Cap THEN Cap ELSE t

(* Mutant: a fraction of a token is enough. *)
EnoughSome(t) == t > 0

Enough(t) == t >= Cost

(* The rest of Allow and the deferred Unlock. *)
Decide(r) ==
  /\ pc[r] = "stamped"
  /\ \/ /\ ~Enough(Capped(tokens))
        /\ tokens' = Capped(tokens)
        /\ Goes(r, "refused")
        /\ UNCHANGED spent
     \/ /\ Enough(Capped(tokens))
        /\ tokens' = Capped(tokens) - Cost
        /\ spent' = IF opened <= lastUpdate THEN spent + Cost ELSE spent
        /\ Goes(r, "allowed")
  /\ UNCHANGED <<now, lastUpdate, since, opened>>

(* The request is answered; another takes its place. *)
Leave(r) ==
  /\ pc[r] \in {"allowed", "refused"}
  /\ Goes(r, "outside")
  /\ UNCHANGED <<now, tokens, lastUpdate, since, opened, spent>>

Tick ==
  /\ now < MaxNow
  /\ now' = now + 1
  /\ UNCHANGED <<tokens, lastUpdate, pc, since, opened, spent>>

(* An observer starts counting, at any moment. *)
OpenWindow ==
  /\ opened' = now
  /\ spent' = 0
  /\ UNCHANGED <<now, tokens, lastUpdate, pc, since>>

Next ==
  \/ \E r \in Requests : Lock(r) \/ Refill(r) \/ Stamp(r) \/ Decide(r) \/ Leave(r)
  \/ Tick
  \/ OpenWindow

Spec == Init /\ [][Next]_vars

-----------------------------------------------------------------------------
(* Properties *)

(* The bucket is never overdrawn, and no stamp is later than the clock.    *)
TypeOK ==
  /\ now \in Nat /\ lastUpdate \in Nat /\ opened \in Nat
  /\ lastUpdate <= now /\ opened <= now
  /\ tokens \in Nat
  /\ pc \in [Requests -> Pcs]
  /\ since \in [Requests -> Nat]
  /\ spent \in Nat

(* In every window of time, wherever it starts and however the calls       *)
(* overlap, the requests let through cost at most a full bucket and what   *)
(* the window earned: at most 10 and 10 per second with the values of      *)
(* Router.  A call falls into the window in which it stamps lastUpdate.    *)
BurstBound == spent <= Cap + (now - opened)

(* A request that comes at least a token's worth of time after the last    *)
(* call is never turned away: nothing that earlier or overlapping calls do *)
(* to the bucket can cost a patient client its token.                      *)
PatientIsServed ==
  \A r \in Requests : pc[r] = "refused" => since[r] < Cost

(* What the two rest on: one call at a time is inside Allow, and the units *)
(* in the bucket and those spent in the window are covered by the time the *)
(* bucket has been credited for.                                           *)
Holding(r) == pc[r] \in {"locked", "refilled", "stamped"}

OneHolder == \A r, s \in Requests : Holding(r) /\ Holding(s) => r = s

Idle == \A r \in Requests : pc[r] \notin {"refilled", "stamped"}

Covered(upto) == spent = 0 \/ (opened <= upto /\ tokens + spent <= Cap + (upto - opened))

Budget ==
  /\ Idle => tokens <= Cap /\ Covered(lastUpdate)
  /\ \A r \in Requests :
       /\ pc[r] = "refilled" => Covered(now)
       /\ pc[r] = "stamped" => Covered(lastUpdate)
       /\ pc[r] \in {"refilled", "stamped"} => since[r] <= tokens

Inv == TypeOK /\ OneHolder /\ Budget /\ BurstBound /\ PatientIsServed
=============================================================================
