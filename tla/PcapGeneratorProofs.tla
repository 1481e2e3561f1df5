------------------------ MODULE PcapGeneratorProofs -------------------------
(***************************************************************************)
(* How many files the runs of pcap-gen leave in the folder, for any number *)
(* of runs, any counts, and any number of files that others have put       *)
(* there.                                                                  *)
(***************************************************************************)
EXTENDS PcapGenerator, FiniteSetTheorems, TLAPS

-----------------------------------------------------------------------------
(* The inductive invariant *)

(* A goroutine has a number above the number of the files of others, which *)
(* its run had counted, and a file has the number of some goroutine.       *)
NumbersOK ==
  /\ \A r \in Runs, n \in Numbers : job[r][n] # "none" => n > foreign
  /\ \A n \in Written : n > foreign /\ \E r \in Runs : n <= count[r]
  /\ \A r \in Runs : pc[r] = "idle" => count[r] = 0
  /\ \A r \in Runs : todo[r] # {} => pc[r] = "removing"

WholeUpTo(m) ==
  /\ Written = (foreign + 1) .. m
  /\ \A n \in Written : files[n] = "whole"

(* What a goroutine has made of the file it was to write. *)
Made(r, n) ==
  \/ job[r][n] = "ready" /\ files[n] = "absent"
  \/ job[r][n] = "writing" /\ files[n] = "partial"
  \/ job[r][n] = "returned" /\ files[n] = "whole"

(* The files up to m were there when the run counted. *)
Progress(r, m) ==
  /\ m >= foreign /\ m < count[r]
  /\ \A n \in Numbers :
       /\ n > m /\ n <= count[r] => Made(r, n)
       /\ n > foreign /\ n <= m => job[r][n] = "none" /\ files[n] = "whole"
       /\ n <= foreign \/ n > count[r] => job[r][n] = "none" /\ files[n] = "absent"

Removing(r) ==
  /\ todo[r] = Written
  /\ \A n \in Written : files[n] = "whole"

(* As long as nothing has failed or overlapped, one run is active at most. *)
(* When there is none, the files are whole and numbered without a gap; a   *)
(* run that generates has goroutines for the numbers after them; one that  *)
(* deletes has still to remove the files that are left.                    *)
Unmarred ==
  ~marred =>
    /\ failed = {}
    /\ \A q, r \in Runs : Active(q) /\ Active(r) => q = r
    /\ (\A r \in Runs : ~Active(r)) => \E m \in Nat : m >= foreign /\ WholeUpTo(m)
    /\ \A r \in Runs : pc[r] = "generating" => \E m \in Nat : Progress(r, m)
    /\ \A r \in Runs : pc[r] = "removing" => Removing(r)

Inv == TypeOK /\ NumbersOK /\ Unmarred

-----------------------------------------------------------------------------
(* The greatest number of a set and the numbers of the files *)

(* A set without one would have a smallest subset without one, and that    *)
(* subset loses an element and has one.                                    *)
LEMMA HasGreatest ==
  ASSUME NEW S \in SUBSET Nat, IsFiniteSet(S), S # {}
  PROVE  \E x \in S : \A y \in S : x >= y
<1> DEFINE Greatest(T) == \E x \in T : \A y \in T : x >= y
           Bad == {T \in SUBSET S : IsFiniteSet(T) /\ T # {} /\ ~Greatest(T)}
<1>1. SUFFICES ASSUME Bad # {}
               PROVE  FALSE
  <2>1. ~Greatest(S) => S \in Bad
    OBVIOUS
  <2> QED BY <1>1, <2>1
<1>2. Bad \subseteq FiniteSubsetsOf(S)
  BY DEF FiniteSubsetsOf
<1>3. PICK T \in Bad : \A U \in Bad : <<U, T>> \notin StrictSubsetOrdering(S)
  BY <1>1, <1>2, WFMin, FS_StrictSubsetOrderingWellFounded
<1>4. PICK x \in T : TRUE
  BY <1>3
<1> DEFINE U == T \ {x}
<1>5. IsFiniteSet(U) /\ U \in SUBSET S /\ U \subseteq T /\ U # T
  BY <1>3, <1>4, FS_RemoveElement
<1>6. U \notin Bad
  BY <1>3, <1>5 DEF StrictSubsetOrdering
<1>7. CASE U = {}
  <2>1. \A y \in T : y = x
    BY <1>7
  <2>2. x \in Nat
    BY <1>3, <1>4
  <2>3. Greatest(T)
    BY <1>4, <2>1, <2>2
  <2> QED BY <1>3, <2>3
<1>8. CASE U # {}
  <2>1. PICK z \in U : \A y \in U : z >= y
    BY <1>5, <1>6, <1>8
  <2>2. x \in Nat /\ z \in Nat /\ T \subseteq Nat /\ z \in T
    BY <1>3, <1>4, <2>1
  <2>3. CASE z >= x
    <3>1. \A y \in T : z >= y
      BY <2>1, <2>3
    <3>2. Greatest(T)
      BY <2>2, <3>1
    <3> QED BY <1>3, <3>2
  <2>4. CASE ~(z >= x)
    <3>1. \A y \in T : x >= y
      BY <2>1, <2>2, <2>4
    <3>2. Greatest(T)
      BY <1>4, <3>1
    <3> QED BY <1>3, <3>2
  <2> QED BY <2>3, <2>4
<1> QED BY <1>7, <1>8

LEMMA MaxFacts ==
  ASSUME NEW S \in SUBSET Nat, IsFiniteSet(S), S # {}
  PROVE  Max(S) \in S /\ \A y \in S : Max(S) >= y
  BY HasGreatest DEF Max

LEMMA NumbersFacts ==
  /\ \A c \in Counts : Wanted(c) \in Numbers
  /\ Numbers \subseteq Nat \ {0} /\ IsFiniteSet(Numbers)
  /\ Max(Numbers) \in Nat /\ Numbers = 1 .. Max(Numbers)
<1> DEFINE W == {Wanted(c) : c \in Counts}
           f == [c \in Counts |-> Wanted(c)]
<1>1. W \subseteq Nat \ {0} /\ W # {}
  BY PcapGeneratorAssumption DEF Wanted
<1>2. f \in Surjection(Counts, W)
  BY DEF Surjection
<1>3. IsFiniteSet(W)
  BY <1>2, PcapGeneratorAssumption, FS_Surjection
<1>4. Max(W) \in Nat \ {0} /\ \A y \in W : Max(W) >= y
  BY <1>1, <1>3, MaxFacts
<1>5. Numbers = 1 .. Max(W)
  BY DEF Numbers
<1>6. IsFiniteSet(Numbers) /\ Numbers \subseteq Nat \ {0} /\ Numbers # {}
  <2>1. IsFiniteSet(1 .. Max(W))
    BY <1>4, FS_Interval
  <2>2. 1 .. Max(W) \subseteq Nat \ {0} /\ Max(W) \in 1 .. Max(W)
    BY <1>4
  <2> QED BY <1>5, <2>1, <2>2
<1>7. Max(Numbers) = Max(W)
  <2>1. Max(Numbers) \in Numbers /\ \A y \in Numbers : Max(Numbers) >= y
    BY <1>6, MaxFacts
  <2>2. Max(W) \in Numbers
    BY <1>4, <1>5
  <2> QED BY <1>4, <1>5, <2>1, <2>2
<1>8. \A c \in Counts : Wanted(c) \in Numbers
  BY <1>1, <1>4, <1>5
<1> QED BY <1>4, <1>5, <1>6, <1>7, <1>8

-----------------------------------------------------------------------------
(* What the actions do to goroutines *)

LEMMA StageFacts ==
  ASSUME TypeOK, NEW r \in Runs, NEW n \in Numbers, NEW to \in Stages, Stage(r, n, to)
  PROVE  /\ job' \in [Runs -> [Numbers -> Stages]]
         /\ job'[r][n] = to
         /\ \A q \in Runs, i \in Numbers : q # r \/ i # n => job'[q][i] = job[q][i]
  BY DEF TypeOK, Stage

LEMMA EndsFacts ==
  ASSUME TypeOK, NEW r \in Runs, NEW how \in Pcs, Ends(r, how)
  PROVE  /\ job' \in [Runs -> [Numbers -> Stages]]
         /\ \A q \in Runs, i \in Numbers : job'[q][i] = IF q = r THEN "none" ELSE job[q][i]
         /\ pc' \in [Runs -> Pcs]
         /\ \A q \in Runs : pc'[q] = IF q = r THEN how ELSE pc[q]
         /\ todo' \in [Runs -> SUBSET Numbers]
         /\ \A q \in Runs : todo'[q] = IF q = r THEN {} ELSE todo[q]
         /\ failed' = failed \ {r}
         /\ UNCHANGED <<foreign, files, count>>
<1>1. Idle \in [Numbers -> Stages] /\ \A i \in Numbers : Idle[i] = "none"
  BY DEF Idle, Stages
<1>2. /\ job' = [job EXCEPT ![r] = Idle] /\ pc' = [pc EXCEPT ![r] = how]
      /\ todo' = [todo EXCEPT ![r] = {}] /\ failed' = failed \ {r}
      /\ UNCHANGED <<foreign, files, count>>
  BY DEF Ends, Goes
<1> HIDE DEF Idle
<1> QED BY <1>1, <1>2 DEF TypeOK

(* A goroutine stays what it is when its file is removed, but for one that *)
(* writes it.                                                              *)
LEMMA RemoveFacts ==
  ASSUME TypeOK, NEW r \in Runs, NEW n \in Numbers,
         job' = [q \in Runs |-> [job[q] EXCEPT ![n] = Unlinked(q, n)]]
  PROVE  /\ job' \in [Runs -> [Numbers -> Stages]]
         /\ \A q \in Runs, i \in Numbers :
              job'[q][i] = IF i = n /\ job[q][n] = "writing" THEN "unlinked" ELSE job[q][i]
  BY DEF TypeOK, Unlinked, Stages

(* A run that generates has a goroutine for every number that is missing.  *)
LEMMA StartFacts ==
  ASSUME TypeOK, NEW r \in Runs, NEW c \in Counts, StartGenerate(r, c)
  PROVE  /\ pc[r] = "idle"
         /\ \/ /\ count' = [count EXCEPT ![r] = Wanted(c)]
               /\ \/ Goes(r, "done") /\ UNCHANGED job
                  \/ /\ Matches < Wanted(c) /\ Goes(r, "generating")
                     /\ job' \in [Runs -> [Numbers -> Stages]]
                     /\ \A q \in Runs \ {r} : job'[q] = job[q]
                     /\ \A i \in Numbers :
                          job'[r][i] = IF i > Matches /\ i <= Wanted(c) THEN "ready" ELSE "none"
            \/ Goes(r, "failed") /\ UNCHANGED <<count, job>>
         /\ Matches \in Nat /\ Matches >= foreign
<1>1. Matches \in Nat /\ Matches >= foreign
  <2>1. IsFiniteSet(Written)
    BY NumbersFacts, FS_Subset DEF Written
  <2> QED BY <2>1, FS_CardinalityType DEF Matches, TypeOK
<1>2. Wanted(c) \in Nat
  BY NumbersFacts
<1> DEFINE new == [n \in Numbers |-> IF n \in Missing(Wanted(c)) THEN "ready" ELSE "none"]
<1>3. /\ new \in [Numbers -> Stages]
      /\ \A i \in Numbers : new[i] = IF i > Matches /\ i <= Wanted(c) THEN "ready" ELSE "none"
  <2>1. \A i \in Numbers : i \in Missing(Wanted(c)) <=> i > Matches /\ i <= Wanted(c)
    BY <1>1, <1>2, NumbersFacts DEF Missing
  <2> QED BY <2>1 DEF Stages
<1>4. ASSUME job' = [job EXCEPT ![r] = new]
      PROVE  /\ job' \in [Runs -> [Numbers -> Stages]]
             /\ job'[r] = new /\ \A q \in Runs \ {r} : job'[q] = job[q]
  <2> HIDE DEF new
  <2> QED BY <1>3, <1>4 DEF TypeOK
<1>5. /\ pc[r] = "idle"
      /\ \/ /\ count' = [count EXCEPT ![r] = Wanted(c)]
            /\ \/ Goes(r, "done") /\ UNCHANGED job
               \/ ~(Matches >= Wanted(c)) /\ Goes(r, "generating") /\ job' = [job EXCEPT ![r] = new]
         \/ Goes(r, "failed") /\ UNCHANGED <<count, job>>
  BY DEF StartGenerate
<1>6. ~(Matches >= Wanted(c)) => Matches < Wanted(c)
  BY <1>1, <1>2
<1> HIDE DEF new
<1> QED BY <1>1, <1>3, <1>4, <1>5, <1>6
(* How a process ends: its goroutines have returned, its files are         *)
(* removed, or it is killed.                                               *)
EndsAs(r, how) ==
  /\ Active(r)
  /\ Ends(r, how)
  /\ \/ /\ how \in {"done", "failed"} /\ pc[r] = "generating" /\ Returned(r)
        /\ how = "done" => r \notin failed
        /\ UNCHANGED marred
     \/ how = "done" /\ pc[r] = "removing" /\ todo[r] = {} /\ UNCHANGED marred
     \/ how = "killed" /\ marred' = TRUE

LEMMA EndsSteps ==
  ASSUME NEW r \in Runs, Wait(r) \/ RemoveEnds(r) \/ Kill(r)
  PROVE  \E how \in Pcs : EndsAs(r, how)
<1>1. CASE Wait(r)
  <2>1. CASE r \in failed
    BY <1>1, <2>1 DEF Wait, EndsAs, Pcs, Active
  <2>2. CASE r \notin failed
    BY <1>1, <2>2 DEF Wait, EndsAs, Pcs, Active
  <2> QED BY <2>1, <2>2
<1>2. CASE RemoveEnds(r)
  BY <1>2 DEF RemoveEnds, EndsAs, Pcs, Active
<1>3. CASE Kill(r)
  BY <1>3 DEF Kill, EndsAs, Pcs, Active
<1> QED BY <1>1, <1>2, <1>3

-----------------------------------------------------------------------------
(* Types *)

LEMMA TypeNext ==
  ASSUME TypeOK, [Next]_vars
  PROVE  TypeOK'
<1> USE DEF TypeOK, Goes, Pcs
<1>1. ASSUME NEW r \in Runs, NEW c \in Counts, StartGenerate(r, c)
      PROVE  TypeOK'
  <2>0. pc[r] = "idle" /\ UNCHANGED <<foreign, files, todo, failed>> /\ marred' \in BOOLEAN
    BY <1>1 DEF StartGenerate
  <2>1. Wanted(c) \in Nat /\ Wanted(c) <= Max(Numbers) /\ Max(Numbers) \in Nat
    BY NumbersFacts
  <2>2. \A n \in Numbers : job[r][n] = "none"
    BY <2>0
  <2>3. CASE Goes(r, "failed") /\ UNCHANGED <<count, job>>
    BY <2>0, <2>2, <2>3
  <2>4. CASE count' = [count EXCEPT ![r] = Wanted(c)] /\ Goes(r, "done") /\ UNCHANGED job
    BY <2>0, <2>1, <2>2, <2>4
  <2>5. CASE /\ count' = [count EXCEPT ![r] = Wanted(c)] /\ Goes(r, "generating")
             /\ job' \in [Runs -> [Numbers -> Stages]]
             /\ \A q \in Runs \ {r} : job'[q] = job[q]
             /\ \A i \in Numbers :
                  job'[r][i] = IF i > Matches /\ i <= Wanted(c) THEN "ready" ELSE "none"
    BY <2>0, <2>1, <2>5
  <2> QED BY <1>1, <2>3, <2>4, <2>5, StartFacts
<1>2. ASSUME NEW r \in Runs, StartRemove(r)
      PROVE  TypeOK'
  <2>1. Written \in SUBSET Numbers
    BY DEF Written
  <2>2. marred' \in BOOLEAN
    BY <1>2 DEF StartRemove
  <2> QED BY <1>2, <2>1, <2>2 DEF StartRemove
<1>3. ASSUME NEW r \in Runs, NEW n \in Numbers, Create(r, n)
      PROVE  TypeOK'
  <2>1. files' \in [Numbers -> Contents]
    BY <1>3 DEF Create, Contents
  <2>2. /\ job[r][n] # "none" /\ Stage(r, n, "writing")
        /\ UNCHANGED <<foreign, pc, count, todo, failed, marred>>
    BY <1>3 DEF Create
  <2>3. "writing" \in Stages
    BY DEF Stages
  <2> HIDE DEF TypeOK
  <2>4. /\ job' \in [Runs -> [Numbers -> Stages]]
        /\ \A q \in Runs, i \in Numbers : job'[q][i] # "none" => job[q][i] # "none"
    BY <2>2, <2>3, StageFacts
  <2> USE DEF TypeOK
  <2> QED BY <2>1, <2>2, <2>4
<1>4. ASSUME NEW r \in Runs, NEW n \in Numbers, Finish(r, n)
      PROVE  TypeOK'
  <2>1. files' \in [Numbers -> Contents]
    BY <1>4 DEF Finish, Flushed, Contents
  <2>2. /\ job[r][n] # "none" /\ Stage(r, n, "returned")
        /\ UNCHANGED <<foreign, pc, count, todo, failed, marred>>
    BY <1>4 DEF Finish
  <2>3. "returned" \in Stages
    BY DEF Stages
  <2> HIDE DEF TypeOK
  <2>4. /\ job' \in [Runs -> [Numbers -> Stages]]
        /\ \A q \in Runs, i \in Numbers : job'[q][i] # "none" => job[q][i] # "none"
    BY <2>2, <2>3, StageFacts
  <2> USE DEF TypeOK
  <2> QED BY <2>1, <2>2, <2>4
<1>5. ASSUME NEW r \in Runs, NEW n \in Numbers, Fail(r, n)
      PROVE  TypeOK'
  <2>1. /\ job[r][n] # "none" /\ Stage(r, n, "returned")
        /\ failed' = failed \union {r} /\ marred' = TRUE
        /\ UNCHANGED <<foreign, files, pc, count, todo>>
    BY <1>5 DEF Fail
  <2>2. "returned" \in Stages
    BY DEF Stages
  <2> HIDE DEF TypeOK
  <2>3. /\ job' \in [Runs -> [Numbers -> Stages]]
        /\ \A q \in Runs, i \in Numbers : job'[q][i] # "none" => job[q][i] # "none"
    BY <2>1, <2>2, StageFacts
  <2> USE DEF TypeOK
  <2> QED BY <2>1, <2>3
<1>6. ASSUME NEW r \in Runs, NEW n \in Numbers, Remove(r, n)
      PROVE  TypeOK'
  <2>1. /\ files' \in [Numbers -> Contents]
        /\ todo' \in [Runs -> SUBSET Numbers] /\ marred' \in BOOLEAN
        /\ UNCHANGED <<foreign, pc, count, failed>>
    BY <1>6 DEF Remove, Contents
  <2>2. /\ job' \in [Runs -> [Numbers -> Stages]]
        /\ \A q \in Runs, i \in Numbers : job'[q][i] # "none" => job[q][i] # "none"
    <3>1. CASE UNCHANGED job
      BY <3>1
    <3>2. CASE job' = [q \in Runs |-> [job[q] EXCEPT ![n] = Unlinked(q, n)]]
      BY <3>2, RemoveFacts
    <3> QED BY <1>6, <3>1, <3>2 DEF Remove
  <2> QED BY <2>1, <2>2
<1>7. ASSUME NEW r \in Runs, NEW how \in Pcs, EndsAs(r, how)
      PROVE  TypeOK'
  <2>1. marred' \in BOOLEAN
    BY <1>7 DEF EndsAs
  <2>2. Ends(r, how)
    BY <1>7 DEF EndsAs
  <2> QED BY <2>1, <2>2, EndsFacts
<1>8. CASE UNCHANGED vars
  BY <1>8 DEF vars, Written
<1> QED
  BY <1>1, <1>2, <1>3, <1>4, <1>5, <1>6, <1>7, <1>8, EndsSteps DEF Next, Works, Over

-----------------------------------------------------------------------------
(* How many files there are *)

LEMMA NumbersNext ==
  ASSUME TypeOK, NumbersOK, [Next]_vars
  PROVE  NumbersOK'
<1> USE DEF NumbersOK
<1>0. count \in [Runs -> Nat]
  BY NumbersFacts DEF TypeOK
<1>1. ASSUME NEW r \in Runs, NEW c \in Counts, StartGenerate(r, c)
      PROVE  NumbersOK'
  <2>0. pc[r] = "idle" /\ UNCHANGED <<foreign, files, todo, failed>>
    BY <1>1 DEF StartGenerate
  <2>1. count' \in [Runs -> Nat] /\ \A q \in Runs : count'[q] = count[q] \/ q = r
    BY <1>0, <1>1, StartFacts, NumbersFacts
  <2>2. \A n \in Written' : n \in Written /\ n \in Nat /\ n >= 1
    BY <2>0, NumbersFacts DEF Written
  <2>3. ASSUME NEW n \in Written'
        PROVE  n > foreign' /\ \E q \in Runs : n <= count'[q]
    <3>1. PICK q \in Runs : n <= count[q]
      BY <2>2
    <3>2. q # r
      BY <1>0, <2>0, <2>2, <3>1
    <3> QED BY <2>0, <2>1, <2>2, <3>1, <3>2
  <2>4. ASSUME NEW q \in Runs, NEW n \in Numbers, job'[q][n] # "none"
        PROVE  n > foreign'
    <3>1. n \in Nat /\ foreign \in Nat
      BY NumbersFacts DEF TypeOK
    <3>2. CASE job'[q] = job[q]
      BY <2>0, <2>4, <3>2
    <3>3. CASE q = r /\ job'[r][n] = IF n > Matches /\ n <= Wanted(c) THEN "ready" ELSE "none"
      BY <1>1, <2>0, <2>4, <3>1, <3>3, StartFacts
    <3> QED BY <1>1, <3>2, <3>3, StartFacts
  <2>5. /\ \A q \in Runs : pc'[q] = "idle" => pc[q] = "idle" /\ q # r
        /\ \A q \in Runs : pc[q] = "removing" => pc'[q] = "removing"
    BY <1>1, StartFacts DEF Goes, TypeOK
  <2> QED BY <2>0, <2>1, <2>3, <2>4, <2>5
<1>2. ASSUME NEW r \in Runs, StartRemove(r)
      PROVE  NumbersOK'
  <2>1. /\ UNCHANGED <<foreign, files, job, count>>
        /\ \A q \in Runs : pc'[q] = "idle" => pc[q] = "idle"
        /\ \A q \in Runs : todo'[q] # {} => pc'[q] = "removing"
    BY <1>2 DEF StartRemove, Goes, TypeOK
  <2> QED BY <2>1 DEF Written
<1>3. ASSUME NEW r \in Runs, NEW n \in Numbers, Create(r, n)
      PROVE  NumbersOK'
  <2>1. UNCHANGED <<foreign, pc, count, todo>> /\ job[r][n] # "none"
    BY <1>3 DEF Create
  <2>2. \A q \in Runs, i \in Numbers : job'[q][i] # "none" => job[q][i] # "none"
    BY <1>3, <2>1, StageFacts DEF Create, Stages
  <2>3. \A i \in Written' : i \in Written \/ i = n
    BY <1>3 DEF Create, Written, TypeOK
  <2>4. n <= count[r]
    BY <2>1 DEF TypeOK
  <2> QED BY <2>1, <2>2, <2>3, <2>4
<1>4. ASSUME NEW r \in Runs, NEW n \in Numbers, Finish(r, n)
      PROVE  NumbersOK'
  <2>1. UNCHANGED <<foreign, pc, count, todo>> /\ job[r][n] # "none"
    BY <1>4 DEF Finish
  <2>2. \A q \in Runs, i \in Numbers : job'[q][i] # "none" => job[q][i] # "none"
    BY <1>4, <2>1, StageFacts DEF Finish, Stages
  <2>3. \A i \in Written' : i \in Written \/ i = n
    BY <1>4 DEF Finish, Written, TypeOK
  <2>4. n <= count[r]
    BY <2>1 DEF TypeOK
  <2> QED BY <2>1, <2>2, <2>3, <2>4
<1>5. ASSUME NEW r \in Runs, NEW n \in Numbers, Fail(r, n)
      PROVE  NumbersOK'
  <2>1. UNCHANGED <<foreign, pc, count, files, todo>> /\ job[r][n] # "none"
    BY <1>5 DEF Fail
  <2>2. \A q \in Runs, i \in Numbers : job'[q][i] # "none" => job[q][i] # "none"
    BY <1>5, <2>1, StageFacts DEF Fail, Stages
  <2> QED BY <2>1, <2>2 DEF Written
<1>6. ASSUME NEW r \in Runs, NEW n \in Numbers, Remove(r, n)
      PROVE  NumbersOK'
  <2>1. UNCHANGED <<foreign, pc, count>> /\ \A q \in Runs : todo'[q] # {} => todo[q] # {}
    BY <1>6 DEF Remove, TypeOK
  <2>2. \A q \in Runs, i \in Numbers : job'[q][i] # "none" => job[q][i] # "none"
    <3>1. CASE UNCHANGED job
      BY <3>1
    <3>2. CASE job' = [q \in Runs |-> [job[q] EXCEPT ![n] = Unlinked(q, n)]]
      BY <3>2, RemoveFacts
    <3> QED BY <1>6, <3>1, <3>2 DEF Remove
  <2>3. \A i \in Written' : i \in Written
    BY <1>6 DEF Remove, Written, TypeOK
  <2> QED BY <2>1, <2>2, <2>3
<1>7. ASSUME NEW r \in Runs, NEW how \in Pcs, EndsAs(r, how)
      PROVE  NumbersOK'
  <2>1. Ends(r, how) /\ how # "idle"
    BY <1>7 DEF EndsAs
  <2>2. /\ \A q \in Runs, i \in Numbers : job'[q][i] # "none" => job[q][i] # "none"
        /\ \A q \in Runs : pc'[q] = "idle" => pc[q] = "idle"
        /\ \A q \in Runs : todo'[q] # {} => todo[q] # {} /\ pc'[q] = pc[q]
        /\ UNCHANGED <<foreign, files, count>>
    BY <2>1, EndsFacts
  <2> QED BY <2>2 DEF Written
<1>8. CASE UNCHANGED vars
  BY <1>8 DEF vars, Written
<1> QED
  BY <1>1, <1>2, <1>3, <1>4, <1>5, <1>6, <1>7, <1>8, EndsSteps DEF Next, Works, Over

-----------------------------------------------------------------------------
(* Runs that do not meet *)

(* When the goroutines of a run have returned, the folder has as many      *)
(* files as it was asked for.                                              *)
LEMMA ReturnedWhole ==
  ASSUME TypeOK, Unmarred, ~marred, NEW r \in Runs, pc[r] = "generating", Returned(r)
  PROVE  count[r] \in Nat /\ count[r] >= foreign /\ WholeUpTo(count[r])
<1>1. PICK m \in Nat : Progress(r, m)
  BY DEF Unmarred
<1>2. count[r] \in Nat /\ count[r] <= Max(Numbers) /\ foreign \in Nat
  BY NumbersFacts DEF TypeOK
<1>3. ASSUME NEW n \in Numbers
      PROVE  IF n > foreign /\ n <= count[r] THEN files[n] = "whole" ELSE files[n] = "absent"
  <2>1. n \in Nat
    BY NumbersFacts
  <2>2. job[r][n] \in {"none", "returned"}
    BY DEF Returned
  <2> QED BY <1>1, <1>2, <2>1, <2>2 DEF Progress, Made
<1>4. \A n \in (foreign + 1) .. count[r] : n \in Numbers
  BY <1>2, NumbersFacts
<1>5. Written = (foreign + 1) .. count[r]
  <2>1. \A n \in Written : n \in (foreign + 1) .. count[r]
    BY <1>2, <1>3, NumbersFacts DEF Written
  <2>2. \A n \in (foreign + 1) .. count[r] : n \in Written
    BY <1>2, <1>3, <1>4 DEF Written
  <2> QED BY <2>1, <2>2
<1>6. \A n \in Written : files[n] = "whole"
  BY <1>2, <1>3, NumbersFacts DEF Written
<1> QED BY <1>1, <1>2, <1>5, <1>6 DEF Progress, WholeUpTo

LEMMA UnmarredNext ==
  ASSUME TypeOK, NumbersOK, Unmarred, [Next]_vars
  PROVE  Unmarred'
<1>1. ASSUME NEW r \in Runs, NEW c \in Counts, StartGenerate(r, c)
      PROVE  Unmarred'
  <2> SUFFICES ASSUME ~marred'
               PROVE  Unmarred'
    BY DEF Unmarred
  <2>1. ~marred /\ pc[r] = "idle" /\ \A q \in Runs : ~Active(q)
    BY <1>1 DEF StartGenerate, Meets, Active
  <2>2. PICK m \in Nat : m >= foreign /\ WholeUpTo(m)
    BY <2>1 DEF Unmarred
  <2>3. foreign \in Nat /\ Wanted(c) \in Nat /\ Wanted(c) <= Max(Numbers) /\ Max(Numbers) \in Nat
    BY NumbersFacts DEF TypeOK
  <2>4. Matches = m
    <3>1. Cardinality((foreign + 1) .. m) = m - foreign
      <4>1. foreign + 1 \in Int /\ m \in Int
        BY <2>2, <2>3
      <4>2. Cardinality((foreign + 1) .. m) = IF foreign + 1 > m THEN 0 ELSE m - (foreign + 1) + 1
        BY <4>1, FS_Interval
      <4> QED BY <2>2, <2>3, <4>2
    <3> QED BY <2>2, <2>3, <3>1 DEF WholeUpTo, Matches
  <2>5. UNCHANGED <<foreign, files, todo, failed>> /\ Written' = Written
    BY <1>1 DEF StartGenerate, Written
  <2>6. WholeUpTo(m)'
    BY <2>2, <2>5 DEF WholeUpTo
  <2>7. failed' = {}
    BY <2>1, <2>5 DEF Unmarred
  <2>8. CASE Goes(r, "failed") \/ Goes(r, "done")
    <3>1. \A q \in Runs : pc'[q] \notin {"generating", "removing"}
      BY <2>1, <2>8 DEF Goes, TypeOK, Active
    <3> QED BY <2>2, <2>5, <2>6, <2>7, <3>1 DEF Unmarred, Active
  <2>9. CASE /\ count' = [count EXCEPT ![r] = Wanted(c)]
             /\ Matches < Wanted(c) /\ Goes(r, "generating")
             /\ \A i \in Numbers :
                  job'[r][i] = IF i > Matches /\ i <= Wanted(c) THEN "ready" ELSE "none"
    <3>1. pc'[r] = "generating" /\ \A q \in Runs \ {r} : pc'[q] \notin {"generating", "removing"}
      BY <2>1, <2>9 DEF Goes, TypeOK, Active
    <3>2. count'[r] = Wanted(c)
      BY <2>9 DEF TypeOK
    <3>3. ASSUME NEW n \in Numbers
          PROVE  /\ n > m /\ n <= count'[r] => Made(r, n)'
                 /\ n > foreign' /\ n <= m => job'[r][n] = "none" /\ files'[n] = "whole"
                 /\ n <= foreign' \/ n > count'[r] => job'[r][n] = "none" /\ files'[n] = "absent"
      <4>1. n \in Nat
        BY NumbersFacts
      <4>2. job'[r][n] = IF n > m /\ n <= Wanted(c) THEN "ready" ELSE "none"
        BY <2>4, <2>9
      <4>3. n > foreign /\ n <= m => files[n] = "whole"
        BY <2>2, <2>3, <4>1 DEF WholeUpTo
      <4>4. ~(n > foreign /\ n <= m) => files[n] = "absent"
        BY <2>2, <2>3, <4>1 DEF WholeUpTo, Written
      <4> QED BY <2>2, <2>3, <2>4, <2>5, <2>9, <3>2, <4>1, <4>2, <4>3, <4>4 DEF Made
    <3>4. Progress(r, m)'
      BY <2>2, <2>4, <2>5, <2>9, <3>2, <3>3 DEF Progress
    <3> QED BY <2>7, <3>1, <3>4 DEF Unmarred, Active
  <2> QED BY <1>1, <2>8, <2>9, StartFacts
<1>2. ASSUME NEW r \in Runs, StartRemove(r)
      PROVE  Unmarred'
  <2> SUFFICES ASSUME ~marred'
               PROVE  Unmarred'
    BY DEF Unmarred
  <2>1. ~marred /\ pc[r] = "idle" /\ \A q \in Runs : ~Active(q)
    BY <1>2 DEF StartRemove, Meets, Active
  <2>2. PICK m \in Nat : m >= foreign /\ WholeUpTo(m)
    BY <2>1 DEF Unmarred
  <2>3. UNCHANGED <<files, failed>> /\ Written' = Written /\ todo'[r] = Written
    BY <1>2 DEF StartRemove, Written, TypeOK
  <2>4. pc'[r] = "removing" /\ \A q \in Runs \ {r} : pc'[q] \notin {"generating", "removing"}
    BY <1>2, <2>1 DEF StartRemove, Goes, TypeOK, Active
  <2>5. Removing(r)'
    BY <2>2, <2>3 DEF WholeUpTo, Removing
  <2>6. failed' = {}
    BY <2>1, <2>3 DEF Unmarred
  <2> QED BY <2>4, <2>5, <2>6 DEF Unmarred, Active
<1>3. ASSUME NEW r \in Runs, NEW n \in Numbers, Create(r, n)
      PROVE  Unmarred'
  <2> SUFFICES ASSUME ~marred'
               PROVE  Unmarred'
    BY DEF Unmarred
  <2>1. /\ ~marred /\ UNCHANGED <<foreign, pc, count, failed>>
        /\ job[r][n] \in {"ready"}
    BY <1>3 DEF Create
  <2>2. pc[r] = "generating" /\ \A q \in Runs \ {r} : ~Active(q)
    BY <2>1 DEF TypeOK, Unmarred, Active
  <2>3. PICK m \in Nat : Progress(r, m)
    BY <2>1, <2>2 DEF Unmarred
  <2>4. \A q \in Runs \ {r} : job[q][n] # "writing"
    BY <2>2 DEF TypeOK, Active
  <2>5. /\ files'[n] = "partial" /\ \A i \in Numbers \ {n} : files'[i] = files[i]
        /\ job'[r][n] = "writing" /\ \A i \in Numbers \ {n} : job'[r][i] = job[r][i]
    <3>1. files' = [files EXCEPT ![n] = "partial"] /\ Stage(r, n, "writing")
      BY <1>3, <2>4 DEF Create, OthersWrite
    <3> QED BY <3>1, StageFacts DEF TypeOK, Stages
  <2>6. Progress(r, m)'
    <3>1. n > m /\ n <= count[r]
      BY <2>1, <2>3, NumbersFacts DEF Progress, TypeOK
    <3>2. Made(r, n)'
      BY <2>5 DEF Made
    <3>3. \A i \in Numbers \ {n} : (Made(r, i) => Made(r, i)') /\ job'[r][i] = job[r][i] /\ files'[i] = files[i]
      BY <2>5 DEF Made
    <3> QED BY <2>1, <2>3, <3>1, <3>2, <3>3 DEF Progress
  <2>7. failed' = {}
    BY <2>1 DEF Unmarred
  <2> QED BY <2>1, <2>2, <2>6, <2>7 DEF Unmarred, Active
<1>4. ASSUME NEW r \in Runs, NEW n \in Numbers, Finish(r, n)
      PROVE  Unmarred'
  <2> SUFFICES ASSUME ~marred'
               PROVE  Unmarred'
    BY DEF Unmarred
  <2>1. /\ ~marred /\ UNCHANGED <<foreign, pc, count, failed>>
        /\ job[r][n] \in {"writing", "unlinked"}
    BY <1>4 DEF Finish
  <2>2. pc[r] = "generating" /\ \A q \in Runs \ {r} : ~Active(q)
    BY <2>1 DEF TypeOK, Unmarred, Active
  <2>3. PICK m \in Nat : Progress(r, m)
    BY <2>1, <2>2 DEF Unmarred
  <2>4. \A q \in Runs \ {r} : job[q][n] # "writing"
    BY <2>2 DEF TypeOK, Active
  <2>8. job[r][n] = "writing" /\ files[n] = "partial"
    BY <2>1, <2>3, NumbersFacts DEF Progress, Made, TypeOK
  <2>5. /\ files'[n] = "whole" /\ \A i \in Numbers \ {n} : files'[i] = files[i]
        /\ job'[r][n] = "returned" /\ \A i \in Numbers \ {n} : job'[r][i] = job[r][i]
    <3>1. files' = [files EXCEPT ![n] = "whole"] /\ Stage(r, n, "returned")
      BY <1>4, <2>8 DEF Finish, Flushed
    <3> QED BY <3>1, StageFacts DEF TypeOK, Stages
  <2>6. Progress(r, m)'
    <3>1. n > m /\ n <= count[r]
      BY <2>1, <2>3, NumbersFacts DEF Progress, TypeOK
    <3>2. Made(r, n)'
      BY <2>5 DEF Made
    <3>3. \A i \in Numbers \ {n} : (Made(r, i) => Made(r, i)') /\ job'[r][i] = job[r][i] /\ files'[i] = files[i]
      BY <2>5 DEF Made
    <3> QED BY <2>1, <2>3, <3>1, <3>2, <3>3 DEF Progress
  <2>7. failed' = {}
    BY <2>1 DEF Unmarred
  <2> QED BY <2>1, <2>2, <2>6, <2>7 DEF Unmarred, Active
<1>5. ASSUME NEW r \in Runs, NEW n \in Numbers, Fail(r, n)
      PROVE  Unmarred'
  BY <1>5 DEF Fail, Unmarred
<1>6. ASSUME NEW r \in Runs, NEW n \in Numbers, Remove(r, n)
      PROVE  Unmarred'
  <2> SUFFICES ASSUME ~marred'
               PROVE  Unmarred'
    BY DEF Unmarred
  <2>1. /\ ~marred /\ UNCHANGED <<pc, failed>> /\ n \in todo[r]
        /\ files' = [files EXCEPT ![n] = "absent"] /\ todo' = [todo EXCEPT ![r] = @ \ {n}]
    BY <1>6 DEF Remove
  <2>2. pc[r] = "removing" /\ \A q \in Runs \ {r} : ~Active(q)
    BY <2>1 DEF NumbersOK, Unmarred, Active
  <2>3. Removing(r)
    BY <2>1, <2>2 DEF Unmarred
  <2>4. todo'[r] = todo[r] \ {n} /\ Written' = Written \ {n}
    BY <2>1 DEF TypeOK, Written
  <2>5. Removing(r)'
    BY <2>1, <2>3, <2>4 DEF Removing, Written, TypeOK
  <2>6. failed' = {}
    BY <2>1 DEF Unmarred
  <2> QED BY <2>1, <2>2, <2>5, <2>6 DEF Unmarred, Active
<1>7. ASSUME NEW r \in Runs, NEW how \in Pcs, EndsAs(r, how)
      PROVE  Unmarred'
  <2> SUFFICES ASSUME ~marred'
               PROVE  Unmarred'
    BY DEF Unmarred
  <2>1. ~marred /\ Active(r) /\ Ends(r, how) /\ how \in {"done", "failed"}
    BY <1>7 DEF EndsAs
  <2>2. /\ \A q \in Runs : pc'[q] = IF q = r THEN how ELSE pc[q]
        /\ failed' = failed \ {r} /\ UNCHANGED <<foreign, files>>
    BY <2>1, EndsFacts
  <2>3. \A q \in Runs : pc'[q] \notin {"generating", "removing"}
    BY <2>1, <2>2 DEF Unmarred, Active
  <2>4. failed' = {}
    BY <2>1, <2>2 DEF Unmarred
  <2>5. \E m \in Nat : m >= foreign /\ WholeUpTo(m)
    <3>1. CASE pc[r] = "generating" /\ Returned(r)
      BY <2>1, <3>1, ReturnedWhole
    <3>2. CASE pc[r] = "removing" /\ todo[r] = {}
      <4>1. Written = {} /\ foreign \in Nat
        BY <2>1, <3>2 DEF Unmarred, Removing, TypeOK
      <4>2. WholeUpTo(foreign)
        BY <4>1 DEF WholeUpTo
      <4> QED BY <4>1, <4>2
    <3> QED BY <1>7, <2>1, <3>1, <3>2 DEF EndsAs
  <2>6. PICK m \in Nat : m >= foreign /\ WholeUpTo(m)
    BY <2>5
  <2>7. m >= foreign' /\ WholeUpTo(m)'
    BY <2>2, <2>6 DEF WholeUpTo, Written
  <2> QED BY <2>3, <2>4, <2>7 DEF Unmarred, Active
<1>8. CASE UNCHANGED vars
  BY <1>8 DEF vars, Unmarred, Active, WholeUpTo, Progress, Made, Removing, Written
<1> QED
  BY <1>1, <1>2, <1>3, <1>4, <1>5, <1>6, <1>7, <1>8, EndsSteps DEF Next, Works, Over

-----------------------------------------------------------------------------
(* The invariant and the theorems *)

LEMMA InitInv == Init => Inv
<1> SUFFICES ASSUME Init
             PROVE  Inv
  OBVIOUS
<1> USE DEF Init
<1>1. Idle \in [Numbers -> Stages] /\ \A n \in Numbers : Idle[n] = "none"
  BY DEF Idle, Stages
<1>2. foreign \in Nat /\ 0 \in 0 .. Max(Numbers)
  BY NumbersFacts
<1>3. TypeOK
  <2>1. /\ files \in [Numbers -> Contents] /\ pc \in [Runs -> Pcs]
        /\ count \in [Runs -> 0 .. Max(Numbers)] /\ todo \in [Runs -> SUBSET Numbers]
        /\ failed \subseteq Runs /\ foreign \in 0 .. MaxForeign
    BY <1>2 DEF Contents, Pcs
  <2>2. marred \in BOOLEAN
    OBVIOUS
  <2>3. job \in [Runs -> [Numbers -> Stages]] /\ \A r \in Runs, n \in Numbers : job[r][n] = "none"
    <3> HIDE DEF Idle
    <3> QED BY <1>1
  <2> QED BY <2>1, <2>2, <2>3 DEF TypeOK
<1>4. Written = {}
  BY DEF Written
<1>5. NumbersOK
  <2>1. \A r \in Runs, n \in Numbers : job[r][n] = "none"
    BY <1>1
  <2> QED BY <1>4, <2>1 DEF NumbersOK
<1>6. Unmarred
  <2>1. WholeUpTo(foreign)
    BY <1>2, <1>4 DEF WholeUpTo
  <2> QED BY <1>2, <2>1 DEF Unmarred, Active
<1> QED BY <1>3, <1>5, <1>6 DEF Inv

LEMMA InvNext == Inv /\ [Next]_vars => Inv'
  BY TypeNext, NumbersNext, UnmarredNext DEF Inv

LEMMA Invariance == Spec => []Inv
  BY InitInv, InvNext, PTL DEF Spec

(* A goroutine has the number of a file that was missing when its run      *)
(* counted, and works on it only while its run generates.                  *)
THEOREM GeneratorTypeCorrect == Spec => []TypeOK
  BY Invariance, PTL DEF Inv

(* GenerateFiles numbers its files from the count of all the files in the  *)
(* folder, so that runs that count at the same time write over each        *)
(* other's files and never add up to more than one of them was asked for.  *)
THEOREM GeneratorNeverWritesTooMany == Spec => []NeverTooMany
<1>1. Inv => NeverTooMany
  <2> SUFFICES ASSUME Inv
               PROVE  NeverTooMany
    OBVIOUS
  <2> DEFINE S == {foreign} \union {count[r] : r \in Runs}
             M == Max(S)
  <2>1. foreign \in Nat /\ count \in [Runs -> 0 .. Max(Numbers)] /\ Max(Numbers) \in Nat
    BY NumbersFacts DEF Inv, TypeOK
  <2>2. S \subseteq Nat /\ S # {}
    BY <2>1
  <2>3. PICK b \in Nat : b >= foreign /\ b >= Max(Numbers)
    BY <2>1
  <2>4. \A x \in S : x <= b
    BY <2>1, <2>3
  <2>5. IsFiniteSet(S)
    BY <2>2, <2>3, <2>4, FS_BoundedSetOfNaturals
  <2>6. M \in Nat /\ \A x \in S : M >= x
    BY <2>2, <2>5, MaxFacts
  <2>7. M >= foreign /\ \A r \in Runs : M >= count[r]
    BY <2>6
  <2> HIDE DEF M
  <2>8. Written \subseteq (foreign + 1) .. M
    <3>1. ASSUME NEW n \in Written
          PROVE  n \in (foreign + 1) .. M
      <4>1. n \in Nat /\ n > foreign
        BY NumbersFacts DEF Inv, NumbersOK, Written
      <4>2. PICK r \in Runs : n <= count[r]
        BY DEF Inv, NumbersOK
      <4>3. count[r] \in Nat /\ n <= M
        BY <2>1, <2>6, <2>7, <4>1, <4>2
      <4> QED BY <2>1, <2>6, <4>1, <4>3
    <3> QED BY <3>1
  <2>9. IsFiniteSet((foreign + 1) .. M) /\ Cardinality((foreign + 1) .. M) = M - foreign
    <3>1. foreign + 1 \in Int /\ M \in Int
      BY <2>1, <2>6
    <3>2. /\ IsFiniteSet((foreign + 1) .. M)
          /\ Cardinality((foreign + 1) .. M) = IF foreign + 1 > M THEN 0 ELSE M - (foreign + 1) + 1
      BY <3>1, FS_Interval
    <3> QED BY <2>1, <2>6, <2>7, <3>2
  <2>10. IsFiniteSet(Written) /\ Cardinality(Written) <= M - foreign
    BY <2>8, <2>9, FS_Subset
  <2>11. Cardinality(Written) \in Nat
    BY <2>10, FS_CardinalityType
  <2>12. foreign + Cardinality(Written) <= M
    BY <2>1, <2>6, <2>10, <2>11
  <2> QED BY <2>12 DEF M, NeverTooMany
<1> QED BY <1>1, Invariance, PTL

(* A run that has met nobody and nothing failed leaves the count, the      *)
(* names and the contents it was asked for.                                *)
THEOREM LoneRunReachesItsCount == Spec => CountReached
<1> DEFINE Reached == \A r \in Runs : pc[r] = "generating" /\ pc'[r] = "done" /\ ~marred' =>
                        /\ Written = (foreign + 1) .. count[r]
                        /\ \A n \in Written : files[n] = "whole"
<1>1. Inv /\ [Next]_vars => [Reached]_vars
  <2> SUFFICES ASSUME Inv, [Next]_vars, NEW r \in Runs,
                      pc[r] = "generating", pc'[r] = "done", ~marred'
               PROVE  WholeUpTo(count[r])
    BY DEF WholeUpTo
  <2> USE DEF Inv, TypeOK, Goes
  <2>1. ASSUME NEW q \in Runs, NEW c \in Counts, StartGenerate(q, c)
        PROVE  FALSE
    BY <2>1, StartFacts
  <2>2. ASSUME NEW q \in Runs, StartRemove(q)
        PROVE  FALSE
    BY <2>2 DEF StartRemove
  <2>3. ASSUME NEW q \in Runs, NEW n \in Numbers,
               Create(q, n) \/ Finish(q, n) \/ Fail(q, n) \/ Remove(q, n)
        PROVE  FALSE
    BY <2>3 DEF Create, Finish, Fail, Remove
  <2>4. ASSUME NEW q \in Runs, NEW how \in Pcs, EndsAs(q, how)
        PROVE  WholeUpTo(count[r])
    <3>1. q = r /\ how = "done"
      BY <2>4, EndsFacts DEF EndsAs
    <3>2. ~marred /\ Returned(r)
      BY <2>4, <3>1 DEF EndsAs
    <3> QED BY <3>2, ReturnedWhole
  <2>5. CASE UNCHANGED vars
    BY <2>5 DEF vars
  <2> QED BY <2>1, <2>2, <2>3, <2>4, <2>5, EndsSteps DEF Next, Works, Over
<1>2. Spec => [][Reached]_vars
  BY <1>1, Invariance, PTL DEF Spec
<1> QED BY <1>2 DEF CountReached
=============================================================================
