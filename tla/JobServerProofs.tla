--------------------------- MODULE JobServerProofs ---------------------------
(***************************************************************************)
(* The map of cancel functions and the tables agree with the pipelines     *)
(* that run, for any number of jobs and of DELETE requests.                *)
(***************************************************************************)
EXTENDS JobServer, TLAPS

(* A handler that has not launched its pipeline has none. *)
NotYet ==
  \A j \in Jobs :
    creator[j] \in {"none", "insert", "register", "launch"} => pipe[j] = "none"

(* From its entry in the map on, a job that was not cancelled keeps it     *)
(* until its pipeline is about to return.                                  *)
Registered ==
  \A j \in Jobs :
    creator[j] = "launch" \/ pipe[j] = "running" =>
      j \in handles \/ j \in cancelled

(* The foreign key of source_files. *)
RecordsBelong == \A j \in recorded : row[j] # "none"

(* Only jobs that recorded a file copy packets, or did before the COPY was *)
(* broken off.                                                             *)
CopiesRecorded ==
  /\ \A j \in Jobs, w \in Workers : <<w, "copy">> \in doing[j] => j \in recorded
  /\ \A j \in Jobs : <<j, "copy">> \in late => j \in recorded
  /\ packets \subseteq recorded

Inv == TypeOK /\ NotYet /\ Registered /\ RecordsBelong /\ CopiesRecorded

(* The server starts with an empty map and empty tables. *)
LEMMA InitInv == Init => Inv
  BY JobServerAssumption
     DEF Init, Inv, TypeOK, NotYet, Registered, RecordsBelong, CopiesRecorded, Rows,
         CreatorPcs, PipePcs, Doings, DeletePcs, NoDelete, LastVersion

(* A call that fails leaves at most its own statement behind. *)
LEMMA LateStatement ==
  ASSUME NEW b, NEW j \in Jobs, NEW x \in Statements,
         late \subseteq Jobs \X Statements,
         UNCHANGED late \/ MayComeLate(b, j, x)
  PROVE  /\ late' \subseteq Jobs \X Statements
         /\ \A k \in Jobs : <<k, "copy">> \in late' =>
              <<k, "copy">> \in late \/ (k = j /\ x = "copy")
<1>1. late' \subseteq late \union {<<j, x>>}
  BY DEF MayComeLate
<1> QED BY <1>1

(* Every step of a handler, a pipeline, main, a migration or the database  *)
(* server keeps Inv.                                                       *)
LEMMA StepInv == Inv /\ [Next]_vars => Inv'
<1> SUFFICES ASSUME Inv, [Next]_vars
             PROVE  Inv'
  OBVIOUS
<1>0. TypeOK /\ NotYet /\ Registered /\ RecordsBelong /\ CopiesRecorded
  BY DEF Inv
<1> USE <1>0 DEF TypeOK, NotYet, Registered, RecordsBelong, CopiesRecorded, tables
<1>1. ASSUME NEW j \in Jobs, Post(j)
      PROVE  Inv'
  BY <1>1 DEF Inv, Post, CreatorGoes, CreatorPcs
<1>2. ASSUME NEW j \in Jobs, InsertRow(j)
      PROVE  Inv'
  <2>1. /\ late' \subseteq Jobs \X Statements
        /\ \A k \in Jobs : <<k, "copy">> \in late' => <<k, "copy">> \in late
    <3>1. UNCHANGED late \/ MayComeLate(DBFails, j, "create")
      BY <1>2 DEF InsertRow
    <3> QED BY <3>1, LateStatement DEF Statements
  <2>2. /\ creator' \in [Jobs -> CreatorPcs]
        /\ \A k \in Jobs : \/ creator'[k] = creator[k]
                            \/ /\ creator'[k] \in {"register", "refused"}
                               /\ creator[k] = "insert"
        /\ row' \in [Jobs -> Rows] /\ \A k \in Jobs : row[k] # "none" => row'[k] # "none"
        /\ UNCHANGED <<version, recorded, packets, up, handles, cancelled, pipe, doing, del>>
    BY <1>2 DEF InsertRow, CreateRow, CreatorGoes, CreatorPcs, Rows, NewStatus
  <2> QED BY <2>1, <2>2 DEF Inv
<1>3. ASSUME NEW j \in Jobs, Register(j)
      PROVE  Inv'
  BY <1>3 DEF Inv, Register, CreatorGoes, CreatorPcs
<1>4. ASSUME NEW j \in Jobs, Launch(j)
      PROVE  Inv'
  BY <1>4 DEF Inv, Launch, CreatorGoes, CreatorPcs, PipePcs
<1>5. ASSUME NEW j \in Jobs, NEW w \in Workers,
             NEW x \in {"record", "copy"}, Issue(j, w, x)
      PROVE  Inv'
  <2>1. doing' \in [Jobs -> SUBSET (Workers \X Doings)]
    BY <1>5 DEF Issue, Starts, Doings
  <2>2. \A k \in Jobs, v \in Workers :
          <<v, "copy">> \in doing'[k] => <<v, "copy">> \in doing[k]
          \/ (k = j /\ x = "copy")
    <3>1. \A k \in Jobs : doing'[k] = IF k = j THEN doing[k] \union {<<w, x>>} ELSE doing[k]
      BY <1>5 DEF Issue, Starts
    <3>2. \A v \in Workers : <<v, "copy">> = <<w, x>> => x = "copy"
      OBVIOUS
    <3> QED BY <3>1, <3>2
  <2>3. UNCHANGED <<tables, late, up, handles, cancelled, creator, pipe, del>>
        /\ (x = "copy" => j \in recorded)
    BY <1>5 DEF Issue
  <2> QED BY <2>1, <2>2, <2>3 DEF Inv
<1>6. ASSUME NEW j \in Jobs, NEW w \in Workers, Recorded(j, w)
      PROVE  Inv'
  <2>1. doing' \in [Jobs -> SUBSET (Workers \X Doings)]
        /\ \A k \in Jobs : doing'[k] \subseteq doing[k]
    BY <1>6 DEF Recorded, Leaves
  <2>2. /\ recorded \subseteq recorded' /\ recorded' \subseteq recorded \union {j}
        /\ recorded' # recorded => row[j] # "none"
        /\ UNCHANGED <<version, row, packets, up, handles, cancelled, creator, pipe, del>>
    BY <1>6 DEF Recorded, RecordRuns
  <2>3. /\ late' \subseteq Jobs \X Statements
        /\ \A k \in Jobs : <<k, "copy">> \in late' => <<k, "copy">> \in late
    <3>1. UNCHANGED late \/ MayComeLate(Broken(j), j, "record")
      BY <1>6 DEF Recorded
    <3> QED BY <3>1, LateStatement DEF Statements
  <2> QED BY <2>1, <2>2, <2>3 DEF Inv
<1>7. ASSUME NEW j \in Jobs, NEW w \in Workers, Copied(j, w)
      PROVE  Inv'
  <2>1. doing' \in [Jobs -> SUBSET (Workers \X Doings)]
        /\ \A k \in Jobs, v \in Workers :
             <<v, "copy">> \in doing'[k] => <<v, "copy">> \in doing[k]
    BY <1>7 DEF Copied, Leaves, Turns, Doings
  <2>2. /\ packets' \subseteq packets \union {j} /\ j \in recorded
        /\ UNCHANGED <<version, row, recorded, up, handles, cancelled, creator, pipe, del>>
    BY <1>7 DEF Copied
  <2>3. /\ late' \subseteq Jobs \X Statements
        /\ \A k \in Jobs : <<k, "copy">> \in late' => <<k, "copy">> \in late \/ k = j
    <3>1. UNCHANGED late \/ MayComeLate(Broken(j), j, "copy")
      BY <1>7 DEF Copied
    <3> QED BY <3>1, LateStatement DEF Statements
  <2> QED BY <2>1, <2>2, <2>3 DEF Inv
<1>8. ASSUME NEW j \in Jobs, NEW w \in Workers, Failed(j, w)
      PROVE  Inv'
  <2>1. doing' \in [Jobs -> SUBSET (Workers \X Doings)]
        /\ \A k \in Jobs, v \in Workers :
             <<v, "copy">> \in doing'[k] => <<v, "copy">> \in doing[k]
    BY <1>8 DEF Failed, Turns, Doings
  <2>2. /\ row' \in [Jobs -> Rows] /\ \A k \in Jobs : row[k] # "none" => row'[k] # "none"
        /\ UNCHANGED <<version, recorded, packets, up, handles, cancelled, creator,
                       pipe, del>>
    BY <1>8 DEF Failed, SetStatus, Rows
  <2>3. /\ late' \subseteq Jobs \X Statements
        /\ \A k \in Jobs : <<k, "copy">> \in late' => <<k, "copy">> \in late
    <3>1. UNCHANGED late \/ MayComeLate(TRUE, j, "fail")
      BY <1>8 DEF Failed
    <3> QED BY <3>1, LateStatement DEF Statements
  <2> QED BY <2>1, <2>2, <2>3 DEF Inv
<1>9. ASSUME NEW j \in Jobs, NEW w \in Workers, Aborts(j, w)
       PROVE  Inv'
  <2>1. doing' \in [Jobs -> SUBSET (Workers \X Doings)]
        /\ \A k \in Jobs : doing'[k] \subseteq doing[k]
    BY <1>9 DEF Aborts, Leaves
  <2> QED BY <1>9, <2>1 DEF Inv, Aborts
<1>10. ASSUME NEW j \in Jobs, SaversGone(j)
      PROVE  Inv'
  BY <1>10 DEF Inv, SaversGone, PipePcs
<1>11. ASSUME NEW j \in Jobs, Ends(j)
       PROVE  Inv'
  <2>1. /\ late' \subseteq Jobs \X Statements
        /\ \A k \in Jobs : <<k, "copy">> \in late' => <<k, "copy">> \in late
    <3>1. UNCHANGED late \/ MayComeLate(TRUE, j, "complete")
      BY <1>11 DEF Ends
    <3> QED BY <3>1, LateStatement DEF Statements
  <2>2. /\ row' \in [Jobs -> Rows] /\ \A k \in Jobs : row[k] # "none" => row'[k] # "none"
        /\ UNCHANGED <<version, recorded, packets, up, handles, creator, doing, del>>
        /\ cancelled' = cancelled \union {j}
        /\ pipe' = [pipe EXCEPT ![j] = "returned"] /\ pipe[j] = "ending"
    BY <1>11 DEF Ends, Reports, SetStatus, Rows
  <2> QED BY <2>1, <2>2 DEF Inv, PipePcs
<1>12. ASSUME NEW j \in Jobs, Unregister(j)
       PROVE  Inv'
  BY <1>12 DEF Inv, Unregister, Forgotten, PipePcs
<1>13. ASSUME NEW d \in Deletes, DeleteArrives(d)
       PROVE  Inv'
  BY <1>13, JobServerAssumption DEF Inv, DeleteArrives, DeletePcs
<1>14. ASSUME NEW d \in Deletes, CancelIfRunning(d)
       PROVE  Inv'
  BY <1>14 DEF Inv, CancelIfRunning, Cancel, DeletePcs
<1>15. ASSUME NEW d \in Deletes, DeleteJob(d)
       PROVE  Inv'
  <2> DEFINE j == del[d].job
  <2>0. j \in Jobs
    OBVIOUS
  <2>1. /\ late' \subseteq Jobs \X Statements
        /\ \A k \in Jobs : <<k, "copy">> \in late' => <<k, "copy">> \in late
    <3>1. UNCHANGED late \/ MayComeLate(DBFails, j, "delete")
      BY <1>15 DEF DeleteJob
    <3> HIDE DEF j
    <3> QED BY <3>1, <2>0, LateStatement DEF Statements
  <2>2. /\ \/ UNCHANGED <<row, packets>>
           \/ /\ j \notin recorded /\ packets' \subseteq packets
              /\ row' = [row EXCEPT ![j] = "none"]
        /\ del' \in [Deletes -> [pc : DeletePcs, job : Jobs, canonical : BOOLEAN]]
        /\ UNCHANGED <<version, recorded, up, handles, cancelled, creator, pipe, doing>>
    BY <1>15 DEF DeleteJob, DeleteRuns, DeleteRows, DeletePcs
  <2> HIDE DEF j
  <2> QED BY <2>0, <2>1, <2>2 DEF Inv, Rows
<1>16. ASSUME NEW d \in Deletes, DeleteLeaves(d)
       PROVE  Inv'
  BY <1>16 DEF Inv, DeleteLeaves, DeletePcs
<1>17. CASE Migrate
  BY <1>17 DEF Inv, Migrate, LastVersion
<1>18. CASE Exit
  <2>1. /\ \A j \in Jobs : /\ creator'[j] \in {creator[j], "refused"}
                           /\ creator'[j] \in {"none", "accepted", "refused"}
                           /\ pipe'[j] = IF pipe[j] = "none" THEN "none" ELSE "done"
                           /\ doing'[j] = {}
        /\ handles' = {} /\ up' = FALSE /\ UNCHANGED <<tables, cancelled>>
        /\ late' = late \union InFlight
    BY <1>18 DEF Exit
  <2>8. InFlight \subseteq Jobs \X Statements
    BY DEF InFlight, Statements
  <2>9. \A j \in Jobs : <<j, "copy">> \in InFlight => j \in recorded
    BY DEF InFlight
  <2>2. creator' \in [Jobs -> CreatorPcs]
    BY <1>18 DEF Exit, CreatorPcs
  <2>3. pipe' \in [Jobs -> PipePcs] /\ doing' \in [Jobs -> SUBSET (Workers \X Doings)]
    BY <1>18 DEF Exit, PipePcs
  <2>4. del' \in [Deletes -> [pc : DeletePcs, job : Jobs, canonical : BOOLEAN]]
    BY <1>18 DEF Exit, DeletePcs
  <2>5. TypeOK'
    BY <2>1, <2>2, <2>3, <2>4, <2>8
  <2>6. NotYet' /\ Registered'
    BY <2>1
  <2>7. RecordsBelong' /\ CopiesRecorded'
    BY <2>1, <2>9
  <2> QED BY <2>5, <2>6, <2>7 DEF Inv
<1>19. CASE Restart
  BY <1>19 DEF Inv, Restart
<1>20. ASSUME NEW j \in Jobs, Lands(j)
       PROVE  Inv'
  <2>1. PICK x \in Statements : <<j, x>> \in late /\ Executes(j, x)
    BY <1>20 DEF Lands
  <2>2. /\ late' \subseteq late
        /\ UNCHANGED <<version, up, handles, cancelled, creator, pipe, doing, del>>
    BY <1>20 DEF Lands
  <2>3. \/ /\ row' = [row EXCEPT ![j] = "PROCESSING"]
           /\ UNCHANGED <<recorded, packets>>
        \/ /\ recorded' = recorded \union {j} /\ row[j] # "none"
           /\ UNCHANGED <<row, packets>>
        \/ /\ packets' = packets \union {j} /\ j \in recorded
           /\ UNCHANGED <<row, recorded>>
        \/ /\ \E y \in {"FAILED", "COMPLETED"} : SetStatus(j, y)
           /\ UNCHANGED <<recorded, packets>>
        \/ /\ row' = [row EXCEPT ![j] = "none"] /\ j \notin recorded
           /\ packets' = packets \ {j}
           /\ UNCHANGED recorded
        \/ UNCHANGED <<row, recorded, packets>>
    BY <2>1 DEF Executes, CreateRow, NewStatus, RecordRuns, DeleteRuns, DeleteRows, Reports
  <2>4. TypeOK'
    BY <2>2, <2>3 DEF SetStatus, Rows
  <2>5. NotYet' /\ Registered'
    BY <2>2
  <2>6. RecordsBelong'
    BY <2>3 DEF SetStatus
  <2>7. CopiesRecorded'
    BY <2>2, <2>3 DEF SetStatus
  <2> QED BY <2>4, <2>5, <2>6, <2>7 DEF Inv
<1>21. CASE UNCHANGED vars
  BY <1>21 DEF Inv, vars
<1> QED
  BY <1>1, <1>2, <1>3, <1>4, <1>5, <1>6, <1>7, <1>8, <1>9, <1>10, <1>11, <1>12, <1>13,
     <1>14, <1>15, <1>16, <1>17, <1>18, <1>19, <1>20, <1>21
     DEF Next, Creator, Pipeline, Delete

(* Every row has one of the statuses the README lists (jobs.go, SQL).      *)
THEOREM ServerTypeCorrect == Spec => []TypeOK
<1>1. Inv => TypeOK
  BY DEF Inv
<1> QED BY <1>1, InitInv, StepInv, PTL DEF Spec

(* HandleDeleteJob finds the cancel function of every job that still runs. *)
THEOREM RunningJobsCanBeCancelled == Spec => []RunningIsCancellable
<1>1. Inv => RunningIsCancellable
  BY DEF Inv, Registered, RunningIsCancellable
<1> QED BY <1>1, InitInv, StepInv, PTL DEF Spec

(* No interleaving of COPY, DELETE and a migration leaves packets behind   *)
(* that belong to no job, not even a COPY that comes after its call.       *)
THEOREM PacketsBelongToJobs == Spec => []PacketsBelong
<1>1. Inv => PacketsBelong
  BY DEF Inv, RecordsBelong, CopiesRecorded, PacketsBelong
<1> QED BY <1>1, InitInv, StepInv, PTL DEF Spec
=============================================================================
