------------------------------ MODULE JobServer ------------------------------
(***************************************************************************)
(* The job routes of go-sniffer (api.Server) and what they share: the map  *)
(* Jobs from job ids to cancel functions, the tables job_tracking,         *)
(* source_files and packet_logs, and one goroutine per job that runs the   *)
(* pipeline and then takes the job out of the map.  POST and DELETE        *)
(* handlers run at the same time, the process may exit at any moment and   *)
(* be started again, and the schema may be migrated beside it (live-       *)
(* sniffer runs the migrations).                                           *)
(*                                                                         *)
(* A statement whose call is broken off (its context is cancelled, its     *)
(* connection or the process is lost) may be executed later, or never.     *)
(*                                                                         *)
(* A pipeline is reduced to the statements its pre-checks and savers have  *)
(* in flight; JobPipeline models its inside, and its steps are shown to be *)
(* steps of Pipeline below.  The GET handlers change nothing and are left  *)
(* out, as are requests that are refused for their parameters.             *)
(***************************************************************************)
EXTENDS Naturals

CONSTANTS
  Jobs,          \* the ids CreateJob may draw
  Workers,       \* the numbers of a job's pre-checks, and of its savers
  Deletes,       \* the DELETE requests that may be under way at once
  Spellings,     \* how DELETE spells an id: TRUE is as UUID.String() does
  FirstVersion,  \* the schema when the first request comes
  DBFails        \* statements may fail for reasons of their own

LastVersion == 6

ASSUME JobServerAssumption ==
  /\ Spellings \subseteq BOOLEAN
  /\ FirstVersion \in 0..LastVersion
  /\ DBFails \in BOOLEAN

VARIABLES
  version,    \* the last migration that was applied
  row,        \* job_tracking: the status of each job, "none" without a row
  recorded,   \* source_files: the jobs that recorded a file
  packets,    \* packet_logs: the jobs that have rows
  late,       \* the statements that were broken off, by job; one stands for
              \* all alike
  up,         \* the process runs
  handles,    \* the keys of Server.Jobs
  cancelled,  \* the jobs whose pool context is done
  creator,    \* where the POST of each job is
  pipe,       \* where the goroutine of each job is
  doing,      \* what the pre-checks and savers of each job are at
  del         \* the DELETE requests

tables == <<version, row, recorded, packets>>
vars == <<tables, late, up, handles, cancelled, creator, pipe, doing, del>>

Rows       == {"none", "PROCESSING", "FAILED", "COMPLETED"}
CreatorPcs == {"none", "insert", "register", "launch", "accepted", "refused"}
PipePcs    == {"none", "running", "ending", "returned", "done"}
Doings     == {"record", "copy", "fail", "abort"}
DeletePcs  == {"idle", "lookup", "delete", "204", "500"}
Statements == {"create", "record", "copy", "fail", "complete", "delete"}

(* No DELETE yet; the job it names is of no consequence. *)
NoDelete(j) == [pc |-> "idle", job |-> j, canonical |-> TRUE]

Init ==
  /\ version = FirstVersion
  /\ row = [j \in Jobs |-> "none"]
  /\ recorded = {} /\ packets = {} /\ late = {}
  /\ up = TRUE
  /\ handles = {} /\ cancelled = {}
  /\ creator = [j \in Jobs |-> "none"]
  /\ pipe = [j \in Jobs |-> "none"]
  /\ doing = [j \in Jobs |-> {}]
  /\ \E j \in Jobs : del = [d \in Deletes |-> NoDelete(j)]

-----------------------------------------------------------------------------
(* The schema.  1: packet_logs with job_id, 2: job_tracking,               *)
(* 3: source_files, whose job_id references job_tracking, 4: a cascading   *)
(* foreign key on packet_logs.job_id, 5: capture_sessions, 6: the key is   *)
(* dropped and job_id becomes source_id.                                   *)
Migrate ==
  /\ version < LastVersion
  /\ version' = version + 1
  /\ UNCHANGED <<row, recorded, packets, late, up, handles, cancelled, creator,
                 pipe, doing, del>>

CreateRuns == version >= 2
RecordRuns(j) == version >= 3 /\ row[j] # "none"
CopyRuns == version >= 6

(* Mutant: DeleteJob names the column as migration 6 does, and clears      *)
(* source_files first.                                                     *)
DeleteRunsAnyway(j) == version >= 2

(* DeleteJob names packet_logs.job_id, and source_files must not refer to  *)
(* the job.                                                                *)
DeleteRuns(j) == version \in 2..5 /\ j \notin recorded

SetStatus(j, s) ==
  row' = IF row[j] = "none" THEN row ELSE [row EXCEPT ![j] = s]

(* A call fails: its statement may be left with the server if the call was *)
(* broken off.                                                             *)
MayComeLate(broken, j, x) ==
  UNCHANGED late \/ (broken /\ late' = late \union {<<j, x>>})

(* The context or a connection of job j is lost. *)
Broken(j) == DBFails \/ j \in cancelled

-----------------------------------------------------------------------------
(* HandleCreateJob *)

CreatorGoes(j, pc) == creator' = [creator EXCEPT ![j] = pc]

(* A POST whose directory holds pcap files. *)
Post(j) ==
  /\ up
  /\ creator[j] = "none"
  /\ CreatorGoes(j, "insert")
  /\ UNCHANGED <<tables, late, up, handles, cancelled, pipe, doing, del>>

(* Mutant: the status that CreateJob's comment names. *)
NewStatusPending == "PENDING"

NewStatus == "PROCESSING"

CreateRow(j) == row' = [row EXCEPT ![j] = NewStatus]

(* CreateJob answers or is broken off. *)
InsertRow(j) ==
  /\ creator[j] = "insert"
  /\ \/ /\ CreateRuns
        /\ CreateRow(j)
        /\ CreatorGoes(j, "register")
        /\ UNCHANGED late
     \/ /\ DBFails \/ ~CreateRuns
        /\ CreatorGoes(j, "refused")
        /\ MayComeLate(DBFails, j, "create")
        /\ UNCHANGED row
  /\ UNCHANGED <<version, recorded, packets, up, handles, cancelled, pipe,
                 doing, del>>

Register(j) ==
  /\ creator[j] = "register"
  /\ handles' = handles \union {j}
  /\ CreatorGoes(j, "launch")
  /\ UNCHANGED <<tables, late, up, cancelled, pipe, doing, del>>

(* go func() { Launcher.Launch(...) ... }(), and the answer 202 *)
Launch(j) ==
  /\ creator[j] = "launch"
  /\ pipe' = [pipe EXCEPT ![j] = "running"]
  /\ CreatorGoes(j, "accepted")
  /\ UNCHANGED <<tables, late, up, handles, cancelled, doing, del>>

-----------------------------------------------------------------------------
(* The goroutine of a job *)

Starts(j, w, x) == doing' = [doing EXCEPT ![j] = @ \union {<<w, x>>}]
Leaves(j, w, x) == doing' = [doing EXCEPT ![j] = @ \ {<<w, x>>}]
Turns(j, w, x, y) ==
  doing' = [doing EXCEPT ![j] = (@ \ {<<w, x>>}) \union {<<w, y>>}]

(* A pre-check issues an INSERT or a saver a COPY, unless its context is   *)
(* done.  Only files that were recorded are read and copied.               *)
Issue(j, w, x) ==
  /\ pipe[j] = "running" /\ j \notin cancelled
  /\ <<w, x>> \notin doing[j]
  /\ x = "copy" => /\ j \in recorded
                   /\ <<w, "fail">> \notin doing[j]
                   /\ <<w, "abort">> \notin doing[j]
  /\ Starts(j, w, x)
  /\ UNCHANGED <<tables, late, up, handles, cancelled, creator, pipe, del>>

(* The INSERT into source_files answers or is broken off.  It is refused   *)
(* if the checksum is known.                                               *)
Recorded(j, w) ==
  /\ <<w, "record">> \in doing[j]
  /\ Leaves(j, w, "record")
  /\ \/ RecordRuns(j) /\ recorded' = recorded \union {j} /\ UNCHANGED late
     \/ UNCHANGED recorded /\ MayComeLate(Broken(j), j, "record")
  /\ UNCHANGED <<version, row, packets, up, handles, cancelled, creator, pipe,
                 del>>

(* COPY answers or is broken off.  It refuses a batch that does not fit    *)
(* its columns.  After an error the FAILED update is issued, unless the    *)
(* context is done.                                                        *)
Copied(j, w) ==
  /\ <<w, "copy">> \in doing[j]
  /\ \/ /\ CopyRuns
        /\ packets' = packets \union {j}
        /\ Leaves(j, w, "copy")
        /\ UNCHANGED late
     \/ /\ UNCHANGED packets
        /\ MayComeLate(Broken(j), j, "copy")
        /\ \/ j \in cancelled /\ Leaves(j, w, "copy")
           \/ j \notin cancelled /\ Turns(j, w, "copy", "fail")
  /\ UNCHANGED <<version, row, recorded, up, handles, cancelled, creator, pipe,
                 del>>

(* The FAILED update answers or is broken off; its error is ignored. *)
Failed(j, w) ==
  /\ <<w, "fail">> \in doing[j]
  /\ \/ SetStatus(j, "FAILED") /\ UNCHANGED late
     \/ Broken(j) /\ UNCHANGED row /\ MayComeLate(TRUE, j, "fail")
  /\ Turns(j, w, "fail", "abort")
  /\ UNCHANGED <<version, recorded, packets, up, handles, cancelled, creator,
                 pipe, del>>

(* cancel(); return *)
Aborts(j, w) ==
  /\ <<w, "abort">> \in doing[j]
  /\ Leaves(j, w, "abort")
  /\ cancelled' = cancelled \union {j}
  /\ UNCHANGED <<tables, late, up, handles, creator, pipe, del>>

(* Every saver has sent its count; a pre-check may still have an INSERT in *)
(* flight.                                                                 *)
SaversGone(j) ==
  /\ pipe[j] = "running"
  /\ doing[j] \subseteq Workers \X {"record"}
  /\ pipe' = [pipe EXCEPT ![j] = "ending"]
  /\ UNCHANGED <<tables, late, up, handles, cancelled, creator, doing, del>>

(* Mutant: a cancelled job is not reported. *)
ReportsUncancelled(j) ==
  IF j \in cancelled THEN UNCHANGED row ELSE SetStatus(j, "COMPLETED")

(* UpdateJobStatus(updateCtx, "COMPLETED"): the context is a new one. *)
Reports(j) == SetStatus(j, "COMPLETED")

(* ProcessWithPool reports and returns; its deferred cancel() runs. *)
Ends(j) ==
  /\ pipe[j] = "ending"
  /\ \/ Reports(j) /\ UNCHANGED late
     \/ DBFails /\ UNCHANGED row /\ MayComeLate(TRUE, j, "complete")
  /\ cancelled' = cancelled \union {j}
  /\ pipe' = [pipe EXCEPT ![j] = "returned"]
  /\ UNCHANGED <<version, recorded, packets, up, handles, creator, doing, del>>

(* Mutant: the goroutine forgets the map. *)
ForgottenNot(j) == handles

Forgotten(j) == handles \ {j}

(* delete(s.Jobs, jobID.String()) *)
Unregister(j) ==
  /\ pipe[j] = "returned"
  /\ handles' = Forgotten(j)
  /\ pipe' = [pipe EXCEPT ![j] = "done"]
  /\ UNCHANGED <<tables, late, up, cancelled, creator, doing, del>>

-----------------------------------------------------------------------------
(* HandleDeleteJob *)

(* A DELETE for a job whose id can be known: GET /jobs shows its row, or   *)
(* it was drawn before.                                                    *)
DeleteArrives(d) ==
  /\ up
  /\ del[d].pc = "idle"
  /\ \E j \in Jobs, c \in Spellings :
       /\ row[j] # "none" \/ creator[j] = "accepted"
       /\ del' = [del EXCEPT ![d] =
                     [pc |-> "lookup", job |-> j, canonical |-> c]]
  /\ UNCHANGED <<tables, late, up, handles, cancelled, creator, pipe, doing>>

(* Mutant: the cancel function is dropped, not called. *)
CancelNot(j) == UNCHANGED cancelled

Cancel(j) == cancelled' = cancelled \union {j}

(* Under JobsMu: cancel the job if the map has the id as it was spelled.   *)
CancelIfRunning(d) ==
  LET j == del[d].job IN
  /\ del[d].pc = "lookup"
  /\ \/ /\ del[d].canonical /\ j \in handles
        /\ Cancel(j)
        /\ handles' = handles \ {j}
     \/ /\ ~(del[d].canonical /\ j \in handles)
        /\ UNCHANGED <<handles, cancelled>>
  /\ del' = [del EXCEPT ![d].pc = "delete"]
  /\ UNCHANGED <<tables, late, up, creator, pipe, doing>>

(* DeleteJob: one statement deletes the packets and the row. *)
DeleteRows(j) ==
  /\ row' = [row EXCEPT ![j] = "none"]
  /\ packets' = packets \ {j}

DeleteJob(d) ==
  LET j == del[d].job IN
  /\ del[d].pc = "delete"
  /\ \/ /\ DeleteRuns(j)
        /\ DeleteRows(j)
        /\ del' = [del EXCEPT ![d].pc = "204"]
        /\ UNCHANGED late
     \/ /\ DBFails \/ ~DeleteRuns(j)
        /\ del' = [del EXCEPT ![d].pc = "500"]
        /\ MayComeLate(DBFails, j, "delete")
        /\ UNCHANGED <<row, packets>>
  /\ UNCHANGED <<version, recorded, up, handles, cancelled, creator, pipe,
                 doing>>

DeleteLeaves(d) ==
  /\ del[d].pc \in {"204", "500"}
  /\ del' = [del EXCEPT ![d].pc = "idle"]
  /\ UNCHANGED <<tables, late, up, handles, cancelled, creator, pipe, doing>>

-----------------------------------------------------------------------------
(* main *)

(* The statements that are with the server. *)
InFlight ==
  {m \in Jobs \X {"record", "copy", "fail"} :
     \E w \in Workers : <<w, m[2]>> \in doing[m[1]]} \union
  {m \in Jobs \X {"create"} : creator[m[1]] = "insert"} \union
  {m \in Jobs \X {"complete"} : pipe[m[1]] = "ending"} \union
  {m \in Jobs \X {"delete"} :
     \E d \in Deletes : del[d].pc = "delete" /\ del[d].job = m[1]}

(* The process dies, or it is told to stop: it waits ten seconds for its   *)
(* handlers and for no pipeline.  Nothing of it is left but the tables and *)
(* the statements it has sent.                                             *)
Exit ==
  /\ up
  /\ up' = FALSE
  /\ handles' = {}
  /\ creator' = [j \in Jobs |-> IF creator[j] \in {"none", "accepted"}
                                THEN creator[j] ELSE "refused"]
  /\ pipe' = [j \in Jobs |-> IF pipe[j] = "none" THEN "none" ELSE "done"]
  /\ doing' = [j \in Jobs |-> {}]
  /\ del' = [d \in Deletes |-> [del[d] EXCEPT !.pc = "idle"]]
  /\ late' = late \union InFlight
  /\ UNCHANGED <<tables, cancelled>>

(* A new process: an empty map, and no look at job_tracking. *)
Restart ==
  /\ ~up
  /\ up' = TRUE
  /\ UNCHANGED <<tables, late, handles, cancelled, creator, pipe, doing, del>>

-----------------------------------------------------------------------------
(* The database server executes a statement whose call was broken off, or  *)
(* refuses it.                                                             *)
Executes(j, x) ==
  \/ /\ x = "create" /\ CreateRuns
     /\ CreateRow(j)
     /\ UNCHANGED <<recorded, packets>>
  \/ /\ x = "record" /\ RecordRuns(j)
     /\ recorded' = recorded \union {j}
     /\ UNCHANGED <<row, packets>>
  \/ /\ x = "copy" /\ CopyRuns
     /\ packets' = packets \union {j}
     /\ UNCHANGED <<row, recorded>>
  \/ /\ x = "fail"
     /\ SetStatus(j, "FAILED")
     /\ UNCHANGED <<recorded, packets>>
  \/ /\ x = "complete"
     /\ Reports(j)
     /\ UNCHANGED <<recorded, packets>>
  \/ /\ x = "delete" /\ DeleteRuns(j)
     /\ DeleteRows(j)
     /\ UNCHANGED recorded
  \/ UNCHANGED <<row, recorded, packets>>

(* CreateJob and the COMPLETED update are sent once for a job; of the      *)
(* others there may be more.                                               *)
Lands(j) ==
  /\ \E x \in Statements :
       /\ <<j, x>> \in late
       /\ Executes(j, x)
       /\ \/ late' = late \ {<<j, x>>}
          \/ x \notin {"create", "complete"} /\ UNCHANGED late
  /\ UNCHANGED <<version, up, handles, cancelled, creator, pipe, doing, del>>

-----------------------------------------------------------------------------
Creator(j) == InsertRow(j) \/ Register(j) \/ Launch(j)

Pipeline(j) ==
  \/ \E w \in Workers :
       \/ \E x \in {"record", "copy"} : Issue(j, w, x)
       \/ Recorded(j, w) \/ Copied(j, w) \/ Failed(j, w) \/ Aborts(j, w)
  \/ SaversGone(j) \/ Ends(j) \/ Unregister(j)

Delete(d) == CancelIfRunning(d) \/ DeleteJob(d) \/ DeleteLeaves(d)

Next ==
  \/ \E j \in Jobs : Post(j) \/ Creator(j) \/ Pipeline(j) \/ Lands(j)
  \/ \E d \in Deletes : DeleteArrives(d) \/ Delete(d)
  \/ Migrate \/ Exit \/ Restart

Spec == Init /\ [][Next]_vars

(* The files of a job come to an end (JobEnds of JobPipeline). *)
RunsOut(j) ==
  <>[][\A w \in Workers, x \in {"record", "copy"} : ~Issue(j, w, x)]_vars

(* Handlers run on, calls return, a pipeline runs out of files and the     *)
(* scheduler runs every goroutine.  The server owes nothing to a statement *)
(* that was broken off.                                                    *)
Fairness ==
  /\ \A j \in Jobs :
       /\ WF_vars(Creator(j)) /\ RunsOut(j)
       /\ \A w \in Workers :
            /\ WF_vars(Recorded(j, w)) /\ WF_vars(Copied(j, w))
            /\ WF_vars(Failed(j, w)) /\ WF_vars(Aborts(j, w))
       /\ WF_vars(SaversGone(j)) /\ WF_vars(Ends(j)) /\ WF_vars(Unregister(j))
  /\ \A d \in Deletes : WF_vars(Delete(d))

FairSpec == Spec /\ Fairness

-----------------------------------------------------------------------------
(* Properties *)

(* Rows carry only the statuses that handlers, savers and ProcessWithPool  *)
(* write, and every handler and pipeline is where the code can be.         *)
TypeOK ==
  /\ version \in 0..LastVersion
  /\ row \in [Jobs -> Rows]
  /\ recorded \subseteq Jobs /\ packets \subseteq Jobs
  /\ late \subseteq Jobs \X Statements
  /\ up \in BOOLEAN
  /\ handles \subseteq Jobs /\ cancelled \subseteq Jobs
  /\ creator \in [Jobs -> CreatorPcs]
  /\ pipe \in [Jobs -> PipePcs]
  /\ doing \in [Jobs -> SUBSET (Workers \X Doings)]
  /\ del \in [Deletes -> [pc : DeletePcs, job : Jobs, canonical : BOOLEAN]]

(* As long as a job may start another statement, its cancel function is in *)
(* the map, whatever POSTs, DELETEs and ends of jobs overlap: DELETE in    *)
(* canonical spelling can always stop it.                                  *)
RunningIsCancellable ==
  \A j \in Jobs : pipe[j] = "running" /\ j \notin cancelled => j \in handles

(* packet_logs never holds packets of a job without a row, though a COPY   *)
(* may be in flight while DELETE runs or come after it, and migration 6    *)
(* drops the foreign key.  (What protects it: only recorded files are      *)
(* copied, and the key of source_files keeps DeleteJob from a job that     *)
(* recorded one.)                                                          *)
PacketsBelong == \A j \in packets : row[j] # "none"

(* No cancel function stays in the map for ever. *)
HandlesDrain == \A j \in Jobs : j \in handles ~> j \notin handles

(* If no statement fails for a reason of its own, a job that was launched  *)
(* does not stay PROCESSING, cancelled or not, unless the process exits.   *)
JobsSettle ==
  \A j \in Jobs : pipe[j] = "running" ~> row[j] # "PROCESSING" \/ ~up
=============================================================================
