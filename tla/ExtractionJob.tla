---------------------------- MODULE ExtractionJob ----------------------------
(***************************************************************************)
(* What an extraction job promises whoever polls job_tracking and queries  *)
(* packet_logs, without its goroutines and channels.                       *)
(*                                                                         *)
(*   - A packet gets at most one row.                                      *)
(*   - files_read counts files that were read to the end.                  *)
(*   - Only a job that is over can be COMPLETED, and it asks for nothing   *)
(*     more.  Rows and a FAILED can still come, but only those that a      *)
(*     stopped job had asked for and not waited for.                       *)
(*   - A job that was not stopped is over only when every packet of every  *)
(*     file it has read is stored, and nothing can come after that.        *)
(***************************************************************************)
EXTENDS Naturals, FiniteSets

CONSTANTS Files, Packets,
          RowsOf(_)    \* the packets of a file that become rows

VARIABLES
  stored,    \* stored[p]: the rows packet p has in packet_logs
  left,      \* the batches left with the database, to be stored or not
  ready,     \* the files read to the end
  stopped,   \* the job was cancelled, or a write failed
  failing,   \* a FAILED update was left with the database
  over,      \* the savers are gone
  status,    \* job_tracking.status
  filesRead  \* job_tracking.files_read

vars == <<stored, left, ready, stopped, failing, over, status, filesRead>>

Init ==
  /\ stored = [p \in Packets |-> 0] /\ left = {}
  /\ ready = {} /\ stopped = FALSE /\ failing = FALSE /\ over = FALSE
  /\ status = "PROCESSING" /\ filesRead = 0

(* No packet of the batch has a row. *)
Fresh(batch) == \A p \in batch : stored[p] = 0

(* A batch is copied whole. *)
StoreRows(batch) ==
  stored' = [p \in Packets |-> IF p \in batch THEN 1 ELSE stored[p]]

Store ==
  /\ ~over
  /\ \E batch \in SUBSET (Packets \ UNION left) :
       Fresh(batch) /\ StoreRows(batch)
  /\ UNCHANGED <<left, ready, stopped, failing, over, status, filesRead>>

(* The write failed, or only its answer did: the batch may come later.     *)
BreakOff ==
  /\ ~over
  /\ stopped' = TRUE
  /\ \/ UNCHANGED left
     \/ \E batch \in SUBSET (Packets \ UNION left) :
          Fresh(batch) /\ left' = left \union {batch}
  /\ UNCHANGED <<stored, ready, failing, over, status, filesRead>>

(* It comes, once, whatever has become of the job. *)
StoreLate ==
  /\ \E batch \in left :
       Fresh(batch) /\ StoreRows(batch) /\ left' = left \ {batch}
  /\ UNCHANGED <<ready, stopped, failing, over, status, filesRead>>

(* A stopped job may still finish files whose packets nobody will store. *)
FileRead(f) ==
  /\ over => stopped
  /\ ready' = ready \union {f}
  /\ UNCHANGED <<stored, left, stopped, failing, over, status, filesRead>>

CountFile ==
  /\ filesRead < Cardinality(ready)
  /\ filesRead' = filesRead + 1
  /\ UNCHANGED <<stored, left, ready, stopped, failing, over, status>>

Cancel ==
  /\ stopped' = TRUE
  /\ UNCHANGED <<stored, left, ready, failing, over, status, filesRead>>

(* The FAILED update takes effect, or is left with the database. *)
Fail ==
  /\ stopped /\ ~over
  /\ \/ status' = "FAILED" /\ UNCHANGED failing
     \/ failing' = TRUE /\ UNCHANGED status
  /\ UNCHANGED <<stored, left, ready, stopped, over, filesRead>>

(* One that was left comes; there may be others. *)
FailLate ==
  /\ failing
  /\ failing' \in BOOLEAN
  /\ status' = "FAILED"
  /\ UNCHANGED <<stored, left, ready, stopped, over, filesRead>>

End ==
  /\ stopped \/ \A f \in ready : \A p \in RowsOf(f) : stored[p] = 1
  /\ over' = TRUE
  /\ UNCHANGED <<stored, left, ready, stopped, failing, status, filesRead>>

Complete ==
  /\ over
  /\ status' = "COMPLETED"
  /\ UNCHANGED <<stored, left, ready, stopped, failing, over, filesRead>>

Next ==
  \/ Store \/ BreakOff \/ StoreLate \/ Cancel \/ Fail \/ FailLate
  \/ \E f \in Files : FileRead(f)
  \/ CountFile \/ End \/ Complete

Spec == Init /\ [][Next]_vars
=============================================================================
