---------------------------- MODULE PcapGenerator ----------------------------
(***************************************************************************)
(* The command pcap-gen: runs of `generate` and `delete` on one folder.    *)
(* A generating run counts the .pcap files, whoever put them there, and    *)
(* writes what is missing, one goroutine for each file, under names        *)
(* numbered from that count; a deleting run removes what bears such a      *)
(* name.  Runs may overlap, any call on a file may fail, and a run may be  *)
(* killed.  The packets in a file are left out, but for whether they are   *)
(* all there.                                                              *)
(***************************************************************************)
EXTENDS Naturals, FiniteSets, FiniteSetsExt

CONSTANTS
  Runs,      \* the runs of pcap-gen, each of one command
  Counts,    \* values of --count
  Default,   \* the count that zero stands for: 3
  MaxForeign \* bound: .pcap files that somebody else put into the folder

ASSUME PcapGeneratorAssumption ==
  /\ Counts \subseteq Nat /\ Counts # {} /\ IsFiniteSet(Counts)
  /\ Default \in Nat \ {0}
  /\ MaxForeign \in Nat

Wanted(c) == IF c = 0 THEN Default ELSE c

(* The numbers of the files test_batch_<n>.pcap. *)
Numbers == 1 .. Max({Wanted(c) : c \in Counts})

VARIABLES
  foreign,  \* how many other .pcap files there are
  files,    \* what is in test_batch_<n>.pcap
  pc,       \* where each run is
  count,    \* the number of files a generating run is to see to
  job,      \* its goroutines: what each does with the file of a number
  todo,     \* the numbers of the files a deleting run has still to remove
  failed,   \* the runs of which a goroutine has returned an error
  marred    \* observation: a run met another one, failed or was killed

vars == <<foreign, files, pc, count, job, todo, failed, marred>>

Contents == {"absent", "partial", "whole", "mixed"}

Stages == {"none", "ready", "writing", "unlinked", "returned"}

Pcs == {"idle", "generating", "removing", "done", "failed", "killed"}

Active(r) == pc[r] \in {"generating", "removing"}

Written == {n \in Numbers : files[n] # "absent"}

Idle == [n \in Numbers |-> "none"]

Init ==
  /\ foreign \in 0 .. MaxForeign
  /\ files = [n \in Numbers |-> "absent"]
  /\ pc = [r \in Runs |-> "idle"]
  /\ count = [r \in Runs |-> 0]
  /\ job = [r \in Runs |-> Idle]
  /\ todo = [r \in Runs |-> {}]
  /\ failed = {}
  /\ marred = FALSE

Goes(r, to) == pc' = [pc EXCEPT ![r] = to]

(* With a process end its goroutines. *)
Ends(r, how) ==
  /\ Goes(r, how)
  /\ job' = [job EXCEPT ![r] = Idle]
  /\ todo' = [todo EXCEPT ![r] = {}]
  /\ failed' = failed \ {r}
  /\ UNCHANGED <<foreign, files, count>>

Meets(r) == \E q \in Runs \ {r} : Active(q)

-----------------------------------------------------------------------------
(* pcap-gen generate *)

(* Mutant: the files of others are not counted. *)
MatchesOwn == Cardinality(Written)

(* filepath.Glob of *.pcap *)
Matches == foreign + Cardinality(Written)

(* Mutant: the loop runs once too often. *)
MissingOneMore(c) == (Matches + 1) .. (c + 1)

Missing(c) == (Matches + 1) .. c

(* GenerateFiles up to the loop: the directory may not come into being. *)
StartGenerate(r, c) ==
  /\ pc[r] = "idle"
  /\ marred' = (marred \/ Meets(r))
  /\ \/ /\ count' = [count EXCEPT ![r] = Wanted(c)]
        /\ IF Matches >= Wanted(c)
           THEN Goes(r, "done") /\ UNCHANGED job
           ELSE /\ Goes(r, "generating")
                /\ job' = [job EXCEPT ![r] =
                     [n \in Numbers |-> IF n \in Missing(Wanted(c)) THEN "ready" ELSE "none"]]
     \/ Goes(r, "failed") /\ UNCHANGED <<count, job>>
  /\ UNCHANGED <<foreign, files, todo, failed>>

Stage(r, n, to) == job' = [job EXCEPT ![r][n] = to]

OthersWrite(r, n) == \E q \in Runs \ {r} : job[q][n] = "writing"

(* os.Create truncates a file that is there.  Two goroutines on one file   *)
(* each write at an offset of their own.                                   *)
Create(r, n) ==
  /\ job[r][n] = "ready"
  /\ files' = [files EXCEPT ![n] = IF OthersWrite(r, n) THEN "mixed" ELSE "partial"]
  /\ Stage(r, n, "writing")
  /\ UNCHANGED <<foreign, pc, count, todo, failed, marred>>

(* Mutant: Generate returns without the last Flush. *)
FlushedNot(r, n) == {files[n]}

(* The last Flush and Sync.  The last of several writers may have written  *)
(* over all that the others have.                                          *)
Flushed(r, n) ==
  IF files[n] # "mixed" THEN {"whole"}
  ELSE IF OthersWrite(r, n) THEN {"mixed"} ELSE {"mixed", "whole"}

(* What is written to a file that was removed is lost with it. *)
Finish(r, n) ==
  /\ \/ job[r][n] = "writing" /\ \E content \in Flushed(r, n) : files' = [files EXCEPT ![n] = content]
     \/ job[r][n] = "unlinked" /\ UNCHANGED files
  /\ Stage(r, n, "returned")
  /\ UNCHANGED <<foreign, pc, count, todo, failed, marred>>

(* Generate fails: what it has written stays. *)
Fail(r, n) ==
  /\ job[r][n] \in {"ready", "writing", "unlinked"}
  /\ Stage(r, n, "returned")
  /\ failed' = failed \union {r}
  /\ marred' = TRUE
  /\ UNCHANGED <<foreign, files, pc, count, todo>>

(* Mutant: a run whose goroutine failed waits for a file more. *)
ReturnedButFailed(r) == r \notin failed /\ \A n \in Numbers : job[r][n] \in {"none", "returned"}

Returned(r) == \A n \in Numbers : job[r][n] \in {"none", "returned"}

(* g.Wait(): every goroutine has returned, also after one has failed. *)
Wait(r) ==
  /\ pc[r] = "generating" /\ Returned(r)
  /\ Ends(r, IF r \in failed THEN "failed" ELSE "done")
  /\ UNCHANGED marred

-----------------------------------------------------------------------------
(* pcap-gen delete *)

(* filepath.Glob of test_batch_*.pcap *)
StartRemove(r) ==
  /\ pc[r] = "idle"
  /\ todo' = [todo EXCEPT ![r] = Written]
  /\ marred' = (marred \/ Meets(r))
  /\ Goes(r, "removing")
  /\ UNCHANGED <<foreign, files, count, job, failed>>

(* An open file outlives its name. *)
Unlinked(q, n) == IF job[q][n] = "writing" THEN "unlinked" ELSE job[q][n]

Remove(r, n) ==
  /\ n \in todo[r]
  /\ todo' = [todo EXCEPT ![r] = @ \ {n}]
  /\ \/ /\ files' = [files EXCEPT ![n] = "absent"]
        /\ job' = [q \in Runs |-> [job[q] EXCEPT ![n] = Unlinked(q, n)]]
        /\ UNCHANGED marred
     \/ marred' = TRUE /\ UNCHANGED <<files, job>>
  /\ UNCHANGED <<foreign, pc, count, failed>>

(* A file that could not be removed is only logged. *)
RemoveEnds(r) ==
  /\ pc[r] = "removing" /\ todo[r] = {}
  /\ Ends(r, "done")
  /\ UNCHANGED marred

-----------------------------------------------------------------------------
Kill(r) ==
  /\ Active(r)
  /\ Ends(r, "killed")
  /\ marred' = TRUE

Works(r) ==
  \/ \E n \in Numbers : Create(r, n) \/ Finish(r, n) \/ Fail(r, n) \/ Remove(r, n)
  \/ Wait(r) \/ RemoveEnds(r)

Over == (\A r \in Runs : pc[r] \notin {"idle", "generating", "removing"}) /\ UNCHANGED vars

Next ==
  \/ \E r \in Runs :
       \/ \E c \in Counts : StartGenerate(r, c)
       \/ StartRemove(r) \/ Works(r) \/ Kill(r)
  \/ Over

Spec == Init /\ [][Next]_vars

(* A run that was started is scheduled; nobody need start or kill one. *)
FairSpec == Spec /\ \A r \in Runs : WF_vars(Works(r))

-----------------------------------------------------------------------------
(* Properties *)

(* A goroutine works on a file only while its run generates, on a number   *)
(* within the run's count.                                                 *)
TypeOK ==
  /\ foreign \in 0 .. MaxForeign
  /\ files \in [Numbers -> Contents]
  /\ pc \in [Runs -> Pcs]
  /\ count \in [Runs -> 0 .. Max(Numbers)]
  /\ job \in [Runs -> [Numbers -> Stages]]
  /\ todo \in [Runs -> SUBSET Numbers]
  /\ failed \subseteq Runs /\ marred \in BOOLEAN
  /\ \A r \in Runs, n \in Numbers : job[r][n] # "none" => pc[r] = "generating" /\ n <= count[r]

(* However runs of generate and delete overlap, fail or are killed, the    *)
(* folder never has more .pcap files than a run was asked for, or than     *)
(* there were without the command: two runs that count at the same time    *)
(* take the same names.                                                    *)
NeverTooMany ==
  foreign + Cardinality(Written) <= Max({foreign} \union {count[r] : r \in Runs})

(* A run that says that all files are ready leaves as many as it was asked *)
(* for, all of them whole and none in the place of an earlier one, unless  *)
(* something failed, was killed or overlapped before.                      *)
CountReached ==
  [][\A r \in Runs : pc[r] = "generating" /\ pc'[r] = "done" /\ ~marred' =>
       /\ Written = (foreign + 1) .. count[r]
       /\ \A n \in Written : files[n] = "whole"]_vars

(* A run ends, whichever of its goroutines fails. *)
RunsEnd == \A r \in Runs : Active(r) ~> ~Active(r)
=============================================================================
