-------------------------- MODULE JobPipelineProofs --------------------------
(***************************************************************************)
(* Theorems about an extraction job, for any number of files, workers and  *)
(* batches.                                                                *)
(***************************************************************************)
EXTENDS JobPipeline, FiniteSetTheorems, TLAPS

(* Taking the first element of a channel. *)
LEMMA TailFacts ==
  ASSUME NEW S, NEW q \in Seq(S), q # <<>>
  PROVE  /\ Head(q) = q[1] /\ q[1] \in S /\ 1 \in 1..Len(q)
         /\ Tail(q) \in Seq(S) /\ Len(Tail(q)) = Len(q) - 1
         /\ Len(q) \in Nat \ {0}
         /\ \A i \in 1..Len(Tail(q)) : i+1 \in 1..Len(q) /\ Tail(q)[i] = q[i+1]
  OBVIOUS

(* Adding an element at the end of a channel. *)
LEMMA AppendFacts ==
  ASSUME NEW S, NEW q \in Seq(S), NEW e \in S
  PROVE  /\ Append(q, e) \in Seq(S) /\ Len(Append(q, e)) = Len(q) + 1
         /\ Append(q, e)[Len(q) + 1] = e
         /\ \A i \in 1..Len(q) : Append(q, e)[i] = q[i]
  OBVIOUS

LEMMA FilesFacts ==
  /\ FilePaths \in Seq(Files)
  /\ \A i, j \in 1..Len(FilePaths) : FilePaths[i] = FilePaths[j] => i = j
  /\ \A f \in Files : \E i \in 1..Len(FilePaths) : FilePaths[i] = f
  /\ \A f \in Files : Content[f] \in Seq(Kinds) /\ Len(Content[f]) \in Nat
BY JobPipelineAssumption DEF Files

LEMMA RowsFacts ==
  ASSUME NEW f \in Files, NEW p \in Nat, NEW q \in p..Len(Content[f])
  PROVE  /\ Rows(f, p, q) \subseteq Packets
         /\ RowsOf(f) \subseteq Packets
         /\ Rows(f, p, p) = {}
         /\ \A i : <<f, i>> \in Rows(f, p, q) <=>
                /\ i \in (p+1)..q /\ <<f, i>> \in RowsOf(f)
<1>1. Content[f] \in Seq(Kinds) /\ Len(Content[f]) \in Nat
  BY FilesFacts
<1>2. \A i : <<f, i>> \in Rows(f, p, q) <=>
             i \in (p+1)..q /\ Content[f][i] \in RowKinds
  BY DEF Rows
<1>3. \A i : <<f, i>> \in RowsOf(f) <=>
             i \in 1..Len(Content[f]) /\ Content[f][i] \in RowKinds
  BY <1>1 DEF Rows, RowsOf
<1>4. {f} \X (1..Len(Content[f])) \subseteq Packets
  BY DEF Packets
<1>5. RowsOf(f) \subseteq {f} \X (1..Len(Content[f]))
  BY <1>1 DEF Rows, RowsOf
<1>6. Rows(f, p, q) \subseteq {f} \X (1..Len(Content[f]))
  BY <1>1 DEF Rows
<1>7. Rows(f, p, p) = {}
  BY DEF Rows
<1> QED
  BY <1>1, <1>2, <1>3, <1>4, <1>5, <1>6, <1>7

-----------------------------------------------------------------------------
(* The inductive invariant *)

Holding(w) == prePc[w] \in {"insert", "send"}
Reading(r) == rdPc[r] \in {"fill", "spin", "send"}

(* A goroutine that holds a path holds one of the job's. *)
HandsOK ==
  /\ \A w \in PreChecks : Holding(w) => prePath[w] \in Files
  /\ \A r \in Readers : Reading(r) =>
       rdPath[r] \in Files /\ rdPos[r] \in 0..Len(Content[rdPath[r]])
  /\ \A r \in Readers : rdPc[r] = "progress" => rdPath[r] \in Files

(* Each file is in exactly one place, and fate says in which. *)
Once(q) == \A i, j \in 1..Len(q) : q[i] = q[j] => i = j
Queued(f, q) == \E i \in 1..Len(q) : q[i] = f

InFiles ==
  /\ Once(files)
  /\ \A f \in Files : fate[f] = "pending" <=> Queued(f, files)

InPreChecks ==
  /\ \A v, w \in PreChecks :
       Holding(v) /\ Holding(w) /\ prePath[v] = prePath[w] => v = w
  /\ \A f \in Files : fate[f] = "checking" <=>
       \E w \in PreChecks : Holding(w) /\ prePath[w] = f

InValidFiles ==
  /\ Once(validFiles)
  /\ \A f \in Files : fate[f] = "valid" <=> Queued(f, validFiles)

InReaders ==
  /\ \A r, t \in Readers :
       Reading(r) /\ Reading(t) /\ rdPath[r] = rdPath[t] => r = t
  /\ \A f \in Files : fate[f] = "reading" <=>
       \E r \in Readers : Reading(r) /\ rdPath[r] = f

Route == InFiles /\ InPreChecks /\ InValidFiles /\ InReaders

(* A batch in a reader's hand was read from its file, behind its position. *)
BatchesOK ==
  /\ \A r \in Readers : rdPc[r] \notin {"send", "spin"} => rdBatch[r] = {}
  /\ \A r \in Readers : \A p \in rdBatch[r] :
       p[1] = rdPath[r] /\ p[2] \in 1..rdPos[r]
  /\ \A s \in Savers : svPc[s] # "copy" => svBatch[s] = {}

(* A packet that no reader has come to is nowhere. *)
Streamed(p) == \E i \in 1..Len(packetStream) : p \in packetStream[i]
Late(p) == \E b \in lateCopies : p \in b
Clear(p) == copies[p] = 0 /\ ~Late(p)

Nowhere(p) ==
  /\ Clear(p)
  /\ \A r \in Readers : p \notin rdBatch[r]
  /\ ~Streamed(p)
  /\ \A s \in Savers : p \notin svBatch[s]

Fresh ==
  /\ \A p \in Packets :
       fate[p[1]] \notin {"reading", "read", "aborted"} => Nowhere(p)
  /\ \A p \in Packets : \A r \in Readers :
       Reading(r) /\ rdPath[r] = p[1] /\ p[2] > rdPos[r] => Nowhere(p)

(* A packet is in at most one batch, here or with the server, and not yet  *)
(* in packet_logs.                                                         *)
ReadersApart == \A r \in Readers : \A p \in rdBatch[r] :
  Clear(p) /\ ~Streamed(p) /\ \A s \in Savers : p \notin svBatch[s]

StreamApart == \A i \in 1..Len(packetStream) : \A p \in packetStream[i] :
  /\ Clear(p)
  /\ \A j \in 1..Len(packetStream) : p \in packetStream[j] => i = j
  /\ \A s \in Savers : p \notin svBatch[s]

SaversApart == \A s \in Savers : \A p \in svBatch[s] :
  Clear(p) /\ \A t \in Savers : p \in svBatch[t] => s = t

LateApart == \A b \in lateCopies : \A p \in b :
  copies[p] = 0 /\ \A d \in lateCopies : p \in d => b = d

Apart ==
  AtMostOnce /\ ReadersApart /\ StreamApart /\ SaversApart /\ LateApart

(* While nothing has gone wrong, a packet that was read is somewhere. *)
Undisturbed == ~ctxDone /\ \A s \in Savers : svPc[s] \notin {"fail", "abort"}

ShortIsLast ==
  \A r \in Readers :
    rdPc[r] = "send" /\ Cardinality(rdBatch[r]) # BatchLimit =>
      rdPos[r] = Len(Content[rdPath[r]])

ReadUpTo(f, i) ==
  \/ fate[f] = "read"
  \/ \E r \in Readers : Reading(r) /\ rdPath[r] = f /\ i <= rdPos[r]

KeptRows ==
  \A f \in Files : \A i \in 1..Len(Content[f]) :
    <<f, i>> \in RowsOf(f) /\ ReadUpTo(f, i) => ~Nowhere(<<f, i>>)

Kept ==
  /\ ShortIsLast
  /\ Undisturbed => KeptRows /\ lateCopies = {} /\ lateFails = {}

(* The goroutines leave in order, each when its channel is closed and      *)
(* empty, unless the context is done.                                      *)
Ending ==
  /\ validClosed => \A w \in PreChecks : prePc[w] = "done"
  /\ streamClosed => \A r \in Readers : rdPc[r] = "done"
  /\ mainPc # "collect" => \A s \in Savers : svPc[s] = "done"
  /\ status = "COMPLETED" \/ lateEnd => mainPc \in {"return", "done"}
  /\ ~ctxDone =>
       /\ \A f \in Files : fate[f] # "aborted"
       /\ \A w \in PreChecks : prePc[w] = "done" => files = <<>>
       /\ \A r \in Readers :
            rdPc[r] = "done" => validClosed /\ validFiles = <<>>
       /\ \A s \in Savers :
            svPc[s] = "done" => streamClosed /\ packetStream = <<>>

(* Of the files that share a checksum at most one passes the INSERT, which *)
(* leaves the checksum in source_files, under this job's id and not under  *)
(* an earlier job's.                                                       *)
Passed(f) ==
  \/ fate[f] \in {"valid", "reading", "unreadable", "aborted", "read"}
  \/ \E w \in PreChecks : prePc[w] = "send" /\ prePath[w] = f

Unique ==
  /\ \A f \in Files : Passed(f) => Checksum[f] \in own
  /\ \A f, g \in Files :
       Passed(f) /\ Passed(g) /\ Checksum[f] = Checksum[g] => f = g
  /\ own \intersect earlier = {}

Inv == /\ TypeOK /\ HandsOK /\ Route /\ BatchesOK /\ Fresh /\ Apart
       /\ Kept /\ Ending /\ Unique

-----------------------------------------------------------------------------
(* Every variable keeps its type. *)

LEMMA TypeInit == Init => TypeOK
<1> SUFFICES ASSUME Init PROVE TypeOK
  OBVIOUS
<1> USE JobPipelineAssumption
<1>1. files \in Seq(Files) /\ validFiles \in Seq(Files)
  BY FilesFacts DEF Init
<1>2. packetStream \in Seq(SUBSET Packets) /\ Len(packetStream) <= StreamCap
  BY DEF Init
<1>3. /\ earlier \subseteq sources
      /\ sources \subseteq Checksums \union Earlier /\ own \subseteq sources
  BY DEF Init
<1> QED
  BY <1>1, <1>2, <1>3 DEF Init, TypeOK, PrePcs, ReaderPcs, SaverPcs, MainPcs,
     Statuses, Fates

LEMMA InsertRowsType ==
  ASSUME copies \in [Packets -> Nat], NEW batch, InsertRows(batch)
  PROVE  copies' \in [Packets -> Nat]
BY DEF InsertRows

LEMMA TypeNext == TypeOK /\ HandsOK /\ [Next]_vars => TypeOK'
<1> SUFFICES ASSUME TypeOK, HandsOK, [Next]_vars PROVE TypeOK'
  OBVIOUS
<1> USE DEF TypeOK, chanVars, preVars, rdVars, svVars, srcVars, jobVars,
        lateVars
<1>1. CASE CancelJob
  BY <1>1 DEF CancelJob
<1>2. ASSUME NEW w \in PreChecks, PreCheckTake(w) PROVE TypeOK'
  <2>1. files # <<>> /\ files' = Tail(files)
    BY <1>2 DEF PreCheckTake
  <2>2. files' \in Seq(Files) /\ Head(files) \in Files
    BY <2>1, TailFacts
  <2>3. fate' \in [Files -> Fates]
    BY <1>2, <2>2 DEF PreCheckTake, SetFate, Fates
  <2>4. prePc' \in [PreChecks -> PrePcs]
    BY <1>2 DEF PreCheckTake, PrePcs
  <2>5. prePath' \in [PreChecks -> Files \union {NoFile}]
    BY <1>2, <2>2 DEF PreCheckTake
  <2> QED
    BY <1>2, <2>2, <2>3, <2>4, <2>5 DEF PreCheckTake, notInPre
<1>3. ASSUME NEW w \in PreChecks, PreCheckInsert(w) PROVE TypeOK'
  <2>1. fate' \in [Files -> Fates]
    BY <1>3 DEF PreCheckInsert, PreCheckSkip, SetFate, Fates
  <2>2. prePc' \in [PreChecks -> PrePcs]
    BY <1>3 DEF PreCheckInsert, PreCheckSkip, PrePcs
  <2>3. prePath' \in [PreChecks -> Files \union {NoFile}]
    BY <1>3 DEF PreCheckInsert, PreCheckSkip
  <2>4. Checksum[prePath[w]] \in Checksums
    BY <1>3 DEF PreCheckInsert, HandsOK, Holding, Checksums
  <2>5. /\ earlier' = earlier /\ sources \subseteq sources'
        /\ sources' \subseteq Checksums \union Earlier /\ own' \subseteq sources'
        /\ lateSums' \subseteq Checksums
    BY <1>3, <2>4 DEF PreCheckInsert, PreCheckSkip, Record, notInPre
  <2> QED
    BY <1>3, <2>1, <2>2, <2>3, <2>5 DEF PreCheckInsert, notInPre
<1>4. ASSUME NEW w \in PreChecks, PreCheckSend(w) PROVE TypeOK'
  <2>1. fate' \in [Files -> Fates]
    BY <1>4 DEF PreCheckSend, SetFate, Fates
  <2>2. prePc' \in [PreChecks -> PrePcs]
    BY <1>4 DEF PreCheckSend, PrePcs
  <2>3. prePath' \in [PreChecks -> Files \union {NoFile}]
    BY <1>4 DEF PreCheckSend
  <2>4. prePath[w] \in Files
    BY <1>4 DEF PreCheckSend, HandsOK, Holding
  <2>5. Append(validFiles, prePath[w]) \in Seq(Files)
    BY <2>4, AppendFacts
  <2>6. validFiles' \in Seq(Files)
    BY <1>4, <2>5 DEF PreCheckSend
  <2> QED
    BY <1>4, <2>1, <2>2, <2>3, <2>6 DEF PreCheckSend, notInPre
<1>5. ASSUME NEW w \in PreChecks, PreCheckExit(w) PROVE TypeOK'
  BY <1>5 DEF PreCheckExit, notInPre, PrePcs
<1>6. CASE CloseValid
  BY <1>6 DEF CloseValid
<1>7. ASSUME NEW r \in Readers, ReaderTake(r) PROVE TypeOK'
  <2>1. validFiles # <<>> /\ validFiles' = Tail(validFiles)
    BY <1>7 DEF ReaderTake
  <2>2. validFiles' \in Seq(Files) /\ Head(validFiles) \in Files
    BY <2>1, TailFacts
  <2>3. fate' \in [Files -> Fates]
    BY <1>7, <2>2 DEF ReaderTake, SetFate, Fates
  <2>4. rdPc' \in [Readers -> ReaderPcs]
    BY <1>7 DEF ReaderTake, ReaderPcs
  <2>6. rdPos' \in [Readers -> Nat]
    BY <1>7 DEF ReaderTake
  <2>5. rdPath' \in [Readers -> Files \union {NoFile}]
    BY <1>7, <2>2 DEF ReaderTake
  <2> QED
    BY <1>7, <2>2, <2>3, <2>4, <2>5, <2>6 DEF ReaderTake, notInReader
<1>8. ASSUME NEW r \in Readers, ReaderFill(r) PROVE TypeOK'
  <2>1. fate' \in [Files -> Fates]
    BY <1>8 DEF ReaderFill, ReaderGiveUp, ReaderFileDone, SetFate, Fates
  <2>2. rdPc' \in [Readers -> ReaderPcs]
    BY <1>8 DEF ReaderFill, ReaderGiveUp, ReaderFileDone, ReaderPcs
  <2>3. rdPath[r] \in Files /\ rdPos[r] \in 0..Len(Content[rdPath[r]])
    BY <1>8 DEF ReaderFill, HandsOK, Reading
  <2>4. Len(Content[rdPath[r]]) \in Nat
    BY <2>3, FilesFacts
  <2>5. rdPos' \in [Readers -> Nat]
    BY <1>8, <2>3, <2>4 DEF ReaderFill
  <2>6. \A q \in rdPos[r]..Len(Content[rdPath[r]]) :
          Rows(rdPath[r], rdPos[r], q) \subseteq Packets
    BY <2>3, <2>4, RowsFacts
  <2>7. \E batch \in SUBSET Packets : rdBatch' = [rdBatch EXCEPT ![r] = batch]
    BY <1>8, <2>6 DEF ReaderFill, ReaderGiveUp
  <2>8. rdBatch' \in [Readers -> SUBSET Packets]
    BY <2>7
  <2> QED
    BY <1>8, <2>1, <2>2, <2>5, <2>8 DEF ReaderFill, notInReader
<1>9. ASSUME NEW r \in Readers, ReaderSend(r) PROVE TypeOK'
  <2>1. fate' \in [Files -> Fates]
    BY <1>9 DEF ReaderSend, ReaderGiveUp, ReaderFileDone, SetFate, Fates
  <2>2. rdPc' \in [Readers -> ReaderPcs]
    BY <1>9 DEF ReaderSend, ReaderGiveUp, ReaderFileDone, ReaderPcs
  <2>3. rdBatch' \in [Readers -> SUBSET Packets]
    BY <1>9 DEF ReaderSend, ReaderGiveUp
  <2>4. /\ Append(packetStream, rdBatch[r]) \in Seq(SUBSET Packets)
        /\ Len(Append(packetStream, rdBatch[r])) = Len(packetStream) + 1
        /\ Len(packetStream) \in Nat /\ StreamCap \in Nat
    BY AppendFacts, JobPipelineAssumption
  <2>5. \/ packetStream' = packetStream
        \/ /\ Len(packetStream) < StreamCap
           /\ packetStream' = Append(packetStream, rdBatch[r])
    BY <1>9 DEF ReaderSend, StreamHasRoom
  <2>6. packetStream' \in Seq(SUBSET Packets)
    BY <2>4, <2>5
  <2>7. Len(packetStream') <= StreamCap
    <3>1. CASE packetStream' = packetStream
      BY <3>1
    <3>2. CASE /\ Len(packetStream) < StreamCap
               /\ packetStream' = Append(packetStream, rdBatch[r])
      <4>1. Len(packetStream') = Len(packetStream) + 1
        BY <3>2, <2>4
      <4> QED
        BY <3>2, <2>4, <4>1
    <3> QED
      BY <3>1, <3>2, <2>5
  <2> QED
    BY <1>9, <2>1, <2>2, <2>3, <2>6, <2>7 DEF ReaderSend, notInReader
<1>10. ASSUME NEW r \in Readers, ReaderProgress(r) PROVE TypeOK'
  <2>1. rdPath[r] \in Files
    BY <1>10 DEF ReaderProgress, HandsOK
  <2> QED
    BY <1>10, <2>1 DEF ReaderProgress, notInReader, ReaderPcs
<1>11. ASSUME NEW r \in Readers, ReaderExit(r) PROVE TypeOK'
  BY <1>11 DEF ReaderExit, notInReader, ReaderPcs
<1>12. CASE CloseStream
  BY <1>12 DEF CloseStream
<1>13. ASSUME NEW s \in Savers, SaverTake(s) PROVE TypeOK'
  <2>1. packetStream # <<>> /\ packetStream' = Tail(packetStream)
    BY <1>13 DEF SaverTake
  <2>2. /\ packetStream' \in Seq(SUBSET Packets)
        /\ Len(packetStream') <= StreamCap
        /\ Head(packetStream) \in SUBSET Packets
    BY <2>1, TailFacts, JobPipelineAssumption
  <2>3. svPc' \in [Savers -> SaverPcs]
    BY <1>13 DEF SaverTake, SaverGoes, SaverPcs
  <2>4. svBatch' \in [Savers -> SUBSET Packets]
    BY <1>13, <2>2 DEF SaverTake
  <2> QED
    BY <1>13, <2>2, <2>3, <2>4 DEF SaverTake, notInSaver
<1>14. ASSUME NEW s \in Savers, SaverCopy(s) PROVE TypeOK'
  <2>1. svPc' \in [Savers -> SaverPcs]
    BY <1>14 DEF SaverCopy, SaverGivesUp, SaverGoes, SaverPcs
  <2>2. svBatch' \in [Savers -> SUBSET Packets]
    BY <1>14 DEF SaverCopy, SaverGivesUp
  <2>3. copies' = copies \/ InsertRows(svBatch[s])
    BY <1>14 DEF SaverCopy
  <2>4. copies' \in [Packets -> Nat]
    BY <2>3, InsertRowsType
  <2>5. lateCopies' \subseteq SUBSET Packets
    <3>1. lateCopies' \in {lateCopies, lateCopies \union {svBatch[s]}}
      BY <1>14 DEF SaverCopy
    <3>2. svBatch[s] \subseteq Packets
      OBVIOUS
    <3> QED
      BY <3>1, <3>2
  <2> QED
    BY <1>14, <2>1, <2>2, <2>4, <2>5 DEF SaverCopy, notInSaver
<1>15. ASSUME NEW s \in Savers, SaverFail(s) PROVE TypeOK'
  BY <1>15 DEF SaverFail, SaverGoes, notInSaver, SaverPcs, Statuses
<1>16. ASSUME NEW s \in Savers, SaverAbort(s) PROVE TypeOK'
  BY <1>16 DEF SaverAbort, SaverGoes, notInSaver, SaverPcs
<1>17. ASSUME NEW s \in Savers, SaverThrottle(s) PROVE TypeOK'
  BY <1>17 DEF SaverThrottle, SaverGoes, notInSaver, SaverPcs
<1>18. ASSUME NEW s \in Savers, SaverExit(s) PROVE TypeOK'
  BY <1>18 DEF SaverExit, SaverGoes, notInSaver, SaverPcs
<1>19. CASE Main
  BY <1>19 DEF Main, MainCollect, MainReport, MainReturn, notInMain, MainPcs,
     Statuses
<1>20. CASE Land
  <2>1. UNCHANGED notInServer
    BY <1>20 DEF Land, LandInsert, LandCount, LandCopy, LandFail, LandEnd
  <2>2. /\ lateSums' \subseteq Checksums /\ lateCounts' \subseteq Files
        /\ lateCopies' \subseteq SUBSET Packets
        /\ lateFails' \subseteq Savers /\ lateEnd' \in BOOLEAN
    <3>1. /\ lateSums' \subseteq lateSums /\ lateCounts' \subseteq lateCounts
          /\ lateCopies' \subseteq lateCopies /\ lateFails' \subseteq lateFails
          /\ lateEnd' \in {lateEnd, FALSE}
      BY <1>20 DEF Land, LandInsert, LandCount, LandCopy, LandFail, LandEnd
    <3> QED
      BY <3>1
  <2>5. status' \in Statuses /\ filesRead' \in Nat
    <3>1. status' \in {status, "FAILED", "COMPLETED"}
          /\ filesRead' \in {filesRead, filesRead + 1}
      BY <1>20 DEF Land, LandInsert, LandCount, LandCopy, LandFail, LandEnd
    <3> QED
      BY <3>1 DEF Statuses
  <2>3. /\ sources \subseteq sources'
        /\ sources' \subseteq Checksums \union Earlier /\ own' \subseteq sources'
    <3>1. \/ UNCHANGED <<sources, own>>
          \/ \E sum \in lateSums : Record(sum)
      BY <1>20 DEF Land, LandInsert, LandCount, LandCopy, LandFail, LandEnd
    <3> QED
      BY <3>1 DEF Record
  <2>4. copies' \in [Packets -> Nat]
    <3>1. copies' = copies \/ \E b \in lateCopies : InsertRows(b)
      BY <1>20 DEF Land, LandInsert, LandCount, LandCopy, LandFail, LandEnd
    <3> QED
      BY <3>1, InsertRowsType
  <2> QED
    BY <2>1, <2>2, <2>3, <2>4, <2>5 DEF notInServer
<1>21. CASE UNCHANGED vars
  BY <1>21 DEF vars
<1> QED
  BY <1>1, <1>2, <1>3, <1>4, <1>5, <1>6, <1>7, <1>8, <1>9, <1>10, <1>11,
     <1>12, <1>13, <1>14, <1>15, <1>16, <1>17, <1>18, <1>19, <1>20, <1>21
     DEF Next, PreCheck, Reader, Saver, Terminated

-----------------------------------------------------------------------------
(* Each file is in exactly one place. *)

LEMMA OnceTail ==
  ASSUME NEW S, NEW q \in Seq(S), q # <<>>, Once(q)
  PROVE  /\ Once(Tail(q)) /\ ~Queued(Head(q), Tail(q))
         /\ \A e : Queued(e, q) <=> e = Head(q) \/ Queued(e, Tail(q))
<1> DEFINE t == Tail(q)
<1>1. /\ Head(q) = q[1] /\ 1 \in 1..Len(q)
      /\ Len(t) = Len(q) - 1 /\ Len(q) \in Nat \ {0}
      /\ \A i \in 1..Len(t) : i+1 \in 1..Len(q) /\ t[i] = q[i+1]
  BY TailFacts
<1> HIDE DEF t
<1>2. \A i \in 1..Len(q) : i = 1 \/ (i-1 \in 1..Len(t) /\ q[i] = t[i-1])
  <2> SUFFICES ASSUME NEW i \in 1..Len(q), i # 1
               PROVE  i-1 \in 1..Len(t) /\ q[i] = t[i-1]
    OBVIOUS
  <2>1. i-1 \in 1..Len(t) /\ (i-1)+1 = i
    BY <1>1
  <2> QED
    BY <1>1, <2>1
<1>3. Once(t)
  <2> SUFFICES ASSUME NEW i \in 1..Len(t), NEW j \in 1..Len(t), t[i] = t[j]
               PROVE  i = j
    BY DEF Once
  <2>1. i+1 = j+1
    BY <1>1 DEF Once
  <2> QED
    BY <2>1, <1>1
<1>4. ~Queued(Head(q), t)
  <2> SUFFICES ASSUME NEW i \in 1..Len(t), t[i] = q[1] PROVE FALSE
    BY <1>1 DEF Queued
  <2>1. i+1 = 1
    BY <1>1 DEF Once
  <2> QED
    BY <2>1, <1>1
<1>5. \A e : Queued(e, q) <=> e = Head(q) \/ Queued(e, t)
  BY <1>1, <1>2 DEF Queued
<1> QED
  BY <1>3, <1>4, <1>5 DEF t

LEMMA OnceAppend ==
  ASSUME NEW S, NEW q \in Seq(S), NEW e \in S, Once(q), ~Queued(e, q)
  PROVE  /\ Once(Append(q, e))
         /\ \A f : Queued(f, Append(q, e)) <=> f = e \/ Queued(f, q)
<1> DEFINE a == Append(q, e)
<1>1. /\ Len(a) = Len(q) + 1 /\ Len(q) \in Nat
      /\ a[Len(q) + 1] = e
      /\ \A i \in 1..Len(q) : a[i] = q[i]
  BY AppendFacts
<1> HIDE DEF a
<1>2. \A i \in 1..Len(a) : i = Len(q) + 1 \/ i \in 1..Len(q)
  BY <1>1
<1>3. Len(q) + 1 \in 1..Len(a) /\ \A i \in 1..Len(q) : i \in 1..Len(a)
  BY <1>1
<1>4. Once(a)
  BY <1>1, <1>2 DEF Once, Queued
<1>5. \A f : Queued(f, a) <=> f = e \/ Queued(f, q)
  BY <1>1, <1>2, <1>3 DEF Queued
<1> QED
  BY <1>4, <1>5 DEF a

routeVars == <<files, validFiles, preVars, rdVars, fate>>

LEMMA RouteInit == Init => HandsOK /\ Route
<1> SUFFICES ASSUME Init PROVE HandsOK /\ Route
  OBVIOUS
<1>1. HandsOK
  BY DEF Init, HandsOK, Holding, Reading
<1>2. InFiles
  BY FilesFacts DEF Init, InFiles, Once, Queued
<1>3. InPreChecks
  BY DEF Init, InPreChecks, Holding
<1>4. InValidFiles
  BY DEF Init, InValidFiles, Once, Queued
<1>5. InReaders
  BY DEF Init, InReaders, Reading
<1> QED
  BY <1>1, <1>2, <1>3, <1>4, <1>5 DEF Route

LEMMA RouteNext == TypeOK /\ HandsOK /\ Route /\ [Next]_vars => HandsOK' /\ Route'
<1> SUFFICES ASSUME TypeOK, HandsOK, Route, [Next]_vars
             PROVE  HandsOK' /\ Route'
  OBVIOUS
<1> USE DEF preVars, rdVars
<1>0. /\ files \in Seq(Files) /\ validFiles \in Seq(Files)
      /\ fate \in [Files -> Fates]
      /\ prePc \in [PreChecks -> PrePcs]
      /\ prePath \in [PreChecks -> Files \union {NoFile}]
      /\ rdPc \in [Readers -> ReaderPcs]
      /\ rdPath \in [Readers -> Files \union {NoFile}]
      /\ rdPos \in [Readers -> Nat]
  BY DEF TypeOK
<1>1. CASE UNCHANGED routeVars
  BY <1>1 DEF routeVars, HandsOK, Route, InFiles, InPreChecks, InValidFiles,
     InReaders, Holding, Reading, Once, Queued
<1>2. ASSUME NEW w \in PreChecks, PreCheckTake(w) PROVE HandsOK' /\ Route'
  <2>1. /\ files # <<>> /\ files' = Tail(files)
        /\ UNCHANGED <<validFiles, rdVars>> /\ prePc[w] = "recv"
    BY <1>2 DEF PreCheckTake, notInPre
  <2>2. Head(files) \in Files
    BY <2>1, <1>0, TailFacts
  <2>3. /\ Once(files') /\ ~Queued(Head(files), files')
        /\ \A f : Queued(f, files) <=> f = Head(files) \/ Queued(f, files')
    BY <2>1, <1>0, OnceTail DEF Route, InFiles
  <2>4. fate[Head(files)] = "pending"
    BY <2>2, <2>3 DEF Route, InFiles
  <2>5. \/ /\ fate' = [fate EXCEPT ![Head(files)] = "unchecked"]
           /\ UNCHANGED preVars
        \/ /\ fate' = [fate EXCEPT ![Head(files)] = "checking"]
           /\ prePc' = [prePc EXCEPT ![w] = "insert"]
           /\ prePath' = [prePath EXCEPT ![w] = Head(files)]
    BY <1>2 DEF PreCheckTake, SetFate
  <2>6. HandsOK'
    BY <1>0, <2>1, <2>2, <2>5 DEF HandsOK, Holding, Reading
  <2>7. InFiles'
    BY <1>0, <2>2, <2>3, <2>5 DEF Route, InFiles
  <2>8. InPreChecks'
    <3>1. \A v \in PreChecks : Holding(v) => prePath[v] # Head(files)
      BY <2>2, <2>4 DEF Route, InPreChecks
    <3>2. CASE /\ UNCHANGED preVars
               /\ fate' = [fate EXCEPT ![Head(files)] = "unchecked"]
      BY <3>2, <1>0, <2>2, <2>4 DEF Route, InPreChecks, Holding
    <3>3. CASE /\ fate' = [fate EXCEPT ![Head(files)] = "checking"]
               /\ prePc' = [prePc EXCEPT ![w] = "insert"]
               /\ prePath' = [prePath EXCEPT ![w] = Head(files)]
      BY <3>1, <3>3, <1>0, <2>1, <2>2, <2>4 DEF Route, InPreChecks, Holding
    <3> QED
      BY <2>5, <3>2, <3>3
  <2>9. InValidFiles'
    BY <1>0, <2>1, <2>2, <2>4, <2>5 DEF Route, InValidFiles, Once, Queued
  <2>10. InReaders'
    BY <1>0, <2>1, <2>2, <2>4, <2>5 DEF Route, InReaders, Reading
  <2> QED
    BY <2>6, <2>7, <2>8, <2>9, <2>10 DEF Route
<1>3. ASSUME NEW w \in PreChecks, PreCheckInsert(w) PROVE HandsOK' /\ Route'
  <2>1. /\ UNCHANGED <<files, validFiles, rdVars>>
        /\ prePc[w] = "insert" /\ Holding(w)
    BY <1>3 DEF PreCheckInsert, notInPre, Holding, chanVars
  <2>2. prePath[w] \in Files /\ fate[prePath[w]] = "checking"
    BY <2>1 DEF HandsOK, Route, InPreChecks
  <2>3. \/ /\ prePc' = [prePc EXCEPT ![w] = "send"]
           /\ UNCHANGED <<prePath, fate>>
        \/ /\ prePc' = [prePc EXCEPT ![w] = "recv"]
           /\ prePath' = [prePath EXCEPT ![w] = NoFile]
           /\ \E x \in {"duplicate", "unchecked"} :
                fate' = [fate EXCEPT ![prePath[w]] = x]
    BY <1>3 DEF PreCheckInsert, PreCheckSkip, SetFate
  <2>4. HandsOK'
    BY <1>0, <2>1, <2>2, <2>3 DEF HandsOK, Holding, Reading
  <2>5. InFiles'
    BY <1>0, <2>1, <2>2, <2>3 DEF Route, InFiles, Once, Queued
  <2>6. InPreChecks'
    <3>1. CASE /\ prePc' = [prePc EXCEPT ![w] = "send"]
               /\ UNCHANGED <<prePath, fate>>
      BY <3>1, <1>0, <2>1 DEF Route, InPreChecks, Holding
    <3>2. CASE /\ prePc' = [prePc EXCEPT ![w] = "recv"]
               /\ prePath' = [prePath EXCEPT ![w] = NoFile]
               /\ \E x \in {"duplicate", "unchecked"} :
                    fate' = [fate EXCEPT ![prePath[w]] = x]
      <4>1. \A v \in PreChecks : Holding(v)' <=> Holding(v) /\ v # w
        BY <3>2, <1>0 DEF Holding
      <4>2. \A v \in PreChecks : v # w => prePath'[v] = prePath[v]
        BY <3>2, <1>0
      <4>3. \A f \in Files :
              fate'[f] = "checking" <=> fate[f] = "checking" /\ f # prePath[w]
        BY <3>2, <1>0, <2>2
      <4> QED
        BY <4>1, <4>2, <4>3, <2>1 DEF Route, InPreChecks
    <3> QED
      BY <2>3, <3>1, <3>2
  <2>7. InValidFiles'
    BY <1>0, <2>1, <2>2, <2>3 DEF Route, InValidFiles, Once, Queued
  <2>8. InReaders'
    BY <1>0, <2>1, <2>2, <2>3 DEF Route, InReaders, Reading
  <2> QED
    BY <2>4, <2>5, <2>6, <2>7, <2>8 DEF Route
<1>4. ASSUME NEW w \in PreChecks, PreCheckSend(w) PROVE HandsOK' /\ Route'
  <2>1. UNCHANGED <<files, rdVars>> /\ prePc[w] = "send" /\ Holding(w)
    BY <1>4 DEF PreCheckSend, notInPre, Holding
  <2>2. prePath[w] \in Files /\ fate[prePath[w]] = "checking"
    BY <2>1 DEF HandsOK, Route, InPreChecks
  <2>3. /\ prePath' = [prePath EXCEPT ![w] = NoFile]
        /\ \/ /\ validFiles' = Append(validFiles, prePath[w])
              /\ prePc' = [prePc EXCEPT ![w] = "recv"]
              /\ fate' = [fate EXCEPT ![prePath[w]] = "valid"]
           \/ /\ validFiles' = validFiles
              /\ prePc' = [prePc EXCEPT ![w] = "done"]
              /\ fate' = [fate EXCEPT ![prePath[w]] = "aborted"]
    BY <1>4 DEF PreCheckSend, SetFate
  <2>4. /\ Once(Append(validFiles, prePath[w]))
        /\ \A f : Queued(f, Append(validFiles, prePath[w])) <=>
                    f = prePath[w] \/ Queued(f, validFiles)
    BY <1>0, <2>2, OnceAppend DEF Route, InValidFiles
  <2>5. HandsOK'
    BY <1>0, <2>1, <2>2, <2>3 DEF HandsOK, Holding, Reading
  <2>6. InFiles'
    BY <1>0, <2>1, <2>2, <2>3 DEF Route, InFiles, Once, Queued
  <2>7. InPreChecks'
    <3>1. \A v \in PreChecks : Holding(v)' <=> Holding(v) /\ v # w
      BY <1>0, <2>3 DEF Holding
    <3>2. \A v \in PreChecks : v # w => prePath'[v] = prePath[v]
      BY <1>0, <2>3
    <3>3. \A f \in Files :
            fate'[f] = "checking" <=> fate[f] = "checking" /\ f # prePath[w]
      BY <1>0, <2>2, <2>3
    <3> QED
      BY <3>1, <3>2, <3>3, <2>1 DEF Route, InPreChecks
  <2>8. InValidFiles'
    <3>1. CASE validFiles' = validFiles /\
               fate' = [fate EXCEPT ![prePath[w]] = "aborted"]
      BY <3>1, <1>0, <2>2 DEF Route, InValidFiles
    <3>2. CASE validFiles' = Append(validFiles, prePath[w]) /\
               fate' = [fate EXCEPT ![prePath[w]] = "valid"]
      BY <3>2, <1>0, <2>2, <2>4 DEF Route, InValidFiles
    <3> QED
      BY <2>3, <3>1, <3>2
  <2>9. InReaders'
    BY <1>0, <2>1, <2>2, <2>3 DEF Route, InReaders, Reading
  <2> QED
    BY <2>5, <2>6, <2>7, <2>8, <2>9 DEF Route
<1>5. ASSUME NEW w \in PreChecks, PreCheckExit(w) PROVE HandsOK' /\ Route'
  <2>1. /\ UNCHANGED <<files, validFiles, rdVars, fate, prePath>>
        /\ prePc[w] = "recv" /\ prePc' = [prePc EXCEPT ![w] = "done"]
    BY <1>5 DEF PreCheckExit, notInPre, chanVars
  <2>2. \A v \in PreChecks : Holding(v)' <=> Holding(v)
    BY <1>0, <2>1 DEF Holding
  <2> QED
    BY <2>1, <2>2 DEF HandsOK, Route, InFiles, InPreChecks, InValidFiles,
       InReaders, Reading, Once, Queued
<1>6. ASSUME NEW r \in Readers, ReaderTake(r) PROVE HandsOK' /\ Route'
  <2> DEFINE f == Head(validFiles)
  <2>1. /\ validFiles # <<>> /\ validFiles' = Tail(validFiles)
        /\ UNCHANGED <<files, preVars>> /\ rdPc[r] = "recv"
    BY <1>6 DEF ReaderTake, notInReader
  <2>2. f \in Files
    BY <2>1, <1>0, TailFacts
  <2>3. /\ Once(validFiles') /\ ~Queued(f, validFiles')
        /\ \A g : Queued(g, validFiles) <=> g = f \/ Queued(g, validFiles')
    BY <2>1, <1>0, OnceTail DEF Route, InValidFiles
  <2>4. fate[f] = "valid"
    BY <2>2, <2>3 DEF Route, InValidFiles
  <2>5. \/ /\ fate' = [fate EXCEPT ![f] = "aborted"]
           /\ rdPc' = [rdPc EXCEPT ![r] = "done"]
           /\ UNCHANGED <<rdPath, rdPos>>
        \/ /\ fate' = [fate EXCEPT ![f] = "unreadable"]
           /\ UNCHANGED <<rdPc, rdPath, rdPos>>
        \/ /\ fate' = [fate EXCEPT ![f] = "reading"]
           /\ rdPc' = [rdPc EXCEPT ![r] = "fill"]
           /\ rdPath' = [rdPath EXCEPT ![r] = f]
           /\ rdPos' = [rdPos EXCEPT ![r] = 0]
    BY <1>6 DEF ReaderTake, SetFate
  <2> HIDE DEF f
  <2>6. Len(Content[f]) \in Nat
    BY <2>2, FilesFacts
  <2>7. HandsOK'
    <3>1. \A t \in Readers : rdPc'[t] = "progress" => rdPath'[t] \in Files
      BY <1>0, <2>2, <2>5 DEF HandsOK
    <3>2. \A t \in Readers : Reading(t)' =>
            /\ rdPath'[t] \in Files
            /\ rdPos'[t] \in 0..Len(Content[rdPath'[t]])
      BY <1>0, <2>2, <2>5, <2>6 DEF HandsOK, Reading
    <3> QED
      BY <2>1, <3>1, <3>2 DEF HandsOK, Holding
  <2>8. InFiles'
    BY <1>0, <2>1, <2>2, <2>4, <2>5 DEF Route, InFiles, Once, Queued
  <2>9. InPreChecks'
    BY <1>0, <2>1, <2>2, <2>4, <2>5 DEF Route, InPreChecks, Holding
  <2>10. InValidFiles'
    BY <1>0, <2>2, <2>3, <2>5 DEF Route, InValidFiles
  <2>11. InReaders'
    <3>1. \A t \in Readers : Reading(t) => rdPath[t] # f
      BY <2>2, <2>4 DEF Route, InReaders
    <3>2. CASE fate' # [fate EXCEPT ![f] = "reading"]
      <4>1. \A t \in Readers : /\ Reading(t)' <=> Reading(t)
                              /\ rdPath'[t] = rdPath[t]
        BY <3>2, <1>0, <2>1, <2>5 DEF Reading
      <4>2. \A g \in Files : fate'[g] = "reading" <=> fate[g] = "reading"
        BY <3>2, <1>0, <2>2, <2>4, <2>5
      <4> QED
        BY <4>1, <4>2 DEF Route, InReaders
    <3>3. CASE /\ fate' = [fate EXCEPT ![f] = "reading"]
               /\ rdPc' = [rdPc EXCEPT ![r] = "fill"]
               /\ rdPath' = [rdPath EXCEPT ![r] = f]
      BY <3>1, <3>3, <1>0, <2>1, <2>2, <2>4 DEF Route, InReaders, Reading
    <3>4. CASE fate' # [fate EXCEPT ![f] = "aborted"] /\
               fate' # [fate EXCEPT ![f] = "unreadable"]
      BY <3>3, <3>4, <2>5
    <3>5. /\ [fate EXCEPT ![f] = "aborted"] # [fate EXCEPT ![f] = "reading"]
          /\ [fate EXCEPT ![f] = "unreadable"] # [fate EXCEPT ![f] = "reading"]
      BY <1>0, <2>2
    <3> QED
      BY <3>2, <3>4, <3>5
  <2> QED
    BY <2>7, <2>8, <2>9, <2>10, <2>11 DEF Route
<1>7. ASSUME NEW r \in Readers, ReaderFill(r) \/ ReaderSend(r)
      PROVE  HandsOK' /\ Route'
  <2>1. UNCHANGED <<files, validFiles, preVars, rdPath>> /\ Reading(r)
    BY <1>7 DEF ReaderFill, ReaderSend, Reading, notInReader, chanVars
  <2>2. /\ rdPath[r] \in Files /\ fate[rdPath[r]] = "reading"
        /\ Len(Content[rdPath[r]]) \in Nat
        /\ rdPos[r] \in 0..Len(Content[rdPath[r]])
    BY <2>1, FilesFacts DEF HandsOK, Route, InReaders
  <2>3. \/ /\ fate' = fate
           /\ \E pc \in {"fill", "send", "spin"} : rdPc' = [rdPc EXCEPT ![r] = pc]
        \/ /\ \E x \in {"aborted", "read"} :
                fate' = [fate EXCEPT ![rdPath[r]] = x]
           /\ \E pc \in {"recv", "progress"} : rdPc' = [rdPc EXCEPT ![r] = pc]
    <3>1. CASE ReaderFill(r)
      BY <3>1, <1>0 DEF ReaderFill, ReaderGiveUp, ReaderFileDone, SetFate
    <3>2. CASE ReaderSend(r)
      BY <3>2, <1>0 DEF ReaderSend, ReaderGiveUp, ReaderFileDone, SetFate
    <3> QED
      BY <1>7, <3>1, <3>2
  <2>4. \E q \in 0..Len(Content[rdPath[r]]) : rdPos' = [rdPos EXCEPT ![r] = q]
    <3>1. CASE rdPos' = rdPos
      BY <3>1, <2>2, <1>0
    <3>2. CASE ReaderFill(r) /\ rdPos' # rdPos
      BY <3>2, <2>2 DEF ReaderFill
    <3> QED
      BY <1>7, <3>1, <3>2 DEF ReaderSend
  <2>5. HandsOK'
    BY <1>0, <2>1, <2>2, <2>3, <2>4 DEF HandsOK, Holding, Reading
  <2>6. InFiles'
    BY <1>0, <2>1, <2>2, <2>3 DEF Route, InFiles, Once, Queued
  <2>7. InPreChecks'
    BY <1>0, <2>1, <2>2, <2>3 DEF Route, InPreChecks, Holding
  <2>8. InValidFiles'
    BY <1>0, <2>1, <2>2, <2>3 DEF Route, InValidFiles, Once, Queued
  <2>9. InReaders'
    <3>1. CASE fate' = fate
      <4>1. \A t \in Readers : Reading(t)' <=> Reading(t)
        <5>1. \E pc \in {"fill", "send", "spin"} : rdPc' = [rdPc EXCEPT ![r] = pc]
          BY <3>1, <1>0, <2>2, <2>3
        <5> QED
          BY <5>1, <1>0, <2>1 DEF Reading
      <4> QED
        BY <3>1, <4>1, <2>1 DEF Route, InReaders
    <3>2. CASE fate' # fate
      <4>1. \A t \in Readers : Reading(t)' <=> Reading(t) /\ t # r
        BY <3>2, <1>0, <2>3 DEF Reading
      <4>2. \A f \in Files :
              fate'[f] = "reading" <=> fate[f] = "reading" /\ f # rdPath[r]
        BY <3>2, <1>0, <2>2, <2>3
      <4> QED
        BY <4>1, <4>2, <2>1 DEF Route, InReaders
    <3> QED
      BY <3>1, <3>2
  <2> QED
    BY <2>5, <2>6, <2>7, <2>8, <2>9 DEF Route
<1>8. ASSUME NEW r \in Readers, ReaderProgress(r) \/ ReaderExit(r)
      PROVE  HandsOK' /\ Route'
  <2>1. /\ UNCHANGED <<files, validFiles, preVars, rdPath, rdPos, fate>>
        /\ ~Reading(r)
        /\ \E pc \in {"recv", "done"} : rdPc' = [rdPc EXCEPT ![r] = pc]
    BY <1>8 DEF ReaderProgress, ReaderExit, Reading, notInReader, chanVars
  <2>2. \A t \in Readers : Reading(t)' <=> Reading(t)
    BY <1>0, <2>1 DEF Reading
  <2> QED
    BY <2>1, <2>2 DEF HandsOK, Route, InFiles, InPreChecks, InValidFiles,
       InReaders, Holding, Once, Queued
<1>9. ASSUME NEW s \in Savers, Saver(s) PROVE UNCHANGED routeVars
  BY <1>9 DEF Saver, SaverTake, SaverCopy, SaverFail, SaverAbort, SaverThrottle,
     SaverExit, notInSaver, chanVars, routeVars
<1>10. CASE CancelJob \/ CloseValid \/ CloseStream \/ Main \/ Land
  <2>1. UNCHANGED routeVars
    BY <1>10 DEF CancelJob, CloseValid, CloseStream, Main, MainCollect,
       MainReport, MainReturn, notInMain, Land, LandInsert, LandCount, LandCopy,
       LandFail, LandEnd, notInServer, chanVars, routeVars
  <2> QED
    BY <2>1, <1>1
<1>11. CASE UNCHANGED vars
  BY <1>11, <1>1 DEF vars, chanVars, routeVars
<1> QED
  BY <1>1, <1>2, <1>3, <1>4, <1>5, <1>6, <1>7, <1>8, <1>9, <1>10, <1>11
     DEF Next, PreCheck, Reader, Terminated

-----------------------------------------------------------------------------
(* Each packet is in at most one batch or row. *)

LEMMA PacketsFacts ==
  /\ \A p \in Packets : /\ p[1] \in Files /\ p[2] \in 1..Len(Content[p[1]])
                        /\ p = <<p[1], p[2]>>
  /\ \A f \in Files : \A i \in 1..Len(Content[f]) :
       <<f, i>> \in Packets /\ <<f, i>>[1] = f /\ <<f, i>>[2] = i
BY FilesFacts DEF Packets

LEMMA RowsInFile ==
  ASSUME NEW f \in Files, NEW p \in Nat, NEW q \in p..Len(Content[f])
  PROVE  \A x \in Rows(f, p, q) : x \in Packets /\ x[1] = f /\ x[2] \in (p+1)..q
BY RowsFacts DEF Rows

batchVars == <<copies, lateCopies, rdBatch, packetStream, svBatch>>

LEMMA BatchInit == Init => BatchesOK /\ Fresh /\ Apart
<1> SUFFICES ASSUME Init PROVE BatchesOK /\ Fresh /\ Apart
  OBVIOUS
<1>1. \A p \in Packets : Nowhere(p)
  BY DEF Init, Nowhere, Clear, Late, Streamed
<1>2. BatchesOK
  BY DEF Init, BatchesOK
<1>3. Fresh
  BY <1>1 DEF Fresh
<1>4. Apart
  BY DEF Init, Apart, AtMostOnce, ReadersApart, StreamApart, SaversApart,
     LateApart
<1> QED
  BY <1>2, <1>3, <1>4

Touched == {"reading", "read", "aborted"}

(* A step that reads nothing keeps what is Fresh. *)
LEMMA FreshKept ==
  ASSUME TypeOK, Fresh,
         \A p \in Packets : Nowhere(p) => Nowhere(p)',
         \A f \in Files : fate'[f] \notin Touched => fate[f] \notin Touched,
         \A r \in Readers : Reading(r)' =>
            \/ rdPath'[r] \in Files /\ fate[rdPath'[r]] \notin Touched
            \/ Reading(r) /\ rdPath'[r] = rdPath[r] /\ rdPos'[r] = rdPos[r]
  PROVE  Fresh'
<1>1. \A p \in Packets : fate'[p[1]] \notin Touched => Nowhere(p)'
  BY PacketsFacts DEF Fresh, Touched
<1>2. \A p \in Packets : \A r \in Readers :
        Reading(r)' /\ rdPath'[r] = p[1] /\ p[2] > rdPos'[r] => Nowhere(p)'
  BY PacketsFacts DEF Fresh, Touched
<1> QED
  BY <1>1, <1>2 DEF Fresh, Touched

(* A step that moves no batch. *)
LEMMA BatchStill ==
  ASSUME TypeOK, BatchesOK, Apart, UNCHANGED batchVars
  PROVE  Apart' /\ \A p \in Packets : Nowhere(p) => Nowhere(p)'
<1>1. Apart'
  BY DEF Apart, AtMostOnce, ReadersApart, StreamApart, SaversApart, LateApart,
     Clear, Late, Streamed, batchVars
<1>2. \A p \in Packets : Nowhere(p) => Nowhere(p)'
  BY DEF Nowhere, Clear, Late, Streamed, batchVars
<1> QED
  BY <1>1, <1>2

LEMMA BatchNext ==
  TypeOK /\ HandsOK /\ Route /\ BatchesOK /\ Fresh /\ Apart /\ [Next]_vars
    => BatchesOK' /\ Fresh' /\ Apart'
<1> SUFFICES ASSUME TypeOK, HandsOK, Route, BatchesOK, Fresh, Apart, [Next]_vars
             PROVE  BatchesOK' /\ Fresh' /\ Apart'
  OBVIOUS
<1> USE DEF preVars, rdVars, svVars, chanVars, Clear, Late
<1>0. /\ files \in Seq(Files) /\ validFiles \in Seq(Files)
      /\ packetStream \in Seq(SUBSET Packets)
      /\ fate \in [Files -> Fates]
      /\ rdPc \in [Readers -> ReaderPcs]
      /\ rdPath \in [Readers -> Files \union {NoFile}]
      /\ rdPos \in [Readers -> Nat]
      /\ rdBatch \in [Readers -> SUBSET Packets]
      /\ svPc \in [Savers -> SaverPcs]
      /\ svBatch \in [Savers -> SUBSET Packets]
      /\ copies \in [Packets -> Nat]
  BY DEF TypeOK
<1>1. ASSUME UNCHANGED <<batchVars, rdPc, rdPath, rdPos, svPc>>,
             \A f \in Files : fate'[f] \notin Touched => fate[f] \notin Touched
      PROVE  BatchesOK' /\ Fresh' /\ Apart'
  <2>1. Apart' /\ \A p \in Packets : Nowhere(p) => Nowhere(p)'
    BY <1>1, BatchStill
  <2>2. BatchesOK'
    BY <1>1 DEF BatchesOK, batchVars
  <2>3. Fresh'
    BY <1>1, <2>1, FreshKept DEF Reading
  <2> QED
    BY <2>1, <2>2, <2>3
<1>2. ASSUME NEW w \in PreChecks, PreCheck(w)
      PROVE  BatchesOK' /\ Fresh' /\ Apart'
  <2>1. UNCHANGED <<batchVars, rdPc, rdPath, rdPos, svPc>>
    BY <1>2 DEF PreCheck, PreCheckTake, PreCheckInsert, PreCheckSend,
       PreCheckExit, notInPre, batchVars
  <2>2. CASE fate' = fate
    BY <2>1, <2>2, <1>1
  <2>3. CASE PreCheckTake(w) /\ fate' # fate
    <3>1. files # <<>> /\ Head(files) \in Files /\ Queued(Head(files), files)
      BY <2>3, <1>0, TailFacts DEF PreCheckTake, Queued
    <3>2. fate[Head(files)] = "pending"
      BY <3>1 DEF Route, InFiles
    <3>3. \E x \in Fates : fate' = [fate EXCEPT ![Head(files)] = x]
      BY <2>3 DEF PreCheckTake, SetFate, Fates
    <3> QED
      BY <1>0, <2>1, <3>1, <3>2, <3>3, <1>1 DEF Touched
  <2>4. CASE PreCheckInsert(w) \/ PreCheckSend(w)
    <3>1. prePath[w] \in Files /\ fate[prePath[w]] = "checking"
      BY <2>4 DEF PreCheckInsert, PreCheckSend, HandsOK, Holding, Route,
         InPreChecks
    <3>2. fate' = fate \/ \E x \in Fates : fate' = [fate EXCEPT ![prePath[w]] = x]
      BY <2>4 DEF PreCheckInsert, PreCheckSkip, PreCheckSend, SetFate, Fates
    <3> QED
      BY <1>0, <2>1, <3>1, <3>2, <1>1 DEF Touched
  <2> QED
    BY <1>2, <2>2, <2>3, <2>4 DEF PreCheck, PreCheckExit
<1>3. ASSUME NEW r \in Readers, ReaderTake(r)
      PROVE  BatchesOK' /\ Fresh' /\ Apart'
  <2> DEFINE f == Head(validFiles)
  <2>1. UNCHANGED <<batchVars, svPc>> /\ validFiles # <<>> /\ rdPc[r] = "recv"
    BY <1>3 DEF ReaderTake, notInReader, batchVars
  <2>2. f \in Files /\ Queued(f, validFiles)
    BY <2>1, <1>0, TailFacts DEF Queued
  <2>3. fate[f] = "valid"
    BY <2>2 DEF Route, InValidFiles
  <2>4. \/ /\ fate' = [fate EXCEPT ![f] = "aborted"]
           /\ rdPc' = [rdPc EXCEPT ![r] = "done"]
           /\ UNCHANGED <<rdPath, rdPos>>
        \/ /\ fate' = [fate EXCEPT ![f] = "unreadable"]
           /\ UNCHANGED <<rdPc, rdPath, rdPos>>
        \/ /\ fate' = [fate EXCEPT ![f] = "reading"]
           /\ rdPc' = [rdPc EXCEPT ![r] = "fill"]
           /\ rdPath' = [rdPath EXCEPT ![r] = f]
           /\ rdPos' = [rdPos EXCEPT ![r] = 0]
    BY <1>3 DEF ReaderTake, SetFate
  <2> HIDE DEF f
  <2>5. Apart' /\ \A p \in Packets : Nowhere(p) => Nowhere(p)'
    BY <2>1, BatchStill
  <2>6. \A g \in Files : fate'[g] \notin Touched => fate[g] \notin Touched
    BY <1>0, <2>2, <2>3, <2>4 DEF Touched
  <2>7. \A t \in Readers : Reading(t)' =>
          \/ rdPath'[t] \in Files /\ fate[rdPath'[t]] \notin Touched
          \/ Reading(t) /\ rdPath'[t] = rdPath[t] /\ rdPos'[t] = rdPos[t]
    BY <1>0, <2>1, <2>2, <2>3, <2>4 DEF Touched, Reading
  <2>8. BatchesOK'
    <3>1. rdBatch' = rdBatch /\ svBatch' = svBatch /\ rdBatch[r] = {}
      BY <2>1 DEF BatchesOK, batchVars
    <3>2. \A t \in Readers : t # r =>
            rdPc'[t] = rdPc[t] /\ rdPath'[t] = rdPath[t] /\ rdPos'[t] = rdPos[t]
      BY <1>0, <2>4
    <3> QED
      BY <3>1, <3>2, <2>1 DEF BatchesOK
  <2> QED
    BY <2>5, <2>6, <2>7, <2>8, FreshKept
<1>4. ASSUME NEW r \in Readers, ReaderFill(r)
      PROVE  BatchesOK' /\ Fresh' /\ Apart'
  <2> DEFINE f == rdPath[r]
  <2>1. /\ UNCHANGED <<copies, lateCopies, packetStream, svVars, rdPath>>
        /\ rdPc[r] = "fill" /\ Reading(r)
    BY <1>4 DEF ReaderFill, Reading, notInReader
  <2>2. /\ f \in Files /\ fate[f] = "reading" /\ rdBatch[r] = {}
        /\ Len(Content[f]) \in Nat
        /\ rdPos[r] \in 0..Len(Content[f])
        /\ \A t \in Readers : t # r /\ Reading(t) => rdPath[t] # f
    BY <2>1, FilesFacts DEF HandsOK, Route, InReaders, BatchesOK
  <2>3. PICK q \in rdPos[r]..Len(Content[f]), batch \in SUBSET Packets :
          /\ \A p \in batch : p[1] = f /\ p[2] \in (rdPos[r]+1)..q
          /\ rdPos' = [rdPos EXCEPT ![r] = q]
          /\ rdBatch' = [rdBatch EXCEPT ![r] = batch]
          /\ rdPc'[r] \notin {"send", "spin"} => batch = {}
    <3>1. CASE ReaderGiveUp(r) /\ UNCHANGED rdPos
      <4>1. rdPos' = [rdPos EXCEPT ![r] = rdPos[r]]
        BY <3>1, <1>0
      <4>2. rdBatch' = [rdBatch EXCEPT ![r] = {}]
        BY <3>1 DEF ReaderGiveUp
      <4>3. rdPos[r] \in rdPos[r]..Len(Content[f]) /\ {} \in SUBSET Packets
        BY <2>2
      <4> QED
        BY <4>1, <4>2, <4>3
    <3>2. ASSUME NEW q \in rdPos[r]..Len(Content[f]),
                 rdPos' = [rdPos EXCEPT ![r] = q],
                 rdBatch' = [rdBatch EXCEPT ![r] = Rows(f, rdPos[r], q)],
                 \/ Rows(f, rdPos[r], q) = {}
                 \/ \E pc \in {"send", "spin"} : rdPc' = [rdPc EXCEPT ![r] = pc]
          PROVE  \E x \in rdPos[r]..Len(Content[f]), batch \in SUBSET Packets :
                   /\ \A p \in batch : p[1] = f /\ p[2] \in (rdPos[r]+1)..x
                   /\ rdPos' = [rdPos EXCEPT ![r] = x]
                   /\ rdBatch' = [rdBatch EXCEPT ![r] = batch]
                   /\ rdPc'[r] \notin {"send", "spin"} => batch = {}
      <4>1. \A p \in Rows(f, rdPos[r], q) :
              p \in Packets /\ p[1] = f /\ p[2] \in (rdPos[r]+1)..q
        BY <2>2, RowsInFile
      <4>2. rdPc'[r] \notin {"send", "spin"} => Rows(f, rdPos[r], q) = {}
        BY <3>2, <1>0
      <4>3. Rows(f, rdPos[r], q) \in SUBSET Packets
        BY <4>1
      <4> QED
        BY <3>2, <4>1, <4>2, <4>3
    <3> QED
      BY <1>4, <3>1, <3>2 DEF ReaderFill
  <2>4. /\ \A t \in Readers : t # r => rdPc'[t] = rdPc[t]
        /\ \A g \in Files : g # f => fate'[g] = fate[g]
        /\ fate'[f] \in Touched
    BY <1>4, <1>0, <2>2
       DEF ReaderFill, ReaderGiveUp, ReaderFileDone, SetFate, Touched
  <2> HIDE DEF f
  <2>5. \A p \in batch : Nowhere(p)
    BY <2>1, <2>2, <2>3 DEF Fresh, f
  <2>6. \A p \in Packets : p \notin batch /\ Nowhere(p) => Nowhere(p)'
    BY <1>0, <2>1, <2>3 DEF Nowhere, Streamed
  <2>7. BatchesOK'
    <3>1. \A t \in Readers : t # r =>
            /\ rdPc'[t] = rdPc[t] /\ rdPath'[t] = rdPath[t]
            /\ rdPos'[t] = rdPos[t] /\ rdBatch'[t] = rdBatch[t]
      BY <1>0, <2>1, <2>3, <2>4
    <3>2. rdPath'[r] = f /\ rdPos'[r] = q /\ rdBatch'[r] = batch
      BY <1>0, <2>1, <2>3 DEF f
    <3>3. \A p \in batch : p[1] = f /\ p[2] \in 1..q
      BY <2>2, <2>3
    <3> QED
      BY <2>1, <2>3, <3>1, <3>2, <3>3 DEF BatchesOK
  <2>8. Fresh'
    <3>1. \A p \in Packets : fate'[p[1]] \notin Touched => Nowhere(p)'
      BY <2>3, <2>4, <2>6, PacketsFacts DEF Fresh, Touched
    <3>2. ASSUME NEW p \in Packets, NEW t \in Readers,
                 Reading(t)', rdPath'[t] = p[1], p[2] > rdPos'[t]
          PROVE  Nowhere(p)'
      <4>1. CASE t = r
        <5>1. p[1] = f /\ p[2] > q
          BY <4>1, <3>2, <1>0, <2>1, <2>3 DEF f
        <5>2. p[2] > rdPos[r] /\ p \notin batch
          BY <5>1, <2>2, <2>3, PacketsFacts
        <5> QED
          BY <5>1, <5>2, <2>1, <2>6 DEF Fresh, f
      <4>2. CASE t # r
        <5>1. Reading(t) /\ rdPath[t] = p[1] /\ p[2] > rdPos[t]
          BY <4>2, <3>2, <1>0, <2>1, <2>3, <2>4 DEF Reading
        <5>2. p \notin batch
          BY <5>1, <4>2, <2>2, <2>3
        <5> QED
          BY <5>1, <5>2, <2>6 DEF Fresh
      <4> QED
        BY <4>1, <4>2
    <3> QED
      BY <3>1, <3>2 DEF Fresh, Touched
  <2>9. Apart'
    <3>1. ReadersApart'
      BY <1>0, <2>1, <2>3, <2>5 DEF Apart, ReadersApart, Nowhere, Streamed
    <3> QED
      BY <2>1, <3>1 DEF Apart, AtMostOnce, StreamApart, SaversApart, LateApart
  <2> QED
    BY <2>7, <2>8, <2>9
<1>5. ASSUME NEW r \in Readers, ReaderSend(r)
      PROVE  BatchesOK' /\ Fresh' /\ Apart'
  <2> DEFINE f == rdPath[r]
  <2>1. /\ UNCHANGED <<copies, lateCopies, svVars, rdPath, rdPos>>
        /\ rdPc[r] = "send" /\ Reading(r)
        /\ rdBatch' = [rdBatch EXCEPT ![r] = {}]
    BY <1>5 DEF ReaderSend, ReaderGiveUp, Reading, notInReader
  <2>2. /\ f \in Files /\ fate[f] = "reading"
        /\ \A t \in Readers : t # r /\ Reading(t) => rdPath[t] # f
    BY <2>1 DEF HandsOK, Route, InReaders
  <2>3. /\ \A t \in Readers : t # r => rdPc'[t] = rdPc[t]
        /\ \A g \in Files : g # f => fate'[g] = fate[g]
        /\ fate'[f] \in Touched
    BY <1>5, <1>0, <2>2
       DEF ReaderSend, ReaderGiveUp, ReaderFileDone, SetFate, Touched
  <2>4. \/ packetStream' = packetStream
        \/ packetStream' = Append(packetStream, rdBatch[r])
    BY <1>5 DEF ReaderSend
  <2>5. /\ Len(packetStream) \in Nat
        /\ \/ packetStream' = packetStream
           \/ /\ Len(packetStream') = Len(packetStream) + 1
              /\ packetStream'[Len(packetStream) + 1] = rdBatch[r]
              /\ \A i \in 1..Len(packetStream) :
                   packetStream'[i] = packetStream[i]
    <3>1. /\ Len(Append(packetStream, rdBatch[r])) = Len(packetStream) + 1
          /\ Append(packetStream, rdBatch[r])[Len(packetStream) + 1] = rdBatch[r]
          /\ \A i \in 1..Len(packetStream) :
               Append(packetStream, rdBatch[r])[i] = packetStream[i]
          /\ Len(packetStream) \in Nat
      BY <1>0, AppendFacts
    <3> QED
      BY <2>4, <3>1
  <2> HIDE DEF f
  <2>6. \A i \in 1..Len(packetStream') :
          \/ i \in 1..Len(packetStream) /\ packetStream'[i] = packetStream[i]
          \/ i = Len(packetStream) + 1 /\ packetStream'[i] = rdBatch[r]
    BY <2>5
  <2>7. \A p : Streamed(p)' => Streamed(p) \/ p \in rdBatch[r]
    BY <2>6 DEF Streamed
  <2>8. \A p \in Packets : Nowhere(p) => Nowhere(p)'
    BY <1>0, <2>1, <2>7 DEF Nowhere
  <2>9. BatchesOK'
    BY <1>0, <2>1, <2>3 DEF BatchesOK
  <2>10. Fresh'
    <3>1. \A t \in Readers : Reading(t)' => Reading(t)
      BY <2>1, <2>3 DEF Reading
    <3>2. \A g \in Files : fate'[g] \notin Touched => fate[g] \notin Touched
      BY <2>3
    <3> QED
      BY <3>1, <3>2, <2>1, <2>8, FreshKept
  <2>11. ReadersApart'
    <3>1. ASSUME NEW t \in Readers, NEW p \in rdBatch'[t]
          PROVE  p \notin rdBatch[r] /\ p \in rdBatch[t]
      <4>1. t # r /\ p \in rdBatch[t]
        BY <3>1, <1>0, <2>1
      <4>2. Reading(t) /\ p[1] = rdPath[t]
        BY <4>1 DEF BatchesOK, Reading
      <4> QED
        BY <4>1, <4>2, <2>2 DEF BatchesOK, f
    <3> QED
      BY <3>1, <2>1, <2>7 DEF Apart, ReadersApart
  <2>12. StreamApart'
    <3>1. \A p \in rdBatch[r] : /\ Clear(p) /\ ~Streamed(p)
                                /\ \A s \in Savers : p \notin svBatch[s]
      BY DEF Apart, ReadersApart
    <3> QED
      BY <3>1, <2>1, <2>5, <2>6 DEF Apart, StreamApart, Streamed
  <2> QED
    BY <2>1, <2>9, <2>10, <2>11, <2>12
       DEF Apart, AtMostOnce, SaversApart, LateApart
<1>6. ASSUME NEW r \in Readers, ReaderProgress(r) \/ ReaderExit(r)
      PROVE  BatchesOK' /\ Fresh' /\ Apart'
  <2>1. /\ UNCHANGED <<batchVars, rdPath, rdPos, svPc, fate>> /\ rdBatch[r] = {}
        /\ \E pc \in {"recv", "done"} : rdPc' = [rdPc EXCEPT ![r] = pc]
    BY <1>6 DEF ReaderProgress, ReaderExit, notInReader, BatchesOK, batchVars
  <2>2. Apart' /\ \A p \in Packets : Nowhere(p) => Nowhere(p)'
    BY <2>1, BatchStill
  <2>3. \A t \in Readers : Reading(t)' => Reading(t)
    BY <1>0, <2>1 DEF Reading
  <2>4. Fresh'
    BY <2>1, <2>2, <2>3, FreshKept
  <2>5. BatchesOK'
    <3>1. \A t \in Readers : t # r => rdPc'[t] = rdPc[t]
      BY <1>0, <2>1
    <3> QED
      BY <3>1, <2>1 DEF BatchesOK, batchVars
  <2> QED
    BY <2>2, <2>4, <2>5
<1>7. ASSUME NEW s \in Savers, SaverTake(s)
      PROVE  BatchesOK' /\ Fresh' /\ Apart'
  <2>1. /\ UNCHANGED <<copies, lateCopies, rdVars, fate>>
        /\ packetStream # <<>> /\ packetStream' = Tail(packetStream)
        /\ svPc[s] = "recv" /\ svBatch[s] = {}
    BY <1>7 DEF SaverTake, notInSaver, BatchesOK
  <2>2. \/ UNCHANGED svBatch
        \/ svBatch' = [svBatch EXCEPT ![s] = packetStream[1]]
    BY <1>7, <1>0, <2>1, TailFacts DEF SaverTake
  <2>3. /\ packetStream[1] \in SUBSET Packets /\ 1 \in 1..Len(packetStream)
        /\ \A i \in 1..Len(packetStream') :
             /\ i+1 \in 1..Len(packetStream) /\ i \in Nat /\ i+1 # 1
             /\ packetStream'[i] = packetStream[i+1]
    BY <1>0, <2>1, TailFacts
  <2>4. \A p : Streamed(p)' => Streamed(p)
    BY <2>3 DEF Streamed
  <2>5. \A t \in Savers : \A p \in svBatch'[t] :
          p \in svBatch[t] \/ (t = s /\ p \in packetStream[1])
    BY <1>0, <2>2
  <2>6. \A p \in Packets : Nowhere(p) => Nowhere(p)'
    BY <2>1, <2>3, <2>4, <2>5 DEF Nowhere, Streamed
  <2>7. Fresh'
    BY <2>1, <2>6, FreshKept DEF Reading
  <2>8. BatchesOK'
    <3>1. \A t \in Savers : svPc'[t] # "copy" => svBatch'[t] = {}
      BY <1>7, <1>0, <2>1 DEF SaverTake, SaverGoes, BatchesOK
    <3> QED
      BY <3>1, <2>1 DEF BatchesOK
  <2>9. ReadersApart'
    BY <2>1, <2>3, <2>4, <2>5 DEF Apart, ReadersApart, Streamed
  <2>10. StreamApart'
    <3> SUFFICES ASSUME NEW i \in 1..Len(packetStream'), NEW p \in packetStream'[i]
                 PROVE  /\ Clear(p)'
                        /\ \A j \in 1..Len(packetStream') :
                             p \in packetStream'[j] => i = j
                        /\ \A t \in Savers : p \notin svBatch'[t]
      BY <2>1 DEF StreamApart
    <3>1. i+1 \in 1..Len(packetStream) /\ p \in packetStream[i+1]
      BY <2>3
    <3>2. Clear(p) /\ \A t \in Savers : p \notin svBatch[t]
      BY <3>1 DEF Apart, StreamApart
    <3>3. \A j \in 1..Len(packetStream') : p \in packetStream'[j] => i+1 = j+1
      BY <3>1, <2>3 DEF Apart, StreamApart
    <3>4. \A j \in 1..Len(packetStream') : p \in packetStream'[j] => i = j
      BY <3>3, <2>3
    <3>5. p \notin packetStream[1]
      BY <3>1, <2>3 DEF Apart, StreamApart
    <3> QED
      BY <2>1, <3>2, <3>4, <3>5, <2>5
  <2>11. SaversApart'
    <3>1. \A p \in packetStream[1] :
            Clear(p) /\ \A t \in Savers : p \notin svBatch[t]
      BY <2>3 DEF Apart, StreamApart
    <3> QED
      BY <3>1, <2>1, <2>5 DEF Apart, SaversApart
  <2> QED
    BY <2>1, <2>7, <2>8, <2>9, <2>10, <2>11 DEF Apart, AtMostOnce, LateApart
<1>8. ASSUME NEW s \in Savers, SaverCopy(s)
      PROVE  BatchesOK' /\ Fresh' /\ Apart'
  <2>1. /\ UNCHANGED <<packetStream, rdVars, fate>>
        /\ svBatch' = [svBatch EXCEPT ![s] = {}]
        /\ \A t \in Savers : t # s => svPc'[t] = svPc[t]
        /\ \/ lateCopies' = lateCopies /\ InsertRows(svBatch[s])
           \/ /\ lateCopies' \in {lateCopies, lateCopies \union {svBatch[s]}}
              /\ copies' = copies
    BY <1>8, <1>0 DEF SaverCopy, SaverGivesUp, SaverGoes, notInSaver
  <2>2. \A p \in Packets :
          /\ p \in svBatch[s] => Clear(p) /\ copies'[p] <= 1
          /\ p \notin svBatch[s] =>
               copies'[p] = copies[p] /\ (Late(p)' <=> Late(p))
    BY <1>0, <2>1 DEF InsertRows, Apart, SaversApart
  <2>3. \A t \in Savers : \A p \in svBatch'[t] :
          t # s /\ p \in svBatch[t] /\ p \notin svBatch[s]
    BY <1>0, <2>1 DEF Apart, SaversApart
  <2>4. \A p \in Packets : Nowhere(p) => Nowhere(p)'
    BY <2>1, <2>2, <2>3 DEF Nowhere, Streamed
  <2>5. Fresh'
    BY <2>1, <2>4, FreshKept DEF Reading
  <2>6. BatchesOK'
    BY <1>0, <2>1 DEF BatchesOK
  <2>7. AtMostOnce'
    BY <1>0, <2>2 DEF Apart, AtMostOnce
  <2>8. ReadersApart'
    BY <1>0, <2>1, <2>2, <2>3 DEF Apart, ReadersApart, Streamed
  <2>9. StreamApart'
    <3>1. \A i \in 1..Len(packetStream) : packetStream[i] \subseteq Packets
      BY <1>0
    <3> QED
      BY <3>1, <2>1, <2>2, <2>3 DEF Apart, StreamApart
  <2>10. SaversApart'
    <3>1. \A p \in Packets : p \notin svBatch[s] /\ Clear(p) => Clear(p)'
      BY <2>2
    <3> QED
      BY <1>0, <2>3, <3>1 DEF Apart, SaversApart
  <2>11. LateApart'
    <3> SUFFICES ASSUME NEW b \in lateCopies', NEW p \in b
                 PROVE  /\ copies'[p] = 0
                        /\ \A d \in lateCopies' : p \in d => b = d
      BY DEF LateApart
    <3>1. p \in Packets
      BY <2>1 DEF TypeOK
    <3>2. CASE b \in lateCopies
      <4>1. copies[p] = 0 /\ \A d \in lateCopies : p \in d => b = d
        BY <3>2 DEF Apart, LateApart
      <4>2. p \notin svBatch[s]
        BY <3>1, <3>2, <2>2
      <4> QED
        BY <3>1, <4>1, <4>2, <2>1, <2>2
    <3>3. CASE b \notin lateCopies
      <4>1. b = svBatch[s] /\ copies' = copies
        BY <3>3, <2>1
      <4>2. Clear(p)
        BY <3>1, <4>1, <2>2
      <4> QED
        BY <4>1, <4>2, <2>1
    <3> QED
      BY <3>2, <3>3
  <2> QED
    BY <2>5, <2>6, <2>7, <2>8, <2>9, <2>10, <2>11 DEF Apart
<1>9. ASSUME NEW s \in Savers,
             \/ SaverFail(s) \/ SaverAbort(s) \/ SaverThrottle(s) \/ SaverExit(s)
      PROVE  BatchesOK' /\ Fresh' /\ Apart'
  <2>1. /\ UNCHANGED <<batchVars, rdVars, fate>> /\ svBatch[s] = {}
        /\ \A t \in Savers : t # s => svPc'[t] = svPc[t]
    BY <1>9, <1>0 DEF SaverFail, SaverAbort, SaverThrottle, SaverExit, SaverGoes,
       notInSaver, BatchesOK, batchVars
  <2>2. Apart' /\ \A p \in Packets : Nowhere(p) => Nowhere(p)'
    BY <2>1, BatchStill
  <2>3. Fresh'
    BY <2>1, <2>2, FreshKept DEF Reading
  <2>4. BatchesOK'
    BY <2>1 DEF BatchesOK, batchVars
  <2> QED
    BY <2>2, <2>3, <2>4
<1>10. CASE CancelJob \/ CloseValid \/ CloseStream \/ Main \/ UNCHANGED vars
  <2>1. UNCHANGED <<batchVars, rdPc, rdPath, rdPos, svPc, fate>>
    BY <1>10 DEF CancelJob, CloseValid, CloseStream, Main, MainCollect,
       MainReport, MainReturn, notInMain, lateVars, vars, batchVars
  <2> QED
    BY <2>1, <1>1
<1>11. CASE Land
  <2>1. /\ UNCHANGED <<packetStream, rdVars, svVars, fate>>
        /\ \/ UNCHANGED <<copies, lateCopies>>
           \/ \E b \in lateCopies : LandCopy(b)
    BY <1>11 DEF Land, LandInsert, LandCount, LandFail, LandEnd, LandCopy,
       notInServer
  <2>2. CASE UNCHANGED <<copies, lateCopies>>
    BY <2>1, <2>2, <1>1 DEF batchVars
  <2>3. ASSUME NEW b \in lateCopies, LandCopy(b)
        PROVE  BatchesOK' /\ Fresh' /\ Apart'
    <3>1. lateCopies' = lateCopies \ {b} /\ InsertRows(b)
      BY <2>3 DEF LandCopy
    <3>2. \A p \in Packets :
            /\ p \in b => ~Clear(p) /\ copies'[p] = 1
            /\ p \notin b => copies'[p] = copies[p]
      BY <1>0, <3>1 DEF InsertRows, Apart, LateApart
    <3>3. \A p \in Packets : Clear(p) => Clear(p)'
      BY <3>1, <3>2
    <3>4. \A p \in Packets : Nowhere(p) => Nowhere(p)'
      BY <2>1, <3>3 DEF Nowhere, Streamed
    <3>5. BatchesOK'
      BY <2>1 DEF BatchesOK
    <3>6. Fresh'
      BY <2>1, <3>4, FreshKept DEF Reading
    <3>7. AtMostOnce'
      <4>1. \A p \in Packets : copies[p] <= 1
        BY <1>0 DEF Apart, AtMostOnce
      <4>2. \A p \in Packets : copies'[p] <= 1
        BY <3>2, <4>1
      <4> QED
        BY <4>2 DEF AtMostOnce
    <3>8. ReadersApart'
      BY <1>0, <2>1, <3>3 DEF Apart, ReadersApart, Streamed
    <3>9. StreamApart'
      <4>1. \A i \in 1..Len(packetStream) : packetStream[i] \subseteq Packets
        BY <1>0
      <4> QED
        BY <4>1, <2>1, <3>3 DEF Apart, StreamApart
    <3>10. SaversApart'
      BY <1>0, <2>1, <3>3 DEF Apart, SaversApart
    <3>11. LateApart'
      <4>1. \A d \in lateCopies : d \subseteq Packets
        BY DEF TypeOK
      <4>2. \A d \in lateCopies \ {b} : \A p \in d : p \notin b
        BY DEF Apart, LateApart
      <4> QED
        BY <3>1, <3>2, <4>1, <4>2 DEF Apart, LateApart
    <3> QED
      BY <3>5, <3>6, <3>7, <3>8, <3>9, <3>10, <3>11 DEF Apart
  <2> QED
    BY <2>1, <2>2, <2>3
<1> QED
  BY <1>2, <1>3, <1>4, <1>5, <1>6, <1>7, <1>8, <1>9, <1>10, <1>11
     DEF Next, Reader, Saver, Terminated

-----------------------------------------------------------------------------
(* The goroutines leave in order. *)

endVars == <<files, validFiles, validClosed, packetStream, streamClosed,
             ctxDone, prePc, rdPc, svPc, mainPc, status, lateEnd, fate>>

LEMMA EndingNext == TypeOK /\ HandsOK /\ Route /\ Ending /\ [Next]_vars => Ending'
<1> SUFFICES ASSUME TypeOK, HandsOK, Route, Ending, [Next]_vars PROVE Ending'
  OBVIOUS
<1> USE DEF preVars, rdVars, svVars, chanVars, jobVars, lateVars
<1>0. /\ prePc \in [PreChecks -> PrePcs]
      /\ rdPc \in [Readers -> ReaderPcs]
      /\ svPc \in [Savers -> SaverPcs]
      /\ fate \in [Files -> Fates]
  BY DEF TypeOK
<1>1. CASE UNCHANGED endVars
  BY <1>1 DEF endVars, Ending
<1>2. CASE CancelJob
  BY <1>2 DEF CancelJob, Ending
<1>3. ASSUME NEW w \in PreChecks, PreCheckTake(w) PROVE Ending'
  <2>1. /\ UNCHANGED <<notInPre, validFiles>> /\ files # <<>> /\ prePc[w] = "recv"
        /\ files' = Tail(files)
    BY <1>3 DEF PreCheckTake
  <2>2. ~validClosed
    BY <2>1 DEF Ending
  <2>3. ~ctxDone => \A v \in PreChecks : prePc'[v] # "done"
    BY <1>3, <1>0, <2>1 DEF PreCheckTake, Ending
  <2>4. ~ctxDone => \A f \in Files : fate'[f] # "aborted"
    BY <1>3, <1>0 DEF PreCheckTake, SetFate, Ending
  <2> QED
    BY <2>1, <2>2, <2>3, <2>4 DEF Ending, notInPre
<1>4. ASSUME NEW w \in PreChecks, PreCheckInsert(w) PROVE Ending'
  <2>1. UNCHANGED <<notInPre, files, validFiles>> /\ prePc[w] = "insert"
    BY <1>4 DEF PreCheckInsert, notInPre
  <2>2. ~validClosed
    BY <2>1 DEF Ending
  <2>3. \A v \in PreChecks : prePc'[v] = "done" => prePc[v] = "done"
    BY <1>4, <1>0 DEF PreCheckInsert, PreCheckSkip
  <2>4. ~ctxDone => \A f \in Files : fate'[f] # "aborted"
    BY <1>4, <1>0 DEF PreCheckInsert, PreCheckSkip, SetFate, Ending
  <2> QED
    BY <2>1, <2>2, <2>3, <2>4 DEF Ending, notInPre
<1>5. ASSUME NEW w \in PreChecks, PreCheckSend(w) PROVE Ending'
  <2>1. UNCHANGED <<notInPre, files>> /\ prePc[w] = "send"
    BY <1>5 DEF PreCheckSend, notInPre
  <2>2. ~validClosed
    BY <2>1 DEF Ending
  <2>3. ~ctxDone => \A v \in PreChecks : prePc'[v] = "done" => prePc[v] = "done"
    BY <1>5, <1>0 DEF PreCheckSend
  <2>4. ~ctxDone => \A f \in Files : fate'[f] # "aborted"
    BY <1>5, <1>0 DEF PreCheckSend, SetFate, Ending
  <2> QED
    BY <2>1, <2>2, <2>3, <2>4 DEF Ending, notInPre
<1>6. ASSUME NEW w \in PreChecks, PreCheckExit(w) PROVE Ending'
  BY <1>6, <1>0 DEF PreCheckExit, Ending, notInPre
<1>7. CASE CloseValid
  BY <1>7 DEF CloseValid, Ending
<1>8. ASSUME NEW r \in Readers, ReaderTake(r) PROVE Ending'
  <2>1. /\ UNCHANGED <<notInReader, packetStream>> /\ validFiles # <<>>
        /\ rdPc[r] = "recv"
    BY <1>8 DEF ReaderTake, notInReader
  <2>2. ~streamClosed
    BY <2>1 DEF Ending
  <2>3. ~ctxDone => \A t \in Readers : rdPc'[t] # "done"
    BY <1>8, <1>0, <2>1 DEF ReaderTake, Ending
  <2>4. ~ctxDone => \A f \in Files : fate'[f] # "aborted"
    BY <1>8, <1>0 DEF ReaderTake, SetFate, Ending
  <2>5. UNCHANGED <<mainPc, status>>
    BY <1>8 DEF ReaderTake, notInReader
  <2> QED
    BY <2>1, <2>2, <2>3, <2>4, <2>5 DEF Ending, notInReader
<1>9. ASSUME NEW r \in Readers, ReaderFill(r) \/ ReaderSend(r) PROVE Ending'
  <2>1. /\ UNCHANGED <<notInReader, validFiles>> /\ rdPc[r] # "done"
        /\ UNCHANGED <<mainPc, status>>
    BY <1>9 DEF ReaderFill, ReaderSend, notInReader
  <2>2. ~streamClosed
    BY <2>1 DEF Ending
  <2>3. \A t \in Readers : rdPc'[t] = "done" => rdPc[t] = "done"
    BY <1>9, <1>0 DEF ReaderFill, ReaderSend, ReaderGiveUp, ReaderFileDone
  <2>4. ~ctxDone => \A f \in Files : fate'[f] # "aborted"
    BY <1>9, <1>0 DEF ReaderFill, ReaderSend, ReaderGiveUp, ReaderFileDone,
       SetFate, Ending
  <2> QED
    BY <2>1, <2>2, <2>3, <2>4 DEF Ending, notInReader
<1>10. ASSUME NEW r \in Readers, ReaderProgress(r) \/ ReaderExit(r) PROVE Ending'
  <2>1. UNCHANGED <<notInReader, chanVars, fate>> /\ UNCHANGED <<mainPc, status>>
    BY <1>10 DEF ReaderProgress, ReaderExit, notInReader
  <2>2. ~streamClosed
    BY <1>10, <1>0 DEF ReaderProgress, ReaderExit, Ending
  <2>3. \A t \in Readers : rdPc'[t] = "done" =>
          rdPc[t] = "done" \/ (validClosed /\ validFiles = <<>>)
    BY <1>10, <1>0 DEF ReaderProgress, ReaderExit
  <2> QED
    BY <2>1, <2>2, <2>3 DEF Ending, notInReader
<1>11. CASE CloseStream
  BY <1>11 DEF CloseStream, Ending
<1>12. ASSUME NEW s \in Savers, Saver(s) PROVE Ending'
  <2>1. /\ UNCHANGED <<notInSaver, mainPc>> /\ svPc[s] # "done"
        /\ ctxDone => ctxDone'
    BY <1>12 DEF Saver, SaverTake, SaverCopy, SaverFail, SaverAbort,
       SaverThrottle, SaverExit, notInSaver
  <2>2. mainPc = "collect" /\ status # "COMPLETED" /\ ~lateEnd
    BY <2>1 DEF Ending
  <2>3. status' # "COMPLETED"
    BY <1>12, <2>2 DEF Saver, SaverTake, SaverCopy, SaverFail, SaverAbort,
       SaverThrottle, SaverExit
  <2>4. ~ctxDone' => \A t \in Savers : svPc'[t] = "done" =>
          svPc[t] = "done" \/ (streamClosed /\ packetStream = <<>>)
    BY <1>12, <1>0 DEF Saver, SaverTake, SaverCopy, SaverGivesUp, SaverFail,
       SaverAbort, SaverThrottle, SaverExit, SaverLeaves, StreamEnded, SaverGoes
  <2>5. ~ctxDone' => packetStream = <<>> \/ \A t \in Savers : svPc[t] # "done"
    BY <2>1 DEF Ending
  <2>6. packetStream = <<>> => packetStream' = <<>>
    BY <1>12 DEF Saver, SaverTake, SaverCopy, SaverFail, SaverAbort,
       SaverThrottle, SaverExit
  <2> QED
    BY <2>1, <2>2, <2>3, <2>4, <2>5, <2>6 DEF Ending, notInSaver
<1>13. CASE Main
  <2>1. UNCHANGED notInMain /\ (ctxDone => ctxDone')
    BY <1>13 DEF Main, MainCollect, MainReport, MainReturn
  <2>2. mainPc' # "collect" => \A s \in Savers : svPc[s] = "done"
    BY <1>13 DEF Main, MainCollect, MainReport, MainReturn, CountsReceived,
       Ending
  <2>3. status' = "COMPLETED" \/ lateEnd' => mainPc' \in {"return", "done"}
    BY <1>13 DEF Main, MainCollect, MainReport, MainReturn, Ending
  <2> QED
    BY <2>1, <2>2, <2>3 DEF Ending, notInMain
<1>14. CASE Land
  <2>1. /\ UNCHANGED notInServer
        /\ status' = "COMPLETED" => status = "COMPLETED" \/ lateEnd
        /\ lateEnd' => lateEnd
    BY <1>14 DEF Land, LandInsert, LandCount, LandCopy, LandFail, LandEnd, TypeOK
  <2> QED
    BY <2>1 DEF Ending, notInServer
<1> QED
  BY <1>1, <1>2, <1>3, <1>4, <1>5, <1>6, <1>7, <1>8, <1>9, <1>10, <1>11, <1>12,
     <1>13, <1>14 DEF Next, PreCheck, Reader, Terminated, vars, endVars

-----------------------------------------------------------------------------
(* While nothing has gone wrong, no packet that was read gets lost. *)

LEMMA StaysUndisturbed ==
  ASSUME TypeOK, [Next]_vars, Undisturbed' PROVE Undisturbed
<1> USE DEF preVars, rdVars, svVars, chanVars, jobVars, Undisturbed
<1>0. svPc \in [Savers -> SaverPcs]
  BY DEF TypeOK
<1>1. ASSUME NEW s \in Savers, Saver(s) PROVE Undisturbed
  <2>1. CASE SaverFail(s)
    BY <2>1, <1>0 DEF SaverFail, SaverGoes, notInSaver
  <2>2. CASE SaverAbort(s)
    BY <2>2 DEF SaverAbort
  <2>3. CASE SaverTake(s) \/ SaverCopy(s) \/ SaverThrottle(s) \/ SaverExit(s)
    <3>1. /\ ctxDone' = ctxDone /\ svPc[s] \notin {"fail", "abort"}
          /\ \A t \in Savers : t # s => svPc'[t] = svPc[t]
      BY <2>3, <1>0 DEF SaverTake, SaverCopy, SaverGivesUp, SaverThrottle,
         SaverExit, SaverGoes, notInSaver
    <3> QED
      BY <3>1
  <2> QED
    BY <1>1, <2>1, <2>2, <2>3 DEF Saver
<1>2. ASSUME NEW w \in PreChecks, PreCheck(w) PROVE Undisturbed
  BY <1>2 DEF PreCheck, PreCheckTake, PreCheckInsert, PreCheckSend, PreCheckExit,
     notInPre
<1>3. ASSUME NEW r \in Readers, Reader(r) PROVE Undisturbed
  BY <1>3 DEF Reader, ReaderTake, ReaderFill, ReaderSend, ReaderProgress,
     ReaderExit, notInReader
<1>4. CASE \/ CancelJob \/ CloseValid \/ CloseStream \/ Main \/ Land
           \/ UNCHANGED vars
  BY <1>4 DEF CancelJob, CloseValid, CloseStream, Main, MainCollect, MainReport,
     MainReturn, notInMain, Land, LandInsert, LandCount, LandCopy, LandFail,
     LandEnd, notInServer, vars
<1> QED
  BY <1>1, <1>2, <1>3, <1>4 DEF Next, Terminated

(* A step that reads and drops nothing. *)
LEMMA KeptStill ==
  ASSUME KeptRows,
         \A p \in Packets : Nowhere(p)' => Nowhere(p),
         \A f \in Files : \A i \in 1..Len(Content[f]) :
           ReadUpTo(f, i)' => ReadUpTo(f, i)
  PROVE  KeptRows'
BY PacketsFacts DEF KeptRows

LEMMA ShortIsLastNext ==
  TypeOK /\ HandsOK /\ ShortIsLast /\ [Next]_vars => ShortIsLast'
<1> SUFFICES ASSUME TypeOK, HandsOK, ShortIsLast, [Next]_vars PROVE ShortIsLast'
  OBVIOUS
<1> USE DEF preVars, rdVars, svVars, chanVars
<1>0. /\ rdPc \in [Readers -> ReaderPcs]
      /\ rdPath \in [Readers -> Files \union {NoFile}]
      /\ rdPos \in [Readers -> Nat]
      /\ rdBatch \in [Readers -> SUBSET Packets]
  BY DEF TypeOK
<1>1. ASSUME NEW r \in Readers, Reader(r) PROVE ShortIsLast'
  <2>1. \A t \in Readers : t # r =>
          /\ rdPc'[t] = rdPc[t] /\ rdPath'[t] = rdPath[t]
          /\ rdPos'[t] = rdPos[t] /\ rdBatch'[t] = rdBatch[t]
    <3>1. CASE ReaderTake(r)
      BY <3>1, <1>0 DEF ReaderTake
    <3>2. CASE ReaderFill(r)
      BY <3>2, <1>0 DEF ReaderFill, ReaderGiveUp, ReaderFileDone
    <3>3. CASE ReaderSend(r)
      BY <3>3, <1>0 DEF ReaderSend, ReaderGiveUp, ReaderFileDone
    <3>4. CASE ReaderProgress(r) \/ ReaderExit(r)
      BY <3>4, <1>0 DEF ReaderProgress, ReaderExit
    <3> QED
      BY <1>1, <3>1, <3>2, <3>3, <3>4 DEF Reader
  <2>2. rdPc'[r] = "send" /\ Cardinality(rdBatch'[r]) # BatchLimit =>
          rdPos'[r] = Len(Content[rdPath'[r]])
    <3>1. CASE ReaderFill(r)
      <4> SUFFICES ASSUME rdPc'[r] = "send",
                          Cardinality(rdBatch'[r]) # BatchLimit
                   PROVE  rdPos'[r] = Len(Content[rdPath'[r]])
        OBVIOUS
      <4>1. rdPc[r] = "fill" /\ rdPath' = rdPath
        BY <3>1 DEF ReaderFill
      <4>2. PICK q \in rdPos[r]..Len(Content[rdPath[r]]) :
              /\ rdPos' = [rdPos EXCEPT ![r] = q]
              /\ rdBatch' = [rdBatch EXCEPT ![r] = Rows(rdPath[r], rdPos[r], q)]
              /\ rdPc' = [rdPc EXCEPT ![r] =
                   IF \/ Cardinality(Rows(rdPath[r], rdPos[r], q)) = BatchLimit
                      \/ q = Len(Content[rdPath[r]])
                   THEN "send" ELSE "spin"]
        BY <3>1, <1>0, <4>1 DEF ReaderFill, ReaderGiveUp, ReaderFileDone
      <4> QED
        BY <1>0, <4>1, <4>2
    <3>2. CASE ReaderTake(r) \/ ReaderSend(r) \/ ReaderProgress(r) \/ ReaderExit(r)
      BY <3>2, <1>0 DEF ReaderTake, ReaderSend, ReaderGiveUp, ReaderFileDone,
         ReaderProgress, ReaderExit
    <3> QED
      BY <1>1, <3>1, <3>2 DEF Reader
  <2> QED
    BY <2>1, <2>2 DEF ShortIsLast
<1>2. CASE UNCHANGED rdVars
  BY <1>2 DEF ShortIsLast
<1> QED
  BY <1>1, <1>2 DEF Next, PreCheck, PreCheckTake, PreCheckInsert, PreCheckSend,
     PreCheckExit, Saver, SaverTake, SaverCopy, SaverFail, SaverAbort,
     SaverThrottle, SaverExit, Main, MainCollect, MainReport, MainReturn,
     CancelJob, CloseValid, CloseStream, Land, LandInsert, LandCount, LandCopy,
     LandFail, LandEnd, Terminated, vars, notInPre, notInSaver, notInMain,
     notInServer

(* Nor does a saver leave a statement with the server. *)
LEMMA NothingLateNext ==
  ASSUME TypeOK, lateCopies = {}, lateFails = {}, Undisturbed, Undisturbed',
         [Next]_vars
  PROVE  lateCopies' = {} /\ lateFails' = {}
<1>1. ASSUME NEW s \in Savers, Saver(s)
      PROVE  lateCopies' = {} /\ lateFails' = {}
  <2>1. /\ svPc \in [Savers -> SaverPcs] /\ ~ctxDone
        /\ svPc[s] # "fail" /\ svPc'[s] # "fail"
    BY DEF TypeOK, Undisturbed
  <2>2. ~SaverGivesUp(s)
    BY <2>1 DEF SaverGivesUp, SaverGoes
  <2> QED
    BY <1>1, <2>1, <2>2 DEF Saver, SaverTake, SaverCopy, SaverFail, SaverAbort,
       SaverThrottle, SaverExit
<1>2. CASE ~\E s \in Savers : Saver(s)
  BY <1>2 DEF Next, PreCheck, PreCheckTake, PreCheckInsert, PreCheckSend,
     PreCheckExit, Reader, ReaderTake, ReaderFill, ReaderSend, ReaderProgress,
     ReaderExit, Main, MainCollect, MainReport, MainReturn, CancelJob,
     CloseValid, CloseStream, Land, LandInsert, LandCount, LandCopy, LandFail,
     LandEnd, Terminated, vars, lateVars, notInPre, notInReader, notInMain
<1> QED
  BY <1>1, <1>2

LEMMA KeptRowsNext ==
  ASSUME TypeOK, HandsOK, Route, BatchesOK, Apart, Ending, ShortIsLast, KeptRows,
         lateCopies = {}, Undisturbed, Undisturbed', [Next]_vars
  PROVE  KeptRows'
<1> USE DEF preVars, rdVars, svVars, chanVars, Clear, Late
<1>0. /\ files \in Seq(Files) /\ validFiles \in Seq(Files)
      /\ packetStream \in Seq(SUBSET Packets)
      /\ fate \in [Files -> Fates]
      /\ rdPc \in [Readers -> ReaderPcs]
      /\ rdPath \in [Readers -> Files \union {NoFile}]
      /\ rdPos \in [Readers -> Nat]
      /\ rdBatch \in [Readers -> SUBSET Packets]
      /\ svPc \in [Savers -> SaverPcs]
      /\ svBatch \in [Savers -> SUBSET Packets]
      /\ copies \in [Packets -> Nat]
      /\ ~ctxDone /\ ~ctxDone'
  BY DEF TypeOK, Undisturbed
<1>1. ASSUME UNCHANGED <<batchVars, rdPc, rdPath, rdPos>>,
             \A f \in Files : fate'[f] = "read" => fate[f] = "read"
      PROVE  KeptRows'
  <2>1. \A p \in Packets : Nowhere(p)' => Nowhere(p)
    BY <1>1 DEF batchVars, Nowhere, Streamed
  <2>2. \A f \in Files : \A i \in 1..Len(Content[f]) :
          ReadUpTo(f, i)' => ReadUpTo(f, i)
    BY <1>1 DEF ReadUpTo, Reading
  <2> QED
    BY <2>1, <2>2, KeptStill
<1>2. ASSUME NEW w \in PreChecks, PreCheck(w) PROVE KeptRows'
  <2>1. UNCHANGED <<batchVars, rdPc, rdPath, rdPos>>
    BY <1>2 DEF PreCheck, PreCheckTake, PreCheckInsert, PreCheckSend,
       PreCheckExit, notInPre, batchVars
  <2>2. \A f \in Files : fate'[f] = "read" => fate[f] = "read"
    BY <1>2, <1>0 DEF PreCheck, PreCheckTake, PreCheckInsert, PreCheckSkip,
       PreCheckSend, PreCheckExit, SetFate
  <2> QED
    BY <2>1, <2>2, <1>1
<1>3. ASSUME NEW r \in Readers, ReaderTake(r) PROVE KeptRows'
  <2>1. UNCHANGED batchVars /\ rdPc[r] = "recv"
    BY <1>3 DEF ReaderTake, notInReader, batchVars
  <2>2. \A p \in Packets : Nowhere(p)' => Nowhere(p)
    BY <2>1 DEF batchVars, Nowhere, Streamed
  <2>3. \A f \in Files : fate'[f] = "read" => fate[f] = "read"
    BY <1>3, <1>0 DEF ReaderTake, SetFate
  <2>4. /\ \A t \in Readers : t # r =>
             rdPc'[t] = rdPc[t] /\ rdPath'[t] = rdPath[t] /\ rdPos'[t] = rdPos[t]
        /\ Reading(r)' => rdPos'[r] = 0
    BY <1>3, <1>0, <2>1 DEF ReaderTake, Reading
  <2>5. \A f \in Files : \A i \in 1..Len(Content[f]) :
          ReadUpTo(f, i)' => ReadUpTo(f, i)
    <3> SUFFICES ASSUME NEW f \in Files, NEW i \in 1..Len(Content[f]), ReadUpTo(f, i)'
                 PROVE  ReadUpTo(f, i)
      OBVIOUS
    <3>1. CASE fate'[f] = "read"
      BY <2>3, <3>1 DEF ReadUpTo
    <3>2. ASSUME NEW t \in Readers, Reading(t)', rdPath'[t] = f, i <= rdPos'[t]
          PROVE  ReadUpTo(f, i)
      <4>1. i \in Nat /\ i > 0
        BY FilesFacts
      <4>2. t # r
        BY <2>4, <3>2, <4>1
      <4>3. Reading(t) /\ rdPath[t] = f /\ i <= rdPos[t]
        BY <2>4, <3>2, <4>2 DEF Reading
      <4> QED
        BY <4>3 DEF ReadUpTo
    <3> QED
      BY <3>1, <3>2 DEF ReadUpTo
  <2> QED
    BY <2>2, <2>5, KeptStill
<1>4. ASSUME NEW r \in Readers, ReaderFill(r) PROVE KeptRows'
  <2> DEFINE f == rdPath[r]
  <2>1. /\ UNCHANGED <<copies, lateCopies, packetStream, svVars, rdPath>>
        /\ rdPc[r] = "fill" /\ Reading(r) /\ rdBatch[r] = {}
    BY <1>4 DEF ReaderFill, Reading, notInReader, BatchesOK
  <2>2. /\ f \in Files /\ fate[f] = "reading"
        /\ Len(Content[f]) \in Nat
        /\ rdPos[r] \in 0..Len(Content[f])
    BY <2>1, FilesFacts DEF HandsOK, Route, InReaders
  <2>3. PICK q \in rdPos[r]..Len(Content[f]) :
          /\ rdPos' = [rdPos EXCEPT ![r] = q]
          /\ rdBatch' = [rdBatch EXCEPT ![r] = Rows(f, rdPos[r], q)]
          /\ \/ fate' = fate
             \/ q = Len(Content[f]) /\ fate' = [fate EXCEPT ![f] = "read"]
    BY <1>4, <1>0 DEF ReaderFill, ReaderGiveUp, ReaderFileDone, SetFate
  <2>4. \A t \in Readers : t # r => rdPc'[t] = rdPc[t]
    BY <1>4, <1>0 DEF ReaderFill, ReaderGiveUp, ReaderFileDone
  <2> HIDE DEF f
  <2>5. \A p \in Packets : Nowhere(p)' => Nowhere(p)
    BY <1>0, <2>1, <2>3 DEF Nowhere, Streamed
  <2>6. \A p \in Rows(f, rdPos[r], q) : ~Nowhere(p)'
    BY <1>0, <2>3 DEF Nowhere
  <2> SUFFICES ASSUME NEW g \in Files, NEW i \in 1..Len(Content[g]),
                      <<g, i>> \in RowsOf(g), ReadUpTo(g, i)'
               PROVE  ~Nowhere(<<g, i>>)'
    BY DEF KeptRows
  <2>7. CASE ReadUpTo(g, i)
    BY <2>7, <2>5, PacketsFacts DEF KeptRows
  <2>8. CASE ~ReadUpTo(g, i)
    <3>1. g = f /\ i <= q
      <4>1. CASE fate'[g] = "read"
        BY <4>1, <2>8, <2>2, <2>3, <1>0 DEF ReadUpTo
      <4>2. CASE fate'[g] # "read"
        <5>1. PICK t \in Readers : Reading(t)' /\ rdPath'[t] = g /\ i <= rdPos'[t]
          BY <4>2 DEF ReadUpTo
        <5>2. t = r
          BY <5>1, <2>8, <1>0, <2>1, <2>3, <2>4 DEF ReadUpTo, Reading
        <5> QED
          BY <5>1, <5>2, <1>0, <2>1, <2>3 DEF f
      <4> QED
        BY <4>1, <4>2
    <3>2. ~(i <= rdPos[r])
      BY <3>1, <2>8, <2>1 DEF ReadUpTo, f
    <3>3. i \in (rdPos[r]+1)..q
      BY <3>1, <3>2, <2>2
    <3>4. <<g, i>> \in Rows(f, rdPos[r], q)
      BY <3>1, <3>3, <2>2, <1>0, RowsFacts
    <3> QED
      BY <3>4, <2>6
  <2> QED
    BY <2>7, <2>8
<1>5. ASSUME NEW r \in Readers, ReaderSend(r) PROVE KeptRows'
  <2> DEFINE f == rdPath[r]
  <2>1. /\ UNCHANGED <<copies, lateCopies, svVars, rdPath, rdPos>>
        /\ rdPc[r] = "send" /\ Reading(r)
        /\ rdBatch' = [rdBatch EXCEPT ![r] = {}]
        /\ packetStream' = Append(packetStream, rdBatch[r])
    BY <1>5, <1>0 DEF ReaderSend, ReaderGiveUp, Reading, notInReader
  <2>2. f \in Files /\ Len(Content[f]) \in Nat
    BY <2>1, FilesFacts DEF HandsOK
  <2>3. /\ \A t \in Readers : t # r => rdPc'[t] = rdPc[t]
        /\ \/ fate' = fate
           \/ /\ Cardinality(rdBatch[r]) # BatchLimit
              /\ fate' = [fate EXCEPT ![f] = "read"]
    BY <1>5, <1>0 DEF ReaderSend, ReaderGiveUp, ReaderFileDone, SetFate
  <2>4. /\ Len(packetStream') = Len(packetStream) + 1
        /\ packetStream'[Len(packetStream) + 1] = rdBatch[r]
        /\ \A i \in 1..Len(packetStream) : packetStream'[i] = packetStream[i]
        /\ Len(packetStream) \in Nat
    BY <1>0, <2>1, AppendFacts
  <2>5. \A p : Streamed(p) \/ p \in rdBatch[r] => Streamed(p)'
    <3>1. Len(packetStream) + 1 \in 1..Len(packetStream')
      BY <2>4
    <3>2. \A i \in 1..Len(packetStream) : i \in 1..Len(packetStream')
      BY <2>4
    <3> QED
      BY <2>4, <3>1, <3>2 DEF Streamed
  <2>6. \A p \in Packets : Nowhere(p)' => Nowhere(p)
    BY <1>0, <2>1, <2>5 DEF Nowhere
  <2>7. \A g \in Files : \A i \in 1..Len(Content[g]) :
          ReadUpTo(g, i)' => ReadUpTo(g, i)
    <3> SUFFICES ASSUME NEW g \in Files, NEW i \in 1..Len(Content[g]),
                        ReadUpTo(g, i)'
                 PROVE  ReadUpTo(g, i)
      OBVIOUS
    <3>1. CASE fate'[g] = "read" /\ fate[g] # "read"
      <4>1. g = f /\ Cardinality(rdBatch[r]) # BatchLimit
        BY <3>1, <1>0, <2>2, <2>3
      <4>2. i <= rdPos[r]
        BY <4>1, <2>1, <2>2 DEF ShortIsLast, f
      <4> QED
        BY <4>1, <4>2, <2>1 DEF ReadUpTo, f
    <3>2. CASE fate'[g] # "read"
      <4>1. PICK t \in Readers : Reading(t)' /\ rdPath'[t] = g /\ i <= rdPos'[t]
        BY <3>2 DEF ReadUpTo
      <4>2. Reading(t)
        BY <4>1, <2>1, <2>3 DEF Reading
      <4> QED
        BY <4>1, <4>2, <2>1 DEF ReadUpTo
    <3> QED
      BY <3>1, <3>2 DEF ReadUpTo
  <2> QED
    BY <2>6, <2>7, KeptStill
<1>6. ASSUME NEW r \in Readers, ReaderProgress(r) \/ ReaderExit(r) PROVE KeptRows'
  <2>1. /\ UNCHANGED <<batchVars, rdPath, rdPos, fate>>
        /\ \A t \in Readers : Reading(t)' => Reading(t)
    BY <1>6, <1>0 DEF ReaderProgress, ReaderExit, notInReader, Reading, batchVars
  <2>2. \A p \in Packets : Nowhere(p)' => Nowhere(p)
    BY <2>1 DEF batchVars, Nowhere, Streamed
  <2>3. \A f \in Files : \A i \in 1..Len(Content[f]) :
          ReadUpTo(f, i)' => ReadUpTo(f, i)
    BY <2>1 DEF ReadUpTo
  <2> QED
    BY <2>2, <2>3, KeptStill
<1>7. ASSUME NEW s \in Savers, Saver(s) PROVE KeptRows'
  <2>1. UNCHANGED <<rdVars, fate>>
    BY <1>7 DEF Saver, SaverTake, SaverCopy, SaverFail, SaverAbort,
       SaverThrottle, SaverExit, notInSaver
  <2>2. \A f \in Files : \A i \in 1..Len(Content[f]) :
          ReadUpTo(f, i)' => ReadUpTo(f, i)
    BY <2>1 DEF ReadUpTo, Reading
  <2>3. CASE SaverTake(s)
    <3>1. /\ UNCHANGED <<copies, lateCopies>> /\ packetStream # <<>> /\ svBatch[s] = {}
          /\ packetStream' = Tail(packetStream)
          /\ svBatch' = [svBatch EXCEPT ![s] = Head(packetStream)]
      BY <2>3, <1>0 DEF SaverTake, notInSaver, BatchesOK
    <3>2. /\ Head(packetStream) = packetStream[1]
          /\ Len(packetStream') = Len(packetStream) - 1
          /\ Len(packetStream) \in Nat \ {0}
          /\ \A i \in 1..Len(packetStream') : packetStream'[i] = packetStream[i+1]
      BY <1>0, <3>1, TailFacts
    <3>3. ASSUME NEW p, Streamed(p) PROVE Streamed(p)' \/ p \in svBatch'[s]
      <4>1. PICK i \in 1..Len(packetStream) : p \in packetStream[i]
        BY <3>3 DEF Streamed
      <4>2. CASE i = 1
        BY <4>1, <4>2, <3>1, <3>2, <1>0
      <4>3. CASE i # 1
        <5>1. i-1 \in 1..Len(packetStream') /\ (i-1)+1 = i
          BY <4>3, <3>2
        <5> QED
          BY <5>1, <4>1, <3>2 DEF Streamed
      <4> QED
        BY <4>2, <4>3
    <3>4. \A t \in Savers : svBatch[t] \subseteq svBatch'[t]
      BY <3>1, <1>0
    <3>5. \A p \in Packets : Nowhere(p)' => Nowhere(p)
      BY <2>1, <3>1, <3>3, <3>4 DEF Nowhere
    <3> QED
      BY <3>5, <2>2, KeptStill
  <2>4. CASE SaverCopy(s)
    <3>1. /\ InsertRows(svBatch[s]) /\ svBatch' = [svBatch EXCEPT ![s] = {}]
          /\ UNCHANGED <<packetStream, lateCopies>>
      <4>1. \A pc : SaverGoes(s, pc) => svPc'[s] = pc
        BY <1>0 DEF SaverGoes
      <4>2. ~SaverGivesUp(s)
        BY <4>1, <1>0 DEF SaverGivesUp, Undisturbed
      <4> QED
        BY <2>4, <4>2 DEF SaverCopy, notInSaver
    <3>2. \A p \in Packets : p \in svBatch[s] => copies'[p] # 0
      BY <3>1, <1>0 DEF InsertRows
    <3>3. \A p \in Packets : copies[p] # 0 => copies'[p] # 0
      BY <3>1, <1>0 DEF InsertRows
    <3>4. \A p \in Packets : Nowhere(p)' => Nowhere(p)
      BY <1>0, <2>1, <3>1, <3>2, <3>3 DEF Nowhere, Streamed
    <3> QED
      BY <3>4, <2>2, KeptStill
  <2>5. CASE SaverFail(s) \/ SaverAbort(s) \/ SaverThrottle(s) \/ SaverExit(s)
    <3>1. UNCHANGED batchVars
      BY <2>5 DEF SaverFail, SaverAbort, SaverThrottle, SaverExit, notInSaver,
         batchVars
    <3> QED
      BY <3>1, <2>1, <1>1
  <2> QED
    BY <1>7, <2>3, <2>4, <2>5 DEF Saver
<1>8. CASE \/ CancelJob \/ CloseValid \/ CloseStream \/ Main \/ Land
           \/ UNCHANGED vars
  <2>1. UNCHANGED <<batchVars, rdPc, rdPath, rdPos, fate>>
    BY <1>8 DEF CancelJob, CloseValid, CloseStream, Main, MainCollect,
       MainReport, MainReturn, notInMain, Land, LandInsert, LandCount, LandCopy,
       LandFail, LandEnd, notInServer, lateVars, vars, batchVars
  <2> QED
    BY <2>1, <1>1
<1> QED
  BY <1>2, <1>3, <1>4, <1>5, <1>6, <1>7, <1>8 DEF Next, Reader, Terminated

-----------------------------------------------------------------------------
(* One file per checksum. *)

LEMMA UniqueNext == TypeOK /\ HandsOK /\ Route /\ Unique /\ [Next]_vars => Unique'
<1> SUFFICES ASSUME TypeOK, HandsOK, Route, Unique, [Next]_vars PROVE Unique'
  OBVIOUS
<1> USE DEF preVars, rdVars, svVars, srcVars, chanVars
<1>0. /\ files \in Seq(Files) /\ validFiles \in Seq(Files)
      /\ fate \in [Files -> Fates]
      /\ prePc \in [PreChecks -> PrePcs]
      /\ prePath \in [PreChecks -> Files \union {NoFile}]
  BY DEF TypeOK
<1>1. ASSUME \A f \in Files : Passed(f)' => Passed(f),
             UNCHANGED <<own, earlier>>
      PROVE  Unique'
  BY <1>1 DEF Unique
<1>2. ASSUME NEW w \in PreChecks, PreCheckTake(w) PROVE Unique'
  <2>1. /\ files # <<>> /\ UNCHANGED <<own, earlier>> /\ prePc[w] = "recv"
        /\ \E x \in {"unchecked", "checking"} :
             fate' = [fate EXCEPT ![Head(files)] = x]
    BY <1>2 DEF PreCheckTake, SetFate, notInPre
  <2>2. \A v \in PreChecks : prePc'[v] = "send" =>
          prePc[v] = "send" /\ prePath'[v] = prePath[v]
    BY <1>2, <1>0, <2>1 DEF PreCheckTake
  <2>3. \A f \in Files : Passed(f)' => Passed(f)
    BY <1>0, <2>1, <2>2 DEF Passed
  <2> QED
    BY <2>1, <2>3, <1>1
<1>3. ASSUME NEW w \in PreChecks, PreCheckInsert(w) PROVE Unique'
  <2> DEFINE f == prePath[w]
  <2>1. /\ f \in Files /\ fate[f] = "checking" /\ prePc[w] = "insert"
        /\ UNCHANGED earlier
    BY <1>3 DEF PreCheckInsert, HandsOK, Holding, Route, InPreChecks, notInPre
  <2>2. CASE /\ IsNew(Checksum[f])
             /\ own' = own \union {Checksum[f]}
             /\ prePc' = [prePc EXCEPT ![w] = "send"]
             /\ UNCHANGED <<prePath, fate>>
    <3>1. \A g \in Files : Passed(g)' => Passed(g) \/ g = f
      BY <2>2, <1>0 DEF Passed
    <3>2. \A g \in Files : Passed(g) => Checksum[g] # Checksum[f]
      BY <2>2, <2>1 DEF Unique, IsNew, TypeOK
    <3>3. Checksum[f] \notin earlier
      BY <2>2 DEF IsNew, TypeOK
    <3> QED
      BY <2>1, <2>2, <3>1, <3>2, <3>3 DEF Unique
  <2>3. CASE /\ \E x \in {"duplicate", "unchecked"} : PreCheckSkip(w, x)
             /\ UNCHANGED own
    <3>1. PICK x \in {"duplicate", "unchecked"} :
            /\ prePc' = [prePc EXCEPT ![w] = "recv"]
            /\ prePath' = [prePath EXCEPT ![w] = NoFile]
            /\ fate' = [fate EXCEPT ![f] = x]
      BY <2>3 DEF PreCheckSkip, SetFate
    <3>2. \A v \in PreChecks : prePc'[v] = "send" =>
            prePc[v] = "send" /\ prePath'[v] = prePath[v]
      BY <3>1, <1>0
    <3>3. \A g \in Files : Passed(g)' => Passed(g)
      BY <1>0, <2>1, <3>1, <3>2 DEF Passed
    <3> QED
      BY <2>1, <2>3, <3>3, <1>1
  <2> QED
    BY <1>3, <2>2, <2>3 DEF PreCheckInsert, Record
<1>4. ASSUME NEW w \in PreChecks, PreCheckSend(w) PROVE Unique'
  <2> DEFINE f == prePath[w]
  <2>1. /\ prePc[w] = "send" /\ UNCHANGED <<own, earlier>> /\ f \in Files
        /\ \E x \in {"valid", "aborted"} : fate' = [fate EXCEPT ![f] = x]
        /\ \E pc \in {"recv", "done"} : prePc' = [prePc EXCEPT ![w] = pc]
        /\ prePath' = [prePath EXCEPT ![w] = NoFile]
    BY <1>4 DEF PreCheckSend, SetFate, HandsOK, Holding, notInPre
  <2>2. Passed(f)
    BY <2>1 DEF Passed
  <2>3. \A v \in PreChecks : prePc'[v] = "send" =>
          prePc[v] = "send" /\ prePath'[v] = prePath[v]
    BY <1>0, <2>1
  <2>4. \A g \in Files : Passed(g)' => Passed(g)
    BY <1>0, <2>1, <2>2, <2>3 DEF Passed
  <2> QED
    BY <2>1, <2>4, <1>1
<1>5. ASSUME NEW w \in PreChecks, PreCheckExit(w) PROVE Unique'
  <2>1. UNCHANGED <<prePath, fate, own, earlier>> /\
        \A v \in PreChecks : prePc'[v] = "send" => prePc[v] = "send"
    BY <1>5, <1>0 DEF PreCheckExit, notInPre
  <2>2. \A g \in Files : Passed(g)' => Passed(g)
    BY <2>1 DEF Passed
  <2> QED
    BY <2>1, <2>2, <1>1
<1>6. ASSUME NEW r \in Readers, Reader(r) PROVE Unique'
  <2>1. UNCHANGED <<preVars, own, earlier>>
    BY <1>6 DEF Reader, ReaderTake, ReaderFill, ReaderSend, ReaderProgress,
       ReaderExit, notInReader
  <2>2. CASE ReaderTake(r)
    <3> DEFINE f == Head(validFiles)
    <3>1. /\ validFiles # <<>>
          /\ \E x \in Fates : fate' = [fate EXCEPT ![f] = x]
      BY <2>2 DEF ReaderTake, SetFate, Fates
    <3>2. f \in Files /\ Queued(f, validFiles)
      BY <3>1, <1>0, TailFacts DEF Queued
    <3>3. fate[f] = "valid"
      BY <3>2 DEF Route, InValidFiles
    <3> HIDE DEF f
    <3>4. \A g \in Files : Passed(g)' => Passed(g)
      BY <1>0, <2>1, <3>1, <3>2, <3>3 DEF Passed
    <3> QED
      BY <2>1, <3>4, <1>1
  <2>3. CASE ReaderFill(r) \/ ReaderSend(r)
    <3>1. rdPath[r] \in Files /\ fate[rdPath[r]] = "reading"
      BY <2>3 DEF ReaderFill, ReaderSend, HandsOK, Reading, Route, InReaders
    <3>2. fate' = fate \/ \E x \in Fates : fate' = [fate EXCEPT ![rdPath[r]] = x]
      BY <2>3 DEF ReaderFill, ReaderSend, ReaderGiveUp, ReaderFileDone, SetFate,
         Fates
    <3>3. \A g \in Files : Passed(g)' => Passed(g)
      BY <1>0, <2>1, <3>1, <3>2 DEF Passed
    <3> QED
      BY <2>1, <3>3, <1>1
  <2>4. CASE ReaderProgress(r) \/ ReaderExit(r)
    <3>1. fate' = fate
      BY <2>4 DEF ReaderProgress, ReaderExit
    <3>2. \A g \in Files : Passed(g)' => Passed(g)
      BY <2>1, <3>1 DEF Passed
    <3> QED
      BY <2>1, <3>2, <1>1
  <2> QED
    BY <1>6, <2>2, <2>3, <2>4 DEF Reader
<1>7. CASE UNCHANGED <<preVars, own, earlier, fate>>
  BY <1>7 DEF Unique, Passed
<1>8. ASSUME NEW sum \in lateSums, LandInsert(sum) PROVE Unique'
  <2>1. /\ UNCHANGED <<preVars, earlier, fate>>
        /\ own' = own \/ (sum \notin sources /\ own' = own \union {sum})
    BY <1>8 DEF LandInsert, IsNew, Record, notInServer
  <2>2. own \subseteq own' /\ own' \intersect earlier = {}
    BY <2>1 DEF Unique, TypeOK
  <2>3. \A f \in Files : Passed(f)' <=> Passed(f)
    BY <2>1 DEF Passed
  <2> QED
    BY <2>1, <2>2, <2>3 DEF Unique
<1>9. CASE Land
  BY <1>7, <1>8, <1>9 DEF Land, LandCount, LandCopy, LandFail, LandEnd,
     notInServer
<1> QED
  BY <1>2, <1>3, <1>4, <1>5, <1>6, <1>7, <1>9 DEF Next, PreCheck, Saver,
     SaverTake, SaverCopy, SaverFail, SaverAbort, SaverThrottle, SaverExit, Main,
     MainCollect, MainReport, MainReturn, CancelJob, CloseValid, CloseStream,
     Terminated, vars, notInSaver, notInMain

-----------------------------------------------------------------------------
(* The invariant holds in every reachable state. *)

LEMMA InvInit == Init => Inv
<1> SUFFICES ASSUME Init PROVE Inv
  OBVIOUS
<1>1. Kept
  BY DEF Init, Kept, ShortIsLast, KeptRows, ReadUpTo, Reading
<1>2. Ending
  BY DEF Init, Ending
<1>3. Unique
  BY DEF Init, Unique, Passed
<1> QED
  BY <1>1, <1>2, <1>3, TypeInit, RouteInit, BatchInit DEF Inv

LEMMA InvNext == Inv /\ [Next]_vars => Inv'
<1> SUFFICES ASSUME Inv, [Next]_vars PROVE Inv'
  OBVIOUS
<1>1. TypeOK' /\ HandsOK' /\ Route' /\ BatchesOK' /\ Fresh' /\ Apart'
  BY TypeNext, RouteNext, BatchNext DEF Inv
<1>2. Ending' /\ Unique'
  BY EndingNext, UniqueNext DEF Inv
<1>3. /\ ShortIsLast
      /\ Undisturbed => KeptRows /\ lateCopies = {} /\ lateFails = {}
  BY DEF Inv, Kept
<1>4. ShortIsLast'
  BY <1>3, ShortIsLastNext DEF Inv
<1>5. Undisturbed' => KeptRows' /\ lateCopies' = {} /\ lateFails' = {}
  BY <1>3, StaysUndisturbed, NothingLateNext, KeptRowsNext DEF Inv
<1>6. Kept'
  BY <1>4, <1>5 DEF Kept
<1> QED
  BY <1>1, <1>2, <1>6 DEF Inv

LEMMA Invariance == Spec => []Inv
BY InvInit, InvNext, PTL DEF Spec

(* Whatever the workers, files and failures, each variable has its type:   *)
(* packetStream never holds more batches than its capacity (StreamCap).    *)
THEOREM TypeCorrect == Spec => []TypeOK
<1>1. Inv => TypeOK
  BY DEF Inv
<1> QED
  BY <1>1, Invariance, PTL

(* No interleaving of PcapWorkers and PacketSaverWorkers, cancellation or  *)
(* half-failed COPY stores a packet of a job twice.                        *)
THEOREM RowsAtMostOnce == Spec => []AtMostOnce
<1>1. Inv => AtMostOnce
  BY DEF Inv, Apart
<1> QED
  BY <1>1, Invariance, PTL

(* Savers leave an uncancelled job only when the stream has ended; the     *)
(* readers and pre-checks have left before them.                           *)
LEMMA AllIsStored == Inv => NoSilentLoss
<1> SUFFICES ASSUME Inv, mainPc \in {"report", "return"}, ~ctxDone
             PROVE  /\ \A f \in Files :
                         \/ fate[f] \in {"duplicate", "unchecked", "unreadable"}
                         \/ /\ fate[f] = "read"
                            /\ \A p \in RowsOf(f) : copies[p] = 1
                    /\ lateCopies = {} /\ lateFails = {}
  BY DEF NoSilentLoss
<1>1. \A s \in Savers : svPc[s] = "done"
  BY DEF Inv, Ending
<1>10. Undisturbed
  BY <1>1 DEF Undisturbed
<1>11. KeptRows /\ lateCopies = {} /\ lateFails = {}
  BY <1>10 DEF Inv, Kept
<1> SUFFICES ASSUME NEW f \in Files
             PROVE  \/ fate[f] \in {"duplicate", "unchecked", "unreadable"}
                    \/ fate[f] = "read" /\ \A p \in RowsOf(f) : copies[p] = 1
  BY <1>11
<1>2. streamClosed /\ packetStream = <<>>
  BY <1>1, JobPipelineAssumption DEF Inv, Ending
<1>3. \A r \in Readers : rdPc[r] = "done"
  BY <1>2 DEF Inv, Ending
<1>4. validClosed /\ validFiles = <<>>
  BY <1>3, JobPipelineAssumption DEF Inv, Ending
<1>5. \A w \in PreChecks : prePc[w] = "done"
  BY <1>4 DEF Inv, Ending
<1>6. files = <<>>
  BY <1>5, JobPipelineAssumption DEF Inv, Ending
<1>7. fate[f] \notin {"pending", "checking", "valid", "reading", "aborted"}
  BY <1>3, <1>4, <1>5, <1>6 DEF Inv, Route, InFiles, InPreChecks, InValidFiles,
     InReaders, Queued, Holding, Reading, Ending
<1>8. fate[f] \in {"duplicate", "unchecked", "unreadable", "read"}
  BY <1>7 DEF Inv, TypeOK, Fates
<1>9. ASSUME fate[f] = "read", NEW p \in RowsOf(f) PROVE copies[p] = 1
  <2>2. Len(Content[f]) \in Nat
    BY FilesFacts
  <2>3. p \in Packets /\ p[1] = f /\ p[2] \in 1..Len(Content[f])
    BY <2>2, RowsInFile DEF RowsOf
  <2>4. p = <<f, p[2]>>
    BY <2>3, PacketsFacts
  <2>5. ~Nowhere(p)
    BY <1>9, <1>11, <2>3, <2>4 DEF KeptRows, ReadUpTo
  <2>6. /\ \A r \in Readers : p \notin rdBatch[r]
        /\ \A s \in Savers : p \notin svBatch[s]
        /\ ~Streamed(p)
    BY <1>1, <1>2, <1>3 DEF Inv, BatchesOK, Streamed
  <2>7. copies[p] # 0 /\ copies[p] <= 1 /\ copies[p] \in Nat
    BY <1>11, <2>3, <2>5, <2>6
       DEF Nowhere, Clear, Late, Inv, TypeOK, Apart, AtMostOnce
  <2> QED
    BY <2>7
<1> QED
  BY <1>8, <1>9

(* When ProcessWithPool reports COMPLETED and nothing has cancelled the     *)
(* job, every packet of every file it did not turn away is stored, and the *)
(* server has no COPY and no FAILED update of its savers left.             *)
THEOREM NothingLostSilently == Spec => []NoSilentLoss
BY AllIsStored, Invariance, PTL

(* However many pre-checks race on the INSERT into source_files, and       *)
(* whatever INSERT comes late, at most one of the files that share a       *)
(* checksum goes on to a reader, and none whose checksum an earlier job    *)
(* recorded.                                                               *)
THEOREM OneFilePerChecksum == Spec => []OnePerChecksum
<1>1. Inv => OnePerChecksum
  <2> SUFFICES ASSUME Inv, NEW f \in Files,
                      fate[f] \in {"valid", "reading", "unreadable", "read"}
               PROVE  /\ Checksum[f] \notin earlier
                      /\ \A g \in Files \ {f} :
                           Checksum[g] = Checksum[f] =>
                             fate[g] \in {"pending", "checking", "duplicate",
                                          "unchecked"}
    BY DEF OnePerChecksum, FilesWith
  <2>1. Passed(f)
    BY DEF Passed
  <2>2. Checksum[f] \notin earlier
    BY <2>1 DEF Inv, Unique
  <2>3. ASSUME NEW g \in Files \ {f}, Checksum[g] = Checksum[f]
        PROVE  fate[g] \in {"pending", "checking", "duplicate", "unchecked"}
    <3>1. ~Passed(g)
      BY <2>1, <2>3 DEF Inv, Unique
    <3> QED
      BY <3>1 DEF Passed, Inv, TypeOK, Fates
  <2> QED
    BY <2>2, <2>3
<1> QED
  BY <1>1, Invariance, PTL

(* After the COMPLETED update of ProcessWithPool no saver writes a row or  *)
(* sends a FAILED update.  What changes the job's rows or its status then  *)
(* is a statement that was already with the database server, broken off by *)
(* its saver, and each of them does so once.                               *)
THEOREM NothingAfterCompleted == Spec => CompletedIsLast
<1> DEFINE Last ==
      /\ lateCopies' \subseteq lateCopies /\ lateFails' \subseteq lateFails
      /\ UNCHANGED copies \/ \E batch \in lateCopies : LandCopy(batch)
      /\ UNCHANGED status \/ \E s \in lateFails : LandFail(s)
<1>1. Inv /\ [Next]_vars =>
        [status = "COMPLETED" => Last]_<<copies, status, lateCopies, lateFails>>
  <2> SUFFICES ASSUME Inv, [Next]_vars, status = "COMPLETED" PROVE Last
    OBVIOUS
  <2>1. mainPc \in {"return", "done"} /\ \A s \in Savers : svPc[s] = "done"
    BY DEF Inv, Ending
  <2>2. ASSUME NEW s \in Savers, Saver(s) PROVE FALSE
    BY <2>1, <2>2 DEF Saver, SaverTake, SaverCopy, SaverFail, SaverAbort,
       SaverThrottle, SaverExit
  <2>3. CASE Main
    BY <2>1, <2>3 DEF Main, MainCollect, MainReport, MainReturn, notInMain
  <2>4. CASE Land
    <3>1. CASE \/ \E sum \in lateSums : LandInsert(sum)
               \/ \E f \in lateCounts : LandCount(f)
      BY <3>1 DEF LandInsert, LandCount, jobVars
    <3>2. CASE \E batch \in lateCopies : LandCopy(batch)
      BY <3>2 DEF LandCopy, jobVars
    <3>3. CASE \E s \in lateFails : LandFail(s)
      BY <3>3 DEF LandFail
    <3>4. CASE LandEnd
      BY <3>4 DEF LandEnd
    <3> QED
      BY <2>4, <3>1, <3>2, <3>3, <3>4 DEF Land
  <2> QED
    BY <2>2, <2>3, <2>4 DEF Next, PreCheck, PreCheckTake, PreCheckInsert,
       PreCheckSend, PreCheckExit, Reader, ReaderTake, ReaderFill, ReaderSend,
       ReaderProgress, ReaderExit, CancelJob, CloseValid, CloseStream,
       Terminated, vars, jobVars, lateVars, notInPre, notInReader
<1> QED
  BY <1>1, Invariance, PTL DEF Spec, CompletedIsLast

-----------------------------------------------------------------------------
(* The files that were read, and how many of them are counted. *)

AtProgress(r) == rdPc[r] = "progress"

(* Read to the end, with no UPDATE of files_read still to come. *)
Accounted ==
  {f \in Files : /\ fate[f] = "read" /\ f \notin lateCounts
                 /\ \A r \in Readers : AtProgress(r) => rdPath[r] # f}

(* A reader about to count a file has read it, and it or the server is the *)
(* only one to do so; hence the file is not yet among those that were      *)
(* counted.                                                                *)
Counted ==
  /\ \A r \in Readers : AtProgress(r) =>
       /\ rdPath[r] \in Files /\ fate[rdPath[r]] = "read"
       /\ rdPath[r] \notin lateCounts
  /\ \A f \in lateCounts : fate[f] = "read"
  /\ \A r, t \in Readers :
       AtProgress(r) /\ AtProgress(t) /\ rdPath[r] = rdPath[t] => r = t
  /\ filesRead <= Cardinality(Accounted)

(* A reader returns nil from a file. *)
FinishesFile(r) ==
  /\ Reading(r) /\ rdPath[r] \in Files
  /\ fate' = [fate EXCEPT ![rdPath[r]] = "read"]
  /\ rdPc' = [rdPc EXCEPT ![r] = IF ctxDone THEN "recv" ELSE "progress"]
  /\ UNCHANGED <<rdPath, filesRead, lateCounts>>

(* Its UPDATE of files_read answers or is broken off. *)
CountsFile(r) ==
  /\ AtProgress(r)
  /\ rdPc' = [rdPc EXCEPT ![r] = "recv"]
  /\ \/ filesRead' \in {filesRead, filesRead + 1} /\ UNCHANGED lateCounts
     \/ UNCHANGED filesRead /\ lateCounts' = lateCounts \union {rdPath[r]}
  /\ UNCHANGED <<rdPath, fate>>

(* No file becomes read, and no UPDATE begins or ends. *)
FilesStill ==
  /\ \A f \in Files : fate'[f] = "read" <=> fate[f] = "read"
  /\ \A r \in Readers : AtProgress(r)' <=> AtProgress(r)
  /\ \A r \in Readers : AtProgress(r) => rdPath'[r] = rdPath[r]
  /\ UNCHANGED <<filesRead, lateCounts>>

LEMMA FileSteps ==
  ASSUME TypeOK, HandsOK, Route, [Next]_vars
  PROVE  \/ \E r \in Readers : FinishesFile(r) \/ CountsFile(r)
         \/ \E f \in lateCounts : LandCount(f)
         \/ FilesStill
<1> USE DEF preVars, rdVars, jobVars
<1>0. /\ files \in Seq(Files) /\ validFiles \in Seq(Files)
      /\ fate \in [Files -> Fates]
      /\ rdPc \in [Readers -> ReaderPcs]
      /\ rdPath \in [Readers -> Files \union {NoFile}]
  BY DEF TypeOK
<1>1. ASSUME UNCHANGED <<rdPc, rdPath, filesRead, lateCounts>>,
             \A f \in Files : fate'[f] = "read" <=> fate[f] = "read"
      PROVE  FilesStill
  BY <1>1 DEF FilesStill, AtProgress
<1>2. ASSUME NEW w \in PreChecks, PreCheck(w) PROVE FilesStill
  <2>1. UNCHANGED <<rdPc, rdPath, filesRead, lateCounts>>
    BY <1>2 DEF PreCheck, PreCheckTake, PreCheckInsert, PreCheckSend,
       PreCheckExit, notInPre
  <2>2. CASE PreCheckTake(w)
    <3>1. files # <<>> /\ \E x \in {"unchecked", "checking"} :
            fate' = [fate EXCEPT ![Head(files)] = x]
      BY <2>2 DEF PreCheckTake, SetFate
    <3>2. Head(files) \in Files /\ Queued(Head(files), files)
      BY <3>1, <1>0, TailFacts DEF Queued
    <3>3. fate[Head(files)] = "pending"
      BY <3>2 DEF Route, InFiles
    <3> QED
      BY <1>0, <1>1, <2>1, <3>1, <3>2, <3>3
  <2>3. CASE PreCheckInsert(w) \/ PreCheckSend(w)
    <3>1. Holding(w) /\ (fate' = fate \/
            \E x \in {"duplicate", "unchecked", "valid", "aborted"} :
              fate' = [fate EXCEPT ![prePath[w]] = x])
      BY <2>3 DEF PreCheckInsert, PreCheckSkip, PreCheckSend, SetFate, Holding
    <3>2. prePath[w] \in Files /\ fate[prePath[w]] = "checking"
      BY <3>1 DEF HandsOK, Route, InPreChecks
    <3> QED
      BY <1>0, <1>1, <2>1, <3>1, <3>2
  <2>4. CASE PreCheckExit(w)
    BY <2>4, <2>1, <1>1 DEF PreCheckExit
  <2> QED
    BY <1>2, <2>2, <2>3, <2>4 DEF PreCheck
<1>3. ASSUME NEW r \in Readers, ReaderTake(r) PROVE FilesStill
  <2>1. /\ validFiles # <<>> /\ UNCHANGED <<filesRead, lateCounts>>
        /\ rdPc[r] = "recv"
        /\ \E x \in {"aborted", "unreadable", "reading"} :
             fate' = [fate EXCEPT ![Head(validFiles)] = x]
        /\ \E pc \in {"recv", "done", "fill"} : rdPc' = [rdPc EXCEPT ![r] = pc]
        /\ \A t \in Readers : t # r => rdPath'[t] = rdPath[t]
    BY <1>3, <1>0 DEF ReaderTake, SetFate, notInReader
  <2>2. Head(validFiles) \in Files /\ Queued(Head(validFiles), validFiles)
    BY <2>1, <1>0, TailFacts DEF Queued
  <2>3. fate[Head(validFiles)] = "valid"
    BY <2>2 DEF Route, InValidFiles
  <2>4. \A f \in Files : fate'[f] = "read" <=> fate[f] = "read"
    BY <1>0, <2>1, <2>2, <2>3
  <2> QED
    BY <1>0, <2>1, <2>4 DEF FilesStill, AtProgress
<1>4. ASSUME NEW r \in Readers, ReaderFill(r) \/ ReaderSend(r)
      PROVE  FilesStill \/ FinishesFile(r)
  <2>1. UNCHANGED <<rdPath, filesRead, lateCounts>> /\ Reading(r) /\ ~AtProgress(r)
    BY <1>4 DEF ReaderFill, ReaderSend, Reading, AtProgress
  <2>2. rdPath[r] \in Files /\ fate[rdPath[r]] = "reading"
    BY <2>1 DEF HandsOK, Route, InReaders
  <2>3. \/ ReaderFileDone(r)
        \/ /\ fate' = fate \/ fate' = [fate EXCEPT ![rdPath[r]] = "aborted"]
           /\ \E pc \in {"recv", "fill", "send", "spin"} :
                rdPc' = rdPc \/ rdPc' = [rdPc EXCEPT ![r] = pc]
    BY <1>4 DEF ReaderFill, ReaderSend, ReaderGiveUp, SetFate
  <2>4. CASE ReaderFileDone(r)
    BY <2>1, <2>2, <2>4 DEF ReaderFileDone, SetFate, FinishesFile
  <2>5. CASE /\ fate' = fate \/ fate' = [fate EXCEPT ![rdPath[r]] = "aborted"]
             /\ \E pc \in {"recv", "fill", "send", "spin"} :
                  rdPc' = rdPc \/ rdPc' = [rdPc EXCEPT ![r] = pc]
    <3>1. \A f \in Files : fate'[f] = "read" <=> fate[f] = "read"
      BY <1>0, <2>2, <2>5
    <3>2. \A t \in Readers : AtProgress(t)' <=> AtProgress(t)
      BY <1>0, <2>1, <2>5 DEF AtProgress
    <3> QED
      BY <2>1, <3>1, <3>2 DEF FilesStill
  <2> QED
    BY <2>3, <2>4, <2>5
<1>5. ASSUME NEW r \in Readers, ReaderProgress(r) PROVE CountsFile(r)
  BY <1>5 DEF ReaderProgress, CountsFile, AtProgress
<1>6. ASSUME NEW r \in Readers, ReaderExit(r) PROVE FilesStill
  <2>1. /\ rdPc[r] = "recv" /\ rdPc' = [rdPc EXCEPT ![r] = "done"]
        /\ UNCHANGED <<rdPath, fate, filesRead, lateCounts>>
    BY <1>6 DEF ReaderExit
  <2> QED
    BY <2>1, <1>0 DEF FilesStill, AtProgress
<1>7. CASE UNCHANGED <<rdVars, fate, filesRead, lateCounts>>
  BY <1>7, <1>1
<1>8. CASE Land
  BY <1>7, <1>8 DEF Land, LandInsert, LandCopy, LandFail, LandEnd, notInServer
<1> QED
  BY <1>2, <1>3, <1>4, <1>5, <1>6, <1>7, <1>8 DEF Next, Reader, Saver, SaverTake,
     SaverCopy, SaverFail, SaverAbort, SaverThrottle, SaverExit, Main,
     MainCollect, MainReport, MainReturn, CancelJob, CloseValid, CloseStream,
     Terminated, vars, lateVars, notInSaver, notInMain

LEMMA FilesFinite == IsFiniteSet(Files)
<1>1. FilePaths \in [1..Len(FilePaths) -> Files] /\ Len(FilePaths) \in Nat
  BY FilesFacts
<1>2. FilePaths \in Surjection(1..Len(FilePaths), Files)
  BY <1>1, FilesFacts DEF Surjection
<1>3. IsFiniteSet(1..Len(FilePaths))
  BY <1>1, FS_Interval
<1> QED
  BY <1>2, <1>3, FS_Surjection

LEMMA AccountedFacts ==
  /\ IsFiniteSet(Accounted) /\ Cardinality(Accounted) \in Nat
  /\ \A f \in Files : f \notin Accounted =>
       Cardinality(Accounted \union {f}) = Cardinality(Accounted) + 1
  /\ IsFiniteSet(FilesWith("read")) /\ Cardinality(FilesWith("read")) \in Nat
  /\ Cardinality(Accounted) <= Cardinality(FilesWith("read"))
  /\ \A f \in FilesWith("read") \ Accounted :
       Cardinality(Accounted) < Cardinality(FilesWith("read"))
<1>1. Accounted \subseteq FilesWith("read") /\ FilesWith("read") \subseteq Files
  BY DEF Accounted, FilesWith
<1>2. IsFiniteSet(FilesWith("read"))
  BY <1>1, FilesFinite, FS_Subset
<1>3. /\ IsFiniteSet(Accounted)
      /\ Cardinality(Accounted) <= Cardinality(FilesWith("read"))
      /\ Cardinality(Accounted) = Cardinality(FilesWith("read")) =>
           Accounted = FilesWith("read")
  BY <1>1, <1>2, FS_Subset
<1>4. Cardinality(FilesWith("read")) \in Nat /\ Cardinality(Accounted) \in Nat
  BY <1>2, <1>3, FS_CardinalityType
<1>5. \A f \in Files : f \notin Accounted =>
        Cardinality(Accounted \union {f}) = Cardinality(Accounted) + 1
  BY <1>3, FS_AddElement
<1>6. \A f \in FilesWith("read") \ Accounted :
        Cardinality(Accounted) < Cardinality(FilesWith("read"))
  BY <1>3, <1>4
<1> QED
  BY <1>2, <1>3, <1>4, <1>5, <1>6

LEMMA CountedInit == Init => Counted
<1> SUFFICES ASSUME Init PROVE Counted
  OBVIOUS
<1>1. filesRead = 0 /\ lateCounts = {} /\ \A r \in Readers : ~AtProgress(r)
  BY DEF Init, AtProgress
<1> QED
  BY <1>1, AccountedFacts DEF Counted

LEMMA CountedNext == Inv /\ Counted /\ [Next]_vars => Counted'
<1> SUFFICES ASSUME Inv, Counted, [Next]_vars PROVE Counted'
  OBVIOUS
<1>0. /\ fate \in [Files -> Fates] /\ rdPc \in [Readers -> ReaderPcs]
      /\ filesRead \in Nat /\ lateCounts \subseteq Files
  BY DEF Inv, TypeOK
<1>1. CASE FilesStill
  <2>1. \A r \in Readers : AtProgress(r)' =>
          AtProgress(r) /\ rdPath'[r] = rdPath[r]
    BY <1>1 DEF FilesStill
  <2>2. Accounted' = Accounted
    BY <1>1 DEF FilesStill, Accounted
  <2> QED
    BY <1>0, <1>1, <2>1, <2>2 DEF FilesStill, Counted
<1>2. ASSUME NEW r \in Readers, FinishesFile(r) PROVE Counted'
  <2>1. /\ fate[rdPath[r]] = "reading" /\ rdPath[r] \in Files
        /\ UNCHANGED <<rdPath, filesRead, lateCounts>> /\ ~AtProgress(r)
    BY <1>2 DEF FinishesFile, Inv, Route, InReaders, Reading, AtProgress
  <2>2. /\ \A t \in Readers : AtProgress(t) => rdPath[t] # rdPath[r]
        /\ rdPath[r] \notin lateCounts
    BY <2>1 DEF Counted
  <2>3. \A t \in Readers : AtProgress(t)' => AtProgress(t) \/ t = r
    BY <1>2, <1>0 DEF FinishesFile, AtProgress
  <2>4. \A f \in Files : fate'[f] = "read" <=> fate[f] = "read" \/ f = rdPath[r]
    BY <1>2, <1>0, <2>1 DEF FinishesFile
  <2>7. \A f \in lateCounts' : fate'[f] = "read"
    BY <1>0, <2>1, <2>4 DEF Counted
  <2>5. CASE ctxDone
    <3>1. \A t \in Readers : AtProgress(t)' <=> AtProgress(t)
      BY <1>2, <1>0, <2>1, <2>5 DEF FinishesFile, AtProgress
    <3>2. Accounted' = Accounted \union {rdPath[r]} /\ rdPath[r] \notin Accounted
      BY <2>1, <2>2, <2>4, <3>1 DEF Accounted
    <3>3. filesRead' <= Cardinality(Accounted')
      BY <1>0, <2>1, <3>2, AccountedFacts DEF Counted
    <3> QED
      BY <2>1, <2>4, <2>7, <3>1, <3>3 DEF Counted
  <2>6. CASE ~ctxDone
    <3>1. \A t \in Readers : AtProgress(t)' <=> AtProgress(t) \/ t = r
      BY <1>2, <1>0, <2>6 DEF FinishesFile, AtProgress
    <3>2. Accounted' = Accounted
      BY <2>1, <2>4, <3>1 DEF Accounted
    <3> QED
      BY <2>1, <2>2, <2>4, <2>7, <3>1, <3>2 DEF Counted
  <2> QED
    BY <2>5, <2>6
<1>3. ASSUME NEW r \in Readers, CountsFile(r) PROVE Counted'
  <2>1. /\ rdPath[r] \in Files /\ fate[rdPath[r]] = "read"
        /\ UNCHANGED <<rdPath, fate>> /\ AtProgress(r)
        /\ rdPath[r] \notin lateCounts
    BY <1>3 DEF CountsFile, Counted
  <2>2. \A t \in Readers : AtProgress(t)' <=> AtProgress(t) /\ t # r
    BY <1>3, <1>0 DEF CountsFile, AtProgress
  <2>3. \A t \in Readers : AtProgress(t) /\ rdPath[t] = rdPath[r] => t = r
    BY <2>1 DEF Counted
  <2>4. CASE filesRead' \in {filesRead, filesRead + 1} /\ UNCHANGED lateCounts
    <3>1. Accounted' = Accounted \union {rdPath[r]} /\ rdPath[r] \notin Accounted
      BY <2>1, <2>2, <2>3, <2>4 DEF Accounted
    <3>2. filesRead' <= Cardinality(Accounted')
      BY <1>0, <2>1, <2>4, <3>1, AccountedFacts DEF Counted
    <3> QED
      BY <2>1, <2>2, <2>4, <3>2 DEF Counted
  <2>5. CASE UNCHANGED filesRead /\ lateCounts' = lateCounts \union {rdPath[r]}
    <3>1. Accounted' = Accounted
      BY <2>1, <2>2, <2>3, <2>5 DEF Accounted
    <3> QED
      BY <2>1, <2>2, <2>3, <2>5, <3>1 DEF Counted
  <2> QED
    BY <1>3, <2>4, <2>5 DEF CountsFile
<1>4. ASSUME NEW f \in lateCounts, LandCount(f) PROVE Counted'
  <2>1. /\ UNCHANGED <<rdPc, rdPath, fate>> /\ lateCounts' = lateCounts \ {f}
        /\ filesRead' = filesRead + 1
    BY <1>4 DEF LandCount, notInServer, rdVars
  <2>2. Accounted' = Accounted \union {f} /\ f \in Files \ Accounted
    BY <1>0, <2>1 DEF Accounted, AtProgress, Counted
  <2>3. filesRead' <= Cardinality(Accounted')
    BY <1>0, <2>1, <2>2, AccountedFacts DEF Counted
  <2> QED
    BY <2>1, <2>3 DEF Counted, AtProgress
<1> QED
  BY <1>1, <1>2, <1>3, <1>4, FileSteps DEF Inv

LEMMA CountedInvariance == Spec => [](Inv /\ Counted)
BY InvInit, InvNext, CountedInit, CountedNext, PTL DEF Spec

(* However readers finish, fail or are cancelled between the end of a file *)
(* and the answer of UpdateJobProgress, files_read stays within the number *)
(* of files that were read to the end.                                     *)
THEOREM ProgressNeverOverstates == Spec => []ProgressHonest
<1>1. Inv /\ Counted => ProgressHonest
  BY AccountedFacts DEF Inv, TypeOK, Counted, ProgressHonest
<1> QED
  BY <1>1, CountedInvariance, PTL

-----------------------------------------------------------------------------
(* The pipeline implements ExtractionJob. *)

LEMMA JobInit == Init => Job!Init
<1> SUFFICES ASSUME Init PROVE Job!Init
  OBVIOUS
<1>1. FilesWith("read") = {}
  BY DEF Init, FilesWith
<1>2. ~Stopped
  BY DEF Init, Stopped
<1>3. Stopped = FALSE
  BY <1>2 DEF Stopped
<1> QED
  BY <1>1, <1>3 DEF Init, Job!Init

(* A step that leaves what a client sees alone is a stutter of the job. *)
LEMMA JobStutters ==
  ASSUME UNCHANGED <<copies, lateCopies, lateFails, status, filesRead, mainPc>>,
         FilesWith("read")' = FilesWith("read"), Stopped' = Stopped
  PROVE  UNCHANGED Job!vars
BY DEF Job!vars

(* What a step does to the files, as ExtractionJob sees it. *)
LEMMA JobFiles ==
  ASSUME FilesStill
  PROVE  UNCHANGED <<FilesWith("read"), filesRead>>
BY DEF FilesStill, FilesWith

(* The instance has a Cardinality of its own, with the same definition. *)
LEMMA SameCardinality == \A S : Job!Cardinality(S) = Cardinality(S)
BY DEF Job!Cardinality, Cardinality

(* The server counts a file late. *)
LEMMA JobOfCount ==
  ASSUME Inv, Counted, NEW f \in lateCounts, LandCount(f)
  PROVE  Job!CountFile
<1>1. filesRead \in Nat /\ f \in FilesWith("read") \ Accounted
  BY DEF Inv, TypeOK, Counted, FilesWith, Accounted
<1>2. filesRead < Cardinality(FilesWith("read"))
  BY <1>1, AccountedFacts DEF Counted
<1>3. /\ UNCHANGED <<copies, lateCopies, lateFails, status, mainPc, fate, ctxDone,
                      svPc>>
      /\ filesRead' = filesRead + 1
  BY DEF LandCount, notInServer, svVars
<1>4. FilesWith("read")' = FilesWith("read") /\ Stopped' = Stopped
  BY <1>3 DEF FilesWith, Stopped
<1> QED
  BY <1>2, <1>3, <1>4, SameCardinality DEF Job!CountFile

LEMMA JobOfReader ==
  ASSUME Inv, Counted, [Next]_vars, NEW r \in Readers, Reader(r)
  PROVE  [Job!Next]_(Job!vars)
<1> USE DEF svVars
<1>0. /\ fate \in [Files -> Fates] /\ filesRead \in Nat
  BY DEF Inv, TypeOK
<1>1. UNCHANGED <<ctxDone, svPc, mainPc, copies, lateCopies, lateFails, status>>
  BY DEF Reader, ReaderTake, ReaderFill, ReaderSend, ReaderProgress, ReaderExit,
     notInReader
<1>2. Stopped' = Stopped
  BY <1>1 DEF Stopped
<1>3. CASE FilesStill
  BY <1>1, <1>2, <1>3, JobFiles, JobStutters
<1>4. ASSUME NEW t \in Readers, FinishesFile(t) PROVE [Job!Next]_(Job!vars)
  <2>1. rdPath[t] \in Files /\ UNCHANGED filesRead /\ Reading(t)
    BY <1>4 DEF FinishesFile
  <2>2. FilesWith("read")' = FilesWith("read") \union {rdPath[t]}
    BY <1>0, <1>4, <2>1 DEF FilesWith, FinishesFile
  <2>3. mainPc # "collect" => Stopped
    <3>1. SUFFICES ASSUME mainPc # "collect", ~ctxDone PROVE FALSE
      BY DEF Stopped
    <3>2. \A s \in Savers : svPc[s] = "done"
      BY <3>1 DEF Inv, Ending
    <3>3. streamClosed
      BY <3>1, <3>2, JobPipelineAssumption DEF Inv, Ending
    <3>4. rdPc[t] = "done"
      BY <3>3 DEF Inv, Ending
    <3> QED
      BY <3>4, <2>1 DEF Reading
  <2>4. Job!FileRead(rdPath[t])
    BY <1>1, <1>2, <2>1, <2>2, <2>3 DEF Job!FileRead
  <2> QED
    BY <2>1, <2>4 DEF Job!Next
<1>5. ASSUME NEW t \in Readers, CountsFile(t) PROVE [Job!Next]_(Job!vars)
  <2>1. /\ rdPath[t] \in FilesWith("read") \ Accounted
        /\ FilesWith("read")' = FilesWith("read")
        /\ filesRead' \in {filesRead, filesRead + 1}
    BY <1>5 DEF CountsFile, Counted, FilesWith, Accounted
  <2>2. filesRead < Cardinality(FilesWith("read"))
    BY <1>0, <2>1, AccountedFacts DEF Counted
  <2>3. CASE filesRead' = filesRead
    BY <1>1, <1>2, <2>1, <2>3, JobStutters
  <2>4. CASE filesRead' = filesRead + 1
    <3>1. Job!CountFile
      BY <1>1, <1>2, <2>1, <2>2, <2>4, SameCardinality DEF Job!CountFile
    <3> QED
      BY <3>1 DEF Job!Next
  <2> QED
    BY <2>1, <2>3, <2>4
<1> QED
  BY <1>3, <1>4, <1>5, JobOfCount, FileSteps DEF Inv, Job!Next

LEMMA JobOfSaver ==
  ASSUME Inv, NEW s \in Savers, Saver(s)
  PROVE  [Job!Next]_(Job!vars)
<1>0. svPc \in [Savers -> SaverPcs] /\ copies \in [Packets -> Nat]
      /\ svBatch \in [Savers -> SUBSET Packets]
  BY DEF Inv, TypeOK
<1>1. UNCHANGED <<mainPc, filesRead, fate>>
  BY DEF Saver, SaverTake, SaverCopy, SaverFail, SaverAbort, SaverThrottle,
     SaverExit, notInSaver
<1>2. FilesWith("read")' = FilesWith("read")
  BY <1>1 DEF FilesWith
<1>3. mainPc = "collect"
  BY DEF Saver, SaverTake, SaverCopy, SaverFail, SaverAbort, SaverThrottle,
     SaverExit, Inv, Ending
<1>4. \A t \in Savers : t # s => svPc'[t] = svPc[t]
  BY <1>0 DEF Saver, SaverTake, SaverCopy, SaverGivesUp, SaverFail, SaverAbort,
     SaverThrottle, SaverExit, SaverGoes
<1>5. CASE SaverTake(s) \/ SaverThrottle(s) \/ SaverExit(s)
  <2>1. UNCHANGED <<copies, lateCopies, lateFails, status, ctxDone>>
    BY <1>5 DEF SaverTake, SaverThrottle, SaverExit
  <2>2. svPc[s] \notin {"fail", "abort"} /\ svPc'[s] \notin {"fail", "abort"}
    BY <1>5, <1>0 DEF SaverTake, SaverThrottle, SaverExit, SaverGoes
  <2>3. Stopped' = Stopped
    BY <1>4, <2>1, <2>2 DEF Stopped
  <2> QED
    BY <1>1, <1>2, <2>1, <2>3, JobStutters
<1>6. CASE SaverCopy(s)
  <2>1. svPc[s] = "copy" /\ UNCHANGED <<status, ctxDone, lateFails>>
    BY <1>6 DEF SaverCopy
  <2>2. /\ svBatch[s] \in SUBSET (Packets \ UNION lateCopies)
        /\ \A p \in svBatch[s] : copies[p] = 0
    BY <1>0 DEF Inv, Apart, SaversApart, Clear, Late
  <2>3. Job!Fresh(svBatch[s])
    BY <2>2 DEF Job!Fresh
  <2>5. CASE /\ InsertRows(svBatch[s]) /\ UNCHANGED lateCopies
             /\ \E pc \in {"recv", "throttle"} : SaverGoes(s, pc)
    <3>1. svPc'[s] \in {"recv", "throttle"}
      BY <2>5, <1>0 DEF SaverGoes
    <3>2. Stopped' = Stopped
      BY <1>4, <2>1, <3>1 DEF Stopped
    <3>3. copies' = [p \in Packets |-> IF p \in svBatch[s] THEN 1 ELSE copies[p]]
      BY <1>0, <2>2, <2>5 DEF InsertRows
    <3>4. Job!StoreRows(svBatch[s])
      BY <3>3 DEF Job!StoreRows
    <3>5. Job!Store
      BY <1>1, <1>2, <1>3, <2>1, <2>2, <2>3, <2>5, <3>2, <3>4 DEF Job!Store
    <3> QED
      BY <3>5 DEF Job!Next
  <2>6. CASE /\ lateCopies' \in {lateCopies, lateCopies \union {svBatch[s]}}
             /\ SaverGivesUp(s) /\ UNCHANGED copies
    <3>1. ctxDone' \/ svPc'[s] = "fail"
      BY <2>6, <2>1, <1>0 DEF SaverGivesUp, SaverGoes
    <3>2. Stopped'
      BY <3>1 DEF Stopped
    <3>3. Stopped' = TRUE
      BY <3>2 DEF Stopped
    <3>4. Job!BreakOff
      BY <1>1, <1>2, <1>3, <2>1, <2>2, <2>3, <2>6, <3>3 DEF Job!BreakOff
    <3> QED
      BY <3>4 DEF Job!Next
  <2> QED
    BY <1>6, <2>5, <2>6 DEF SaverCopy
<1>7. CASE SaverFail(s)
  <2>1. /\ svPc[s] = "fail" /\ svPc'[s] = "abort"
        /\ UNCHANGED <<copies, lateCopies>>
        /\ \/ status' = "FAILED" /\ UNCHANGED lateFails
           \/ UNCHANGED <<status, lateFails>>
           \/ s \in lateFails' /\ UNCHANGED status
    BY <1>7, <1>0 DEF SaverFail, SaverGoes
  <2>2. Stopped /\ Stopped'
    BY <2>1 DEF Stopped
  <2>3. Stopped' = Stopped
    BY <2>2 DEF Stopped
  <2>4. CASE UNCHANGED <<status, lateFails>>
    BY <1>1, <1>2, <2>1, <2>3, <2>4, JobStutters
  <2>5. CASE \/ status' = "FAILED" /\ UNCHANGED lateFails
             \/ s \in lateFails' /\ UNCHANGED status
    <3>1. UNCHANGED lateFails \/ (lateFails' # {}) = TRUE
      BY <2>5
    <3>2. Job!Fail
      BY <1>1, <1>2, <1>3, <2>1, <2>2, <2>3, <2>5, <3>1 DEF Job!Fail
    <3> QED
      BY <3>2 DEF Job!Next
  <2> QED
    BY <2>1, <2>4, <2>5
<1>8. CASE SaverAbort(s)
  <2>1. svPc[s] = "abort" /\ ctxDone'
        /\ UNCHANGED <<copies, lateCopies, lateFails, status>>
    BY <1>8 DEF SaverAbort
  <2>2. Stopped /\ Stopped'
    BY <2>1 DEF Stopped
  <2>3. Stopped' = Stopped
    BY <2>2 DEF Stopped
  <2> QED
    BY <1>1, <1>2, <2>1, <2>3, JobStutters
<1> QED
  BY <1>5, <1>6, <1>7, <1>8 DEF Saver

LEMMA JobOfServer ==
  ASSUME Inv, Counted, Land
  PROVE  [Job!Next]_(Job!vars)
<1>1. UNCHANGED <<ctxDone, svPc, mainPc, fate>>
  BY DEF Land, LandInsert, LandCount, LandCopy, LandFail, LandEnd, notInServer,
     svVars
<1>2. FilesWith("read")' = FilesWith("read") /\ Stopped' = Stopped
  BY <1>1 DEF FilesWith, Stopped
<1>3. ASSUME NEW sum \in lateSums, LandInsert(sum) PROVE UNCHANGED Job!vars
  BY <1>1, <1>2, <1>3, JobStutters DEF LandInsert, jobVars
<1>4. ASSUME NEW batch \in lateCopies, LandCopy(batch) PROVE Job!StoreLate
  <2>1. /\ \A p \in batch : copies[p] = 0
        /\ copies \in [Packets -> Nat]
    BY DEF Inv, TypeOK, Apart, LateApart
  <2>2. copies' = [p \in Packets |-> IF p \in batch THEN 1 ELSE copies[p]]
    BY <1>4, <2>1 DEF LandCopy, InsertRows
  <2>3. Job!Fresh(batch) /\ Job!StoreRows(batch)
    BY <2>1, <2>2 DEF Job!Fresh, Job!StoreRows
  <2>4. lateCopies' = lateCopies \ {batch} /\ UNCHANGED <<lateFails, jobVars>>
    BY <1>4 DEF LandCopy
  <2> QED
    BY <1>1, <1>2, <2>3, <2>4 DEF Job!StoreLate, jobVars
<1>5. ASSUME NEW s \in lateFails, LandFail(s) PROVE Job!FailLate
  <2>1. /\ status' = "FAILED" /\ UNCHANGED <<copies, lateCopies, filesRead>>
        /\ lateFails # {}
    BY <1>5 DEF LandFail
  <2>2. (lateFails' # {}) \in BOOLEAN
    OBVIOUS
  <2> QED
    BY <1>1, <1>2, <2>1, <2>2 DEF Job!FailLate
<1>6. CASE LandEnd
  <2>1. /\ status' = "COMPLETED"
        /\ UNCHANGED <<copies, lateCopies, lateFails, filesRead>>
    BY <1>6 DEF LandEnd
  <2>2. mainPc # "collect"
    BY <1>6 DEF LandEnd, Inv, Ending
  <2> QED
    BY <1>1, <1>2, <2>1, <2>2 DEF Job!Complete, Job!Next
<1> QED
  BY <1>3, <1>4, <1>5, <1>6, JobOfCount DEF Land, Job!Next

LEMMA JobNext == Inv /\ Counted /\ [Next]_vars => [Job!Next]_(Job!vars)
<1> SUFFICES ASSUME Inv, Counted, [Next]_vars PROVE [Job!Next]_(Job!vars)
  OBVIOUS
<1> USE DEF svVars, rdVars, jobVars
<1>1. CASE CancelJob \/ MainReturn
  <2>1. /\ ctxDone' /\ UNCHANGED <<fate, copies, lateCopies, lateFails, status, filesRead>>
        /\ (mainPc' # "collect") = (mainPc # "collect")
    BY <1>1 DEF CancelJob, MainReturn, lateVars, notInMain
  <2>2. FilesWith("read")' = FilesWith("read")
    BY <2>1 DEF FilesWith
  <2>3. Stopped' = TRUE
    BY <2>1 DEF Stopped
  <2>4. Job!Cancel
    BY <2>1, <2>2, <2>3 DEF Job!Cancel
  <2> QED
    BY <2>4 DEF Job!Next
<1>2. CASE \/ \E w \in PreChecks : PreCheck(w)
           \/ CloseValid \/ CloseStream \/ UNCHANGED vars
  <2>1. UNCHANGED <<ctxDone, svPc, rdPc, copies, lateCopies, lateFails, status,
                    filesRead, mainPc>>
    BY <1>2 DEF PreCheck, PreCheckTake, PreCheckInsert, PreCheckSend,
       PreCheckExit, CloseValid, CloseStream, lateVars, notInPre, vars
  <2>2. Stopped' = Stopped
    BY <2>1 DEF Stopped
  <2>3. FilesStill
    <3>1. rdPc \in [Readers -> ReaderPcs] /\ filesRead \in Nat
      BY DEF Inv, TypeOK
    <3>2. /\ \A t \in Readers : ~FinishesFile(t) /\ ~CountsFile(t)
          /\ \A f \in lateCounts : ~LandCount(f)
      BY <3>1, <2>1 DEF FinishesFile, CountsFile, Reading, AtProgress, LandCount
    <3> QED
      BY <3>2, FileSteps DEF Inv
  <2> QED
    BY <2>1, <2>2, <2>3, JobFiles, JobStutters
<1>3. ASSUME NEW r \in Readers, Reader(r) PROVE [Job!Next]_(Job!vars)
  BY <1>3, JobOfReader
<1>4. ASSUME NEW s \in Savers, Saver(s) PROVE [Job!Next]_(Job!vars)
  BY <1>4, JobOfSaver
<1>5. CASE MainCollect
  <2>1. /\ UNCHANGED <<copies, lateCopies, lateFails, fate, ctxDone, svPc, status,
                       filesRead>>
        /\ mainPc' = "report"
    BY <1>5 DEF MainCollect, notInMain
  <2>2. Stopped' = Stopped
    BY <2>1 DEF Stopped
  <2>3. FilesWith("read")' = FilesWith("read")
    BY <2>1 DEF FilesWith
  <2>4. Stopped \/ \A f \in FilesWith("read") : \A p \in RowsOf(f) : copies[p] = 1
    <3>1. NoSilentLoss'
      BY InvNext, AllIsStored, PTL
    <3> QED
      BY <3>1, <2>1 DEF NoSilentLoss, Stopped, FilesWith
  <2>5. Job!End
    BY <2>1, <2>2, <2>3, <2>4 DEF Job!End
  <2> QED
    BY <2>5 DEF Job!Next
<1>6. CASE MainReport
  <2>1. /\ UNCHANGED <<copies, lateCopies, lateFails, fate, ctxDone, svPc,
                       filesRead>>
        /\ mainPc = "report" /\ mainPc' = "return"
        /\ status' \in {status, "COMPLETED"}
    BY <1>6 DEF MainReport, notInMain
  <2>2. Stopped' = Stopped
    BY <2>1 DEF Stopped
  <2>3. FilesWith("read")' = FilesWith("read")
    BY <2>1 DEF FilesWith
  <2>4. CASE status' = status
    BY <2>1, <2>2, <2>3, <2>4 DEF Job!vars
  <2>5. CASE status' = "COMPLETED"
    <3>1. Job!Complete
      BY <2>1, <2>2, <2>3, <2>5 DEF Job!Complete
    <3> QED
      BY <3>1 DEF Job!Next
  <2> QED
    BY <2>1, <2>4, <2>5
<1> QED
  BY <1>1, <1>2, <1>3, <1>4, <1>5, <1>6, JobOfServer DEF Next, Main, Terminated

(* Every behaviour of the goroutines is one that ExtractionJob allows:     *)
(* what ProcessWithPool, its readers, its savers and the statements they   *)
(* leave with the server let a client see in job_tracking and packet_logs  *)
(* keeps the job's promises.                                               *)
THEOREM PipelineImplementsJob == Spec => ImplementsJob
BY JobInit, JobNext, CountedInvariance, PTL DEF Spec, ImplementsJob, Job!Spec

-----------------------------------------------------------------------------
(* No batch on its way to packet_logs is empty. *)

Filled ==
  /\ \A r \in Readers : rdPc[r] = "send" => rdBatch[r] # {}
  /\ \A i \in 1..Len(packetStream) : packetStream[i] # {}
  /\ \A s \in Savers : svPc[s] = "copy" => svBatch[s] # {}
  /\ \A b \in lateCopies : b # {}

LEMMA FilledInit == Init => Filled
BY DEF Init, Filled

LEMMA FilledNext == Inv /\ Filled /\ [Next]_vars => Filled'
<1> SUFFICES ASSUME Inv, Filled, [Next]_vars PROVE Filled'
  OBVIOUS
<1> USE DEF rdVars, svVars, chanVars, jobVars
<1>0. /\ rdPc \in [Readers -> ReaderPcs] /\ rdBatch \in [Readers -> SUBSET Packets]
      /\ svPc \in [Savers -> SaverPcs] /\ svBatch \in [Savers -> SUBSET Packets]
      /\ packetStream \in Seq(SUBSET Packets)
  BY DEF Inv, TypeOK
<1>1. ASSUME NEW r \in Readers, Reader(r) PROVE Filled'
  <2>1. UNCHANGED <<svVars, lateCopies>>
    BY <1>1 DEF Reader, ReaderTake, ReaderFill, ReaderSend, ReaderProgress,
       ReaderExit, notInReader
  <2>2. CASE ReaderFill(r)
    <3>1. UNCHANGED packetStream
      BY <2>2 DEF ReaderFill
    <3>2. \A t \in Readers : t # r => rdPc'[t] = rdPc[t] /\ rdBatch'[t] = rdBatch[t]
      BY <2>2, <1>0 DEF ReaderFill, ReaderGiveUp, ReaderFileDone
    <3>3. rdPc'[r] = "send" => rdBatch'[r] # {}
      BY <2>2, <1>0 DEF ReaderFill, ReaderGiveUp, ReaderFileDone
    <3> QED
      BY <2>1, <3>1, <3>2, <3>3 DEF Filled
  <2>3. CASE ReaderSend(r)
    <3>1. rdPc[r] = "send" /\ rdBatch[r] # {} /\ rdBatch[r] \in SUBSET Packets
      BY <2>3, <1>0 DEF ReaderSend, Filled
    <3>2. \A t \in Readers : rdPc'[t] = "send" =>
            t # r /\ rdPc[t] = "send" /\ rdBatch'[t] = rdBatch[t]
      BY <2>3, <1>0 DEF ReaderSend, ReaderGiveUp, ReaderFileDone
    <3>3. packetStream' \in {packetStream, Append(packetStream, rdBatch[r])}
      BY <2>3 DEF ReaderSend
    <3>4. \A i \in 1..Len(packetStream') : packetStream'[i] # {}
      BY <3>1, <3>3, <1>0, AppendFacts DEF Filled
    <3> QED
      BY <2>1, <3>2, <3>4 DEF Filled
  <2>4. CASE ReaderTake(r) \/ ReaderProgress(r) \/ ReaderExit(r)
    <3>1. UNCHANGED <<packetStream, rdBatch>>
      BY <2>4 DEF ReaderTake, ReaderProgress, ReaderExit
    <3>2. \A t \in Readers : rdPc'[t] = "send" => rdPc[t] = "send"
      BY <2>4, <1>0 DEF ReaderTake, ReaderProgress, ReaderExit
    <3> QED
      BY <2>1, <3>1, <3>2 DEF Filled
  <2> QED
    BY <1>1, <2>2, <2>3, <2>4 DEF Reader
<1>2. ASSUME NEW s \in Savers, Saver(s) PROVE Filled'
  <2>1. UNCHANGED rdVars
    BY <1>2 DEF Saver, SaverTake, SaverCopy, SaverFail, SaverAbort, SaverThrottle,
       SaverExit, notInSaver
  <2>2. CASE SaverTake(s)
    <3>1. /\ packetStream # <<>> /\ packetStream' = Tail(packetStream)
          /\ UNCHANGED lateCopies
      BY <2>2 DEF SaverTake
    <3>2. /\ Head(packetStream) # {}
          /\ \A i \in 1..Len(packetStream') : packetStream'[i] # {}
      BY <3>1, <1>0, TailFacts DEF Filled
    <3>3. \A t \in Savers : svPc'[t] = "copy" =>
            \/ svBatch'[t] = Head(packetStream)
            \/ svPc[t] = "copy" /\ svBatch'[t] = svBatch[t]
      BY <2>2, <1>0 DEF SaverTake, SaverGoes
    <3> QED
      BY <2>1, <3>1, <3>2, <3>3 DEF Filled
  <2>3. CASE SaverCopy(s) \/ SaverFail(s) \/ SaverAbort(s) \/ SaverThrottle(s)
             \/ SaverExit(s)
    <3>1. UNCHANGED packetStream
      BY <2>3 DEF SaverCopy, SaverFail, SaverAbort, SaverThrottle, SaverExit
    <3>2. \A t \in Savers : svPc'[t] = "copy" =>
            svPc[t] = "copy" /\ svBatch'[t] = svBatch[t]
      BY <2>3, <1>0 DEF SaverCopy, SaverGivesUp, SaverFail, SaverAbort,
         SaverThrottle, SaverExit, SaverGoes
    <3>3. \A b \in lateCopies' :
            b \in lateCopies \/ (svPc[s] = "copy" /\ b = svBatch[s])
      BY <2>3 DEF SaverCopy, SaverFail, SaverAbort, SaverThrottle, SaverExit
    <3> QED
      BY <2>1, <3>1, <3>2, <3>3 DEF Filled
  <2> QED
    BY <1>2, <2>2, <2>3 DEF Saver
<1>3. CASE /\ UNCHANGED <<rdPc, rdBatch, packetStream, svVars>>
           /\ lateCopies' \subseteq lateCopies
  BY <1>3 DEF Filled
<1> QED
  BY <1>1, <1>2, <1>3 DEF Next, PreCheck, PreCheckTake, PreCheckInsert,
     PreCheckSend, PreCheckExit, Main, MainCollect, MainReport, MainReturn,
     CancelJob, CloseValid, CloseStream, Land, LandInsert, LandCount, LandCopy,
     LandFail, LandEnd, Terminated, vars, lateVars, notInPre, notInMain,
     notInServer

LEMMA FilledInvariance == Spec => [](Inv /\ Filled)
BY InvInit, InvNext, FilledInit, FilledNext, PTL DEF Spec

-----------------------------------------------------------------------------
(* The pipeline takes the steps of JobServer. *)

(* An uncancelled job collects counts until every goroutine is gone. *)
LEMMA WorkersGone ==
  ASSUME Inv, mainPc # "collect", ~ctxDone
  PROVE  /\ \A w \in PreChecks : prePc[w] = "done"
         /\ \A s \in Savers : svPc[s] = "done"
<1>1. \A s \in Savers : svPc[s] = "done"
  BY DEF Inv, Ending
<1>2. streamClosed
  BY <1>1, JobPipelineAssumption DEF Inv, Ending
<1>3. \A r \in Readers : rdPc[r] = "done"
  BY <1>2 DEF Inv, Ending
<1>4. validClosed
  BY <1>3, JobPipelineAssumption DEF Inv, Ending
<1> QED
  BY <1>1, <1>4 DEF Inv, Ending

(* A batch holds packets of a file that this job recorded. *)
LEMMA CopiesAreRecorded ==
  ASSUME Inv, Filled, packetStream # <<>>
  PROVE  own # {}
<1>1. 1 \in 1..Len(packetStream) /\ packetStream[1] \in SUBSET Packets
  BY DEF Inv, TypeOK
<1>2. PICK p \in packetStream[1] : p \in Packets
  BY <1>1 DEF Filled
<1>3. p[1] \in Files
  BY <1>2, PacketsFacts
<1>4. fate[p[1]] \in {"reading", "read", "aborted"}
  BY <1>1, <1>2 DEF Inv, Fresh, Nowhere, Streamed
<1> QED
  BY <1>3, <1>4 DEF Inv, Unique, Passed

(* How a pre-check and a saver change what the workers are at. *)
LEMMA DoingOfPreCheck ==
  ASSUME NEW w \in PreChecks, NEW y, prePc \in [PreChecks -> PrePcs],
         prePc' = [prePc EXCEPT ![w] = y], UNCHANGED svPc
  PROVE  Doing' = (Doing \ {<<w, "record">>}) \union
                    (IF y = "insert" THEN {<<w, "record">>} ELSE {})
<1> DEFINE D(p) == {x \in PreChecks \X {"record"} : p[x[1]] = "insert"}
<1>1. D(prePc') = (D(prePc) \ {<<w, "record">>}) \union
                    (IF y = "insert" THEN {<<w, "record">>} ELSE {})
  <2>1. ASSUME NEW x \in PreChecks \X {"record"}
        PROVE  /\ x = <<w, "record">> <=> x[1] = w
               /\ x[1] \in PreChecks
    OBVIOUS
  <2>2. <<w, "record">> \in PreChecks \X {"record"} /\ <<w, "record">>[1] = w
    OBVIOUS
  <2>3. prePc'[w] = y /\ \A v \in PreChecks : v # w => prePc'[v] = prePc[v]
    OBVIOUS
  <2> QED
    BY <2>1, <2>2, <2>3
<1>2. \A x \in Savers \X {"copy", "fail", "abort"} : x # <<w, "record">>
  OBVIOUS
<1> QED
  BY <1>1, <1>2 DEF Doing

LEMMA DoingOfSaver ==
  ASSUME NEW s \in Savers, NEW y, svPc \in [Savers -> SaverPcs],
         svPc' = [svPc EXCEPT ![s] = y], UNCHANGED prePc
  PROVE  Doing' = (Doing \ {<<s, svPc[s]>>}) \union
                    (IF y \in {"copy", "fail", "abort"} THEN {<<s, y>>} ELSE {})
<1> DEFINE P == {x \in PreChecks \X {"record"} : prePc[x[1]] = "insert"}
           At == {"copy", "fail", "abort"}
           D(p) == {x \in Savers \X At : p[x[1]] = x[2]}
           New == IF y \in At THEN {<<s, y>>} ELSE {}
<1>1. D(svPc') = (D(svPc) \ {<<s, svPc[s]>>}) \union New
  <2>1. svPc'[s] = y /\ \A t \in Savers : t # s => svPc'[t] = svPc[t]
    OBVIOUS
  <2>2. ASSUME NEW x \in Savers \X At
        PROVE  x \in D(svPc') <=> x \in (D(svPc) \ {<<s, svPc[s]>>}) \union New
    <3>1. x = <<x[1], x[2]>> /\ x[1] \in Savers /\ x[2] \in At
      OBVIOUS
    <3>2. CASE x[1] = s
      <4>1. x \in D(svPc') <=> x[2] = y
        BY <2>1, <3>2
      <4>2. x \notin D(svPc) \ {<<s, svPc[s]>>}
        BY <3>1, <3>2
      <4>3. x \in New <=> x[2] = y
        BY <3>1, <3>2
      <4> QED
        BY <4>1, <4>2, <4>3
    <3>3. CASE x[1] # s
      <4>1. x \in D(svPc') <=> x \in D(svPc)
        BY <2>1, <3>1, <3>3
      <4>2. x # <<s, svPc[s]>> /\ x \notin New
        BY <3>1, <3>3
      <4> QED
        BY <4>1, <4>2
    <3> QED
      BY <3>2, <3>3
  <2>3. D(svPc') \subseteq Savers \X At /\ D(svPc) \subseteq Savers \X At
        /\ New \subseteq Savers \X At
    OBVIOUS
  <2> QED
    BY <2>2, <2>3
<1>2. <<s, svPc[s]>> \notin P
  <2>1. svPc[s] # "record"
    BY DEF SaverPcs
  <2> QED
    BY <2>1
<1>3. Doing = P \union D(svPc) /\ Doing' = P \union D(svPc')
  BY DEF Doing
<1>4. Doing' = (Doing \ {<<s, svPc[s]>>}) \union New
  BY <1>1, <1>2, <1>3
<1> QED
  BY <1>4

LEMMA PreCheckLeaves ==
  ASSUME NEW w \in PreChecks, NEW y \in {"send", "recv", "done"},
         prePc \in [PreChecks -> PrePcs], prePc' = [prePc EXCEPT ![w] = y],
         UNCHANGED svPc
  PROVE  Doing' = Doing \ {<<w, "record">>}
<1>1. y # "insert"
  OBVIOUS
<1> QED
  BY <1>1, DoingOfPreCheck

LEMMA SaverLeavesOff ==
  ASSUME NEW s \in Savers, NEW y \in {"recv", "throttle", "done"},
         svPc \in [Savers -> SaverPcs], svPc' = [svPc EXCEPT ![s] = y],
         UNCHANGED prePc
  PROVE  Doing' = Doing \ {<<s, svPc[s]>>}
<1>1. y \notin {"copy", "fail", "abort"}
  OBVIOUS
<1> QED
  BY <1>1, DoingOfSaver

LEMMA DoingOfIdle ==
  ASSUME NEW s \in Savers, svPc \in [Savers -> SaverPcs], UNCHANGED prePc,
         svPc[s] \notin {"copy", "fail", "abort"},
         NEW y \in {"recv", "throttle", "done"}, svPc' = [svPc EXCEPT ![s] = y]
  PROVE  Doing' = Doing
<1>1. <<s, svPc[s]>> \notin Doing
  <2>1. svPc[s] # "record"
    BY DEF SaverPcs
  <2> QED
    BY <2>1 DEF Doing
<1>2. Doing' = Doing \ {<<s, svPc[s]>>}
  BY SaverLeavesOff
<1> QED
  BY <1>1, <1>2

(* What JobServer sees. *)
seen == <<own, copies, status, ctxDone, mainPc, Doing, Left>>

LEMMA ServerStutters == ASSUME UNCHANGED seen PROVE UNCHANGED Server!vars
BY DEF seen, Server!vars, Server!tables

(* A broken-off statement of kind x is left with the server, or is not. *)
LeavesLate(x) == Left' \in {Left, Left \union {x}}

LEMMA ComesLate ==
  ASSUME NEW x, LeavesLate(x)
  PROVE  /\ Server!MayComeLate(TRUE, Id, x)
         /\ Server!MayComeLate(Server!Broken(Id), Id, x)
<1>1. Left' = Left => UNCHANGED ({Id} \X Left)
  OBVIOUS
<1>2. Left' = Left \union {x} =>
        ({Id} \X Left)' = ({Id} \X Left) \union {<<Id, x>>}
  OBVIOUS
<1> QED
  BY <1>1, <1>2 DEF Server!MayComeLate, Server!Broken, LeavesLate

LEMMA NoneComesLate == UNCHANGED Left => UNCHANGED ({Id} \X Left)
OBVIOUS

(* The steps of JobServer, in terms of the pipeline's variables. *)
LEMMA ServerIssues ==
  ASSUME mainPc = "collect", ~ctxDone,
         NEW w \in PreChecks \union Savers, NEW x \in {"record", "copy"},
         <<w, x>> \notin Doing,
         x = "copy" => /\ own # {}
                       /\ <<w, "fail">> \notin Doing /\ <<w, "abort">> \notin Doing,
         Doing' = Doing \union {<<w, x>>},
         UNCHANGED <<own, copies, status, ctxDone, mainPc, Left>>
  PROVE  Server!Pipeline(Id)
<1>1. Server!Issue(Id, w, x)
  BY DEF Server!Issue, Server!Starts, Server!tables
<1> QED
  BY <1>1 DEF Server!Pipeline

LEMMA ServerRecorded ==
  ASSUME status \in Statuses, NEW w \in PreChecks, <<w, "record">> \in Doing,
         Doing' = Doing \ {<<w, "record">>},
         \/ own' # {} /\ UNCHANGED Left
         \/ own' = own /\ LeavesLate("record"),
         UNCHANGED <<copies, status, ctxDone, mainPc>>
  PROVE  Server!Pipeline(Id)
<1>1. Server!RecordRuns(Id)
  BY DEF Server!RecordRuns, Statuses
<1>2. Server!Leaves(Id, w, "record")
  BY DEF Server!Leaves
<1>3. Server!Recorded(Id, w)
  <2>1. CASE own' # {} /\ UNCHANGED Left
    BY <1>1, <1>2, <2>1, NoneComesLate DEF Server!Recorded
  <2>2. CASE own' = own /\ LeavesLate("record")
    <3>1. Server!MayComeLate(Server!Broken(Id), Id, "record")
      BY <2>2, ComesLate
    <3> QED
      BY <1>2, <2>2, <3>1 DEF Server!Recorded
  <2> QED
    BY <2>1, <2>2
<1> QED
  BY <1>3 DEF Server!Pipeline

HasRows == \E p \in Packets : copies[p] # 0

LEMMA ServerCopied ==
  ASSUME NEW s \in Savers, <<s, "copy">> \in Doing, mainPc = "collect",
         \/ HasRows' /\ Doing' = Doing \ {<<s, "copy">>} /\ UNCHANGED Left
         \/ /\ UNCHANGED copies /\ LeavesLate("copy")
            /\ Doing' = (Doing \ {<<s, "copy">>}) \union
                          (IF ctxDone THEN {} ELSE {<<s, "fail">>}),
         UNCHANGED <<own, status, ctxDone, mainPc>>
  PROVE  Server!Pipeline(Id)
<1>1. Server!Copied(Id, s)
  <2>1. CASE HasRows' /\ Doing' = Doing \ {<<s, "copy">>} /\ UNCHANGED Left
    BY <2>1, NoneComesLate
       DEF Server!Copied, Server!CopyRuns, Server!Leaves, HasRows
  <2>2. CASE /\ UNCHANGED copies /\ LeavesLate("copy")
             /\ Doing' = (Doing \ {<<s, "copy">>}) \union
                           (IF ctxDone THEN {} ELSE {<<s, "fail">>})
    <3>1. Server!MayComeLate(Server!Broken(Id), Id, "copy")
      BY <2>2, ComesLate
    <3>2. CASE ctxDone
      <4>1. Server!Leaves(Id, s, "copy")
        BY <2>2, <3>2 DEF Server!Leaves
      <4> QED
        BY <2>2, <3>1, <3>2, <4>1 DEF Server!Copied
    <3>3. CASE ~ctxDone
      <4>1. Server!Turns(Id, s, "copy", "fail")
        BY <2>2, <3>3 DEF Server!Turns
      <4>2. mainPc = "collect"
        OBVIOUS
      <4> QED
        BY <2>2, <3>1, <3>3, <4>1, <4>2 DEF Server!Copied
    <3> QED
      BY <3>2, <3>3
  <2> QED
    BY <2>1, <2>2
<1> QED
  BY <1>1 DEF Server!Pipeline

LEMMA ServerFailed ==
  ASSUME NEW s \in Savers, <<s, "fail">> \in Doing, status \in Statuses,
         \/ status' = "FAILED" /\ UNCHANGED Left
         \/ status' = status /\ LeavesLate("fail"),
         Doing' = (Doing \ {<<s, "fail">>}) \union {<<s, "abort">>},
         UNCHANGED <<own, copies, ctxDone, mainPc>>
  PROVE  Server!Pipeline(Id)
<1>1. Server!Turns(Id, s, "fail", "abort")
  BY DEF Server!Turns
<1>2. CASE status' = "FAILED" /\ UNCHANGED Left
  <2>1. Server!SetStatus(Id, "FAILED")
    BY <1>2 DEF Server!SetStatus, Statuses
  <2>2. Server!Failed(Id, s)
    BY <1>1, <1>2, <2>1, NoneComesLate DEF Server!Failed
  <2> QED
    BY <2>2 DEF Server!Pipeline
<1>3. CASE status' = status /\ LeavesLate("fail")
  <2>1. Server!MayComeLate(TRUE, Id, "fail") /\ Server!Broken(Id)
    BY <1>3, ComesLate DEF Server!Broken
  <2>2. Server!Failed(Id, s)
    BY <1>1, <1>3, <2>1 DEF Server!Failed
  <2> QED
    BY <2>2 DEF Server!Pipeline
<1> QED
  BY <1>2, <1>3

LEMMA ServerAborts ==
  ASSUME NEW s \in Savers, <<s, "abort">> \in Doing, ctxDone',
         Doing' = Doing \ {<<s, "abort">>},
         UNCHANGED <<own, copies, status, mainPc, Left>>
  PROVE  Server!Pipeline(Id)
<1>1. Server!Aborts(Id, s)
  BY DEF Server!Aborts, Server!Leaves, Server!tables
<1> QED
  BY <1>1 DEF Server!Pipeline

(* What the goroutines do, one kind after the other. *)
LEMMA ServerOfPreCheck ==
  ASSUME Inv, NEW w \in PreChecks, PreCheck(w)
  PROVE  Server!Pipeline(Id) \/ UNCHANGED seen
<1> USE DEF srcVars, preVars, svVars, jobVars
<1>0. /\ prePc \in [PreChecks -> PrePcs] /\ status \in Statuses
      /\ UNCHANGED <<svPc, copies, status, ctxDone, mainPc>>
  BY DEF Inv, TypeOK, PreCheck, PreCheckTake, PreCheckInsert, PreCheckSend,
     PreCheckExit, notInPre
<1>1. <<w, "record">> \in Doing <=> prePc[w] = "insert"
  BY DEF Doing
<1>2. CASE PreCheckTake(w)
  <2>1. prePc[w] = "recv" /\ UNCHANGED <<own, Left>>
    BY <1>2 DEF PreCheckTake, Left, notInPre
  <2>2. CASE UNCHANGED preVars
    BY <1>0, <2>1, <2>2 DEF seen, Doing
  <2>3. CASE ~ctxDone /\ prePc' = [prePc EXCEPT ![w] = "insert"]
    <3>1. mainPc = "collect"
      BY <2>1, <2>3, WorkersGone
    <3>2. Doing' = Doing \union {<<w, "record">>}
      BY <1>0, <2>3, DoingOfPreCheck
    <3> QED
      BY <1>0, <1>1, <2>1, <2>3, <3>1, <3>2, ServerIssues
  <2> QED
    BY <1>2, <2>2, <2>3 DEF PreCheckTake
<1>3. CASE PreCheckInsert(w)
  <2>1. prePc[w] = "insert"
    BY <1>3 DEF PreCheckInsert
  <2>2. PICK y \in {"send", "recv"} : prePc' = [prePc EXCEPT ![w] = y]
    BY <1>3 DEF PreCheckInsert, PreCheckSkip
  <2>3. Doing' = Doing \ {<<w, "record">>}
    BY <1>0, <2>2, PreCheckLeaves
  <2>4. \/ own' # {} /\ UNCHANGED Left
        \/ own' = own /\ LeavesLate("record")
    <3>1. UNCHANGED <<lateCopies, lateFails, lateEnd>>
      BY <1>3 DEF PreCheckInsert, notInPre
    <3>2. CASE own' # {} /\ UNCHANGED lateSums
      BY <3>1, <3>2 DEF Left
    <3>3. CASE own' = own /\ UNCHANGED lateSums
      BY <3>1, <3>3 DEF Left, LeavesLate
    <3>4. CASE own' = own /\ lateSums' = lateSums \union {Checksum[prePath[w]]}
      BY <3>1, <3>4 DEF Left, LeavesLate
    <3> QED
      BY <1>3, <3>2, <3>3, <3>4 DEF PreCheckInsert, Record
  <2> QED
    BY <1>0, <1>1, <2>1, <2>3, <2>4, ServerRecorded
<1>4. CASE PreCheckSend(w) \/ PreCheckExit(w)
  <2>1. prePc[w] # "insert" /\ UNCHANGED <<own, Left>>
    BY <1>4 DEF PreCheckSend, PreCheckExit, Left, notInPre
  <2>2. PICK y \in {"recv", "done"} : prePc' = [prePc EXCEPT ![w] = y]
    BY <1>4 DEF PreCheckSend, PreCheckExit
  <2>3. Doing' = Doing \ {<<w, "record">>}
    BY <1>0, <2>2, PreCheckLeaves
  <2>4. Doing' = Doing
    BY <1>1, <2>1, <2>3
  <2> QED
    BY <1>0, <2>1, <2>4 DEF seen
<1> QED
  BY <1>2, <1>3, <1>4 DEF PreCheck

LEMMA ServerOfSaver ==
  ASSUME Inv, Filled, NEW s \in Savers, Saver(s)
  PROVE  Server!Pipeline(Id) \/ UNCHANGED seen
<1> USE DEF srcVars, preVars, svVars, jobVars
<1>0. /\ svPc \in [Savers -> SaverPcs] /\ status \in Statuses
      /\ copies \in [Packets -> Nat] /\ svBatch \in [Savers -> SUBSET Packets]
      /\ UNCHANGED <<prePc, own, mainPc>>
  BY DEF Inv, TypeOK, Saver, SaverTake, SaverCopy, SaverFail, SaverAbort,
     SaverThrottle, SaverExit, notInSaver
<1>1. \A x \in {"copy", "fail", "abort"} : <<s, x>> \in Doing <=> svPc[s] = x
  BY DEF Doing
<1>2. mainPc = "collect"
  BY DEF Saver, SaverTake, SaverCopy, SaverFail, SaverAbort, SaverThrottle,
     SaverExit, Inv, Ending
<1>3. CASE SaverTake(s)
  <2>1. /\ svPc[s] = "recv" /\ packetStream # <<>>
        /\ UNCHANGED <<copies, status, ctxDone, Left>>
    BY <1>3 DEF SaverTake, Left, notInSaver
  <2>2. <<s, svPc[s]>> \notin Doing
    BY <2>1 DEF Doing
  <2>3. CASE SaverGoes(s, "done")
    <3>1. Doing' = Doing
      BY <1>0, <2>1, <2>3, DoingOfIdle DEF SaverGoes
    <3> QED
      BY <1>0, <2>1, <3>1 DEF seen
  <2>4. CASE ~ctxDone /\ SaverGoes(s, "copy")
    <3>1. Doing' = (Doing \ {<<s, svPc[s]>>}) \union {<<s, "copy">>}
      BY <1>0, <2>4, DoingOfSaver DEF SaverGoes
    <3>2. own # {}
      BY <2>1, CopiesAreRecorded
    <3> QED
      BY <1>0, <1>1, <1>2, <2>1, <2>4, <2>2, <3>1, <3>2, ServerIssues
  <2> QED
    BY <1>3, <2>3, <2>4 DEF SaverTake
<1>4. CASE SaverCopy(s)
  <2>1. /\ svPc[s] = "copy" /\ UNCHANGED <<status, ctxDone>>
        /\ UNCHANGED <<lateSums, lateFails, lateEnd>>
    BY <1>4 DEF SaverCopy, notInSaver
  <2>2. ASSUME InsertRows(svBatch[s]) PROVE HasRows'
    <3>1. PICK p \in svBatch[s] : p \in Packets
      BY <1>0, <2>1 DEF Filled
    <3>2. copies'[p] = copies[p] + 1 /\ copies[p] \in Nat
      BY <1>0, <2>2, <3>1 DEF InsertRows
    <3> QED
      BY <3>1, <3>2 DEF HasRows
  <2>3. CASE /\ InsertRows(svBatch[s]) /\ UNCHANGED lateCopies
             /\ \E pc \in {"recv", "throttle"} : SaverGoes(s, pc)
    <3>1. Doing' = Doing \ {<<s, "copy">>}
      BY <1>0, <2>1, <2>3, SaverLeavesOff DEF SaverGoes
    <3>2. UNCHANGED Left
      BY <2>1, <2>3 DEF Left
    <3> QED
      BY <1>0, <1>1, <1>2, <2>1, <2>2, <2>3, <3>1, <3>2, ServerCopied
  <2>4. CASE /\ lateCopies' \in {lateCopies, lateCopies \union {svBatch[s]}}
             /\ UNCHANGED copies /\ SaverGivesUp(s)
    <3>1. Doing' = (Doing \ {<<s, "copy">>}) \union
                     (IF ctxDone THEN {} ELSE {<<s, "fail">>})
      <4>1. CASE ctxDone
        <5>1. svPc' = [svPc EXCEPT ![s] = "done"]
          BY <2>4, <4>1 DEF SaverGivesUp, SaverGoes
        <5>2. Doing' = Doing \ {<<s, svPc[s]>>}
          BY <1>0, <5>1, SaverLeavesOff
        <5> QED
          BY <2>1, <4>1, <5>2
      <4>2. CASE ~ctxDone
        BY <1>0, <2>1, <2>4, <4>2, DoingOfSaver DEF SaverGivesUp, SaverGoes
      <4> QED
        BY <4>1, <4>2
    <3>2. LeavesLate("copy")
      <4>1. CASE lateCopies' = lateCopies
        BY <2>1, <4>1 DEF Left, LeavesLate
      <4>2. CASE lateCopies' = lateCopies \union {svBatch[s]}
        BY <2>1, <4>2 DEF Left, LeavesLate
      <4> QED
        BY <2>4, <4>1, <4>2
    <3> QED
      BY <1>0, <1>1, <1>2, <2>1, <2>4, <3>1, <3>2, ServerCopied
  <2> QED
    BY <1>4, <2>3, <2>4 DEF SaverCopy
<1>5. CASE SaverFail(s)
  <2>1. /\ svPc[s] = "fail" /\ UNCHANGED <<copies, ctxDone>>
        /\ SaverGoes(s, "abort")
    BY <1>5 DEF SaverFail
  <2>2. Doing' = (Doing \ {<<s, "fail">>}) \union {<<s, "abort">>}
    BY <1>0, <2>1, DoingOfSaver DEF SaverGoes
  <2>3. \/ status' = "FAILED" /\ UNCHANGED Left
        \/ status' = status /\ LeavesLate("fail")
    <3>1. UNCHANGED <<lateSums, lateCopies, lateEnd>>
      BY <1>5 DEF SaverFail, notInSaver
    <3>2. CASE status' = "FAILED" /\ UNCHANGED lateFails
      BY <3>1, <3>2 DEF Left
    <3>3. CASE status' = status /\ UNCHANGED lateFails
      BY <3>1, <3>3 DEF Left, LeavesLate
    <3>4. CASE status' = status /\ lateFails' = lateFails \union {s}
      BY <3>1, <3>4 DEF Left, LeavesLate
    <3> QED
      BY <1>5, <3>2, <3>3, <3>4 DEF SaverFail
  <2> QED
    BY <1>0, <1>1, <2>1, <2>2, <2>3, ServerFailed
<1>6. CASE SaverAbort(s)
  <2>1. /\ svPc[s] = "abort" /\ ctxDone' /\ UNCHANGED <<copies, status, Left>>
        /\ SaverGoes(s, "done")
    BY <1>6 DEF SaverAbort, Left, notInSaver
  <2>2. Doing' = Doing \ {<<s, "abort">>}
    <3>1. svPc' = [svPc EXCEPT ![s] = "done"]
      BY <2>1 DEF SaverGoes
    <3>2. Doing' = Doing \ {<<s, svPc[s]>>}
      BY <1>0, <3>1, SaverLeavesOff
    <3> QED
      BY <2>1, <3>2
  <2> QED
    BY <1>0, <1>1, <2>1, <2>2, ServerAborts
<1>7. CASE SaverThrottle(s) \/ SaverExit(s)
  <2>1. /\ svPc[s] \in {"throttle", "recv"}
        /\ UNCHANGED <<copies, status, ctxDone, Left>>
        /\ \E pc \in {"recv", "done"} : SaverGoes(s, pc)
    BY <1>7 DEF SaverThrottle, SaverExit, Left, notInSaver
  <2>2. Doing' = Doing
    BY <1>0, <2>1, DoingOfIdle DEF SaverGoes
  <2> QED
    BY <1>0, <2>1, <2>2 DEF seen
<1> QED
  BY <1>3, <1>4, <1>5, <1>6, <1>7 DEF Saver

LEMMA ServerOfMain ==
  ASSUME Inv, Main
  PROVE  Server!Pipeline(Id) \/ UNCHANGED Server!vars
<1> USE DEF srcVars, preVars, svVars, jobVars
<1>0. Doing' = Doing /\ UNCHANGED <<own, copies>> /\ status \in Statuses
  BY DEF Main, MainCollect, MainReport, MainReturn, notInMain, Doing, Inv, TypeOK
<1>1. CASE MainCollect
  <2>1. /\ mainPc = "collect" /\ mainPc' = "report"
        /\ UNCHANGED <<ctxDone, status, Left>>
        /\ \A s \in Savers : svPc[s] = "done"
    BY <1>1 DEF MainCollect, CountsReceived, Left, notInMain
  <2>2. Doing \subseteq (PreChecks \union Savers) \X {"record"}
    BY <2>1 DEF Doing
  <2>3. Server!SaversGone(Id)
    BY <1>0, <2>1, <2>2 DEF Server!SaversGone, Server!tables
  <2> QED
    BY <2>3 DEF Server!Pipeline
<1>2. CASE MainReport
  <2>1. /\ mainPc = "report" /\ mainPc' = "return" /\ UNCHANGED ctxDone
        /\ UNCHANGED <<lateSums, lateCopies, lateFails>> /\ ~lateEnd
    BY <1>2 DEF MainReport, notInMain, Inv, Ending
  <2>2. CASE status' = "COMPLETED" /\ UNCHANGED lateEnd
    <3>1. UNCHANGED Left
      BY <2>1, <2>2 DEF Left
    <3>2. Server!Reports(Id)
      BY <1>0, <2>2 DEF Server!Reports, Server!SetStatus, Statuses
    <3>3. Server!Ends(Id)
      BY <1>0, <2>1, <3>1, <3>2, NoneComesLate DEF Server!Ends
    <3> QED
      BY <3>3 DEF Server!Pipeline
  <2>3. CASE status' = status /\ lateEnd' \in BOOLEAN
    <3>1. LeavesLate("complete")
      BY <2>1, <2>3 DEF Left, LeavesLate
    <3>2. Server!MayComeLate(TRUE, Id, "complete")
      BY <3>1, ComesLate, Zenon
    <3>3. Server!Ends(Id)
      BY <1>0, <2>1, <2>3, <3>2 DEF Server!Ends
    <3> QED
      BY <3>3 DEF Server!Pipeline
  <2> QED
    BY <1>2, <2>2, <2>3 DEF MainReport
<1>3. CASE MainReturn
  <2>1. mainPc = "return" /\ mainPc' = "done" /\ UNCHANGED <<status, Left>>
    BY <1>3 DEF MainReturn, Left, notInMain
  <2> QED
    BY <1>0, <2>1, NoneComesLate DEF Server!vars, Server!tables
<1> QED
  BY <1>1, <1>2, <1>3 DEF Main

(* A statement of kind x that came late was executed, or was refused. *)
LEMMA ServerLands ==
  ASSUME NEW x \in Left, Left \subseteq Server!Statements,
         Server!Executes(Id, x),
         Left' = Left \ {x} \/ (x \in {"record", "copy", "fail"} /\ Left' = Left),
         UNCHANGED <<ctxDone, mainPc, Doing>>
  PROVE  Server!Lands(Id)
<1>1. <<Id, x>> \in {Id} \X Left /\ x \in Server!Statements
  OBVIOUS
<1>2. \/ ({Id} \X Left)' = ({Id} \X Left) \ {<<Id, x>>}
      \/ x \notin {"create", "complete"} /\ UNCHANGED ({Id} \X Left)
  OBVIOUS
<1> QED
  BY <1>1, <1>2 DEF Server!Lands

LEMMA ServerOfLand ==
  ASSUME Inv, Filled, Land
  PROVE  Server!Lands(Id) \/ UNCHANGED seen
<1> USE DEF srcVars, preVars, svVars, jobVars
<1>0. /\ UNCHANGED <<ctxDone, mainPc, Doing>> /\ status \in Statuses
      /\ copies \in [Packets -> Nat] /\ lateCopies \subseteq SUBSET Packets
  BY DEF Land, LandInsert, LandCount, LandCopy, LandFail, LandEnd,
     notInServer, Doing, Inv, TypeOK
<1>1. Left \subseteq Server!Statements
  BY DEF Left, Server!Statements
<1>2. ASSUME NEW sum \in lateSums, LandInsert(sum) PROVE Server!Lands(Id)
  <2>1. UNCHANGED <<copies, status, lateCopies, lateFails, lateEnd>>
        /\ lateSums' = lateSums \ {sum}
    BY <1>2 DEF LandInsert
  <2>2. "record" \in Left /\ Left' \in {Left, Left \ {"record"}}
    BY <1>2, <2>1 DEF Left
  <2>3. own' # {} \/ own' = own
    BY <1>2 DEF LandInsert, Record
  <2>4. Server!RecordRuns(Id)
    BY <1>0 DEF Server!RecordRuns, Statuses
  <2>5. Server!Executes(Id, "record")
    <3>1. CASE own' # {}
      BY <2>1, <2>4, <3>1 DEF Server!Executes
    <3>2. CASE own' = own
      BY <2>1, <3>2 DEF Server!Executes
    <3> QED
      BY <2>3, <3>1, <3>2
  <2> QED
    BY <1>0, <1>1, <2>2, <2>5, ServerLands
<1>3. ASSUME NEW f \in lateCounts, LandCount(f) PROVE UNCHANGED seen
  BY <1>0, <1>3 DEF LandCount, seen, Left
<1>4. ASSUME NEW batch \in lateCopies, LandCopy(batch) PROVE Server!Lands(Id)
  <2>1. UNCHANGED <<own, status, lateSums, lateFails, lateEnd>>
        /\ lateCopies' = lateCopies \ {batch}
    BY <1>4 DEF LandCopy
  <2>2. "copy" \in Left /\ Left' \in {Left, Left \ {"copy"}}
    BY <1>4, <2>1 DEF Left
  <2>3. HasRows'
    <3>1. PICK p \in batch : p \in Packets
      BY <1>0, <1>4 DEF Filled
    <3>2. copies'[p] = copies[p] + 1 /\ copies[p] \in Nat
      BY <1>0, <1>4, <3>1 DEF LandCopy, InsertRows
    <3> QED
      BY <3>1, <3>2 DEF HasRows
  <2>4. Server!Executes(Id, "copy")
    BY <2>1, <2>3 DEF Server!Executes, Server!CopyRuns, HasRows
  <2> QED
    BY <1>0, <1>1, <2>2, <2>4, ServerLands
<1>5. ASSUME NEW s \in lateFails, LandFail(s) PROVE Server!Lands(Id)
  <2>1. /\ UNCHANGED <<own, copies, lateSums, lateCopies, lateEnd>>
        /\ lateFails' = lateFails \ {s} /\ status' = "FAILED"
    BY <1>5 DEF LandFail
  <2>2. "fail" \in Left /\ Left' \in {Left, Left \ {"fail"}}
    BY <1>5, <2>1 DEF Left
  <2>3. Server!SetStatus(Id, "FAILED")
    BY <1>0, <2>1 DEF Server!SetStatus, Statuses
  <2>4. Server!Executes(Id, "fail")
    BY <2>1, <2>3 DEF Server!Executes
  <2> QED
    BY <1>0, <1>1, <2>2, <2>4, ServerLands
<1>6. CASE LandEnd
  <2>1. /\ UNCHANGED <<own, copies, lateSums, lateCopies, lateFails>>
        /\ lateEnd /\ ~lateEnd' /\ status' = "COMPLETED"
    BY <1>6 DEF LandEnd
  <2>2. "complete" \in Left /\ Left' = Left \ {"complete"}
    BY <2>1 DEF Left
  <2>3. Server!Reports(Id)
    BY <1>0, <2>1 DEF Server!Reports, Server!SetStatus, Statuses
  <2>4. Server!Executes(Id, "complete")
    BY <2>1, <2>3 DEF Server!Executes
  <2> QED
    BY <1>0, <1>1, <2>2, <2>4, ServerLands
<1> QED
  BY <1>2, <1>3, <1>4, <1>5, <1>6 DEF Land

(* Whatever ProcessWithPool and its goroutines do to source_files,         *)
(* packet_logs, job_tracking and the context, in whatever order, and       *)
(* whatever the server does of it later, is what JobServer lets the        *)
(* pipeline and the statements of a job do: what is shown there of the job *)
(* routes holds with the real pipeline in place.                           *)
THEOREM PipelineStepsOfServer == Spec => StepsOfServer
<1> DEFINE Step == Server!Pipeline(Id) \/ Server!Lands(Id) \/ ServerCancels
<1>1. Inv /\ Filled /\ [Next]_vars => [Step]_(Server!vars)
  <2> SUFFICES ASSUME Inv, Filled, [Next]_vars PROVE Step \/ UNCHANGED Server!vars
    OBVIOUS
  <2> USE DEF srcVars, preVars, svVars, jobVars
  <2>1. ASSUME NEW w \in PreChecks, PreCheck(w)
        PROVE  Step \/ UNCHANGED Server!vars
    BY <2>1, ServerOfPreCheck, ServerStutters
  <2>2. ASSUME NEW s \in Savers, Saver(s)
        PROVE  Step \/ UNCHANGED Server!vars
    BY <2>2, ServerOfSaver, ServerStutters
  <2>3. CASE Main
    BY <2>3, ServerOfMain
  <2>4. CASE CancelJob
    <3>1. ctxDone' /\ UNCHANGED <<own, copies, status, lateVars, mainPc, prePc,
                                  svPc>>
      BY <2>4 DEF CancelJob
    <3>2. ServerCancels
      BY <3>1 DEF ServerCancels, Server!Cancel
    <3> QED
      BY <3>2
  <2>5. CASE \/ \E r \in Readers : Reader(r)
             \/ CloseValid \/ CloseStream \/ UNCHANGED vars
    <3>1. UNCHANGED <<own, copies, status, ctxDone, mainPc, prePc, svPc,
                      lateSums, lateCopies, lateFails, lateEnd>>
      BY <2>5 DEF Reader, ReaderTake, ReaderFill, ReaderSend, ReaderProgress,
         ReaderExit, CloseValid, CloseStream, vars, lateVars, notInReader
    <3>2. UNCHANGED seen
      BY <3>1 DEF seen, Doing, Left
    <3> QED
      BY <3>2, ServerStutters
  <2>6. CASE Land
    BY <2>6, ServerOfLand, ServerStutters
  <2> QED
    BY <2>1, <2>2, <2>3, <2>4, <2>5, <2>6 DEF Next, Terminated
<1> QED
  BY <1>1, FilledInvariance, PTL DEF Spec, StepsOfServer

-----------------------------------------------------------------------------
(* The read loop *)

(* A set without a least number would have a smallest such subset. *)
LEMMA HasLeast ==
  ASSUME NEW S \in SUBSET Nat, IsFiniteSet(S), S # {}
  PROVE  \E x \in S : \A y \in S : x <= y
<1> DEFINE Least(T) == \E x \in T : \A y \in T : x <= y
           Bad == {T \in SUBSET S : IsFiniteSet(T) /\ T # {} /\ ~Least(T)}
<1>1. SUFFICES ASSUME Bad # {}
               PROVE  FALSE
  <2>1. ~Least(S) => S \in Bad
    OBVIOUS
  <2> QED
    BY <1>1, <2>1
<1>2. Bad \subseteq FiniteSubsetsOf(S)
  BY DEF FiniteSubsetsOf
<1>3. PICK T \in Bad : \A U \in Bad : <<U, T>> \notin StrictSubsetOrdering(S)
  BY <1>1, <1>2, WFMin, FS_StrictSubsetOrderingWellFounded
<1>4. PICK x \in T : TRUE
  BY <1>3
<1> DEFINE U == T \ {x}
<1>5. IsFiniteSet(U) /\ U \in SUBSET S /\ U \subseteq T /\ U # T
  BY <1>3, <1>4, FS_RemoveElement
<1>6. U \notin Bad
  BY <1>3, <1>5 DEF StrictSubsetOrdering
<1>7. CASE U = {}
  <2>1. (\A y \in T : y = x) /\ x \in Nat
    BY <1>3, <1>4, <1>7
  <2>2. Least(T)
    BY <1>4, <2>1
  <2> QED
    BY <1>3, <2>2
<1>8. CASE U # {}
  <2>1. PICK u \in U : \A y \in U : u <= y
    BY <1>5, <1>6, <1>8
  <2>2. u \in Nat /\ x \in Nat /\ \A y \in T : y = x \/ y \in U
    BY <1>3, <1>4, <1>5, <2>1
  <2>3. CASE u <= x
    <3>1. \A y \in T : u <= y
      BY <2>1, <2>2, <2>3
    <3>2. Least(T)
      BY <1>5, <2>1, <3>1
    <3> QED
      BY <1>3, <3>2
  <2>4. CASE x <= u
    <3>1. \A y \in U : y \in Nat
      BY <1>5
    <3>2. \A y \in T : x <= y
      BY <2>1, <2>2, <2>4, <3>1
    <3>3. Least(T)
      BY <1>4, <3>2
    <3> QED
      BY <1>3, <3>3
  <2> QED
    BY <2>2, <2>3, <2>4
<1> QED
  BY <1>7, <1>8

(* One more read adds at most the row of its packet. *)
LEMMA RowsGrow ==
  ASSUME NEW f \in Files, NEW p \in Nat, NEW q \in p..Len(Content[f])
  PROVE  /\ IsFiniteSet(Rows(f, p, q)) /\ Cardinality(Rows(f, p, q)) \in Nat
         /\ q # p => /\ q-1 \in p..Len(Content[f])
                     /\ Rows(f, p, q) = Rows(f, p, q-1) \union
                          (IF Content[f][q] \in RowKinds THEN {<<f, q>>} ELSE {})
<1>1. Len(Content[f]) \in Nat
  BY FilesFacts
<1>2. IsFiniteSet((p+1)..q)
  BY <1>1, FS_Interval
<1> DEFINE J == {j \in (p+1)..q : Content[f][j] \in RowKinds}
           g == [i \in J |-> <<f, i>>]
<1>3. IsFiniteSet(J)
  BY <1>2, FS_Subset
<1>4. g \in Surjection(J, Rows(f, p, q))
  BY DEF Surjection, Rows
<1>5. IsFiniteSet(Rows(f, p, q))
  BY <1>3, <1>4, FS_Surjection
<1>6. Cardinality(Rows(f, p, q)) \in Nat
  BY <1>5, FS_CardinalityType
<1>7. ASSUME q # p
      PROVE  /\ q-1 \in p..Len(Content[f])
             /\ Rows(f, p, q) = Rows(f, p, q-1) \union
                  (IF Content[f][q] \in RowKinds THEN {<<f, q>>} ELSE {})
  <2>1. (p+1)..q = ((p+1)..(q-1)) \union {q}
    BY <1>1, <1>7
  <2> QED
    BY <1>1, <1>7, <2>1 DEF Rows
<1> QED
  BY <1>5, <1>6, <1>7

(* Wherever the read loop of a PcapWorker is entered with an empty batch,  *)
(* it comes to exactly one place where it sends, finishes the file or      *)
(* keeps failing: no content of a file leaves ReaderFill without a step or *)
(* with a choice.                                                          *)
THEOREM ReadLoopPauses ==
  ASSUME NEW f \in Files, NEW p \in 0..Len(Content[f])
  PROVE  \E q \in p..Len(Content[f]) :
           /\ PausesAt(f, p, q)
           /\ \A t \in p..Len(Content[f]) : PausesAt(f, p, t) => t = q
<1> DEFINE n == Len(Content[f])
           N(q) == Cardinality(Rows(f, p, q))
           Stops(q) == N(q) >= BatchLimit \/ q = n \/ Content[f][q+1] = "ioerr"
<1>0. /\ n \in Nat /\ p \in Nat /\ BatchLimit \in Nat \ {0}
      /\ \A q \in p..n : q \in Nat
      /\ \A q \in 1..n : Content[f][q] \in Kinds
  <2>1. Content[f] \in Seq(Kinds) /\ n \in Nat
    BY FilesFacts
  <2>2. \A q \in 1..n : Content[f][q] \in Kinds
    BY <2>1
  <2>3. BatchLimit \in Nat \ {0}
    BY JobPipelineAssumption
  <2> QED
    BY <2>1, <2>2, <2>3
<1>1. PICK q \in p..n : Stops(q) /\ \A t \in p..n : Stops(t) => q <= t
  <2> DEFINE S == {t \in p..n : Stops(t)}
  <2>1. n \in S /\ S \in SUBSET Nat
    BY <1>0
  <2>2. IsFiniteSet(S)
    <3>1. p \in Int /\ n \in Int
      BY <1>0
    <3>2. IsFiniteSet(p..n)
      BY <3>1, FS_Interval
    <3>3. S \in SUBSET (p..n)
      OBVIOUS
    <3> HIDE DEF S
    <3> QED
      BY <3>2, <3>3, FS_Subset
  <2>3. PICK x \in S : \A y \in S : x <= y
    BY <2>1, <2>2, HasLeast
  <2> QED
    BY <2>3
<1>2. \A j \in (p+1)..q : Content[f][j] # "ioerr"
  <2> SUFFICES ASSUME NEW j \in (p+1)..q, Content[f][j] = "ioerr"
               PROVE  FALSE
    OBVIOUS
  <2>1. j-1 \in p..n /\ (j-1)+1 = j /\ j-1 < q
    BY <1>0
  <2>2. Stops(j-1)
    BY <2>1
  <2> QED
    <3>1. q <= j-1
      BY <1>1, <2>1, <2>2
    <3>2. q \in Nat /\ j-1 \in Nat
      BY <1>0, <2>1
    <3> QED
      BY <2>1, <3>1, <3>2
<1>3. /\ N(q) \in Nat /\ N(q) <= BatchLimit
      /\ N(q) = BatchLimit => Content[f][q] # "corrupt"
  <2>1. CASE q = p
    <3>1. Rows(f, p, q) = {}
      BY <1>0, <2>1, RowsFacts
    <3>2. N(q) = 0
      BY <3>1, FS_EmptySet
    <3> QED
      BY <1>0, <3>2
  <2>2. CASE q # p
    <3>1. q-1 \in p..n /\ q-1 < q /\ q-1 \in Nat
      BY <1>0, <2>2
    <3>2. ~Stops(q-1)
      BY <1>0, <1>1, <3>1
    <3>3. N(q-1) \in Nat /\ N(q-1) < BatchLimit /\ IsFiniteSet(Rows(f, p, q-1))
      <4>1. N(q-1) \in Nat /\ IsFiniteSet(Rows(f, p, q-1))
        BY <1>0, <3>1, RowsGrow
      <4>2. ~(N(q-1) >= BatchLimit)
        BY <3>2
      <4> QED
        BY <1>0, <4>1, <4>2
    <3>4. Rows(f, p, q) = Rows(f, p, q-1) \union
            (IF Content[f][q] \in RowKinds THEN {<<f, q>>} ELSE {})
      BY <1>0, <2>2, RowsGrow
    <3>5. CASE Content[f][q] \in RowKinds
      <4>1. N(q) \in {N(q-1), N(q-1) + 1}
        BY <3>3, <3>4, <3>5, FS_AddElement
      <4>2. Content[f][q] # "corrupt"
        BY <3>5 DEF RowKinds, RefusedKinds
      <4> QED
        BY <1>0, <3>3, <4>1, <4>2
    <3>6. CASE Content[f][q] \notin RowKinds
      <4>1. Rows(f, p, q) = Rows(f, p, q-1)
        BY <3>4, <3>6
      <4>2. N(q) = N(q-1)
        BY <4>1
      <4> QED
        BY <1>0, <3>3, <4>2
    <3> QED
      BY <3>5, <3>6
  <2> QED
    BY <2>1, <2>2
<1>4. PausesAt(f, p, q)
  <2>1. CASE N(q) = BatchLimit
    BY <1>2, <1>3, <2>1 DEF PausesAt
  <2>2. CASE N(q) # BatchLimit
    <3>1. N(q) < BatchLimit /\ ~(N(q) >= BatchLimit)
      BY <1>0, <1>3, <2>2
    <3>2. q < n => Content[f][q+1] = "ioerr"
      BY <1>0, <1>1, <3>1
    <3> QED
      BY <1>2, <3>1, <3>2 DEF PausesAt
  <2> QED
    BY <2>1, <2>2
<1>5. ASSUME NEW s \in p..n, NEW t \in p..n, PausesAt(f, p, s), PausesAt(f, p, t), s < t
      PROVE  FALSE
  <2>1. s \in Nat /\ t \in Nat /\ s+1 \in (p+1)..t /\ t \in (p+1)..t
        /\ t \in 1..n /\ s < n
    BY <1>0, <1>5
  <2>2. N(s) = BatchLimit
    BY <1>5, <2>1 DEF PausesAt
  <2>3. /\ Rows(f, p, s) \subseteq Rows(f, p, t)
        /\ <<f, t>> \notin Rows(f, p, s)
    BY <1>0, <1>5, <2>1 DEF Rows
  <2>4. IsFiniteSet(Rows(f, p, t)) /\ N(t) \in Nat
    BY <1>0, RowsGrow
  <2>5. N(t) >= BatchLimit /\ (N(t) = N(s) => Rows(f, p, s) = Rows(f, p, t))
    BY <2>2, <2>3, <2>4, FS_Subset
  <2>6. N(t) = BatchLimit /\ Content[f][t] # "corrupt"
    BY <1>0, <1>5, <2>4, <2>5 DEF PausesAt
  <2>7. Content[f][t] # "ioerr"
    BY <1>5, <2>1 DEF PausesAt
  <2>8. Content[f][t] \in RowKinds
    BY <1>0, <2>1, <2>6, <2>7 DEF Kinds
  <2>9. <<f, t>> \in Rows(f, p, t)
    BY <2>1, <2>8 DEF Rows
  <2> QED
    BY <2>2, <2>3, <2>5, <2>6, <2>9
<1>6. \A t \in p..n : PausesAt(f, p, t) => t = q
  <2>1. \A t \in p..n : t < q \/ q < t \/ t = q
    BY <1>0
  <2> QED
    BY <1>4, <1>5, <2>1
<1> QED
  BY <1>4, <1>6

-----------------------------------------------------------------------------
(* Nobody waits for nobody *)

(* A queue without repetitions of files that do not include f is shorter   *)
(* than the list of all files.                                             *)
LEMMA ShorterThanFiles ==
  ASSUME NEW q \in Seq(Files), Once(q), NEW f \in Files, ~Queued(f, q)
  PROVE  Len(q) < Len(FilePaths)
<1>1. FilePaths \in Surjection(1..Len(FilePaths), Files) /\ Len(FilePaths) \in Nat
  BY FilesFacts DEF Surjection
<1>2. /\ IsFiniteSet(1..Len(FilePaths))
      /\ Cardinality(1..Len(FilePaths)) = Len(FilePaths)
  <2>1. 1 \in Int /\ Len(FilePaths) \in Int /\ Len(FilePaths) >= 0
    BY <1>1
  <2>2. /\ IsFiniteSet(1..Len(FilePaths))
        /\ Cardinality(1..Len(FilePaths)) =
             IF 1 > Len(FilePaths) THEN 0 ELSE Len(FilePaths) - 1 + 1
    BY <2>1, FS_Interval
  <2> QED
    BY <2>1, <2>2
<1>3. Cardinality(Files) <= Len(FilePaths) /\ Cardinality(Files) \in Nat
  BY <1>1, <1>2, FilesFinite, FS_Surjection, FS_CardinalityType
<1>4. /\ IsFiniteSet(Files \ {f})
      /\ Cardinality(Files \ {f}) = Cardinality(Files) - 1
  BY FilesFinite, FS_RemoveElement
<1>5. q \in [1..Len(q) -> Files \ {f}] /\ Len(q) \in Nat
  BY DEF Queued
<1>6. q \in Injection(1..Len(q), Files \ {f})
  BY <1>5 DEF Injection, IsInjective, Once
<1>7. Cardinality(1..Len(q)) <= Cardinality(Files \ {f})
  BY <1>4, <1>6, FS_Injection
<1>8. Cardinality(1..Len(q)) = Len(q)
  <2>1. 1 \in Int /\ Len(q) \in Int /\ Len(q) >= 0
    BY <1>5
  <2>2. Cardinality(1..Len(q)) = IF 1 > Len(q) THEN 0 ELSE Len(q) - 1 + 1
    BY <2>1, FS_Interval
  <2> QED
    BY <2>1, <2>2
<1> QED
  BY <1>3, <1>4, <1>5, <1>7, <1>8, <1>1

LEMMA RoomForPath ==
  Inv => \A w \in PreChecks :
           prePc[w] = "send" => Len(validFiles) < Len(FilePaths)
<1> SUFFICES ASSUME Inv, NEW w \in PreChecks, prePc[w] = "send"
             PROVE  Len(validFiles) < Len(FilePaths)
  OBVIOUS
<1>1. Holding(w) /\ prePath[w] \in Files
  BY DEF Inv, HandsOK, Holding
<1>2. fate[prePath[w]] = "checking"
  BY <1>1 DEF Inv, Route, InPreChecks
<1>3. ~Queued(prePath[w], validFiles) /\ Once(validFiles)
  BY <1>1, <1>2 DEF Inv, Route, InValidFiles
<1> QED
  BY <1>1, <1>3, ShorterThanFiles DEF Inv, TypeOK

(* The pre-checks never wait for the readers: validFiles, made with room   *)
(* for every path of the job, has room for the path that a                 *)
(* CheckAndInsertSourceFile goroutine sends, however far the readers are.  *)
THEOREM PreChecksNeverWait ==
  Spec => [](\A w \in PreChecks :
               prePc[w] = "send" => Len(validFiles) < Len(FilePaths))
BY Invariance, RoomForPath, PTL

(* What lets each goroutine take its next step.                            *)
PreCheckCanMove(w) ==
  \/ prePc[w] \in {"recv", "insert"}
  \/ prePc[w] = "send" /\ Len(validFiles) < Len(FilePaths)

ReaderCanMove(r) ==
  \/ rdPc[r] = "recv" /\ (validFiles # <<>> \/ validClosed)
  \/ /\ rdPc[r] = "fill"
     /\ \/ ctxDone
        \/ \E q \in rdPos[r]..Len(Content[rdPath[r]]) :
             PausesAt(rdPath[r], rdPos[r], q)
  \/ rdPc[r] = "send" /\ (StreamHasRoom \/ ctxDone)
  \/ rdPc[r] = "progress"

SaverCanMove(s) ==
  \/ svPc[s] = "recv" /\ (packetStream # <<>> \/ SaverLeaves)
  \/ svPc[s] \in {"copy", "fail", "abort", "throttle"}

ClosersCanMove ==
  \/ ~validClosed /\ \A w \in PreChecks : prePc[w] = "done"
  \/ ~streamClosed /\ \A r \in Readers : rdPc[r] = "done"

MainCanMove ==
  \/ mainPc = "collect" /\ CountsReceived
  \/ mainPc \in {"report", "return"}

SomebodyCanMove ==
  \/ \E w \in PreChecks : PreCheckCanMove(w)
  \/ \E r \in Readers : ReaderCanMove(r)
  \/ \E s \in Savers : SaverCanMove(s)
  \/ ClosersCanMove \/ MainCanMove

(* Everybody has returned, but for readers whose reads fail for ever.      *)
Over ==
  /\ mainPc = "done" /\ validClosed
  /\ \A w \in PreChecks : prePc[w] = "done"
  /\ \A r \in Readers : rdPc[r] \in {"spin", "done"}
  /\ (\A r \in Readers : rdPc[r] = "done") => streamClosed
  /\ \A s \in Savers : svPc[s] = "done"

(* A reader is caught in such a read, and the job has not been cancelled.  *)
Caught == ~ctxDone /\ \E r \in Readers : rdPc[r] = "spin"

NobodyWaitsForNobody == Over \/ Caught \/ SomebodyCanMove

(* The deferred cancel() has run when ProcessWithPool has returned.        *)
ReturnCancels == mainPc = "done" => ctxDone

LEMMA ReturnCancelsNext == TypeOK /\ ReturnCancels /\ [Next]_vars => ReturnCancels'
<1> SUFFICES ASSUME TypeOK, ReturnCancels, [Next]_vars PROVE ReturnCancels'
  OBVIOUS
<1>1. CASE Main
  BY <1>1 DEF Main, MainCollect, MainReport, MainReturn, notInMain, ReturnCancels
<1>2. CASE \E s \in Savers : Saver(s)
  BY <1>2 DEF Saver, SaverTake, SaverCopy, SaverFail, SaverAbort, SaverThrottle,
     SaverExit, notInSaver, ReturnCancels
<1>3. CASE \/ CancelJob \/ CloseValid \/ CloseStream \/ Terminated
           \/ UNCHANGED vars
  BY <1>3 DEF CancelJob, CloseValid, CloseStream, Terminated, vars, ReturnCancels
<1>4. CASE \E w \in PreChecks : PreCheck(w)
  BY <1>4 DEF PreCheck, PreCheckTake, PreCheckInsert, PreCheckSend, PreCheckExit,
     notInPre, ReturnCancels
<1>5. CASE \E r \in Readers : Reader(r)
  BY <1>5 DEF Reader, ReaderTake, ReaderFill, ReaderSend, ReaderProgress,
     ReaderExit, notInReader, ReturnCancels
<1>6. CASE Land
  BY <1>6 DEF Land, LandInsert, LandCount, LandCopy, LandFail, LandEnd,
     notInServer, ReturnCancels
<1> QED
  BY <1>1, <1>2, <1>3, <1>4, <1>5, <1>6 DEF Next

(* A reader inside a file always has a next step, unless it spins or the   *)
(* channel is full.                                                        *)
LEMMA ReaderInFile ==
  ASSUME Inv, NEW r \in Readers, rdPc[r] = "fill"
  PROVE  ReaderCanMove(r)
<1>1. rdPath[r] \in Files /\ rdPos[r] \in 0..Len(Content[rdPath[r]])
  BY DEF Inv, HandsOK, Reading
<1>2. \E q \in rdPos[r]..Len(Content[rdPath[r]]) :
        PausesAt(rdPath[r], rdPos[r], q)
  BY <1>1, ReadLoopPauses
<1> QED
  BY <1>2 DEF ReaderCanMove

LEMMA SomebodyMoves == Inv /\ ReturnCancels => NobodyWaitsForNobody
<1> SUFFICES ASSUME Inv, ReturnCancels, ~Caught, ~SomebodyCanMove
             PROVE  Over
  BY DEF NobodyWaitsForNobody
<1> USE DEF Inv, SomebodyCanMove
<1>1. \A w \in PreChecks : prePc[w] = "done"
  BY RoomForPath DEF PreCheckCanMove, TypeOK, PrePcs
<1>2. validClosed
  BY <1>1 DEF ClosersCanMove
<1>3. \A r \in Readers : \/ rdPc[r] \in {"spin", "done"}
                         \/ rdPc[r] = "send" /\ ~StreamHasRoom /\ ~ctxDone
  <2> SUFFICES ASSUME NEW r \in Readers, rdPc[r] \notin {"spin", "done"}
               PROVE  rdPc[r] = "send" /\ ~StreamHasRoom /\ ~ctxDone
    OBVIOUS
  <2>1. rdPc[r] \in {"recv", "fill", "send", "progress"}
    BY DEF TypeOK, ReaderPcs
  <2>2. rdPc[r] # "recv" /\ rdPc[r] # "progress"
    BY <1>2 DEF ReaderCanMove
  <2>3. rdPc[r] # "fill"
    BY ReaderInFile
  <2> QED
    BY <2>1, <2>2, <2>3 DEF ReaderCanMove
<1>4. \A s \in Savers : svPc[s] = "done" \/ (packetStream = <<>> /\ ~SaverLeaves)
  BY DEF SaverCanMove, TypeOK, SaverPcs
<1>5. (\A s \in Savers : svPc[s] = "done") => mainPc = "done" /\ ctxDone
  BY DEF MainCanMove, CountsReceived, TypeOK, MainPcs, ReturnCancels
<1>6. \A r \in Readers : rdPc[r] \in {"spin", "done"}
  <2> SUFFICES ASSUME NEW r \in Readers, rdPc[r] \notin {"spin", "done"}
               PROVE  FALSE
    OBVIOUS
  <2>1. ~StreamHasRoom /\ ~ctxDone
    BY <1>3
  <2>2. packetStream # <<>>
    BY <2>1, JobPipelineAssumption DEF StreamHasRoom
  <2> QED
    BY <1>4, <1>5, <2>1, <2>2
<1>7. (\A r \in Readers : rdPc[r] = "done") => streamClosed
  BY DEF ClosersCanMove
<1>8. \A s \in Savers : svPc[s] = "done"
  <2>1. CASE ctxDone
    BY <1>4, <2>1 DEF SaverLeaves
  <2>2. CASE ~ctxDone
    <3>1. streamClosed
      BY <1>6, <1>7, <2>2 DEF Caught
    <3> QED
      BY <1>4, <3>1 DEF SaverLeaves, StreamEnded
  <2> QED
    BY <2>1, <2>2
<1> QED
  BY <1>1, <1>2, <1>5, <1>6, <1>7, <1>8 DEF Over

(* The goroutines of a job never wait for each other in a circle, whatever  *)
(* is full, empty, failed or cancelled: unless the job is over, or a reader *)
(* is caught in a read that keeps failing, one of them has a next step, and *)
(* nobody needs to cancel the job for it.  Once the job is cancelled one of *)
(* them has a next step even if a reader is caught.                         *)
THEOREM NobodyWaits == Spec => []NobodyWaitsForNobody
<1>1. Init => ReturnCancels
  BY DEF Init, ReturnCancels
<1>2. Inv /\ ReturnCancels /\ [Next]_vars => ReturnCancels'
  BY ReturnCancelsNext DEF Inv
<1>3. Inv /\ ReturnCancels => NobodyWaitsForNobody
  BY SomebodyMoves
<1> QED
  BY <1>1, <1>2, <1>3, Invariance, PTL DEF Spec
=============================================================================
