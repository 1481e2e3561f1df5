----------------------------- MODULE JobPipeline -----------------------------
(***************************************************************************)
(* One extraction job of go-sniffer: worker.ProcessWithPool and the three  *)
(* kinds of goroutine it starts.                                           *)
(*                                                                         *)
(*   files -> PreChecks -> validFiles -> Readers -> packetStream -> Savers *)
(*                                                                         *)
(* PreChecks record a file's checksum (storage.CheckAndInsertSourceFile),  *)
(* Readers cut a file into batches (worker.PcapWorker), Savers copy the    *)
(* batches into packet_logs (worker.PacketSaverWorker).  The goroutines    *)
(* share three channels and one cancellable context.                       *)
(*                                                                         *)
(* A database call is in flight while its goroutine is at the pc named     *)
(* after it.  When it fails (the server refuses it, the connection is      *)
(* lost, the context is cancelled while it runs) the goroutine goes on,    *)
(* but the statement may be left with the server, which executes it at     *)
(* once, much later or never.  A call issued on a cancelled context fails  *)
(* at once and reaches no server.                                          *)
(***************************************************************************)
EXTENDS Naturals, Sequences, FiniteSets

CONSTANTS
  FilePaths,    \* the paths HandleCreateJob found, in glob order
  Content,      \* Content[f]: what each ReadPacketData call on f returns
  Checksum,     \* Checksum[f]: SHA-256 of the first 64 KiB of f
  PreChecks,    \* CheckAndInsertSourceFile goroutines (WORKER_PRECHECKS)
  Readers,      \* PcapWorker goroutines               (WORKER_READERS)
  Savers,       \* PacketSaverWorker goroutines        (WORKER_SAVERS)
  BatchLimit,   \* rows of a full batch                (500 in the code)
  StreamCap,    \* batches packetStream can hold       (100 in the code)
  Earlier,      \* checksums of the files that earlier jobs may have recorded
  NoFile        \* the path of a goroutine that holds none

Files == {FilePaths[i] : i \in DOMAIN FilePaths}

(***************************************************************************)
(* The results of one read: a packet that packet_logs accepts; one without *)
(* an IP layer, whose addresses the INET columns refuse; one whose name of *)
(* a protocol (IPv6HopByHop) is too long for VARCHAR(10); a corrupt        *)
(* record, which the reader steps over; an error that does not move the    *)
(* file position (a failing disk).  After the last entry: EOF.             *)
(***************************************************************************)
RefusedKinds == {"nonip", "longname"}
RowKinds == {"ip"} \union RefusedKinds
Kinds == RowKinds \union {"corrupt", "ioerr"}

ASSUME JobPipelineAssumption ==
  /\ FilePaths \in Seq(Files)
  /\ \A i, j \in DOMAIN FilePaths : FilePaths[i] = FilePaths[j] => i = j
  /\ Content \in [Files -> Seq(Kinds)]
  /\ DOMAIN Checksum = Files
  /\ NoFile \notin Files
  /\ PreChecks # {} /\ Readers # {} /\ Savers # {}
  /\ BatchLimit \in Nat \ {0}
  /\ StreamCap \in Nat \ {0}

Packets == UNION {{f} \X (1..Len(Content[f])) : f \in Files}
Checksums == {Checksum[f] : f \in Files}

(* The rows appended to currentBatch by the reads p+1 .. q of f. *)
Rows(f, p, q) ==
  {<<f, i>> : i \in {j \in (p+1)..q : Content[f][j] \in RowKinds}}

RowsOf(f) == Rows(f, 0, Len(Content[f]))

(* The read loop, entered at position p with an empty batch, pauses at q:  *)
(* the batch is full, or the file has ended, or the next read never        *)
(* advances.                                                               *)
PausesAt(f, p, q) ==
  /\ \A j \in (p+1)..q : Content[f][j] # "ioerr"
  /\ \/ /\ Cardinality(Rows(f, p, q)) = BatchLimit
        /\ Content[f][q] # "corrupt"
     \/ /\ Cardinality(Rows(f, p, q)) < BatchLimit
        /\ q < Len(Content[f]) => Content[f][q+1] = "ioerr"

(* COPY into packet_logs cannot accept this batch. *)
Rejected(batch) == \E p \in batch : Content[p[1]][p[2]] \in RefusedKinds

VARIABLES
  files,         \* channel of paths, filled and closed before anyone blocks
  validFiles,    \* channel of paths that passed the pre-check
  validClosed,   \* close(validFiles) has run
  packetStream,  \* channel of batches
  streamClosed,  \* close(packetStream) has run
  ctxDone,       \* the pool context is cancelled
  prePc, prePath,                  \* the PreChecks
  rdPc, rdPath, rdPos, rdBatch,    \* the Readers
  svPc, svBatch,                   \* the Savers
  mainPc,        \* the goroutine that runs ProcessWithPool
  earlier,       \* the checksums in source_files when the job began
  sources,       \* source_files: the checksums recorded so far
  own,           \* and those of them recorded under this job's id
  copies,        \* packet_logs: how many rows this job has of each packet
  status,        \* job_tracking.status
  filesRead,     \* job_tracking.files_read
  lateSums,      \* INSERTs that were broken off: their checksums
  lateCounts,    \* UpdateJobProgress calls that were: their files
  lateCopies,    \* COPYs that were: their batches
  lateFails,     \* FAILED updates that were: their savers
  lateEnd,       \* the COMPLETED update was broken off
  fate           \* observation only: what became of each file

chanVars == <<files, validFiles, validClosed, packetStream, streamClosed>>
preVars  == <<prePc, prePath>>
rdVars   == <<rdPc, rdPath, rdPos, rdBatch>>
svVars   == <<svPc, svBatch>>
srcVars  == <<earlier, sources, own>>
jobVars  == <<status, filesRead>>
lateVars == <<lateSums, lateCounts, lateCopies, lateFails, lateEnd>>
vars == <<chanVars, ctxDone, preVars, rdVars, svVars, mainPc, srcVars,
          copies, jobVars, lateVars, fate>>

(* What no pre-check, no reader, no saver, and ProcessWithPool changes. *)
notInPre == <<validClosed, packetStream, streamClosed, ctxDone, rdVars,
  svVars, mainPc, earlier, copies, jobVars, lateCounts, lateCopies, lateFails,
  lateEnd>>
notInReader == <<files, validClosed, streamClosed, ctxDone, preVars, svVars,
  mainPc, srcVars, copies, status, lateSums, lateCopies, lateFails, lateEnd>>
notInSaver == <<files, validFiles, validClosed, streamClosed, preVars, rdVars,
  mainPc, srcVars, filesRead, lateSums, lateCounts, lateEnd, fate>>
notInMain == <<chanVars, preVars, rdVars, svVars, srcVars, copies, filesRead,
  lateSums, lateCounts, lateCopies, lateFails, fate>>
notInServer == <<chanVars, ctxDone, preVars, rdVars, svVars, mainPc, earlier,
  fate>>

PrePcs    == {"recv", "insert", "send", "done"}
ReaderPcs == {"recv", "fill", "spin", "send", "progress", "done"}
SaverPcs  == {"recv", "copy", "fail", "abort", "throttle", "done"}
MainPcs   == {"collect", "report", "return", "done"}
Statuses  == {"PROCESSING", "FAILED", "COMPLETED"}
Fates     == {"pending", "checking", "duplicate", "unchecked", "valid",
              "reading", "unreadable", "aborted", "read"}

-----------------------------------------------------------------------------
(* ProcessWithPool has created the channels, sent every path, closed files *)
(* and started the goroutines.  Earlier jobs may have left checksums in    *)
(* source_files.                                                           *)
Init ==
  /\ files = FilePaths
  /\ validFiles = <<>> /\ validClosed = FALSE
  /\ packetStream = <<>> /\ streamClosed = FALSE
  /\ ctxDone = FALSE
  /\ prePc = [w \in PreChecks |-> "recv"]
  /\ prePath = [w \in PreChecks |-> NoFile]
  /\ rdPc = [r \in Readers |-> "recv"]
  /\ rdPath = [r \in Readers |-> NoFile]
  /\ rdPos = [r \in Readers |-> 0]
  /\ rdBatch = [r \in Readers |-> {}]
  /\ svPc = [s \in Savers |-> "recv"]
  /\ svBatch = [s \in Savers |-> {}]
  /\ mainPc = "collect"
  /\ earlier \in SUBSET Earlier /\ sources = earlier /\ own = {}
  /\ copies = [p \in Packets |-> 0]
  /\ status = "PROCESSING"
  /\ filesRead = 0
  /\ lateSums = {} /\ lateCounts = {} /\ lateCopies = {}
  /\ lateFails = {} /\ lateEnd = FALSE
  /\ fate = [f \in Files |-> "pending"]

(* The job's context is cancelled from outside: HandleDeleteJob. *)
CancelJob ==
  /\ ~ctxDone
  /\ ctxDone' = TRUE
  /\ UNCHANGED <<chanVars, preVars, rdVars, svVars, mainPc, srcVars, copies,
                 jobVars, lateVars, fate>>

-----------------------------------------------------------------------------
(* CheckAndInsertSourceFile *)

SetFate(f, x) == fate' = [fate EXCEPT ![f] = x]

(* Take a path and hash the file.  The path is dropped if the file cannot  *)
(* be read, or if the context is done and the INSERT fails at once.        *)
PreCheckTake(w) ==
  /\ prePc[w] = "recv"
  /\ files # <<>>
  /\ files' = Tail(files)
  /\ \/ /\ SetFate(Head(files), "unchecked")
        /\ UNCHANGED preVars
     \/ /\ ~ctxDone
        /\ SetFate(Head(files), "checking")
        /\ prePc' = [prePc EXCEPT ![w] = "insert"]
        /\ prePath' = [prePath EXCEPT ![w] = Head(files)]
  /\ UNCHANGED <<notInPre, validFiles, sources, own, lateSums>>

PreCheckSkip(w, why) ==
  /\ prePc' = [prePc EXCEPT ![w] = "recv"]
  /\ prePath' = [prePath EXCEPT ![w] = NoFile]
  /\ SetFate(prePath[w], why)

(* Mutant: no constraint. *)
IsNewAlways(sum) == TRUE

(* The UNIQUE constraint on source_files.checksum. *)
IsNew(sum) == sum \notin sources

(* Mutant: the row does not name the job. *)
RecordNameless(sum) ==
  /\ sources' = sources \union {sum}
  /\ UNCHANGED own

(* The row carries the job's id. *)
Record(sum) ==
  /\ sources' = sources \union {sum}
  /\ own' = own \union {sum}

(* The INSERT into source_files answers, or is broken off. *)
PreCheckInsert(w) ==
  LET sum == Checksum[prePath[w]] IN
  /\ prePc[w] = "insert"
  /\ \/ /\ IsNew(sum)
        /\ Record(sum)
        /\ prePc' = [prePc EXCEPT ![w] = "send"]
        /\ UNCHANGED <<prePath, lateSums, fate>>
     \/ /\ ~IsNew(sum)
        /\ PreCheckSkip(w, "duplicate")
        /\ UNCHANGED <<sources, own, lateSums>>
     \/ /\ lateSums' \in {lateSums, lateSums \union {sum}}
        /\ PreCheckSkip(w, "unchecked")
        /\ UNCHANGED <<sources, own>>
  /\ UNCHANGED <<notInPre, files, validFiles>>

(* select: send the path on, or give up because the context is done.  The  *)
(* channel has room for every path, so the send never waits.               *)
PreCheckSend(w) ==
  /\ prePc[w] = "send"
  /\ prePath' = [prePath EXCEPT ![w] = NoFile]
  /\ \/ /\ Len(validFiles) < Len(FilePaths)
        /\ validFiles' = Append(validFiles, prePath[w])
        /\ prePc' = [prePc EXCEPT ![w] = "recv"]
        /\ SetFate(prePath[w], "valid")
     \/ /\ ctxDone
        /\ prePc' = [prePc EXCEPT ![w] = "done"]
        /\ SetFate(prePath[w], "aborted")
        /\ UNCHANGED validFiles
  /\ UNCHANGED <<notInPre, files, sources, own, lateSums>>

(* files is closed and drained: the range loop ends. *)
PreCheckExit(w) ==
  /\ prePc[w] = "recv"
  /\ files = <<>>
  /\ prePc' = [prePc EXCEPT ![w] = "done"]
  /\ UNCHANGED <<notInPre, files, validFiles, prePath, sources, own, lateSums,
                 fate>>

PreCheck(w) ==
  \/ PreCheckTake(w)
  \/ PreCheckInsert(w)
  \/ PreCheckSend(w)
  \/ PreCheckExit(w)

(* The goroutine that waits on checksumWg. *)
CloseValid ==
  /\ ~validClosed
  /\ \A w \in PreChecks : prePc[w] = "done"
  /\ validClosed' = TRUE
  /\ UNCHANGED <<files, validFiles, packetStream, streamClosed, ctxDone,
                 preVars, rdVars, svVars, mainPc, srcVars, copies, jobVars,
                 lateVars, fate>>

-----------------------------------------------------------------------------
(* PcapWorker *)

(* Take a path; stop if the context is done; give the file up if it cannot *)
(* be opened or has no pcap header.                                        *)
ReaderTake(r) ==
  /\ rdPc[r] = "recv"
  /\ validFiles # <<>>
  /\ validFiles' = Tail(validFiles)
  /\ \/ /\ ctxDone
        /\ rdPc' = [rdPc EXCEPT ![r] = "done"]
        /\ SetFate(Head(validFiles), "aborted")
        /\ UNCHANGED <<rdPath, rdPos>>
     \/ /\ ~ctxDone
        /\ SetFate(Head(validFiles), "unreadable")
        /\ UNCHANGED <<rdPc, rdPath, rdPos>>
     \/ /\ ~ctxDone
        /\ SetFate(Head(validFiles), "reading")
        /\ rdPc' = [rdPc EXCEPT ![r] = "fill"]
        /\ rdPath' = [rdPath EXCEPT ![r] = Head(validFiles)]
        /\ rdPos' = [rdPos EXCEPT ![r] = 0]
  /\ UNCHANGED <<notInReader, packetStream, rdBatch, filesRead, lateCounts>>

(* Mutant: a file that was given up is counted. *)
ReaderGiveUpCounting(r) ==
  /\ ctxDone
  /\ rdPc' = [rdPc EXCEPT ![r] = "progress"]
  /\ rdBatch' = [rdBatch EXCEPT ![r] = {}]
  /\ SetFate(rdPath[r], "aborted")

(* Mutant: the reader does not look at the context. *)
ReaderGiveUpNever(r) == FALSE

(* return ctx.Err(): the rest of the file, and a batch in hand, are lost.  *)
ReaderGiveUp(r) ==
  /\ ctxDone
  /\ rdPc' = [rdPc EXCEPT ![r] = "recv"]
  /\ rdBatch' = [rdBatch EXCEPT ![r] = {}]
  /\ SetFate(rdPath[r], "aborted")

(* return nil: count the file, unless the context is done and the UPDATE   *)
(* fails at once.                                                          *)
ReaderFileDone(r) ==
  /\ rdPc' = [rdPc EXCEPT ![r] = IF ctxDone THEN "recv" ELSE "progress"]
  /\ SetFate(rdPath[r], "read")

(* One run of the read loop, from an empty batch (where the context is     *)
(* looked at) to a send, the end of the file, or a read that keeps failing *)
(* while the batch is not empty: that loop has no exit.                    *)
ReaderFill(r) ==
  /\ rdPc[r] = "fill"
  /\ \/ /\ ReaderGiveUp(r)
        /\ UNCHANGED rdPos
     \/ /\ ~ctxDone
        /\ \E q \in rdPos[r]..Len(Content[rdPath[r]]) :
             /\ PausesAt(rdPath[r], rdPos[r], q)
             /\ rdPos' = [rdPos EXCEPT ![r] = q]
             /\ LET batch == Rows(rdPath[r], rdPos[r], q) IN
                /\ rdBatch' = [rdBatch EXCEPT ![r] = batch]
                /\ \/ /\ batch = {} /\ q = Len(Content[rdPath[r]])
                      /\ ReaderFileDone(r)
                   \/ /\ batch = {} /\ q < Len(Content[rdPath[r]])
                      /\ UNCHANGED <<rdPc, fate>>
                   \/ /\ batch # {}
                      /\ rdPc' = [rdPc EXCEPT ![r] =
                           IF \/ Cardinality(batch) = BatchLimit
                              \/ q = Len(Content[rdPath[r]])
                           THEN "send" ELSE "spin"]
                      /\ UNCHANGED fate
  /\ UNCHANGED <<notInReader, validFiles, packetStream, rdPath, filesRead,
                 lateCounts>>

(* Mutant: a channel without a bound. *)
StreamHasRoomAlways == TRUE

StreamHasRoom == Len(packetStream) < StreamCap

(* select: send the batch, or give up.  A full batch is followed by more   *)
(* reading, a short one was the last.                                      *)
ReaderSend(r) ==
  /\ rdPc[r] = "send"
  /\ \/ /\ StreamHasRoom
        /\ packetStream' = Append(packetStream, rdBatch[r])
        /\ rdBatch' = [rdBatch EXCEPT ![r] = {}]
        /\ \/ /\ Cardinality(rdBatch[r]) = BatchLimit
              /\ rdPc' = [rdPc EXCEPT ![r] = "fill"]
              /\ UNCHANGED fate
           \/ /\ Cardinality(rdBatch[r]) # BatchLimit
              /\ ReaderFileDone(r)
     \/ /\ ReaderGiveUp(r)
        /\ UNCHANGED packetStream
  /\ UNCHANGED <<notInReader, validFiles, rdPath, rdPos, filesRead,
                 lateCounts>>

(* UpdateJobProgress answers or is broken off; its error is ignored. *)
ReaderProgress(r) ==
  /\ rdPc[r] = "progress"
  /\ rdPc' = [rdPc EXCEPT ![r] = "recv"]
  /\ \/ /\ filesRead' = filesRead + 1
        /\ UNCHANGED lateCounts
     \/ /\ lateCounts' \in {lateCounts, lateCounts \union {rdPath[r]}}
        /\ UNCHANGED filesRead
  /\ UNCHANGED <<notInReader, chanVars, rdPath, rdPos, rdBatch, fate>>

ReaderExit(r) ==
  /\ rdPc[r] = "recv"
  /\ validFiles = <<>> /\ validClosed
  /\ rdPc' = [rdPc EXCEPT ![r] = "done"]
  /\ UNCHANGED <<notInReader, chanVars, rdPath, rdPos, rdBatch, filesRead,
                 lateCounts, fate>>

Reader(r) ==
  \/ ReaderTake(r)
  \/ ReaderFill(r)
  \/ ReaderSend(r)
  \/ ReaderProgress(r)
  \/ ReaderExit(r)

(* The goroutine that waits on readerWg. *)
CloseStream ==
  /\ ~streamClosed
  /\ \A r \in Readers : rdPc[r] = "done"
  /\ streamClosed' = TRUE
  /\ UNCHANGED <<files, validFiles, validClosed, packetStream, ctxDone,
                 preVars, rdVars, svVars, mainPc, srcVars, copies, jobVars,
                 lateVars, fate>>

-----------------------------------------------------------------------------
(* PacketSaverWorker.  A saver at "done" has sent its final count.         *)

SaverGoes(s, pc) == svPc' = [svPc EXCEPT ![s] = pc]

(* On a cancelled context COPY and the FAILED update fail at once: the     *)
(* saver returns, its batch lost.                                          *)
SaverTake(s) ==
  /\ svPc[s] = "recv"
  /\ packetStream # <<>>
  /\ packetStream' = Tail(packetStream)
  /\ \/ /\ ctxDone
        /\ SaverGoes(s, "done")
        /\ UNCHANGED svBatch
     \/ /\ ~ctxDone
        /\ SaverGoes(s, "copy")
        /\ svBatch' = [svBatch EXCEPT ![s] = Head(packetStream)]
  /\ UNCHANGED <<notInSaver, ctxDone, copies, status, lateCopies, lateFails>>

InsertRows(batch) ==
  copies' = [p \in Packets |-> IF p \in batch THEN copies[p] + 1
                                              ELSE copies[p]]

(* Mutant: the batch is copied again. *)
SaverGivesUpRetrying(s) == UNCHANGED svVars

(* The error path after COPY; on a cancelled context the FAILED update     *)
(* fails at once and cancel() has nothing left to do.                      *)
SaverGivesUp(s) ==
  /\ svBatch' = [svBatch EXCEPT ![s] = {}]
  /\ SaverGoes(s, IF ctxDone THEN "done" ELSE "fail")

(* BulkDatabaseCopy answers, or is broken off.  A write slower than        *)
(* baseBackoffThreshold is followed by a pause.                            *)
SaverCopy(s) ==
  /\ svPc[s] = "copy"
  /\ \/ /\ ~Rejected(svBatch[s])
        /\ InsertRows(svBatch[s])
        /\ svBatch' = [svBatch EXCEPT ![s] = {}]
        /\ \E pc \in {"recv", "throttle"} : SaverGoes(s, pc)
        /\ UNCHANGED lateCopies
     \/ /\ \/ UNCHANGED lateCopies
           \/ /\ ~Rejected(svBatch[s])
              /\ lateCopies' = lateCopies \union {svBatch[s]}
        /\ SaverGivesUp(s)
        /\ UNCHANGED copies
  /\ UNCHANGED <<notInSaver, packetStream, ctxDone, status, lateFails>>

(* UpdateJobStatus(ctx, "FAILED") answers or is broken off; its error is   *)
(* ignored.                                                                *)
SaverFail(s) ==
  /\ svPc[s] = "fail"
  /\ \/ /\ status' = "FAILED"
        /\ UNCHANGED lateFails
     \/ /\ lateFails' \in {lateFails, lateFails \union {s}}
        /\ UNCHANGED status
  /\ SaverGoes(s, "abort")
  /\ UNCHANGED <<notInSaver, packetStream, ctxDone, svBatch, copies,
                 lateCopies>>

(* cancel(); return *)
SaverAbort(s) ==
  /\ svPc[s] = "abort"
  /\ ctxDone' = TRUE
  /\ SaverGoes(s, "done")
  /\ UNCHANGED <<notInSaver, packetStream, svBatch, copies, status, lateCopies,
                 lateFails>>

SaverThrottle(s) ==
  /\ svPc[s] = "throttle"
  /\ \/ SaverGoes(s, "recv")
     \/ ctxDone /\ SaverGoes(s, "done")
  /\ UNCHANGED <<notInSaver, packetStream, ctxDone, svBatch, copies, status,
                 lateCopies, lateFails>>

(* Mutant: the receive reports the close before the queue is empty. *)
StreamEndedEarly == streamClosed

StreamEnded == streamClosed /\ packetStream = <<>>

(* Mutant: no case for a done context. *)
SaverLeavesLate == StreamEnded

SaverLeaves == ctxDone \/ StreamEnded

SaverExit(s) ==
  /\ svPc[s] = "recv"
  /\ SaverLeaves
  /\ SaverGoes(s, "done")
  /\ UNCHANGED <<notInSaver, packetStream, ctxDone, svBatch, copies, status,
                 lateCopies, lateFails>>

Saver(s) ==
  \/ SaverTake(s)
  \/ SaverCopy(s)
  \/ SaverFail(s)
  \/ SaverAbort(s)
  \/ SaverThrottle(s)
  \/ SaverExit(s)

-----------------------------------------------------------------------------
(* The rest of ProcessWithPool *)

(* Mutant: the first final count is taken for all of them. *)
FirstCountReceived == \E s \in Savers : svPc[s] = "done"

(* One final count has been received for every saver. *)
CountsReceived == \A s \in Savers : svPc[s] = "done"

MainCollect ==
  /\ mainPc = "collect"
  /\ CountsReceived
  /\ mainPc' = "report"
  /\ UNCHANGED <<notInMain, ctxDone, status, lateEnd>>

(* UpdateJobStatus(updateCtx, "COMPLETED"), on a context of its own, which *)
(* ends after five seconds.                                                *)
MainReport ==
  /\ mainPc = "report"
  /\ \/ /\ status' = "COMPLETED"
        /\ UNCHANGED lateEnd
     \/ /\ lateEnd' \in BOOLEAN
        /\ UNCHANGED status
  /\ mainPc' = "return"
  /\ UNCHANGED <<notInMain, ctxDone>>

(* The deferred cancel(). *)
MainReturn ==
  /\ mainPc = "return"
  /\ ctxDone' = TRUE
  /\ mainPc' = "done"
  /\ UNCHANGED <<notInMain, status, lateEnd>>

Main == MainCollect \/ MainReport \/ MainReturn

-----------------------------------------------------------------------------
(* The database server executes a statement whose call was broken off.     *)

(* An INSERT that meets a known checksum is refused.                       *)
LandInsert(sum) ==
  /\ sum \in lateSums
  /\ lateSums' = lateSums \ {sum}
  /\ IF IsNew(sum) THEN Record(sum) ELSE UNCHANGED <<sources, own>>
  /\ UNCHANGED <<notInServer, copies, jobVars, lateCounts, lateCopies,
                 lateFails, lateEnd>>

LandCount(f) ==
  /\ f \in lateCounts
  /\ lateCounts' = lateCounts \ {f}
  /\ filesRead' = filesRead + 1
  /\ UNCHANGED <<notInServer, sources, own, copies, status, lateSums,
                 lateCopies, lateFails, lateEnd>>

LandCopy(batch) ==
  /\ batch \in lateCopies
  /\ lateCopies' = lateCopies \ {batch}
  /\ InsertRows(batch)
  /\ UNCHANGED <<notInServer, sources, own, jobVars, lateSums, lateCounts,
                 lateFails, lateEnd>>

LandFail(s) ==
  /\ s \in lateFails
  /\ lateFails' = lateFails \ {s}
  /\ status' = "FAILED"
  /\ UNCHANGED <<notInServer, sources, own, copies, filesRead, lateSums,
                 lateCounts, lateCopies, lateEnd>>

LandEnd ==
  /\ lateEnd
  /\ lateEnd' = FALSE
  /\ status' = "COMPLETED"
  /\ UNCHANGED <<notInServer, sources, own, copies, filesRead, lateSums,
                 lateCounts, lateCopies, lateFails>>

Land ==
  \/ \E sum \in lateSums : LandInsert(sum)
  \/ \E f \in lateCounts : LandCount(f)
  \/ \E batch \in lateCopies : LandCopy(batch)
  \/ \E s \in lateFails : LandFail(s)
  \/ LandEnd

-----------------------------------------------------------------------------
AllDone ==
  /\ mainPc = "done" /\ validClosed /\ streamClosed
  /\ \A w \in PreChecks : prePc[w] = "done"
  /\ \A r \in Readers : rdPc[r] = "done"
  /\ \A s \in Savers : svPc[s] = "done"

(* Every goroutine has returned, but for readers whose reads keep failing  *)
(* and fail again.                                                         *)
Terminated ==
  /\ mainPc = "done" /\ validClosed
  /\ \A w \in PreChecks : prePc[w] = "done"
  /\ \A r \in Readers : rdPc[r] \in {"spin", "done"}
  /\ \A s \in Savers : svPc[s] = "done"
  /\ UNCHANGED vars

Next ==
  \/ CancelJob
  \/ \E w \in PreChecks : PreCheck(w)
  \/ CloseValid
  \/ \E r \in Readers : Reader(r)
  \/ CloseStream
  \/ \E s \in Savers : Saver(s)
  \/ Main
  \/ Land
  \/ Terminated

Spec == Init /\ [][Next]_vars

(* The Go scheduler runs every goroutine that can run, timers fire, and    *)
(* every database call returns.  Nobody has to cancel the job, and the     *)
(* server owes nothing to a statement that was broken off.                 *)
Fairness ==
  /\ \A w \in PreChecks : WF_vars(PreCheck(w))
  /\ WF_vars(CloseValid)
  /\ \A r \in Readers : WF_vars(Reader(r))
  /\ WF_vars(CloseStream)
  /\ \A s \in Savers : WF_vars(Saver(s))
  /\ WF_vars(Main)

FairSpec == Spec /\ Fairness

-----------------------------------------------------------------------------
(* Properties *)

(* Every goroutine is where the code can be, the channels carry what they  *)
(* are made for, and packetStream keeps within its capacity.               *)
TypeOK ==
  /\ files \in Seq(Files) /\ validFiles \in Seq(Files)
  /\ validClosed \in BOOLEAN /\ streamClosed \in BOOLEAN
  /\ packetStream \in Seq(SUBSET Packets) /\ Len(packetStream) <= StreamCap
  /\ ctxDone \in BOOLEAN
  /\ prePc \in [PreChecks -> PrePcs]
  /\ prePath \in [PreChecks -> Files \union {NoFile}]
  /\ rdPc \in [Readers -> ReaderPcs]
  /\ rdPath \in [Readers -> Files \union {NoFile}]
  /\ rdPos \in [Readers -> Nat]
  /\ rdBatch \in [Readers -> SUBSET Packets]
  /\ svPc \in [Savers -> SaverPcs]
  /\ svBatch \in [Savers -> SUBSET Packets]
  /\ mainPc \in MainPcs
  /\ earlier \subseteq sources
  /\ sources \subseteq Checksums \union Earlier /\ own \subseteq sources
  /\ copies \in [Packets -> Nat]
  /\ status \in Statuses
  /\ filesRead \in Nat
  /\ lateSums \subseteq Checksums /\ lateCounts \subseteq Files
  /\ lateCopies \subseteq SUBSET Packets
  /\ lateFails \subseteq Savers /\ lateEnd \in BOOLEAN
  /\ fate \in [Files -> Fates]

(* No interleaving of readers, savers, half-failed writes and writes that  *)
(* come late stores a packet twice: packet_logs has no key that would      *)
(* refuse it.                                                              *)
AtMostOnce == \A p \in Packets : copies[p] <= 1

(* When the last saver is gone and nothing has cancelled the job, which is *)
(* when ProcessWithPool reports COMPLETED in good faith, every file was    *)
(* turned away for a reason or was read to its end and is stored: the      *)
(* savers left neither a batch in packetStream nor one in their hands.     *)
(* Nor has the server a COPY or a FAILED update of theirs left, so that    *)
(* such a COMPLETED is the last word.                                      *)
NoSilentLoss ==
  mainPc \in {"report", "return"} /\ ~ctxDone =>
    /\ \A f \in Files :
         \/ fate[f] \in {"duplicate", "unchecked", "unreadable"}
         \/ fate[f] = "read" /\ \A p \in RowsOf(f) : copies[p] = 1
    /\ lateCopies = {} /\ lateFails = {}

FilesWith(x) == {f \in Files : fate[f] = x}

(* files_read only counts files that were read to the end, each once, so   *)
(* progress_pct (jobRowToResponse) stays within 100.                       *)
ProgressHonest == filesRead <= Cardinality(FilesWith("read"))

(* However many pre-checks race on the INSERT, and whatever INSERT comes   *)
(* late, of the files that share a checksum at most one goes on to a       *)
(* reader, and none if an earlier job recorded it.                         *)
OnePerChecksum ==
  \A f \in FilesWith("valid") \union FilesWith("reading")
         \union FilesWith("unreadable") \union FilesWith("read") :
    /\ Checksum[f] \notin earlier
    /\ \A g \in Files \ {f} :
         Checksum[g] = Checksum[f] =>
           fate[g] \in {"pending", "checking", "duplicate", "unchecked"}

(* Once a client can see COMPLETED the job sends no COPY and no FAILED     *)
(* update any more, for every saver is gone.  Rows and a FAILED that come  *)
(* later nevertheless come from statements that were with the server by    *)
(* then, broken off by a cancel or a lost connection, each of them once.   *)
CompletedIsLast ==
  [][status = "COMPLETED" =>
       /\ lateCopies' \subseteq lateCopies /\ lateFails' \subseteq lateFails
       /\ UNCHANGED copies \/ \E batch \in lateCopies : LandCopy(batch)
       /\ UNCHANGED status \/ \E s \in lateFails : LandFail(s)
    ]_<<copies, status, lateCopies, lateFails>>

(* A read of this reader's file keeps failing. *)
Stuck(r) ==
  /\ rdPc[r] \in {"fill", "spin"} /\ rdPos[r] < Len(Content[rdPath[r]])
  /\ Content[rdPath[r]][rdPos[r] + 1] = "ioerr"

(* Unless some read keeps failing, a job ends and none of its goroutines   *)
(* outlives it, whatever is full, failing or cancelled.                    *)
JobEnds == <>(AllDone \/ \E r \in Readers : Stuck(r))

(* A cancelled job ends even if a reader never gets out of its file: the   *)
(* savers do not wait for the readers.                                     *)
CancelEndsJob == ctxDone ~> (mainPc = "done")

(* The job keeps what ExtractionJob promises.  It is stopped from the      *)
(* moment its context is cancelled or a saver has seen a write fail.       *)
Stopped == ctxDone \/ \E s \in Savers : svPc[s] \in {"fail", "abort"}

Job == INSTANCE ExtractionJob WITH
  stored  <- copies,
  left    <- lateCopies,
  ready   <- FilesWith("read"),
  stopped <- Stopped,
  failing <- lateFails # {},
  over    <- mainPc # "collect"

ImplementsJob == Job!Spec

(* Seen from JobServer, whose workers stand for the pre-checks and savers. *)
Id == "job"

Doing ==
  {x \in PreChecks \X {"record"} : prePc[x[1]] = "insert"} \union
  {x \in Savers \X {"copy", "fail", "abort"} : svPc[x[1]] = x[2]}

Left ==
  (IF lateSums = {} THEN {} ELSE {"record"}) \union
  (IF lateCopies = {} THEN {} ELSE {"copy"}) \union
  (IF lateFails = {} THEN {} ELSE {"fail"}) \union
  (IF lateEnd THEN {"complete"} ELSE {})

Server == INSTANCE JobServer WITH
  Jobs <- {Id}, Workers <- PreChecks \union Savers, Deletes <- {},
  Spellings <- {TRUE}, FirstVersion <- 6, DBFails <- TRUE,
  version   <- 6,
  row       <- [j \in {Id} |-> status],
  recorded  <- IF own = {} THEN {} ELSE {Id},
  packets   <- IF \A p \in Packets : copies[p] = 0 THEN {} ELSE {Id},
  up        <- TRUE,
  handles   <- {Id},
  cancelled <- IF ctxDone \/ mainPc \in {"return", "done"} THEN {Id} ELSE {},
  creator   <- [j \in {Id} |-> "accepted"],
  pipe      <- [j \in {Id} |-> CASE mainPc = "collect" -> "running"
                                 [] mainPc = "report"  -> "ending"
                                 [] OTHER              -> "returned"],
  doing     <- [j \in {Id} |-> Doing],
  late      <- {Id} \X Left,
  del       <- <<>>

(* HandleDeleteJob, or the end of the job, calls its cancel function. *)
ServerCancels ==
  /\ Server!Cancel(Id)
  /\ UNCHANGED <<own, copies, status, lateVars, mainPc, prePc, svPc>>

(* JobServer reduces a pipeline to its statements and leaves nothing out:  *)
(* whatever the goroutines and their belated statements do to the tables   *)
(* and to the context is a step that JobServer takes for the job.          *)
StepsOfServer ==
  [][Server!Pipeline(Id) \/ Server!Lands(Id) \/ ServerCancels]_(Server!vars)
=============================================================================
