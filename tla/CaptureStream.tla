---------------------------- MODULE CaptureStream ----------------------------
(***************************************************************************)
(* What the captures of live-sniffer capture, from the network interface   *)
(* to packet_logs.  The listener of a capture fills a batch and hands it   *)
(* to the capture's producer, which sends it to the one topic of all       *)
(* captures; the savers of all captures are one consumer group, read the   *)
(* topic and COPY what they read.  Which requests start and stop captures  *)
(* is in CaptureSessions: here a capture starts once, may be stopped at    *)
(* any moment, and the daemon may be killed and started again.             *)
(*                                                                         *)
(* Kafka is modelled from how the code uses it.  The topic has one         *)
(* partition, so that one consumer of the group owns it.  Offsets are      *)
(* committed by a timer of the consumer, whatever became of the messages   *)
(* that were read, and when a rebalance takes the partition away.  A       *)
(* consumer takes part in a rebalance when it polls; one that does not     *)
(* poll, because its saver has left or its process is gone, stays in the   *)
(* group until the group's timeout.  Nobody closes consumers or producers. *)
(* A producer that cannot deliver a batch in time, or is told that it is   *)
(* not wanted, gives it up and says so in a delivery report, which nobody  *)
(* reads.                                                                  *)
(*                                                                         *)
(* A request or a statement that was sent may be carried out after its     *)
(* sender has given it up, or is gone: at once, much later or never.       *)
(***************************************************************************)
EXTENDS Naturals, Sequences, FiniteSets, SequencesExt

CONSTANTS
  Captures,      \* the captures, each started once
  Savers,        \* the saver workers of a capture
  NonIP,         \* the packets without a network layer
  LongName,      \* those whose protocol's name (IPv6HopByHop) is too long for
                 \* its column, VARCHAR(10)
  BatchSize,     \* packets in a batch
  PacketLimit,   \* bound: packets each listener takes while it is listening
  QueueRoom,     \* queue.buffering.max.messages of a producer
  ReportRoom,    \* delivery reports the producer's event channel holds
  DBFails,       \* a COPY may fail though its context is not done
  MaxFaults,     \* bound: consumers that poll and lose their membership, and
                 \* messages sent again because an answer was lost
  NoConsumer

ASSUME CaptureStreamAssumption ==
  /\ BatchSize \in Nat \ {0} /\ QueueRoom \in Nat \ {0}
  /\ PacketLimit \in [Captures -> Nat] /\ ReportRoom \in Nat
  /\ MaxFaults \in Nat
  /\ DBFails \in BOOLEAN
  /\ NoConsumer \notin Captures \X Savers

Consumers == Captures \X Savers

(* The n-th packet of a capture is <<c, n>>. *)
Packets == UNION {{c} \X (1 .. PacketLimit[c]) : c \in Captures}

VARIABLES
  life,         \* the context of each capture
  taken,        \* how many packets its listener has taken
  batch,        \* the packets the listener holds
  listener,     \* where it is
  queue,        \* the batches its producer has still to deliver
  reported,     \* how many batches the producer has made a report of
  adrift,       \* the batches it, or its process, gave up undelivered
  log,          \* the topic: a sequence of batches
  position,     \* the next offset the owner of the partition reads
  committed,    \* the next offset by what the group has committed
  members,      \* the consumers in the group
  rebalancing,  \* the group has members that came or went
  synced,       \* the members that have joined again since
  owner,        \* the consumer the partition is assigned to
  saver,        \* where each saver is
  holding,      \* the offset of the batch in its COPY, which may have been
                \* broken off, or 0
  copies,       \* copies[o]: how often the batch at offset o was stored
  faults,       \* bound: memberships lost while polling, messages resent
  stopped,      \* observation: the captures that were told to stop
  faulted,      \* observation: the captures that had the database fail
  refused,      \* observation: the packets Produce refused
  resent,       \* observation: the batches that were sent again
  readers,      \* observation: readers[o]: who has read offset o
  uncommitted   \* observation: the offsets read by an owner that lost the
                \* partition before it had committed them

listening == <<taken, batch, listener>>
producing == <<queue, reported, adrift>>
offsets == <<position, committed>>
group == <<members, rebalancing, synced, owner>>
saving == <<saver, holding>>
causes == <<stopped, faulted>>
seen == <<refused, resent, uncommitted>>
vars == <<life, listening, producing, log, offsets, group, saving, copies,
          faults, causes, seen, readers>>

Init ==
  /\ life = [c \in Captures |-> "none"]
  /\ taken = [c \in Captures |-> 0]
  /\ batch = [c \in Captures |-> {}]
  /\ listener = [c \in Captures |-> "none"]
  /\ queue = [c \in Captures |-> {}]
  /\ reported = [c \in Captures |-> 0]
  /\ adrift = [c \in Captures |-> {}]
  /\ log = <<>> /\ copies = <<>> /\ readers = <<>>
  /\ position = 1 /\ committed = 1
  /\ members = {} /\ synced = {} /\ rebalancing = FALSE /\ owner = NoConsumer
  /\ saver = [k \in Consumers |-> "none"]
  /\ holding = [k \in Consumers |-> 0]
  /\ faults = 0
  /\ stopped = {} /\ faulted = {}
  /\ refused = {} /\ resent = {} /\ uncommitted = {}

CtxDone(c) == life[c] # "on"

Cancelled(c) == [life EXCEPT ![c] = IF @ = "on" THEN "cancelled" ELSE @]

-----------------------------------------------------------------------------
(* The life of a capture *)

(* StartPipeline: a producer, a listener and the savers.  A new daemon is  *)
(* there after a kill.                                                     *)
Start(c) ==
  /\ life[c] = "none"
  /\ life' = [life EXCEPT ![c] = "on"]
  /\ listener' = [listener EXCEPT ![c] = "listening"]
  /\ saver' = [k \in Consumers |-> IF k[1] = c THEN "looking" ELSE saver[k]]
  /\ UNCHANGED <<taken, batch, producing, log, offsets, group, holding, copies,
                 faults, causes, seen, readers>>

(* StopPipeline calls the cancel function. *)
Stop(c) ==
  /\ life[c] = "on"
  /\ life' = Cancelled(c)
  /\ stopped' = stopped \union {c}
  /\ UNCHANGED <<listening, producing, log, offsets, group, saving, copies,
                 faults, faulted, seen, readers>>

(* The daemon ends or is killed, with the goroutines and the queues of all *)
(* its captures.  What it has sent is with the broker and the database.    *)
Kill ==
  LET gone == {c \in Captures : life[c] \in {"on", "cancelled"}} IN
  /\ gone # {}
  /\ life' = [c \in Captures |-> IF c \in gone THEN "killed" ELSE life[c]]
  /\ batch' = [c \in Captures |-> {}]
  /\ queue' = [c \in Captures |-> {}]
  /\ adrift' = [c \in Captures |-> adrift[c] \union queue[c]]
  /\ listener' = [c \in Captures |-> IF c \in gone THEN "left" ELSE listener[c]]
  /\ saver' = [k \in Consumers |-> IF k[1] \in gone THEN "left" ELSE saver[k]]
  /\ UNCHANGED <<taken, reported, log, offsets, group, holding, copies, faults,
                 causes, seen, readers>>

-----------------------------------------------------------------------------
(* ListenOnNetwork and the producer *)

(* Mutant: the addresses of a row are not looked at. *)
SendableAny(p) == TRUE

(* PacketDecoder finds addresses for the row. *)
Sendable(p) == p \notin NonIP

(* Delivery reports nobody reads: a message counts against the queue until *)
(* its report is in the event channel.                                     *)
Unreported(c) ==
  IF reported[c] > ReportRoom THEN reported[c] - ReportRoom ELSE 0

(* Mutant: one place too many. *)
QueueFullLate(c) == Cardinality(queue[c]) + Unreported(c) > QueueRoom

QueueFull(c) == Cardinality(queue[c]) + Unreported(c) >= QueueRoom

(* sendBatch; the listener logs a refusal and goes on. *)
Produce(c, b) ==
  IF QueueFull(c)
  THEN refused' = refused \union b /\ UNCHANGED queue
  ELSE queue' = [queue EXCEPT ![c] = @ \union {b}] /\ UNCHANGED refused

TakePacket(c) ==
  LET p == <<c, taken[c] + 1>>
      b == batch[c] \union {x \in {p} : Sendable(x)}
  IN
  /\ listener[c] = "listening" /\ ~CtxDone(c)
  /\ taken[c] < PacketLimit[c]
  /\ taken' = [taken EXCEPT ![c] = @ + 1]
  /\ IF Cardinality(b) >= BatchSize
     THEN batch' = [batch EXCEPT ![c] = {}] /\ Produce(c, b)
     ELSE batch' = [batch EXCEPT ![c] = b] /\ UNCHANGED <<queue, refused>>
  /\ UNCHANGED <<life, listener, reported, adrift, log, offsets, group, saving,
                 copies, faults, causes, resent, uncommitted, readers>>

(* Mutant: what the listener holds goes with it. *)
FlushNot(c) == UNCHANGED <<queue, refused>>

Flush(c) ==
  IF batch[c] # {} THEN Produce(c, batch[c]) ELSE UNCHANGED <<queue, refused>>

(* The packet that comes after the context is done makes the listener look *)
(* at it, and is dropped.                                                  *)
ListenerLeaves(c) ==
  /\ listener[c] = "listening" /\ CtxDone(c)
  /\ Flush(c)
  /\ batch' = [batch EXCEPT ![c] = {}]
  /\ listener' = [listener EXCEPT ![c] = "left"]
  /\ UNCHANGED <<life, taken, reported, adrift, log, offsets, group, saving,
                 copies, faults, causes, resent, uncommitted, readers>>

(* The broker appends a batch to the topic.                                *)
Enters(b) ==
  /\ log' = Append(log, b)
  /\ copies' = Append(copies, 0)
  /\ readers' = Append(readers, {})

(* The producer is done with a batch, and reports on it.                   *)
Report(c, b) ==
  /\ queue' = [queue EXCEPT ![c] = @ \ {b}]
  /\ reported' = [reported EXCEPT ![c] = @ + 1]

(* A batch is delivered; if the broker's answer is lost the producer sends *)
(* the batch again.                                                        *)
Deliver(c) ==
  /\ \E b \in queue[c] :
       /\ Enters(b)
       /\ \/ /\ Report(c, b)
             /\ UNCHANGED <<resent, faults>>
          \/ /\ faults < MaxFaults
             /\ faults' = faults + 1
             /\ resent' = resent \union {b}
             /\ UNCHANGED <<queue, reported>>
  /\ UNCHANGED <<life, listening, adrift, offsets, group, saving, causes,
                 refused, uncommitted>>

(* message.timeout.ms passes, or the broker refuses the batch for good.    *)
GiveUp(c) ==
  /\ \E b \in queue[c] :
       /\ Report(c, b)
       /\ adrift' = [adrift EXCEPT ![c] = @ \union {b}]
  /\ UNCHANGED <<life, listening, log, offsets, group, saving, copies, faults,
                 causes, seen, readers>>

(* A request that was given up reaches the broker after all.               *)
ArriveLate(c) ==
  /\ \E b \in adrift[c] :
       /\ Enters(b)
       /\ adrift' = [adrift EXCEPT ![c] = @ \ {b}]
  /\ UNCHANGED <<life, listening, queue, reported, offsets, group, saving,
                 faults, causes, seen>>

-----------------------------------------------------------------------------
(* The consumer group *)

SaverGoes(k, pc) == saver' = [saver EXCEPT ![k] = pc]

(* Mutant: enable.auto.commit is false and nobody commits. *)
CommittedOffsetNever == committed

(* What a commit writes: the offset after the last one that was read. *)
CommittedOffset == position

(* The timer of the owner's client runs also when its saver has left. *)
Commit ==
  /\ owner # NoConsumer /\ life[owner[1]] # "killed"
  /\ committed < CommittedOffset
  /\ committed' = CommittedOffset
  /\ UNCHANGED <<life, listening, producing, log, position, group, saving,
                 copies, faults, causes, seen, readers>>

(* A poll of a consumer the group does not know. *)
Join(k) ==
  /\ saver[k] = "polling" /\ k \notin members
  /\ members' = members \union {k}
  /\ rebalancing' = TRUE
  /\ synced' = synced \union {k}
  /\ UNCHANGED <<life, listening, producing, log, offsets, owner, saving,
                 copies, faults, causes, seen, readers>>

(* A poll during a rebalance: the owner commits and gives the partition up. *)
Rejoin(k) ==
  /\ saver[k] = "polling" /\ rebalancing /\ k \in members \ synced
  /\ synced' = synced \union {k}
  /\ IF owner = k
     THEN owner' = NoConsumer /\ committed' = CommittedOffset
     ELSE UNCHANGED <<owner, committed>>
  /\ UNCHANGED <<life, listening, producing, log, position, members,
                 rebalancing, saving, copies, faults, causes, seen, readers>>

(* The broker hands the partition to one of the members. *)
Assign ==
  /\ rebalancing /\ members # {} /\ synced = members
  /\ owner' \in members
  /\ position' = committed
  /\ rebalancing' = FALSE /\ synced' = {}
  /\ UNCHANGED <<life, listening, producing, log, committed, members, saving,
                 copies, faults, causes, seen, readers>>

Expel(k) ==
  /\ members' = members \ {k}
  /\ synced' = synced \ {k}
  /\ rebalancing' = (members' # {})
  /\ IF owner = k
     THEN /\ owner' = NoConsumer
          /\ uncommitted' = uncommitted \union (committed .. position - 1)
     ELSE UNCHANGED <<owner, uncommitted>>
  /\ UNCHANGED <<life, listening, producing, log, offsets, saving, copies,
                 causes, refused, resent, readers>>

(* max.poll.interval.ms or the session's timeout passes without a poll. *)
Expire(k) ==
  /\ k \in members /\ saver[k] = "left"
  /\ Expel(k) /\ UNCHANGED faults

(* So it may for a consumer that is in a long COPY or cut off for a while. *)
Evict(k) ==
  /\ k \in members /\ saver[k] # "left"
  /\ faults < MaxFaults
  /\ faults' = faults + 1
  /\ Expel(k)

-----------------------------------------------------------------------------
(* PacketSaverWorker *)

(* The head of the loop. *)
Look(k) ==
  /\ saver[k] = "looking"
  /\ SaverGoes(k, IF CtxDone(k[1]) THEN "left" ELSE "polling")
  /\ UNCHANGED <<life, listening, producing, log, offsets, group, holding,
                 copies, faults, causes, seen, readers>>

(* ReadMessage gives a message; the context may be done by now. *)
Read(k) ==
  /\ saver[k] = "polling" /\ owner = k /\ position <= Len(log)
  /\ holding' = [holding EXCEPT ![k] = position]
  /\ readers' = [readers EXCEPT ![position] = @ \union {k}]
  /\ position' = position + 1
  /\ SaverGoes(k, "copying")
  /\ UNCHANGED <<life, listening, producing, log, committed, group, copies,
                 faults, causes, seen>>

(* ReadMessage gives nothing for 100 ms, or an error. *)
ReadNothing(k) ==
  /\ saver[k] = "polling"
  /\ SaverGoes(k, "looking")
  /\ UNCHANGED <<life, listening, producing, log, offsets, group, holding,
                 copies, faults, causes, seen, readers>>

(* The columns of packet_logs take the rows. *)
Accepts(b) == b \intersect (NonIP \union LongName) = {}

Store(o) == copies' = [copies EXCEPT ![o] = @ + 1]

(* A slow COPY is followed by a pause. *)
CopyEnds(k) ==
  /\ saver[k] = "copying" /\ Accepts(log[holding[k]])
  /\ Store(holding[k])
  /\ holding' = [holding EXCEPT ![k] = 0]
  /\ SaverGoes(k, "looking") \/ SaverGoes(k, "pausing")
  /\ UNCHANGED <<life, listening, producing, log, offsets, group, faults,
                 causes, seen, readers>>

(* Mutant: the saver goes on with the next message. *)
AbortNot(k) == SaverGoes(k, "looking") /\ UNCHANGED life

(* onFailure is in CaptureSessions; cancel and return. *)
Abort(k) == SaverGoes(k, "left") /\ life' = Cancelled(k[1])

(* COPY fails, or is broken off and left with the server. *)
CopyFails(k) ==
  LET o == holding[k]
      c == k[1]
  IN
  /\ saver[k] = "copying"
  /\ DBFails \/ CtxDone(c) \/ ~Accepts(log[o])
  /\ Abort(k)
  /\ faulted' = IF CtxDone(c) \/ ~Accepts(log[o]) THEN faulted
                                                  ELSE faulted \union {c}
  /\ UNCHANGED <<listening, producing, log, offsets, group, holding, copies,
                 faults, stopped, seen, readers>>

(* The server executes a COPY whose saver has left. *)
StoreLate(k) ==
  /\ saver[k] = "left" /\ holding[k] # 0 /\ Accepts(log[holding[k]])
  /\ Store(holding[k])
  /\ holding' = [holding EXCEPT ![k] = 0]
  /\ UNCHANGED <<life, listening, producing, log, offsets, group, saver, faults,
                 causes, seen, readers>>

(* Mutant: the pause ends with the context only. *)
PauseOverNever(c) == CtxDone(c)

(* time.After or ctx.Done. *)
PauseOver(c) == TRUE

PauseEnds(k) ==
  /\ saver[k] = "pausing" /\ PauseOver(k[1])
  /\ SaverGoes(k, "looking") \/ (CtxDone(k[1]) /\ SaverGoes(k, "left"))
  /\ UNCHANGED <<life, listening, producing, log, offsets, group, holding,
                 copies, faults, causes, seen, readers>>

-----------------------------------------------------------------------------
Poll(k) == Join(k) \/ Rejoin(k) \/ Read(k)

Copy(k) == CopyEnds(k) \/ CopyFails(k)

(* The steps of the goroutine itself. *)
Saver(k) ==
  Look(k) \/ Read(k) \/ ReadNothing(k) \/ Copy(k) \/ PauseEnds(k)

(* Nothing is left to do. *)
Over ==
  /\ \A c \in Captures : life[c] = "killed"
  /\ members = {}
  /\ UNCHANGED vars

Next ==
  \/ \E c \in Captures :
       \/ Start(c) \/ Stop(c) \/ TakePacket(c) \/ ListenerLeaves(c)
       \/ Deliver(c) \/ GiveUp(c) \/ ArriveLate(c)
  \/ \E k \in Consumers :
       Saver(k) \/ Poll(k) \/ Expire(k) \/ Evict(k) \/ StoreLate(k)
  \/ Kill \/ Commit \/ Assign \/ Over

Spec == Init /\ [][Next]_vars

(* Broker and database answer or their timeouts pass, timers fire, the     *)
(* scheduler runs every saver, and a message that waits in the consumer is *)
(* given to a later poll if not to this one.  Packets come on the          *)
(* interface of a stopped capture.  Nobody need start or stop captures or  *)
(* capture a packet while they run, and what was given up need never be    *)
(* carried out.                                                            *)
Fairness ==
  /\ \A c \in Captures :
       WF_vars(ListenerLeaves(c)) /\ WF_vars(Deliver(c) \/ GiveUp(c))
  /\ \A k \in Consumers :
       WF_vars(Saver(k)) /\ SF_vars(Poll(k)) /\ WF_vars(Expire(k))
  /\ WF_vars(Commit) /\ WF_vars(Assign)

FairSpec == Spec /\ Fairness

-----------------------------------------------------------------------------
(* Properties *)

Offsets == 1 .. Len(log)

(* A batch has packets of one capture and at most BatchSize of them, a     *)
(* producer holds no more messages than its queue takes, and the partition *)
(* is owned by a member.                                                   *)
TypeOK ==
  /\ life \in [Captures -> {"none", "on", "cancelled", "killed"}]
  /\ \A c \in Captures : taken[c] \in 0 .. PacketLimit[c]
  /\ listener \in [Captures -> {"none", "listening", "left"}]
  /\ saver \in [Consumers ->
                 {"none", "looking", "polling", "copying", "pausing", "left"}]
  /\ reported \in [Captures -> Nat]
  /\ \A c \in Captures :
       /\ batch[c] \subseteq {p \in Packets : p[1] = c}
       /\ Cardinality(batch[c]) < BatchSize
       /\ \A b \in queue[c] \union adrift[c] :
            b \subseteq {p \in Packets : p[1] = c} /\ b # {}
       /\ Cardinality(queue[c]) + Unreported(c) <= QueueRoom
  /\ \A o \in Offsets :
       log[o] \in SUBSET Packets /\ Cardinality(log[o]) \in 1 .. BatchSize
  /\ copies \in [Offsets -> Nat] /\ readers \in [Offsets -> SUBSET Consumers]
  /\ 1 <= committed /\ position <= Len(log) + 1
  /\ owner # NoConsumer => committed <= position /\ owner \in members \ synced
  /\ members \subseteq Consumers /\ synced \subseteq members
  /\ rebalancing \in BOOLEAN
  /\ \A k \in Consumers :
       /\ holding[k] \in Offsets \/ holding[k] = 0
       /\ saver[k] = "copying" => holding[k] # 0
  /\ faults \in 0 .. MaxFaults
  /\ stopped \subseteq Captures /\ faulted \subseteq Captures
  /\ refused \subseteq Packets /\ uncommitted \subseteq Offsets

(* Until its process ends, what a capture took is in its listener's hands, *)
(* in its producer's queue or in the topic: a stop loses nothing of it.    *)
(* It is lost without a word if the producer gave its batch up, for nobody *)
(* reads the reports, and with a line in the log if a full queue refused   *)
(* it.                                                                     *)
NothingLeftBehind ==
  \A p \in Packets :
    p[2] <= taken[p[1]] /\ Sendable(p) /\ life[p[1]] # "killed" =>
      \/ p \in batch[p[1]] \union UNION queue[p[1]]
      \/ \E o \in Offsets : p \in log[o]
      \/ p \in refused \union UNION adrift[p[1]]

(* Offsets are committed before the rows are stored, and yet a batch that  *)
(* the group will not read again is stored, in the hands of a saver, or    *)
(* was read by a saver whose capture has ended: a capture that goes on     *)
(* loses nothing it reads.                                                 *)
LossNeedsAnEnd ==
  \A o \in 1 .. committed - 1 :
    copies[o] = 0 =>
      \E k \in readers[o] :
        \/ saver[k] = "copying" /\ holding[k] = o
        \/ CtxDone(k[1])

(* A packet is stored twice only if its message was sent twice, or if a    *)
(* consumer lost the partition before it had committed what it had read;   *)
(* no request or statement that comes late does it.                        *)
StoredTwiceHasCause ==
  /\ \A o \in Offsets : copies[o] > 1 => o \in uncommitted
  /\ \A o1, o2 \in Offsets :
       o1 # o2 /\ log[o1] \intersect log[o2] # {} => log[o1] \in resent

(* A capture is ended by a stop, by a database that fails, or by a batch   *)
(* with a protocol's name too long for the table, whichever capture put it *)
(* into the topic: never by a packet without addresses.                    *)
CancelHasCause ==
  \A c \in Captures : life[c] = "cancelled" =>
    \/ c \in stopped \union faulted
    \/ \E o \in Offsets :
         log[o] \intersect LongName # {} /\ \E k \in readers[o] : k[1] = c

(* The packets in the topic, in a producer's queue or with a listener that *)
(* will leave, and not passed by the group.                                *)
OnTheirWay ==
  {p \in Packets \ NonIP :
    /\ \/ p \in batch[p[1]] /\ life[p[1]] = "cancelled"
       \/ p \in UNION queue[p[1]]
       \/ \E o \in Offsets : p \in log[o]
    /\ ~ \E o \in 1 .. committed - 1 : p \in log[o]}

SomebodySaves == \E k \in Consumers : saver[k] \notin {"none", "left"}

(* The group comes past every batch that is on its way, also a stopped     *)
(* capture's last one, and also when the consumer that owns the partition  *)
(* has left without a word, unless no saver is left at all.                *)
Drains == OnTheirWay # {} ~> OnTheirWay = {} \/ ~SomebodySaves
=============================================================================
