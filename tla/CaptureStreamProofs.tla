------------------------- MODULE CaptureStreamProofs -------------------------
(***************************************************************************)
(* What the captures of live-sniffer lose and store twice, for any number  *)
(* of captures and savers, any packets, any batch size and queue, and any  *)
(* number of lost memberships and messages that are sent again.            *)
(***************************************************************************)
EXTENDS CaptureStream, FiniteSetTheorems, TLAPS

-----------------------------------------------------------------------------
(* The inductive invariant *)

(* The types, by whose they are. *)
ListenersOK ==
  /\ life \in [Captures -> {"none", "on", "cancelled", "killed"}]
  /\ taken \in [Captures -> Nat]
  /\ listener \in [Captures -> {"none", "listening", "left"}]
  /\ \A c \in Captures : taken[c] <= PacketLimit[c]

ProducersOK ==
  /\ reported \in [Captures -> Nat]
  /\ queue \in [Captures -> SUBSET SUBSET Packets]
  /\ adrift \in [Captures -> SUBSET SUBSET Packets]
  /\ batch \in [Captures -> SUBSET Packets]
  /\ refused \subseteq Packets

TopicOK ==
  /\ log \in Seq(SUBSET Packets)
  /\ copies \in Seq(Nat) /\ Len(copies) = Len(log)
  /\ readers \in Seq(SUBSET Consumers) /\ Len(readers) = Len(log)

GroupOK ==
  /\ position \in Nat /\ committed \in Nat
  /\ 1 <= position /\ position <= Len(log) + 1
  /\ 1 <= committed /\ committed <= Len(log) + 1
  /\ members \subseteq Consumers /\ synced \subseteq members /\ rebalancing \in BOOLEAN
  /\ owner \in Consumers \union {NoConsumer}
  /\ owner # NoConsumer => committed <= position /\ owner \in members \ synced
  /\ uncommitted \subseteq Offsets

SaversOK ==
  /\ saver \in [Consumers -> {"none", "looking", "polling", "copying", "pausing", "left"}]
  /\ holding \in [Consumers -> Nat]
  /\ \A k \in Consumers :
       /\ holding[k] \in Offsets \/ holding[k] = 0
       /\ saver[k] = "copying" => holding[k] # 0
       /\ holding[k] # 0 => saver[k] \in {"copying", "left"}

CausesOK ==
  /\ faults \in 0 .. MaxFaults
  /\ stopped \subseteq Captures /\ faulted \subseteq Captures

(* A capture that has not started, or whose process is gone, has nobody at *)
(* work.                                                                   *)
Lives ==
  /\ \A c \in Captures : life[c] = "none" =>
       taken[c] = 0 /\ batch[c] = {} /\ listener[c] = "none"
  /\ \A c \in Captures : life[c] = "killed" => listener[c] = "left"
  /\ \A k \in Consumers : life[k[1]] = "none" => saver[k] = "none"
  /\ \A k \in Consumers : life[k[1]] = "killed" => saver[k] = "left"

(* A batch of the first n packets of capture c, without those Sendable     *)
(* refuses.                                                                *)
IsBatch(c, n, b) ==
  \A p \in b : p \in Packets /\ p[1] = c /\ p[2] <= n /\ Sendable(p)

FullSize(b) == IsFiniteSet(b) /\ Cardinality(b) \in 1 .. BatchSize

(* What a producer was given and may still put into the topic. *)
Handed(c) == queue[c] \union adrift[c]

Batches ==
  /\ \A c \in Captures :
       /\ IsBatch(c, taken[c], batch[c]) /\ IsFiniteSet(batch[c]) /\ Cardinality(batch[c]) < BatchSize
       /\ \A b \in Handed(c) : IsBatch(c, taken[c], b) /\ FullSize(b)
  /\ \A o \in Offsets : FullSize(log[o]) /\ \E c \in Captures : IsBatch(c, taken[c], log[o])

QueueFits ==
  \A c \in Captures : IsFiniteSet(queue[c]) /\ Cardinality(queue[c]) + Unreported(c) <= QueueRoom

(* A packet is in one batch, and that batch is in one place, or else was   *)
(* sent again.                                                             *)
Apart ==
  /\ \A c \in Captures :
       /\ queue[c] \intersect adrift[c] = {}
       /\ \A b \in Handed(c) : batch[c] \intersect b = {}
       /\ \A o \in Offsets : batch[c] \intersect log[o] = {}
       /\ \A b1, b2 \in Handed(c) : b1 # b2 => b1 \intersect b2 = {}
       /\ \A b \in Handed(c), o \in Offsets :
            b \intersect log[o] # {} => b = log[o] /\ b \in resent
  /\ \A o1, o2 \in Offsets : o1 # o2 /\ log[o1] \intersect log[o2] # {} =>
       log[o1] = log[o2] /\ log[o1] \in resent

(* The next offset that is read, by the owner or by the next one. *)
NextOffset == IF owner # NoConsumer THEN position ELSE committed

(* Who has an offset in hand has read it, and who has read one has run.    *)
ReadersOK ==
  /\ \A k \in Consumers : holding[k] # 0 => k \in readers[holding[k]]
  /\ \A o \in Offsets : \A k \in readers[o] : life[k[1]] # "none"

(* An offset that no owner has lost is read once, by one saver, and then   *)
(* stored at most once.                                                    *)
ReadOnce ==
  \A o \in Offsets \ uncommitted :
    /\ NextOffset <= o => readers[o] = {}
    /\ \A k, l \in readers[o] : k = l
    /\ copies[o] > 0 => readers[o] # {}
    /\ copies[o] <= 1
    /\ copies[o] = 1 => \A k \in Consumers : holding[k] # o

Copying(k, o) == saver[k] = "copying" /\ holding[k] = o

(* An offset the group has read or will not read again is stored, in a     *)
(* saver's hands, or was in those of a saver whose capture has ended.      *)
Passed ==
  \A o \in Offsets : o < NextOffset /\ copies[o] = 0 =>
    \E k \in readers[o] : Copying(k, o) \/ CtxDone(k[1])

Inv ==
  /\ ListenersOK /\ ProducersOK /\ TopicOK /\ GroupOK /\ SaversOK /\ CausesOK
  /\ Lives /\ Batches /\ QueueFits /\ Apart /\ ReadersOK /\ ReadOnce /\ Passed
  /\ NothingLeftBehind /\ CancelHasCause

-----------------------------------------------------------------------------
(* Which actions change what: every other step leaves it alone.            *)

LifeSteps ==
  Kill \/ (\E c \in Captures : Start(c) \/ Stop(c)) \/ \E k \in Consumers : CopyFails(k)

ListenerSteps ==
  Kill \/ \E c \in Captures : Start(c) \/ TakePacket(c) \/ ListenerLeaves(c)

ProducerSteps ==
  Kill \/ \E c \in Captures : 
    \/ TakePacket(c) \/ ListenerLeaves(c)
    \/ Deliver(c) \/ GiveUp(c) \/ ArriveLate(c)

TopicSteps ==
  \/ \E c \in Captures : Deliver(c) \/ ArriveLate(c)
  \/ \E k \in Consumers : Read(k) \/ CopyEnds(k) \/ StoreLate(k)

GroupSteps ==
  \/ Commit \/ Assign
  \/ \E k \in Consumers : Join(k) \/ Rejoin(k) \/ Read(k) \/ Expire(k) \/ Evict(k)

SaverSteps ==
  \/ Kill \/ \E c \in Captures : Start(c)
  \/ \E k \in Consumers :
       \/ Look(k) \/ Read(k) \/ ReadNothing(k) \/ PauseEnds(k)
       \/ CopyEnds(k) \/ CopyFails(k) \/ StoreLate(k)

CauseSteps ==
  \/ \E c \in Captures : Stop(c) \/ Deliver(c)
  \/ \E k \in Consumers : Evict(k) \/ CopyFails(k)

Frames ==
  /\ LifeSteps \/ UNCHANGED life
  /\ ListenerSteps \/ UNCHANGED <<taken, listener>>
  /\ ProducerSteps \/ UNCHANGED <<batch, queue, reported, adrift, refused>>
  /\ TopicSteps \/ UNCHANGED <<log, copies, readers>>
  /\ GroupSteps \/ UNCHANGED <<position, committed, members, rebalancing, synced, owner, uncommitted>>
  /\ SaverSteps \/ UNCHANGED <<saver, holding>>
  /\ CauseSteps \/ UNCHANGED <<faults, stopped, faulted, resent>>

LEMMA WhoChanges == [Next]_vars => Frames
<1> SUFFICES ASSUME [Next]_vars
             PROVE  Frames
  OBVIOUS
<1> USE DEF Frames, LifeSteps, ListenerSteps, ProducerSteps, TopicSteps, GroupSteps,
            SaverSteps, CauseSteps,
            listening, producing, offsets, group, saving, causes, seen
<1>1. CASE UNCHANGED vars
  BY <1>1 DEF vars
<1>2. CASE Kill
  BY <1>2 DEF Kill
<1>3. CASE Commit
  BY <1>3 DEF Commit
<1>4. CASE Assign
  BY <1>4 DEF Assign
<1>5. CASE Over
  BY <1>5 DEF Over, vars
<1>6. ASSUME NEW c \in Captures, Start(c)
      PROVE  Frames
  BY <1>6 DEF Start
<1>7. ASSUME NEW c \in Captures, Stop(c)
      PROVE  Frames
  BY <1>7 DEF Stop
<1>8. ASSUME NEW c \in Captures, TakePacket(c)
      PROVE  Frames
  BY <1>8 DEF TakePacket
<1>9. ASSUME NEW c \in Captures, ListenerLeaves(c)
      PROVE  Frames
  BY <1>9 DEF ListenerLeaves
<1>10. ASSUME NEW c \in Captures, Deliver(c)
      PROVE  Frames
  BY <1>10 DEF Deliver, Enters, Report
<1>11. ASSUME NEW k \in Consumers, Join(k)
      PROVE  Frames
  BY <1>11 DEF Join
<1>12. ASSUME NEW k \in Consumers, Rejoin(k)
      PROVE  Frames
  BY <1>12 DEF Rejoin
<1>13. ASSUME NEW k \in Consumers, Read(k)
      PROVE  Frames
  BY <1>13 DEF Read
<1>14. ASSUME NEW k \in Consumers, Expire(k)
      PROVE  Frames
  BY <1>14 DEF Expire, Expel
<1>15. ASSUME NEW k \in Consumers, Evict(k)
      PROVE  Frames
  BY <1>15 DEF Evict, Expel
<1>16. ASSUME NEW k \in Consumers, Look(k)
      PROVE  Frames
  BY <1>16 DEF Look
<1>17. ASSUME NEW k \in Consumers, ReadNothing(k)
      PROVE  Frames
  BY <1>17 DEF ReadNothing
<1>18. ASSUME NEW k \in Consumers, CopyEnds(k)
      PROVE  Frames
  BY <1>18 DEF CopyEnds
<1>19. ASSUME NEW k \in Consumers, CopyFails(k)
      PROVE  Frames
  BY <1>19 DEF CopyFails
<1>20. ASSUME NEW k \in Consumers, PauseEnds(k)
      PROVE  Frames
  BY <1>20 DEF PauseEnds
<1>21. ASSUME NEW c \in Captures, GiveUp(c)
      PROVE  Frames
  BY <1>21 DEF GiveUp, Report
<1>22. ASSUME NEW c \in Captures, ArriveLate(c)
      PROVE  Frames
  BY <1>22 DEF ArriveLate, Enters
<1>23. ASSUME NEW k \in Consumers, StoreLate(k)
      PROVE  Frames
  BY <1>23 DEF StoreLate
<1> QED
  BY <1>1, <1>2, <1>3, <1>4, <1>5, <1>6, <1>7, <1>8, <1>9, <1>10, <1>11, <1>12, <1>13, <1>14, <1>15, <1>16, <1>17, <1>18, <1>19, <1>20, <1>21, <1>22, <1>23
  DEF Next, Poll, Copy, Saver

-----------------------------------------------------------------------------
(* Facts about the data *)

LEMMA ConsumerFacts ==
  ASSUME NEW k \in Consumers
  PROVE  k[1] \in Captures
  BY DEF Consumers

LEMMA PacketFacts ==
  /\ \A p \in Packets : p[1] \in Captures /\ p[2] \in 1 .. PacketLimit[p[1]] /\ p = <<p[1], p[2]>>
  /\ \A c \in Captures : \A n \in 1 .. PacketLimit[c] : <<c, n>> \in Packets
<1>1. ASSUME NEW p \in Packets
      PROVE  p[1] \in Captures /\ p[2] \in 1 .. PacketLimit[p[1]] /\ p = <<p[1], p[2]>>
  <2>1. PICK c \in Captures : p \in {c} \X (1 .. PacketLimit[c])
    BY DEF Packets
  <2> QED BY <2>1
<1>2. ASSUME NEW c \in Captures, NEW n \in 1 .. PacketLimit[c]
      PROVE  <<c, n>> \in Packets
  <2>1. <<c, n>> \in {c} \X (1 .. PacketLimit[c])
    OBVIOUS
  <2> QED BY <2>1 DEF Packets
<1> QED BY <1>1, <1>2

(* What a step appends to the topic, and what it writes at an offset.      *)
LEMMA AppendFacts ==
  ASSUME NEW S, NEW s \in Seq(S), NEW e \in S
  PROVE  /\ Append(s, e) \in Seq(S) /\ Len(Append(s, e)) = Len(s) + 1
         /\ Append(s, e)[Len(s) + 1] = e
         /\ \A i \in 1 .. Len(s) : Append(s, e)[i] = s[i]
  OBVIOUS

LEMMA UpdateFacts ==
  ASSUME NEW S, NEW s \in Seq(S), NEW i \in 1 .. Len(s), NEW e \in S
  PROVE  LET t == [s EXCEPT ![i] = e] IN
         /\ t \in Seq(S) /\ Len(t) = Len(s)
         /\ t[i] = e
         /\ \A j \in 1 .. Len(s) : j # i => t[j] = s[j]
  OBVIOUS

(* The topic only grows. *)
TopicGrows ==
  /\ Len(log) \in Nat /\ Len(log') \in Nat /\ Len(log) <= Len(log')
  /\ \A o \in Offsets : o \in Offsets' /\ log'[o] = log[o]

-----------------------------------------------------------------------------
(* Every step keeps the types. *)

LEMMA ListenersNext == ListenersOK /\ [Next]_vars => ListenersOK'
<1> SUFFICES ASSUME ListenersOK, [Next]_vars
             PROVE  ListenersOK'
  OBVIOUS
<1> USE CaptureStreamAssumption DEF ListenersOK, listening
<1>1. CASE Kill
  BY <1>1 DEF Kill
<1>2. ASSUME NEW c \in Captures, Start(c)
      PROVE  ListenersOK'
  BY <1>2 DEF Start
<1>3. ASSUME NEW c \in Captures, Stop(c)
      PROVE  ListenersOK'
  BY <1>3 DEF Stop, Cancelled
<1>4. ASSUME NEW c \in Captures, TakePacket(c)
      PROVE  ListenersOK'
  BY <1>4 DEF TakePacket
<1>5. ASSUME NEW c \in Captures, ListenerLeaves(c)
      PROVE  ListenersOK'
  BY <1>5 DEF ListenerLeaves
<1>6. ASSUME NEW k \in Consumers, CopyFails(k)
      PROVE  ListenersOK'
  <2>1. life' = Cancelled(k[1]) /\ UNCHANGED <<taken, listener>>
    BY <1>6 DEF CopyFails, Abort
  <2> QED BY <2>1, ConsumerFacts DEF Cancelled
<1>7. CASE UNCHANGED <<life, taken, listener>>
  BY <1>7
<1> QED
  BY <1>1, <1>2, <1>3, <1>4, <1>5, <1>6, <1>7, WhoChanges DEF Frames, LifeSteps, ListenerSteps

LEMMA ProducersNext == ProducersOK /\ ListenersOK /\ [Next]_vars => ProducersOK'
<1> SUFFICES ASSUME ProducersOK, ListenersOK, [Next]_vars
             PROVE  ProducersOK'
  OBVIOUS
<1> USE DEF ProducersOK
<1>1. CASE Kill
  BY <1>1 DEF Kill, seen
<1>2. ASSUME NEW c \in Captures, NEW b \in SUBSET Packets, Produce(c, b)
      PROVE  queue' \in [Captures -> SUBSET SUBSET Packets] /\ refused' \subseteq Packets
  BY <1>2 DEF Produce
<1>3. ASSUME NEW c \in Captures, TakePacket(c)
      PROVE  ProducersOK'
  <2> DEFINE p == <<c, taken[c] + 1>>
             b == batch[c] \union {x \in {p} : Sendable(x)}
  <2>1. b \in SUBSET Packets
    <3>1. taken[c] + 1 \in 1 .. PacketLimit[c]
      <4>1. taken[c] < PacketLimit[c]
        BY <1>3 DEF TakePacket
      <4>2. taken[c] \in Nat /\ PacketLimit[c] \in Nat
        BY CaptureStreamAssumption DEF ListenersOK
      <4> QED BY <4>1, <4>2
    <3> QED BY <3>1, PacketFacts
  <2> HIDE DEF b
  <2>2. \/ batch' = [batch EXCEPT ![c] = {}] /\ Produce(c, b)
        \/ batch' = [batch EXCEPT ![c] = b] /\ UNCHANGED <<queue, refused>>
    BY <1>3 DEF TakePacket, b
  <2>3. UNCHANGED <<reported, adrift>>
    BY <1>3 DEF TakePacket
  <2> QED BY <1>2, <2>1, <2>2, <2>3
<1>4. ASSUME NEW c \in Captures, ListenerLeaves(c)
      PROVE  ProducersOK'
  <2>1. Produce(c, batch[c]) \/ UNCHANGED <<queue, refused>>
    BY <1>4 DEF ListenerLeaves, Flush
  <2>2. batch' = [batch EXCEPT ![c] = {}] /\ UNCHANGED <<reported, adrift>>
    BY <1>4 DEF ListenerLeaves
  <2> QED BY <1>2, <2>1, <2>2
<1>51. ASSUME NEW c \in Captures, NEW b \in queue[c], Report(c, b)
       PROVE  /\ queue' \in [Captures -> SUBSET SUBSET Packets]
              /\ reported' \in [Captures -> Nat]
  <2>1. queue[c] \ {b} \subseteq SUBSET Packets /\ reported[c] + 1 \in Nat
    OBVIOUS
  <2> QED BY <1>51, <2>1 DEF Report
<1>5. ASSUME NEW c \in Captures, Deliver(c)
      PROVE  ProducersOK'
  <2>1. UNCHANGED <<batch, refused, adrift>>
    BY <1>5 DEF Deliver, listening
  <2>2. PICK b \in queue[c] : Report(c, b) \/ UNCHANGED <<queue, reported>>
    BY <1>5 DEF Deliver
  <2> QED BY <1>51, <2>1, <2>2
<1>52. ASSUME NEW c \in Captures, GiveUp(c)
      PROVE  ProducersOK'
  <2>1. UNCHANGED <<batch, refused>>
    BY <1>52 DEF GiveUp, listening, seen
  <2>2. PICK b \in queue[c] :
          Report(c, b) /\ adrift' = [adrift EXCEPT ![c] = @ \union {b}]
    BY <1>52 DEF GiveUp
  <2>3. adrift[c] \union {b} \subseteq SUBSET Packets
    OBVIOUS
  <2> QED BY <1>51, <2>1, <2>2, <2>3
<1>53. ASSUME NEW c \in Captures, ArriveLate(c)
      PROVE  ProducersOK'
  <2>1. UNCHANGED <<batch, refused, queue, reported>>
    BY <1>53 DEF ArriveLate, listening, seen
  <2>2. PICK b \in adrift[c] : adrift' = [adrift EXCEPT ![c] = @ \ {b}]
    BY <1>53 DEF ArriveLate
  <2> QED BY <2>1, <2>2
<1>6. CASE UNCHANGED <<batch, queue, reported, adrift, refused>>
  BY <1>6
<1> QED
  BY <1>1, <1>3, <1>4, <1>5, <1>52, <1>53, <1>6, WhoChanges
  DEF Frames, ProducerSteps

(* A batch enters at the end of the topic, unread and not stored.          *)
LEMMA EntersFacts ==
  ASSUME TopicOK, NEW b \in SUBSET Packets, Enters(b)
  PROVE  LET n == Len(log) + 1 IN
         /\ log' \in Seq(SUBSET Packets) /\ Len(log') = n /\ log'[n] = b
         /\ copies' \in Seq(Nat) /\ Len(copies') = n /\ copies'[n] = 0
         /\ readers' \in Seq(SUBSET Consumers) /\ Len(readers') = n /\ readers'[n] = {}
         /\ \A o \in Offsets : /\ log'[o] = log[o] /\ copies'[o] = copies[o]
                               /\ readers'[o] = readers[o]
<1>1. /\ log' = Append(log, b)
      /\ copies' = Append(copies, 0) /\ readers' = Append(readers, {})
  BY DEF Enters
<1>2. /\ log' \in Seq(SUBSET Packets) /\ Len(log') = Len(log) + 1 /\ log'[Len(log) + 1] = b
      /\ \A o \in Offsets : log'[o] = log[o]
  BY <1>1, AppendFacts DEF TopicOK, Offsets
<1>3. /\ copies' \in Seq(Nat) /\ Len(copies') = Len(log) + 1 /\ copies'[Len(log) + 1] = 0
      /\ \A o \in Offsets : copies'[o] = copies[o]
  BY <1>1, AppendFacts DEF TopicOK, Offsets
<1>4. /\ readers' \in Seq(SUBSET Consumers) /\ Len(readers') = Len(log) + 1
      /\ readers'[Len(log) + 1] = {}
      /\ \A o \in Offsets : readers'[o] = readers[o]
  BY <1>1, AppendFacts DEF TopicOK, Offsets
<1> QED BY <1>2, <1>3, <1>4

(* It is one the producer was given, which keeps it only to send it again. *)
Arrives(c) == Deliver(c) \/ ArriveLate(c)

LEMMA ArrivalFacts ==
  ASSUME TopicOK, ProducersOK, NEW c \in Captures, Arrives(c)
  PROVE  /\ \E b \in Handed(c) :
              /\ b \in SUBSET Packets /\ Enters(b)
              /\ \/ b \in resent' /\ UNCHANGED <<queue, adrift>>
                 \/ /\ b \in queue[c] /\ queue' = [queue EXCEPT ![c] = @ \ {b}]
                    /\ UNCHANGED adrift
                 \/ /\ b \in adrift[c] /\ adrift' = [adrift EXCEPT ![c] = @ \ {b}]
                    /\ UNCHANGED queue
              /\ \A d \in Captures : /\ Handed(d)' \subseteq Handed(d)
                                     /\ \A a \in Handed(d) : a # b => a \in Handed(d)'
         /\ resent \subseteq resent'
         /\ UNCHANGED <<life, taken, batch, refused, position, committed, owner,
                        uncommitted, saver, holding>>
<1>1. /\ resent \subseteq resent'
      /\ UNCHANGED <<life, taken, batch, refused, position, committed, owner,
                     uncommitted, saver, holding>>
  BY DEF Arrives, Deliver, ArriveLate, listening, offsets, group, saving, seen
<1>2. PICK b \in Handed(c) :
        /\ Enters(b)
        /\ \/ b \in resent' /\ UNCHANGED <<queue, adrift>>
           \/ /\ b \in queue[c] /\ queue' = [queue EXCEPT ![c] = @ \ {b}]
              /\ UNCHANGED adrift
           \/ /\ b \in adrift[c] /\ adrift' = [adrift EXCEPT ![c] = @ \ {b}]
              /\ UNCHANGED queue
  BY DEF Arrives, Deliver, ArriveLate, Report, Handed
<1>3. b \in SUBSET Packets
  BY DEF ProducersOK, Handed
<1>4. \A d \in Captures : /\ Handed(d)' \subseteq Handed(d)
                         /\ \A a \in Handed(d) : a # b => a \in Handed(d)'
  BY <1>2 DEF Handed, ProducersOK
<1> QED BY <1>1, <1>2, <1>3, <1>4

(* What a producer gives up may still come. *)
LEMMA GiveUpFacts ==
  ASSUME ProducersOK, NEW c \in Captures, GiveUp(c)
  PROVE  /\ \E b \in queue[c] : /\ Report(c, b)
                               /\ queue' = [queue EXCEPT ![c] = @ \ {b}]
                               /\ adrift' = [adrift EXCEPT ![c] = @ \union {b}]
         /\ \A d \in Captures : Handed(d)' = Handed(d)
         /\ UNCHANGED <<batch, taken, refused, log, resent>>
<1>1. PICK b \in queue[c] : /\ Report(c, b)
                           /\ adrift' = [adrift EXCEPT ![c] = @ \union {b}]
  BY DEF GiveUp
<1>2. queue' = [queue EXCEPT ![c] = @ \ {b}]
  BY <1>1 DEF Report
<1>3. \A d \in Captures : Handed(d)' = Handed(d)
  BY <1>1, <1>2 DEF Handed, ProducersOK
<1>4. UNCHANGED <<batch, taken, refused, log, resent>>
  BY DEF GiveUp, listening, seen
<1> QED BY <1>1, <1>2, <1>3, <1>4

(* The owner reads the next offset. *)
LEMMA ReadFacts ==
  ASSUME TopicOK, GroupOK, SaversOK, NEW k \in Consumers, Read(k)
  PROVE  /\ position \in Offsets /\ owner = k /\ saver[k] = "polling"
         /\ readers' \in Seq(SUBSET Consumers) /\ Len(readers') = Len(readers)
         /\ readers'[position] = readers[position] \union {k}
         /\ \A o \in Offsets : o # position => readers'[o] = readers[o]
         /\ holding' = [holding EXCEPT ![k] = position]
         /\ saver' = [saver EXCEPT ![k] = "copying"]
         /\ position' = position + 1
         /\ UNCHANGED <<log, copies, committed, owner, uncommitted, life>>
<1>1. /\ owner = k /\ saver[k] = "polling" /\ position <= Len(log)
      /\ readers' = [readers EXCEPT ![position] = @ \union {k}]
      /\ holding' = [holding EXCEPT ![k] = position]
      /\ saver' = [saver EXCEPT ![k] = "copying"]
      /\ position' = position + 1
      /\ UNCHANGED <<log, copies, committed, owner, uncommitted, life>>
  BY DEF Read, SaverGoes, group, seen
<1>2. position \in Offsets
  BY <1>1 DEF GroupOK, Offsets, TopicOK
<1>3. position \in 1 .. Len(readers)
  BY <1>2 DEF TopicOK, Offsets
<1>4. readers[position] \union {k} \in SUBSET Consumers
  BY <1>3 DEF TopicOK
<1> DEFINE e == readers[position] \union {k}
<1>5. readers' = [readers EXCEPT ![position] = e]
  BY <1>1
<1> HIDE DEF e
<1>6. /\ readers' \in Seq(SUBSET Consumers) /\ Len(readers') = Len(readers)
      /\ readers'[position] = e
      /\ \A o \in 1 .. Len(readers) : o # position => readers'[o] = readers[o]
  BY <1>3, <1>4, <1>5, UpdateFacts DEF TopicOK, e
<1> QED BY <1>1, <1>2, <1>6 DEF TopicOK, Offsets, e

(* A batch that is stored was in hand. *)
LEMMA StoreFacts ==
  ASSUME TopicOK, NEW o \in Offsets, Store(o)
  PROVE  /\ copies' \in Seq(Nat) /\ Len(copies') = Len(copies)
         /\ copies'[o] = copies[o] + 1
         /\ \A i \in Offsets : i # o => copies'[i] = copies[i]
         /\ copies[o] \in Nat
<1>1. o \in 1 .. Len(copies)
  BY DEF TopicOK, Offsets
<1>2. copies[o] \in Nat /\ copies[o] + 1 \in Nat
  BY <1>1 DEF TopicOK
<1>3. copies' = [copies EXCEPT ![o] = copies[o] + 1]
  BY DEF Store
<1> QED BY <1>1, <1>2, <1>3, UpdateFacts DEF TopicOK, Offsets

LEMMA HoldingFacts ==
  ASSUME SaversOK, NEW k \in Consumers
  PROVE  /\ saver[k] = "copying" => holding[k] # 0
         /\ holding[k] # 0 => holding[k] \in Offsets
  BY DEF SaversOK, Offsets

LEMMA TopicNext ==
  ASSUME TopicOK, ProducersOK, GroupOK, SaversOK, [Next]_vars
  PROVE  TopicOK' /\ TopicGrows
<1>1. ASSUME NEW c \in Captures, Arrives(c)
      PROVE  TopicOK' /\ TopicGrows
  <2>1. PICK b \in SUBSET Packets : Enters(b)
    BY <1>1, ArrivalFacts
  <2>2. /\ log' \in Seq(SUBSET Packets) /\ Len(log') = Len(log) + 1
        /\ copies' \in Seq(Nat) /\ Len(copies') = Len(log) + 1
        /\ readers' \in Seq(SUBSET Consumers) /\ Len(readers') = Len(log) + 1
        /\ \A o \in Offsets : log'[o] = log[o]
    BY <2>1, EntersFacts
  <2> QED BY <2>2 DEF TopicOK, TopicGrows, Offsets
<1>2. ASSUME NEW k \in Consumers, Read(k)
      PROVE  TopicOK' /\ TopicGrows
  BY <1>2, ReadFacts DEF TopicOK, TopicGrows, Offsets
<1>3. ASSUME NEW k \in Consumers, CopyEnds(k) \/ StoreLate(k)
      PROVE  TopicOK' /\ TopicGrows
  <2>1. UNCHANGED <<log, readers>> /\ Store(holding[k])
    BY <1>3 DEF CopyEnds, StoreLate
  <2>2. holding[k] \in Offsets
    BY <1>3, HoldingFacts DEF CopyEnds, StoreLate
  <2> QED BY <2>1, <2>2, StoreFacts DEF TopicOK, TopicGrows, Offsets
<1>4. CASE UNCHANGED <<log, copies, readers>>
  BY <1>4 DEF TopicOK, TopicGrows, Offsets
<1> QED
  BY <1>1, <1>2, <1>3, <1>4, WhoChanges DEF Frames, TopicSteps, Arrives

LEMMA ExpelFacts ==
  ASSUME GroupOK, TopicOK, NEW k \in members, Expel(k), TopicGrows
  PROVE  GroupOK'
<1>1. /\ members' = members \ {k} /\ synced' = synced \ {k}
      /\ rebalancing' = (members' # {})
      /\ UNCHANGED <<position, committed, log>>
  BY DEF Expel, offsets
<1>2. \/ owner = k /\ owner' = NoConsumer /\ uncommitted' = uncommitted \union (committed .. position - 1)
      \/ owner # k /\ UNCHANGED <<owner, uncommitted>>
  BY DEF Expel
<1>3. committed .. position - 1 \subseteq Offsets
  BY DEF GroupOK, Offsets, TopicGrows
<1> QED BY <1>1, <1>2, <1>3 DEF GroupOK, Offsets

LEMMA GroupNext ==
  ASSUME TopicOK, ProducersOK, GroupOK, SaversOK, [Next]_vars
  PROVE  GroupOK'
<1> USE CaptureStreamAssumption
<1>0. TopicGrows
  BY TopicNext
<1>01. Len(log) \in Nat /\ Len(log') \in Nat /\ Len(log) <= Len(log')
  BY <1>0 DEF TopicGrows
<1>02. uncommitted \subseteq Offsets'
  BY <1>0 DEF GroupOK, TopicGrows
<1>1. CASE Commit
  BY <1>1 DEF Commit, CommittedOffset, group, seen, GroupOK, Offsets
<1>2. CASE Assign
  <2>1. owner = NoConsumer
    BY <1>2 DEF Assign, GroupOK
  <2>2. /\ owner' \in members /\ position' = committed /\ synced' = {} /\ rebalancing' = FALSE
        /\ UNCHANGED <<log, committed, members, uncommitted>>
    BY <1>2 DEF Assign, seen
  <2>3. /\ position' \in Nat /\ committed' \in Nat
        /\ 1 <= position' /\ position' <= Len(log') + 1
        /\ 1 <= committed' /\ committed' <= Len(log') + 1 /\ committed' <= position'
    BY <1>01, <2>2 DEF GroupOK
  <2>4. /\ members' \subseteq Consumers /\ synced' \subseteq members' /\ rebalancing' \in BOOLEAN
        /\ owner' \in Consumers \union {NoConsumer} /\ owner' \in members' \ synced'
    BY <2>2 DEF GroupOK
  <2>5. uncommitted' \subseteq Offsets'
    BY <1>02, <2>2
  <2> QED BY <2>3, <2>4, <2>5 DEF GroupOK
<1>3. ASSUME NEW k \in Consumers, Join(k)
      PROVE  GroupOK'
  BY <1>3 DEF Join, offsets, seen, GroupOK, Offsets
<1>4. ASSUME NEW k \in Consumers, Rejoin(k)
      PROVE  GroupOK'
  BY <1>4 DEF Rejoin, CommittedOffset, seen, GroupOK, Offsets
<1>5. ASSUME NEW k \in Consumers, Read(k)
      PROVE  GroupOK'
  <2>1. UNCHANGED <<members, synced, rebalancing>>
    BY <1>5 DEF Read, group
  <2>2. /\ position \in Offsets /\ position' = position + 1
        /\ UNCHANGED <<log, committed, owner, uncommitted>>
    BY <1>5, ReadFacts
  <2>3. position <= Len(log)
    BY <1>01, <2>2 DEF Offsets
  <2> QED BY <1>01, <1>02, <2>1, <2>2, <2>3 DEF GroupOK
<1>6. ASSUME NEW k \in Consumers, Expire(k) \/ Evict(k)
      PROVE  GroupOK'
  BY <1>0, <1>6, ExpelFacts DEF Expire, Evict
<1>7. CASE UNCHANGED <<position, committed, members, rebalancing, synced, owner, uncommitted>>
  BY <1>01, <1>02, <1>7 DEF GroupOK
<1> QED
  BY <1>1, <1>2, <1>3, <1>4, <1>5, <1>6, <1>7, WhoChanges DEF Frames, GroupSteps

LEMMA SaversNext ==
  ASSUME TopicOK, ProducersOK, GroupOK, SaversOK, Lives, ListenersOK, [Next]_vars
  PROVE  SaversOK'
<1>0. TopicGrows
  BY TopicNext
<1>01. \A o \in Offsets : o \in Offsets'
  BY <1>0 DEF TopicGrows
<1>1. CASE Kill
  <2> DEFINE gone == {c \in Captures : life[c] \in {"on", "cancelled"}}
  <2>1. /\ saver' = [k \in Consumers |-> IF k[1] \in gone THEN "left" ELSE saver[k]]
        /\ UNCHANGED <<holding, log>>
    BY <1>1 DEF Kill
  <2> QED BY <2>1 DEF SaversOK, Offsets
<1>2. ASSUME NEW c \in Captures, Start(c)
      PROVE  SaversOK'
  <2>1. /\ saver' = [k \in Consumers |-> IF k[1] = c THEN "looking" ELSE saver[k]]
        /\ UNCHANGED <<holding, log>> /\ life[c] = "none"
    BY <1>2 DEF Start
  <2>2. \A k \in Consumers : k[1] = c => holding[k] = 0
    BY <2>1 DEF Lives, SaversOK
  <2> QED BY <2>1, <2>2 DEF SaversOK, Offsets
<1>3. ASSUME NEW k \in Consumers, Look(k) \/ ReadNothing(k) \/ PauseEnds(k)
      PROVE  SaversOK'
  BY <1>3 DEF Look, ReadNothing, PauseEnds, SaverGoes, SaversOK, Offsets
<1>4. ASSUME NEW k \in Consumers, Read(k)
      PROVE  SaversOK'
  <2>1. position \in Nat /\ position \in Offsets'
    BY <1>01, <1>4, ReadFacts DEF GroupOK
  <2>2. /\ saver' = [saver EXCEPT ![k] = "copying"]
        /\ holding' = [holding EXCEPT ![k] = position]
    BY <1>4, ReadFacts
  <2>3. /\ saver' \in [Consumers -> {"none", "looking", "polling", "copying", "pausing", "left"}]
        /\ holding' \in [Consumers -> Nat]
    BY <2>1, <2>2 DEF SaversOK
  <2>4. \A l \in Consumers : /\ holding'[l] = IF l = k THEN position ELSE holding[l]
                            /\ saver'[l] = IF l = k THEN "copying" ELSE saver[l]
    BY <2>2 DEF SaversOK
  <2>5. position # 0
    BY <1>4, ReadFacts DEF Offsets
  <2>6. ASSUME NEW l \in Consumers
        PROVE  /\ holding'[l] \in Offsets' \/ holding'[l] = 0
               /\ saver'[l] = "copying" => holding'[l] # 0
               /\ holding'[l] # 0 => saver'[l] \in {"copying", "left"}
    BY <1>01, <2>1, <2>4, <2>5 DEF SaversOK
  <2> QED BY <2>3, <2>6 DEF SaversOK
<1>5. ASSUME NEW k \in Consumers, CopyEnds(k) \/ CopyFails(k) \/ StoreLate(k)
      PROVE  SaversOK'
  BY <1>5 DEF CopyEnds, CopyFails, StoreLate, Abort, SaverGoes, SaversOK, Offsets
<1>6. CASE UNCHANGED <<saver, holding>>
  BY <1>01, <1>6 DEF SaversOK
<1> QED
  BY <1>1, <1>2, <1>3, <1>4, <1>5, <1>6, WhoChanges DEF Frames, SaverSteps

LEMMA CausesNext ==
  ASSUME CausesOK, [Next]_vars
  PROVE  CausesOK'
<1> USE CaptureStreamAssumption DEF CausesOK, causes
<1>1. ASSUME NEW c \in Captures, Stop(c)
      PROVE  CausesOK'
  BY <1>1 DEF Stop
<1>2. ASSUME NEW c \in Captures, Deliver(c)
      PROVE  CausesOK'
  <2>1. UNCHANGED <<stopped, faulted>>
    BY <1>2 DEF Deliver, causes
  <2>2. \E b \in queue[c] :
          (UNCHANGED <<resent, faults>>) \/ (faults < MaxFaults /\ faults' = faults + 1)
    BY <1>2 DEF Deliver
  <2>3. UNCHANGED faults \/ (faults < MaxFaults /\ faults' = faults + 1)
    BY <2>2
  <2> QED BY <2>1, <2>3
<1>3. ASSUME NEW k \in Consumers, Evict(k)
      PROVE  CausesOK'
  BY <1>3 DEF Evict, Expel
<1>4. ASSUME NEW k \in Consumers, CopyFails(k)
      PROVE  CausesOK'
  <2>1. UNCHANGED <<faults, stopped>> /\ (faulted' = faulted \/ faulted' = faulted \union {k[1]})
    BY <1>4 DEF CopyFails
  <2> QED BY <2>1, ConsumerFacts
<1>5. CASE UNCHANGED <<faults, stopped, faulted>>
  BY <1>5
<1> QED
  BY <1>1, <1>2, <1>3, <1>4, <1>5, WhoChanges DEF Frames, CauseSteps

LEMMA LivesNext ==
  ASSUME ListenersOK, ProducersOK, SaversOK, Lives, [Next]_vars
  PROVE  Lives'
<1> USE DEF Lives, ListenersOK, ProducersOK, SaversOK
<1>0. \A k \in Consumers : k[1] \in Captures
  BY ConsumerFacts
<1>1. CASE Kill
  BY <1>0, <1>1 DEF Kill
<1>2. ASSUME NEW c \in Captures, Start(c)
      PROVE  Lives'
  BY <1>0, <1>2 DEF Start
<1>3. ASSUME NEW c \in Captures, Stop(c)
      PROVE  Lives'
  BY <1>0, <1>3 DEF Stop, Cancelled, listening, saving
<1>4. ASSUME NEW c \in Captures, TakePacket(c)
      PROVE  Lives'
  <2>1. life[c] # "none" /\ life[c] # "killed"
    BY <1>4 DEF TakePacket, CtxDone
  <2>2. /\ \A d \in Captures : d # c => taken'[d] = taken[d] /\ batch'[d] = batch[d]
        /\ UNCHANGED <<life, listener, saver>>
    BY <1>4 DEF TakePacket, saving
  <2> QED BY <1>0, <2>1, <2>2
<1>5. ASSUME NEW c \in Captures, ListenerLeaves(c)
      PROVE  Lives'
  <2>1. /\ listener[c] = "listening" /\ batch' = [batch EXCEPT ![c] = {}]
        /\ listener' = [listener EXCEPT ![c] = "left"]
        /\ UNCHANGED <<life, taken, saver>>
    BY <1>5 DEF ListenerLeaves, saving
  <2> QED BY <1>0, <2>1
<1>6. ASSUME NEW c \in Captures, Deliver(c)
      PROVE  Lives'
  BY <1>0, <1>6 DEF Deliver, listening, saving
<1>7. ASSUME NEW k \in Consumers, Look(k) \/ ReadNothing(k) \/ PauseEnds(k)
      PROVE  Lives'
  <2>1. /\ saver[k] \notin {"none", "left"}
        /\ \E pc \in {"left", "polling", "looking"} : saver' = [saver EXCEPT ![k] = pc]
        /\ UNCHANGED <<life, taken, batch, listener>>
    BY <1>7 DEF Look, ReadNothing, PauseEnds, SaverGoes, listening
  <2> QED BY <1>0, <2>1
<1>8. ASSUME NEW k \in Consumers, Read(k)
      PROVE  Lives'
  BY <1>0, <1>8 DEF Read, SaverGoes, listening
<1>9. ASSUME NEW k \in Consumers, CopyEnds(k)
      PROVE  Lives'
  <2>1. /\ saver[k] = "copying"
        /\ \E pc \in {"looking", "pausing"} : saver' = [saver EXCEPT ![k] = pc]
        /\ UNCHANGED <<life, taken, batch, listener>>
    BY <1>9 DEF CopyEnds, SaverGoes, listening
  <2> QED BY <1>0, <2>1
<1>10. ASSUME NEW k \in Consumers, CopyFails(k)
      PROVE  Lives'
  <2>1. /\ saver[k] = "copying" /\ saver' = [saver EXCEPT ![k] = "left"]
        /\ life' = [life EXCEPT ![k[1]] = IF @ = "on" THEN "cancelled" ELSE @]
        /\ UNCHANGED <<taken, batch, listener>>
    BY <1>10 DEF CopyFails, Abort, SaverGoes, Cancelled, listening
  <2> QED BY <1>0, <2>1
<1>12. ASSUME NEW c \in Captures, GiveUp(c) \/ ArriveLate(c)
      PROVE  Lives'
  BY <1>0, <1>12 DEF GiveUp, ArriveLate, listening, saving
<1>13. ASSUME NEW k \in Consumers, StoreLate(k)
      PROVE  Lives'
  BY <1>0, <1>13 DEF StoreLate, listening
<1>11. CASE UNCHANGED <<life, taken, batch, listener, saver>>
  BY <1>11
<1> QED
  BY <1>1, <1>2, <1>3, <1>4, <1>5, <1>6, <1>7, <1>8, <1>9, <1>10, <1>11, <1>12, <1>13, WhoChanges
  DEF Frames, LifeSteps, ListenerSteps, ProducerSteps, SaverSteps

-----------------------------------------------------------------------------
(* What a listener hands to its producer is a batch of its capture.        *)

(* A batch stays one: a listener only goes on. *)
LEMMA BatchStays ==
  ASSUME NEW c \in Captures, NEW b, NEW n \in Nat, NEW m \in Nat, n <= m, IsBatch(c, n, b)
  PROVE  IsBatch(c, m, b)
<1>1. \A p \in Packets : p[2] \in Nat
  BY PacketFacts, CaptureStreamAssumption
<1> QED BY <1>1 DEF IsBatch

(* No listener ever takes fewer packets than it has taken. *)
LEMMA TakenGrows ==
  ASSUME ListenersOK, [Next]_vars
  PROVE  \A c \in Captures : taken[c] <= taken'[c]
<1>1. CASE Kill
  BY <1>1 DEF Kill, ListenersOK
<1>2. ASSUME NEW d \in Captures, Start(d) \/ ListenerLeaves(d)
      PROVE  \A c \in Captures : taken[c] <= taken'[c]
  BY <1>2 DEF Start, ListenerLeaves, ListenersOK
<1>3. ASSUME NEW d \in Captures, TakePacket(d)
      PROVE  \A c \in Captures : taken[c] <= taken'[c]
  BY <1>3 DEF TakePacket, ListenersOK
<1>4. CASE UNCHANGED <<taken, listener>>
  BY <1>4 DEF ListenersOK
<1> QED BY <1>1, <1>2, <1>3, <1>4, WhoChanges DEF Frames, ListenerSteps

(* What a listener has after one more packet. *)
LEMMA TakeFacts ==
  ASSUME ListenersOK, ProducersOK, Batches, NEW c \in Captures, TakePacket(c), ListenersOK'
  PROVE  \E b \in SUBSET Packets :
           /\ IsBatch(c, taken[c] + 1, b) /\ IsFiniteSet(b) /\ Cardinality(b) <= BatchSize
           /\ batch[c] \subseteq b /\ b \subseteq batch[c] \union {<<c, taken[c] + 1>>}
           /\ Sendable(<<c, taken[c] + 1>>) => <<c, taken[c] + 1>> \in b
           /\ \/ FullSize(b) /\ batch' = [batch EXCEPT ![c] = {}] /\ Produce(c, b)
              \/ /\ Cardinality(b) < BatchSize
                 /\ batch' = [batch EXCEPT ![c] = b] /\ UNCHANGED <<queue, refused>>
           /\ taken' = [taken EXCEPT ![c] = @ + 1]
           /\ UNCHANGED <<reported, adrift, log, resent>>
<1> DEFINE p == <<c, taken[c] + 1>>
           b == batch[c] \union {x \in {p} : Sendable(x)}
<1>1. /\ taken[c] < PacketLimit[c] /\ taken' = [taken EXCEPT ![c] = @ + 1]
      /\ UNCHANGED <<reported, adrift, log, resent>>
      /\ \/ Cardinality(b) >= BatchSize /\ batch' = [batch EXCEPT ![c] = {}] /\ Produce(c, b)
         \/ /\ ~(Cardinality(b) >= BatchSize)
            /\ batch' = [batch EXCEPT ![c] = b] /\ UNCHANGED <<queue, refused>>
  BY DEF TakePacket
<1>2. /\ taken[c] \in Nat /\ PacketLimit[c] \in Nat /\ BatchSize \in Nat \ {0}
      /\ taken'[c] = taken[c] + 1
  BY <1>1, CaptureStreamAssumption DEF ListenersOK
<1>3. p \in Packets /\ p[1] = c /\ p[2] = taken[c] + 1
  <2>1. taken[c] + 1 \in 1 .. PacketLimit[c]
    BY <1>1, <1>2
  <2> QED BY <2>1, PacketFacts
<1>4. IsBatch(c, taken[c] + 1, batch[c])
  BY <1>2, BatchStays DEF Batches
<1>5. IsFiniteSet(b) /\ Cardinality(b) <= BatchSize /\ Cardinality(b) \in Nat
  <2>1. /\ IsFiniteSet(batch[c]) /\ Cardinality(batch[c]) < BatchSize
        /\ Cardinality(batch[c]) \in Nat
    BY FS_CardinalityType DEF Batches
  <2>2. b = batch[c] \/ b = batch[c] \cup {p}
    OBVIOUS
  <2>3. /\ IsFiniteSet(batch[c] \cup {p})
        /\ Cardinality(batch[c] \cup {p}) \in {Cardinality(batch[c]), Cardinality(batch[c]) + 1}
    BY <2>1, FS_AddElement
  <2> HIDE DEF b
  <2>4. IsFiniteSet(b) /\ Cardinality(b) \in {Cardinality(batch[c]), Cardinality(batch[c]) + 1}
    BY <2>1, <2>2, <2>3
  <2> QED BY <1>2, <2>1, <2>4
<1>6. Cardinality(b) >= BatchSize => FullSize(b)
  BY <1>2, <1>5 DEF FullSize
<1>7. /\ b \in SUBSET Packets /\ batch[c] \subseteq b /\ b \subseteq batch[c] \union {p}
      /\ Sendable(p) => p \in b
      /\ \A x \in b : x \in batch[c] \/ (x = p /\ Sendable(p))
  BY <1>3 DEF ProducersOK
<1> HIDE DEF b, p
<1>8. IsBatch(c, taken[c] + 1, b)
  BY <1>2, <1>3, <1>4, <1>7 DEF IsBatch
<1>9. Cardinality(b) < BatchSize <=> ~(Cardinality(b) >= BatchSize)
  BY <1>2, <1>5
<1>10. \/ FullSize(b) /\ batch' = [batch EXCEPT ![c] = {}] /\ Produce(c, b)
       \/ /\ Cardinality(b) < BatchSize
          /\ batch' = [batch EXCEPT ![c] = b] /\ UNCHANGED <<queue, refused>>
  BY <1>1, <1>6, <1>9
<1> QED BY <1>1, <1>5, <1>7, <1>8, <1>10 DEF p

LEMMA LeaveFacts ==
  ASSUME NEW c \in Captures, ListenerLeaves(c)
  PROVE  /\ \/ batch[c] # {} /\ Produce(c, batch[c])
            \/ batch[c] = {} /\ UNCHANGED <<queue, refused>>
         /\ batch' = [batch EXCEPT ![c] = {}]
         /\ UNCHANGED <<taken, reported, adrift, log, resent, life>>
  BY DEF ListenerLeaves, Flush

LEMMA BatchesNext ==
  ASSUME ListenersOK, ProducersOK, TopicOK, GroupOK, SaversOK, Batches, [Next]_vars
  PROVE  Batches'
<1>1. TopicOK' /\ TopicGrows /\ ListenersOK' /\ ProducersOK'
  BY TopicNext, ListenersNext, ProducersNext
<1>2. \A c \in Captures : taken[c] \in Nat /\ taken'[c] \in Nat /\ taken[c] <= taken'[c]
  BY <1>1, TakenGrows DEF ListenersOK
<1> DEFINE HandOK(c, n, b) ==
             IsBatch(c, n, b) /\ IsFiniteSet(b) /\ Cardinality(b) < BatchSize
           LoadOK(c, n, b) == IsBatch(c, n, b) /\ FullSize(b)
           TopicBatch(b) == FullSize(b) /\ \E c \in Captures : IsBatch(c, taken'[c], b)
<1>3. /\ \A c \in Captures : HandOK(c, taken'[c], batch[c])
      /\ \A c \in Captures : \A b \in Handed(c) : LoadOK(c, taken'[c], b)
      /\ \A o \in Offsets : TopicBatch(log[o])
  BY <1>2, BatchStays DEF Batches
<1>4. \A c \in Captures : HandOK(c, taken'[c], {})
  BY FS_EmptySet, CaptureStreamAssumption DEF IsBatch
<1> DEFINE HandsNext == \A c \in Captures : HandOK(c, taken'[c], batch'[c])
           LoadsNext == \A c \in Captures : \A b \in Handed(c)' : LoadOK(c, taken'[c], b)
           TopicBatches == \A o \in Offsets' : TopicBatch(log'[o])
<1>5. SUFFICES HandsNext /\ LoadsNext /\ TopicBatches
  BY DEF Batches
<1>6. \A c \in Captures : \A b \in Handed(c) : TopicBatch(b)
  BY <1>3
<1>7. \A c \in Captures : \A b : HandOK(c, taken'[c], b) /\ b # {} => LoadOK(c, taken'[c], b)
  <2>1. ASSUME NEW b, IsFiniteSet(b), b # {}, Cardinality(b) < BatchSize
        PROVE  FullSize(b)
    <3>1. Cardinality(b) \in Nat /\ Cardinality(b) # 0
      BY <2>1, FS_CardinalityType, FS_EmptySet
    <3> QED BY <2>1, <3>1, CaptureStreamAssumption DEF FullSize
  <2> QED BY <2>1
<1> HIDE DEF HandOK, LoadOK, TopicBatch
<1> USE DEF ProducersOK
<1>8. ASSUME NEW c \in Captures, NEW b, LoadOK(c, taken'[c], b), Produce(c, b),
             UNCHANGED adrift
      PROVE  LoadsNext
  BY <1>3, <1>8 DEF Produce, Handed
<1>9. CASE Kill
  <2>1. /\ \A c \in Captures : batch'[c] = {} /\ Handed(c)' = Handed(c)
        /\ UNCHANGED log
    BY <1>9 DEF Kill, Handed
  <2> QED BY <1>3, <1>4, <2>1 DEF Offsets
<1>10. ASSUME NEW c \in Captures, TakePacket(c)
       PROVE  HandsNext /\ LoadsNext /\ TopicBatches
  <2>1. PICK b \in SUBSET Packets :
          /\ IsBatch(c, taken[c] + 1, b) /\ IsFiniteSet(b)
          /\ \/ FullSize(b) /\ batch' = [batch EXCEPT ![c] = {}] /\ Produce(c, b)
             \/ /\ Cardinality(b) < BatchSize
                /\ batch' = [batch EXCEPT ![c] = b] /\ UNCHANGED <<queue, refused>>
          /\ taken' = [taken EXCEPT ![c] = @ + 1] /\ UNCHANGED <<adrift, log>>
    BY <1>1, <1>10, TakeFacts
  <2>2. taken'[c] = taken[c] + 1
    BY <2>1 DEF ListenersOK
  <2>3. TopicBatches
    BY <1>3, <2>1 DEF Offsets
  <2>4. CASE FullSize(b) /\ batch' = [batch EXCEPT ![c] = {}] /\ Produce(c, b)
    <3>1. LoadOK(c, taken'[c], b)
      BY <2>1, <2>2, <2>4 DEF LoadOK
    <3>2. LoadsNext
      BY <1>8, <2>1, <2>4, <3>1
    <3>3. HandsNext
      BY <1>3, <1>4, <2>4
    <3> QED BY <2>3, <3>2, <3>3
  <2>5. CASE /\ Cardinality(b) < BatchSize
             /\ batch' = [batch EXCEPT ![c] = b] /\ UNCHANGED <<queue, refused>>
    <3>1. HandOK(c, taken'[c], b)
      BY <2>1, <2>2, <2>5 DEF HandOK
    <3> QED BY <1>3, <2>1, <2>3, <2>5, <3>1 DEF Handed
  <2> QED BY <2>1, <2>4, <2>5
<1>11. ASSUME NEW c \in Captures, ListenerLeaves(c)
       PROVE  HandsNext /\ LoadsNext /\ TopicBatches
  <2>1. LoadsNext
    BY <1>3, <1>7, <1>8, <1>11, LeaveFacts DEF Handed
  <2>2. HandsNext
    BY <1>3, <1>4, <1>11, LeaveFacts
  <2>3. TopicBatches
    BY <1>3, <1>11, LeaveFacts DEF Offsets
  <2> QED BY <2>1, <2>2, <2>3
<1>12. ASSUME NEW c \in Captures, Arrives(c)
       PROVE  HandsNext /\ LoadsNext /\ TopicBatches
  <2>1. PICK b \in Handed(c) :
          /\ Len(log') = Len(log) + 1 /\ log'[Len(log) + 1] = b
          /\ \A o \in Offsets : log'[o] = log[o]
          /\ \A d \in Captures : Handed(d)' \subseteq Handed(d)
    BY <1>12, ArrivalFacts, EntersFacts
  <2>2. UNCHANGED <<batch, taken>>
    BY <1>12, ArrivalFacts
  <2>3. \A o \in Offsets' : o \in Offsets \/ o = Len(log) + 1
    BY <1>1, <2>1 DEF TopicGrows, Offsets
  <2>4. TopicBatches
    BY <1>3, <1>6, <2>1, <2>3
  <2> QED BY <1>3, <2>1, <2>2, <2>4
<1>13. CASE UNCHANGED <<batch, queue, adrift>> /\ (UNCHANGED log)
  BY <1>3, <1>13 DEF Offsets, Handed
<1>14. ASSUME NEW k \in Consumers, Read(k) \/ CopyEnds(k) \/ StoreLate(k)
       PROVE  UNCHANGED <<batch, queue, adrift>> /\ (UNCHANGED log)
  BY <1>14 DEF Read, CopyEnds, StoreLate, listening, producing
<1>15. ASSUME NEW c \in Captures, GiveUp(c)
       PROVE  HandsNext /\ LoadsNext /\ TopicBatches
  <2>1. UNCHANGED <<batch, taken, log>> /\ \A d \in Captures : Handed(d)' = Handed(d)
    BY <1>15, GiveUpFacts
  <2> QED BY <1>3, <2>1 DEF Offsets
<1> QED
  BY <1>9, <1>10, <1>11, <1>12, <1>13, <1>14, <1>15, WhoChanges
  DEF Frames, ProducerSteps, TopicSteps, Arrives

-----------------------------------------------------------------------------
(* A producer never holds more messages than its queue takes.              *)

LEMMA ProduceFits ==
  ASSUME ProducersOK, QueueFits, NEW c \in Captures, NEW b, Produce(c, b), UNCHANGED reported
  PROVE  QueueFits'
<1> USE CaptureStreamAssumption
<1>1. \A d \in Captures : Unreported(d) \in Nat /\ Unreported(d)' = Unreported(d)
  BY DEF Unreported, ProducersOK
<1>2. CASE UNCHANGED queue
  BY <1>1, <1>2 DEF QueueFits
<1>3. CASE ~QueueFull(c) /\ queue' = [queue EXCEPT ![c] = @ \union {b}]
  <2>1. /\ IsFiniteSet(queue[c]) /\ Cardinality(queue[c]) \in Nat
        /\ ~(Cardinality(queue[c]) + Unreported(c) >= QueueRoom)
    BY <1>3, FS_CardinalityType DEF QueueFits, QueueFull
  <2>2. /\ IsFiniteSet(queue[c] \cup {b})
        /\ Cardinality(queue[c] \cup {b}) \in {Cardinality(queue[c]), Cardinality(queue[c]) + 1}
    BY <2>1, FS_AddElement
  <2>3. Cardinality(queue[c] \cup {b}) + Unreported(c) <= QueueRoom
    BY <1>1, <2>1, <2>2
  <2>4. \A d \in Captures : queue'[d] = IF d = c THEN queue[c] \cup {b} ELSE queue[d]
    BY <1>3 DEF ProducersOK
  <2> QED BY <1>1, <2>2, <2>3, <2>4 DEF QueueFits
<1> QED BY <1>2, <1>3 DEF Produce

LEMMA QueueFitsNext ==
  ASSUME ListenersOK, ProducersOK, TopicOK, Batches, QueueFits, [Next]_vars
  PROVE  QueueFits'
<1> USE CaptureStreamAssumption
<1>1. \A c \in Captures : Unreported(c) \in Nat /\ reported[c] \in Nat
  BY DEF Unreported, ProducersOK
<1>2. ASSUME UNCHANGED <<queue, reported>>
      PROVE  QueueFits'
  BY <1>2 DEF QueueFits, Unreported
<1>3. CASE Kill
  <2>1. /\ \A c \in Captures : queue'[c] = {} /\ Unreported(c)' = Unreported(c)
    BY <1>3 DEF Kill, Unreported
  <2>2. ASSUME NEW c \in Captures
        PROVE  Unreported(c) <= QueueRoom
    <3>1. Cardinality(queue[c]) \in Nat /\ Cardinality(queue[c]) + Unreported(c) <= QueueRoom
      BY FS_CardinalityType DEF QueueFits
    <3> QED BY <1>1, <3>1
  <2>3. IsFiniteSet({}) /\ Cardinality({}) = 0
    BY FS_EmptySet
  <2>4. \A c \in Captures : 0 + Unreported(c)' <= QueueRoom
    BY <1>1, <2>1, <2>2
  <2> QED BY <2>1, <2>3, <2>4 DEF QueueFits
<1>4. ASSUME NEW c \in Captures, TakePacket(c)
      PROVE  QueueFits'
  <2>1. /\ UNCHANGED reported
        /\ UNCHANGED queue \/ \E b : Produce(c, b)
    BY <1>4 DEF TakePacket
  <2> QED BY <1>2, <2>1, ProduceFits
<1>5. ASSUME NEW c \in Captures, ListenerLeaves(c)
      PROVE  QueueFits'
  BY <1>2, <1>5, LeaveFacts, ProduceFits
<1>6. ASSUME NEW c \in Captures, Deliver(c) \/ GiveUp(c)
      PROVE  QueueFits'
  <2>1. PICK b \in queue[c] : Report(c, b) \/ UNCHANGED <<queue, reported>>
    BY <1>6 DEF Deliver, GiveUp
  <2>2. CASE Report(c, b)
    <3>1. /\ IsFiniteSet(queue[c]) /\ Cardinality(queue[c]) \in Nat
          /\ Cardinality(queue[c]) + Unreported(c) <= QueueRoom
      BY FS_CardinalityType DEF QueueFits
    <3>2. /\ IsFiniteSet(queue[c] \ {b})
          /\ Cardinality(queue[c] \ {b}) = Cardinality(queue[c]) - 1
      BY <2>1, <3>1, FS_RemoveElement
    <3>3. \A d \in Captures :
            /\ queue'[d] = IF d = c THEN queue[c] \ {b} ELSE queue[d]
            /\ reported'[d] = IF d = c THEN reported[c] + 1 ELSE reported[d]
      BY <2>2 DEF ProducersOK, Report
    <3>4. \A d \in Captures : d # c => Unreported(d)' = Unreported(d)
      BY <3>3 DEF Unreported
    <3>5. Unreported(c)' \in Nat /\ Unreported(c)' <= Unreported(c) + 1
      BY <1>1, <3>3 DEF Unreported
    <3>6. Cardinality(queue'[c]) + Unreported(c)' <= QueueRoom
      BY <1>1, <3>1, <3>2, <3>3, <3>5
    <3> QED BY <3>2, <3>3, <3>4, <3>6 DEF QueueFits
  <2> QED BY <1>2, <2>1, <2>2
<1>7. ASSUME NEW c \in Captures, ArriveLate(c)
      PROVE  UNCHANGED <<queue, reported>>
  BY <1>7 DEF ArriveLate
<1>8. CASE UNCHANGED <<batch, queue, reported, adrift, refused>>
  BY <1>2, <1>8
<1> QED BY <1>2, <1>3, <1>4, <1>5, <1>6, <1>7, <1>8, WhoChanges DEF Frames, ProducerSteps

-----------------------------------------------------------------------------
(* No packet is in two batches. *)

(* A packet knows its capture, and was taken.                              *)
LEMMA BatchFacts ==
  ASSUME ListenersOK, Batches
  PROVE  /\ \A c \in Captures : \A p \in batch[c] : p[1] = c /\ p[2] <= taken[c]
         /\ \A c \in Captures : \A b \in Handed(c) : b # {} /\ \A p \in b : p[1] = c /\ p[2] <= taken[c]
         /\ \A o \in Offsets : \A p \in log[o] : p[1] \in Captures /\ p[2] <= taken[p[1]]
<1>1. \A b : FullSize(b) => b # {}
  BY FS_EmptySet DEF FullSize
<1> QED BY <1>1 DEF Batches, IsBatch

LEMMA ProduceApart ==
  ASSUME ProducersOK, Apart, NEW c \in Captures, NEW b, b # {},
         \A p \in b : p[1] = c,
         \A a \in Handed(c) : a \intersect b = {},
         \A o \in Offsets : b \intersect log[o] = {},
         Produce(c, b), batch' = [batch EXCEPT ![c] = {}], UNCHANGED <<adrift, log, resent>>
  PROVE  Apart'
<1>1. \A d \in Captures : batch'[d] = IF d = c THEN {} ELSE batch[d]
  BY DEF ProducersOK
<1>2. Offsets' = Offsets
  BY DEF Offsets
<1>3. CASE UNCHANGED queue
  BY <1>1, <1>2, <1>3 DEF Apart, Handed
<1>4. CASE queue' = [queue EXCEPT ![c] = @ \union {b}]
  <2>1. \A d \in Captures : queue'[d] = IF d = c THEN queue[c] \union {b} ELSE queue[d]
    BY <1>4 DEF ProducersOK
  <2>2. \A d \in Captures : Handed(d)' = IF d = c THEN Handed(c) \union {b} ELSE Handed(d)
    BY <2>1 DEF Handed
  <2>3. b \notin adrift[c]
    BY DEF Handed
  <2>4. \A d \in Captures : queue'[d] \intersect adrift'[d] = {}
    BY <2>1, <2>3 DEF Apart
  <2> QED BY <1>1, <1>2, <2>2, <2>4 DEF Apart
<1> QED BY <1>3, <1>4 DEF Produce

LEMMA ApartNext ==
  ASSUME ListenersOK, ProducersOK, TopicOK, GroupOK, SaversOK, Batches, Apart, [Next]_vars
  PROVE  Apart'
<1>1. TopicOK' /\ TopicGrows /\ ListenersOK'
  BY TopicNext, ListenersNext
<1>2. CASE Kill
  <2>1. /\ \A c \in Captures : batch'[c] = {} /\ queue'[c] = {} /\ Handed(c)' = Handed(c)
        /\ UNCHANGED <<log, resent>>
    BY <1>2 DEF Kill, seen, Handed
  <2> QED BY <2>1 DEF Apart, Offsets
<1>3. ASSUME NEW c \in Captures, TakePacket(c)
      PROVE  Apart'
  <2> DEFINE p == <<c, taken[c] + 1>>
  <2>1. PICK b \in SUBSET Packets :
          /\ b \subseteq batch[c] \union {p}
          /\ \/ FullSize(b) /\ batch' = [batch EXCEPT ![c] = {}] /\ Produce(c, b)
             \/ batch' = [batch EXCEPT ![c] = b] /\ UNCHANGED queue
          /\ UNCHANGED <<adrift, log, resent>>
    BY <1>1, <1>3, TakeFacts
  <2>2. p[1] = c /\ ~(p[2] <= taken[c])
    BY DEF ListenersOK
  <2>3. /\ \A a \in Handed(c) : a \intersect b = {}
        /\ \A o \in Offsets : b \intersect log[o] = {}
        /\ \A x \in b : x[1] = c
    <3>1. /\ \A a \in Handed(c) : p \notin a
          /\ \A o \in Offsets : p \notin log[o]
      BY <2>2, BatchFacts
    <3>2. \A x \in b : x[1] = c
      BY <2>1, <2>2, BatchFacts
    <3> HIDE DEF p
    <3> QED BY <2>1, <3>1, <3>2 DEF Apart
  <2>4. CASE FullSize(b) /\ batch' = [batch EXCEPT ![c] = {}] /\ Produce(c, b)
    <3>1. b # {}
      BY <2>4, FS_EmptySet DEF FullSize
    <3> QED BY <2>1, <2>3, <2>4, <3>1, ProduceApart
  <2>5. CASE batch' = [batch EXCEPT ![c] = b] /\ UNCHANGED queue
    <3>1. \A d \in Captures : batch'[d] = IF d = c THEN b ELSE batch[d]
      BY <2>5 DEF ProducersOK
    <3>2. Offsets' = Offsets
      BY <2>1 DEF Offsets
    <3>3. \A d \in Captures : Handed(d)' = Handed(d)
      BY <2>1, <2>5 DEF Handed
    <3> QED BY <2>1, <2>3, <2>5, <3>1, <3>2, <3>3 DEF Apart
  <2> QED BY <2>1, <2>4, <2>5
<1>4. ASSUME NEW c \in Captures, ListenerLeaves(c)
      PROVE  Apart'
  <2>1. /\ \A p \in batch[c] : p[1] = c
        /\ \A a \in Handed(c) : a \intersect batch[c] = {}
        /\ \A o \in Offsets : batch[c] \intersect log[o] = {}
    BY BatchFacts DEF Apart
  <2>2. CASE batch[c] # {} /\ Produce(c, batch[c])
    BY <1>4, <2>1, <2>2, LeaveFacts, ProduceApart
  <2>3. CASE UNCHANGED queue
    <3>1. \A d \in Captures : batch'[d] = IF d = c THEN {} ELSE batch[d]
      BY <1>4, LeaveFacts DEF ProducersOK
    <3>2. UNCHANGED <<log, resent>> /\ \A d \in Captures : Handed(d)' = Handed(d)
      BY <1>4, <2>3, LeaveFacts DEF Handed
    <3> QED BY <1>4, <2>3, <3>1, <3>2, LeaveFacts DEF Apart, Offsets
  <2> QED BY <1>4, <2>2, <2>3, LeaveFacts
<1>5. ASSUME NEW c \in Captures, Arrives(c)
      PROVE  Apart'
  <2>1. PICK b \in Handed(c) :
          /\ Len(log') = Len(log) + 1 /\ log'[Len(log) + 1] = b
          /\ \A o \in Offsets : log'[o] = log[o]
          /\ \/ b \in resent' /\ UNCHANGED <<queue, adrift>>
             \/ /\ b \in queue[c] /\ queue' = [queue EXCEPT ![c] = @ \ {b}]
                /\ UNCHANGED adrift
             \/ /\ b \in adrift[c] /\ adrift' = [adrift EXCEPT ![c] = @ \ {b}]
                /\ UNCHANGED queue
          /\ \A d \in Captures : Handed(d)' \subseteq Handed(d)
    BY <1>5, ArrivalFacts, EntersFacts
  <2>2. UNCHANGED batch /\ resent \subseteq resent'
    BY <1>5, ArrivalFacts
  <2>3. \A o \in Offsets' : \/ o \in Offsets /\ log'[o] = log[o]
                            \/ o = Len(log) + 1 /\ log'[o] = b
    BY <1>1, <2>1 DEF TopicGrows, Offsets
  <2>4. \A d \in Captures :
          /\ Handed(d)' \subseteq Handed(d)
          /\ queue'[d] \intersect adrift'[d] \subseteq queue[d] \intersect adrift[d]
    BY <2>1 DEF ProducersOK
  <2>5. \A a : a \in resent => a \in resent'
    BY <2>2
  <2>6. b \in Handed(c)' => b \in resent'
    BY <2>1 DEF ProducersOK, Apart, Handed
  <2>7. \A p \in b : p[1] = c
    BY BatchFacts
  <2>8. \A d \in Captures : \A a \in Handed(d)' : a \intersect b # {} => a = b /\ d = c
    BY <2>4, <2>7, BatchFacts DEF Apart
  <2>9. \A d \in Captures : batch'[d] \intersect b = {}
    BY <2>2, <2>7, BatchFacts DEF Apart
  <2>10. \A o \in Offsets : b \intersect log[o] # {} => b = log[o] /\ log[o] \in resent'
    BY <2>5 DEF Apart
  <2>11. \A d \in Captures :
           /\ queue'[d] \intersect adrift'[d] = {}
           /\ \A a \in Handed(d)' : batch'[d] \intersect a = {}
           /\ \A o \in Offsets' : batch'[d] \intersect log'[o] = {}
           /\ \A b1, b2 \in Handed(d)' : b1 # b2 => b1 \intersect b2 = {}
    BY <2>2, <2>3, <2>4, <2>9 DEF Apart
  <2>12. \A d \in Captures : \A a \in Handed(d)', o \in Offsets' :
           a \intersect log'[o] # {} => a = log'[o] /\ a \in resent'
    BY <2>3, <2>4, <2>5, <2>6, <2>8 DEF Apart
  <2>13. \A o1, o2 \in Offsets' : o1 # o2 /\ log'[o1] \intersect log'[o2] # {} =>
           log'[o1] = log'[o2] /\ log'[o1] \in resent'
    BY <2>3, <2>5, <2>10 DEF Apart
  <2> QED BY <2>11, <2>12, <2>13 DEF Apart
<1>6. CASE UNCHANGED <<batch, queue, adrift, log, resent>>
  BY <1>6 DEF Apart, Offsets, Handed
<1>7. ASSUME NEW k \in Consumers,
             Read(k) \/ CopyEnds(k) \/ CopyFails(k) \/ StoreLate(k) \/ Evict(k)
      PROVE  UNCHANGED <<batch, queue, adrift, log, resent>>
  BY <1>7 DEF Read, CopyEnds, CopyFails, StoreLate, Evict, Expel, listening, producing, seen
<1>8. ASSUME NEW c \in Captures, Stop(c)
      PROVE  UNCHANGED <<batch, queue, adrift, log, resent>>
  BY <1>8 DEF Stop, listening, producing, seen
<1>9. ASSUME NEW c \in Captures, GiveUp(c)
      PROVE  Apart'
  <2>1. PICK b \in queue[c] : /\ queue' = [queue EXCEPT ![c] = @ \ {b}]
                             /\ adrift' = [adrift EXCEPT ![c] = @ \union {b}]
    BY <1>9, GiveUpFacts
  <2>2. /\ \A d \in Captures : Handed(d)' = Handed(d)
        /\ UNCHANGED <<batch, log, resent>>
    BY <1>9, GiveUpFacts
  <2>3. \A d \in Captures : queue'[d] \intersect adrift'[d] = {}
    BY <2>1 DEF Apart, ProducersOK
  <2> QED BY <2>2, <2>3 DEF Apart, Offsets
<1> QED
  BY <1>2, <1>3, <1>4, <1>5, <1>6, <1>7, <1>8, <1>9, WhoChanges
  DEF Frames, ProducerSteps, TopicSteps, CauseSteps, Arrives

-----------------------------------------------------------------------------
(* What becomes of an offset *)

(* A capture that is over stays over, and one that has started has.        *)
LEMMA LifeMoves ==
  ASSUME ListenersOK, [Next]_vars
  PROVE  \A c \in Captures : life[c] # "none" =>
           life'[c] # "none" /\ (CtxDone(c) => CtxDone(c)')
<1> USE DEF ListenersOK, CtxDone
<1>1. CASE Kill
  BY <1>1 DEF Kill
<1>2. ASSUME NEW d \in Captures, Start(d) \/ Stop(d)
      PROVE  \A c \in Captures : life[c] # "none" =>
               life'[c] # "none" /\ (CtxDone(c) => CtxDone(c)')
  BY <1>2 DEF Start, Stop, Cancelled
<1>3. ASSUME NEW k \in Consumers, CopyFails(k)
      PROVE  \A c \in Captures : life[c] # "none" =>
               life'[c] # "none" /\ (CtxDone(c) => CtxDone(c)')
  <2>1. life' = [life EXCEPT ![k[1]] = IF @ = "on" THEN "cancelled" ELSE @]
    BY <1>3 DEF CopyFails, Abort, Cancelled
  <2> QED BY <2>1
<1> QED BY <1>1, <1>2, <1>3, WhoChanges DEF Frames, LifeSteps

(* Who has an offset in hand after a step had it before, or reads it now.  *)
LEMMA HandsMove ==
  ASSUME SaversOK, TopicOK, GroupOK, [Next]_vars
  PROVE  \A k \in Consumers : holding'[k] # 0 => holding'[k] = holding[k] \/ Read(k)
<1> USE DEF SaversOK
<1> SUFFICES ASSUME NEW k \in Consumers, holding'[k] # 0
             PROVE  holding'[k] = holding[k] \/ Read(k)
  OBVIOUS
<1>1. ASSUME Kill \/ \E c \in Captures : Start(c)
      PROVE  UNCHANGED holding
  BY <1>1 DEF Kill, Start
<1>2. ASSUME NEW l \in Consumers,
             Look(l) \/ ReadNothing(l) \/ PauseEnds(l) \/ CopyEnds(l) \/ CopyFails(l) \/ StoreLate(l)
      PROVE  holding'[k] = holding[k]
  BY <1>2 DEF Look, ReadNothing, PauseEnds, CopyEnds, CopyFails, StoreLate
<1>3. ASSUME NEW l \in Consumers, Read(l), l # k
      PROVE  holding'[k] = holding[k]
  BY <1>3, ReadFacts
<1> QED BY <1>1, <1>2, <1>3, WhoChanges DEF Frames, SaverSteps

(* A COPY goes on until it ends or its capture has.                        *)
LEMMA CopyingStays ==
  ASSUME ListenersOK, SaversOK, Lives, TopicOK, GroupOK, [Next]_vars,
         NEW k \in Consumers, NEW o, Copying(k, o)
  PROVE  Copying(k, o)' \/ CopyEnds(k) \/ CtxDone(k[1])'
<1> USE DEF SaversOK, Copying
<1>0. k[1] \in Captures
  BY ConsumerFacts
<1>1. CASE Kill
  BY <1>0, <1>1 DEF Kill, CtxDone, ListenersOK
<1>2. ASSUME NEW c \in Captures, Start(c)
      PROVE  Copying(k, o)'
  <2>1. k[1] # c
    BY <1>2 DEF Start, Lives
  <2> QED BY <1>2, <2>1 DEF Start
<1>3. ASSUME NEW l \in Consumers, Look(l) \/ ReadNothing(l) \/ PauseEnds(l) \/ StoreLate(l)
      PROVE  Copying(k, o)'
  BY <1>3 DEF Look, ReadNothing, PauseEnds, StoreLate, SaverGoes
<1>4. ASSUME NEW l \in Consumers, Read(l)
      PROVE  Copying(k, o)'
  BY <1>4, ReadFacts
<1>5. ASSUME NEW l \in Consumers, CopyEnds(l), l # k
      PROVE  Copying(k, o)'
  BY <1>5 DEF CopyEnds, SaverGoes
<1>6. ASSUME NEW l \in Consumers, CopyFails(l), l # k
      PROVE  Copying(k, o)'
  BY <1>6 DEF CopyFails, Abort, SaverGoes
<1>7. CASE CopyFails(k)
  BY <1>0, <1>7 DEF CopyFails, Abort, Cancelled, CtxDone, ListenersOK
<1> QED BY <1>1, <1>2, <1>3, <1>4, <1>5, <1>6, <1>7, WhoChanges DEF Frames, SaverSteps

(* Offsets are read by their readers only, and new ones by nobody yet.     *)
LEMMA ReadersGrow ==
  ASSUME TopicOK, ProducersOK, GroupOK, SaversOK, [Next]_vars
  PROVE  /\ \A o \in Offsets :
              \/ readers'[o] = readers[o]
              \/ \E k \in Consumers : Read(k) /\ o = position /\ readers'[o] = readers[o] \union {k}
         /\ \A o \in Offsets' \ Offsets : /\ o = Len(log) + 1
                                        /\ readers'[o] = {} /\ copies'[o] = 0
<1>1. ASSUME NEW c \in Captures, Arrives(c)
      PROVE  /\ \A o \in Offsets : readers'[o] = readers[o]
             /\ \A o \in Offsets' \ Offsets : /\ o = Len(log) + 1
                                            /\ readers'[o] = {} /\ copies'[o] = 0
  <2>1. /\ Len(log') = Len(log) + 1
        /\ readers'[Len(log) + 1] = {} /\ copies'[Len(log) + 1] = 0
        /\ \A o \in Offsets : readers'[o] = readers[o]
    BY <1>1, ArrivalFacts, EntersFacts
  <2>2. Len(log) \in Nat
    BY DEF TopicOK
  <2>3. \A o \in Offsets' \ Offsets : o = Len(log) + 1
    BY <2>1, <2>2 DEF Offsets
  <2> QED BY <2>1, <2>3
<1>2. ASSUME NEW k \in Consumers, Read(k)
      PROVE  /\ \A o \in Offsets :
                  readers'[o] = readers[o] \/ (o = position /\ readers'[o] = readers[o] \union {k})
             /\ Offsets' = Offsets
  BY <1>2, ReadFacts DEF Offsets
<1>3. ASSUME NEW k \in Consumers, CopyEnds(k) \/ StoreLate(k)
      PROVE  UNCHANGED readers /\ Offsets' = Offsets
  BY <1>3 DEF CopyEnds, StoreLate, Offsets
<1>4. CASE UNCHANGED <<log, copies, readers>>
  BY <1>4 DEF Offsets
<1> QED BY <1>1, <1>2, <1>3, <1>4, WhoChanges DEF Frames, TopicSteps, Arrives

LEMMA ReadersNext ==
  ASSUME ListenersOK, ProducersOK, TopicOK, GroupOK, SaversOK, Lives, ReadersOK, [Next]_vars
  PROVE  ReadersOK'
<1>1. TopicGrows
  BY TopicNext
<1>2. ASSUME NEW k \in Consumers, holding'[k] # 0
      PROVE  k \in readers'[holding'[k]]
  <2>1. CASE holding'[k] = holding[k]
    <3>1. holding[k] \in Offsets /\ k \in readers[holding[k]]
      BY <1>2, <2>1, HoldingFacts DEF ReadersOK
    <3> QED BY <2>1, <3>1, ReadersGrow
  <2>2. CASE Read(k)
    BY <2>2, ReadFacts DEF SaversOK
  <2> QED BY <1>2, <2>1, <2>2, HandsMove
<1>3. ASSUME NEW o \in Offsets', NEW k \in readers'[o]
      PROVE  life'[k[1]] # "none"
  <2>1. CASE o \in Offsets /\ k \in readers[o]
    <3>1. k \in Consumers
      BY <2>1 DEF TopicOK, Offsets
    <3> QED BY <2>1, <3>1, ConsumerFacts, LifeMoves DEF ReadersOK
  <2>2. ASSUME NEW l \in Consumers, Read(l), k = l
        PROVE  life'[k[1]] # "none"
    <3>1. saver[k] = "polling" /\ life' = life
      BY <2>2, ReadFacts
    <3> QED BY <2>2, <3>1 DEF Lives
  <2> QED BY <1>3, <2>1, <2>2, ReadersGrow
<1> QED BY <1>2, <1>3 DEF ReadersOK

(* A change of the group's owner or offsets brings no offset back that was *)
(* read, unless an owner has lost it.                                      *)
NoReturn ==
  /\ UNCHANGED <<log, copies, readers, holding, life>>
  /\ uncommitted \subseteq uncommitted'
  /\ NextOffset \in Nat /\ NextOffset' \in Nat /\ NextOffset' <= NextOffset
  /\ \A o \in Offsets \ uncommitted' : NextOffset' <= o => NextOffset <= o

LEMMA GroupMoves ==
  ASSUME TopicOK, GroupOK,
         Commit \/ Assign \/ \E k \in Consumers : Join(k) \/ Rejoin(k) \/ Expire(k) \/ Evict(k)
  PROVE  NoReturn
<1> USE CaptureStreamAssumption DEF GroupOK, NextOffset, NoReturn, offsets, saving, seen
<1>1. CASE Commit
  BY <1>1 DEF Commit, CommittedOffset, group
<1>2. CASE Assign
  <2>1. owner = NoConsumer /\ owner' # NoConsumer
    BY <1>2 DEF Assign, Consumers
  <2> QED BY <1>2, <2>1 DEF Assign
<1>3. ASSUME NEW k \in Consumers, Join(k)
      PROVE  NoReturn
  BY <1>3 DEF Join
<1>4. ASSUME NEW k \in Consumers, Rejoin(k)
      PROVE  NoReturn
  BY <1>4 DEF Rejoin, CommittedOffset, Consumers
<1>5. ASSUME NEW k \in Consumers, Expire(k) \/ Evict(k)
      PROVE  NoReturn
  <2>1. /\ UNCHANGED <<log, copies, readers, holding, life, position, committed>>
        /\ \/ owner = k /\ owner' = NoConsumer /\ uncommitted' = uncommitted \union (committed .. position - 1)
           \/ owner # k /\ UNCHANGED <<owner, uncommitted>>
    BY <1>5 DEF Expire, Evict, Expel
  <2>2. CASE UNCHANGED <<owner, uncommitted>>
    BY <2>1, <2>2
  <2>3. CASE owner = k /\ owner' = NoConsumer /\ uncommitted' = uncommitted \union (committed .. position - 1)
    <3>1. NextOffset = position /\ NextOffset' = committed /\ committed <= position
      BY <2>1, <2>3 DEF Consumers
    <3>2. \A o \in Offsets \ uncommitted' : committed <= o => position <= o
      BY <2>3 DEF Offsets
    <3> QED BY <2>1, <2>3, <3>1, <3>2
  <2> QED BY <2>1, <2>2, <2>3
<1> QED BY <1>1, <1>2, <1>3, <1>4, <1>5

(* A read passes the offset that is next. *)
LEMMA ReadMoves ==
  ASSUME TopicOK, GroupOK, SaversOK, NEW k \in Consumers, Read(k)
  PROVE  /\ NextOffset = position /\ NextOffset' = position + 1 /\ position \in Nat
         /\ position \in Offsets /\ Offsets' = Offsets
         /\ \A l \in Consumers : holding'[l] = IF l = k THEN position ELSE holding[l]
         /\ holding[k] = 0
         /\ \A o \in Offsets : readers'[o] = IF o = position THEN readers[o] \union {k} ELSE readers[o]
         /\ UNCHANGED <<copies, uncommitted, life>>
<1>1. owner # NoConsumer /\ owner' # NoConsumer
  BY ReadFacts, CaptureStreamAssumption DEF Consumers
<1>2. NextOffset = position /\ NextOffset' = position + 1 /\ position \in Nat
  BY <1>1, ReadFacts DEF NextOffset, GroupOK
<1>3. position \in Offsets /\ Offsets' = Offsets
  BY ReadFacts DEF Offsets
<1>4. /\ \A l \in Consumers : holding'[l] = IF l = k THEN position ELSE holding[l]
      /\ holding[k] = 0
  BY ReadFacts DEF SaversOK
<1>5. \A o \in Offsets : readers'[o] = IF o = position THEN readers[o] \union {k} ELSE readers[o]
  BY ReadFacts
<1> QED BY <1>2, <1>3, <1>4, <1>5, ReadFacts

(* A COPY is executed, for a saver that waits for it or has left.          *)
Stores(k) == CopyEnds(k) \/ StoreLate(k)

LEMMA StoreMoves ==
  ASSUME TopicOK, GroupOK, SaversOK, NEW k \in Consumers, Stores(k)
  PROVE  /\ NextOffset' = NextOffset /\ Offsets' = Offsets
         /\ holding[k] \in Offsets
         /\ \A l \in Consumers : holding'[l] = IF l = k THEN 0 ELSE holding[l]
         /\ \A o \in Offsets \ {holding[k]} : copies'[o] = copies[o]
         /\ copies[holding[k]] \in Nat
         /\ copies'[holding[k]] = copies[holding[k]] + 1
         /\ UNCHANGED <<readers, uncommitted>>
<1>1. /\ holding[k] # 0 /\ holding' = [holding EXCEPT ![k] = 0]
      /\ UNCHANGED <<log, readers, uncommitted, owner, position, committed>>
      /\ Store(holding[k])
  BY HoldingFacts DEF Stores, CopyEnds, StoreLate, offsets, group, seen
<1>2. holding[k] \in Offsets
  BY <1>1, HoldingFacts
<1>3. NextOffset' = NextOffset /\ Offsets' = Offsets
  BY <1>1 DEF NextOffset, Offsets
<1>4. \A l \in Consumers : holding'[l] = IF l = k THEN 0 ELSE holding[l]
  BY <1>1 DEF SaversOK
<1> QED BY <1>1, <1>2, <1>3, <1>4, StoreFacts

(* What steps remain, as far as offsets are concerned. *)
LEMMA OtherMoves ==
  ASSUME [Next]_vars, ~GroupSteps, ~TopicSteps
  PROVE  UNCHANGED <<log, copies, readers, uncommitted, holding>> /\ NextOffset' = NextOffset
<1>1. UNCHANGED <<position, committed, owner, uncommitted, log, copies, readers>>
  BY WhoChanges DEF Frames
<1>2. ASSUME Kill \/ \E c \in Captures : Start(c)
      PROVE  UNCHANGED holding
  BY <1>2 DEF Kill, Start
<1>3. ASSUME NEW k \in Consumers, Look(k) \/ ReadNothing(k) \/ PauseEnds(k) \/ CopyFails(k)
      PROVE  UNCHANGED holding
  BY <1>3 DEF Look, ReadNothing, PauseEnds, CopyFails
<1> QED
  BY <1>1, <1>2, <1>3, WhoChanges DEF Frames, SaverSteps, TopicSteps, NextOffset

LEMMA ReadOnceNext ==
  ASSUME ListenersOK, ProducersOK, TopicOK, GroupOK, SaversOK, Lives, ReadersOK, ReadOnce, [Next]_vars
  PROVE  ReadOnce'
<1>1. TopicOK' /\ TopicGrows /\ GroupOK'
  BY TopicNext, GroupNext
<1>2. ASSUME Commit \/ Assign \/ \E k \in Consumers : Join(k) \/ Rejoin(k) \/ Expire(k) \/ Evict(k)
      PROVE  ReadOnce'
  <2>1. NoReturn
    BY <1>2, GroupMoves
  <2>2. Offsets' = Offsets
    BY <2>1 DEF NoReturn, Offsets
  <2> QED BY <2>1, <2>2 DEF NoReturn, ReadOnce
<1>3. ASSUME NEW k \in Consumers, Read(k)
      PROVE  ReadOnce'
  <2>1. /\ NextOffset = position /\ NextOffset' = position + 1 /\ position \in Nat
        /\ position \in Offsets /\ Offsets' = Offsets
        /\ \A l \in Consumers : holding'[l] = IF l = k THEN position ELSE holding[l]
        /\ \A o \in Offsets : readers'[o] = IF o = position THEN readers[o] \union {k} ELSE readers[o]
        /\ UNCHANGED <<copies, uncommitted>>
    BY <1>3, ReadMoves
  <2>2. \A o \in Offsets : o \in Nat /\ (position + 1 <= o => position <= o /\ o # position)
    BY <2>1 DEF Offsets
  <2>3. position \notin uncommitted => readers[position] = {} /\ copies[position] = 0
    <3>1. copies[position] \in Nat
      BY <2>1 DEF TopicOK, Offsets
    <3> QED BY <2>1, <3>1 DEF ReadOnce
  <2>4. ASSUME NEW o \in Offsets \ uncommitted
        PROVE  /\ NextOffset' <= o => readers'[o] = {}
               /\ \A l1, l2 \in readers'[o] : l1 = l2
               /\ copies'[o] > 0 => readers'[o] # {}
               /\ copies'[o] <= 1
               /\ copies'[o] = 1 => \A l \in Consumers : holding'[l] # o
    <3>1. CASE o = position
      <4>1. readers'[o] = {k} /\ copies'[o] = 0
        BY <2>1, <2>3, <3>1
      <4>2. ~(NextOffset' <= o)
        BY <2>1, <2>2, <3>1
      <4> QED BY <4>1, <4>2
    <3>2. CASE o # position
      BY <2>1, <2>2, <3>2 DEF ReadOnce
    <3> QED BY <3>1, <3>2
  <2> QED BY <2>1, <2>4 DEF ReadOnce
<1>4. ASSUME NEW k \in Consumers, Stores(k)
      PROVE  ReadOnce'
  <2> DEFINE i == holding[k]
  <2>1. /\ NextOffset' = NextOffset /\ Offsets' = Offsets
        /\ i \in Offsets
        /\ \A l \in Consumers : holding'[l] = IF l = k THEN 0 ELSE holding[l]
        /\ \A o \in Offsets \ {i} : copies'[o] = copies[o]
        /\ copies[i] \in Nat /\ copies'[i] = copies[i] + 1
        /\ UNCHANGED <<readers, uncommitted>>
    BY <1>4, StoreMoves
  <2>2. \A l \in Consumers : holding[l] \in Offsets => l \in readers[holding[l]]
    BY DEF ReadersOK, Offsets
  <2>3. \A o \in Offsets : o # 0
    BY DEF Offsets
  <2>4. i \notin uncommitted => /\ copies[i] = 0
                              /\ readers[i] # {}
                              /\ \A l \in Consumers : holding[l] = i => l = k
    BY <2>1, <2>2 DEF ReadOnce
  <2>5. ASSUME NEW o \in Offsets \ uncommitted
        PROVE  /\ NextOffset' <= o => readers'[o] = {}
               /\ \A l1, l2 \in readers'[o] : l1 = l2
               /\ copies'[o] > 0 => readers'[o] # {}
               /\ copies'[o] <= 1
               /\ copies'[o] = 1 => \A l \in Consumers : holding'[l] # o
    <3>1. CASE o = i
      BY <2>1, <2>3, <2>4, <3>1 DEF ReadOnce
    <3>2. CASE o # i
      BY <2>1, <2>3, <3>2 DEF ReadOnce
    <3> QED BY <3>1, <3>2
  <2> QED BY <2>1, <2>5 DEF ReadOnce
<1>5. ASSUME NEW c \in Captures, Arrives(c)
      PROVE  ReadOnce'
  <2>1. UNCHANGED <<position, committed, owner, uncommitted, holding>>
    BY <1>5, ArrivalFacts
  <2>2. NextOffset' = NextOffset
    BY <2>1 DEF NextOffset
  <2>3. \A o \in Offsets : readers'[o] = readers[o] /\ copies'[o] = copies[o]
    BY <1>5, ArrivalFacts, EntersFacts
  <2>4. \A o \in Offsets' \ Offsets : readers'[o] = {} /\ copies'[o] = 0
    BY ReadersGrow
  <2> QED BY <2>1, <2>2, <2>3, <2>4 DEF ReadOnce
<1>6. CASE ~GroupSteps /\ ~TopicSteps
  BY <1>6, OtherMoves DEF ReadOnce, Offsets
<1> QED
  BY <1>2, <1>3, <1>4, <1>5, <1>6 DEF GroupSteps, TopicSteps, Arrives, Stores

(* What the group has passed it had passed before, or is what was read;    *)
(* what was stored stays so, and a COPY that ends has stored its batch.    *)
LEMMA PassingMoves ==
  ASSUME ListenersOK, ProducersOK, TopicOK, GroupOK, SaversOK, [Next]_vars
  PROVE  /\ \A o \in Offsets' : o < NextOffset' =>
              /\ o \in Offsets
              /\ o < NextOffset \/ \E k \in Consumers : Read(k) /\ o = position
         /\ \A o \in Offsets : copies[o] \in Nat /\ (copies'[o] = 0 => copies[o] = 0)
         /\ \A k \in Consumers : CopyEnds(k) => copies'[holding[k]] # 0
<1> DEFINE Passing == \A o \in Offsets' : o < NextOffset' =>
                        /\ o \in Offsets
                        /\ o < NextOffset \/ \E k \in Consumers : Read(k) /\ o = position
           Keeping == \A o \in Offsets : copies'[o] = 0 => copies[o] = 0
<1>0. \A o \in Offsets : o \in Nat /\ copies[o] \in Nat
  BY DEF TopicOK, Offsets
<1>1. NextOffset \in Nat /\ NextOffset <= Len(log) + 1 /\ Len(log) \in Nat
  BY DEF GroupOK, NextOffset, TopicOK
<1>2. ASSUME Commit \/ Assign \/ \E k \in Consumers : Join(k) \/ Rejoin(k) \/ Expire(k) \/ Evict(k)
      PROVE  Passing /\ Keeping
  <2>1. /\ UNCHANGED <<log, copies>>
        /\ NextOffset' \in Nat /\ NextOffset' <= NextOffset
    BY <1>2, GroupMoves DEF NoReturn
  <2>2. Offsets' = Offsets /\ \A o \in Offsets : o < NextOffset' => o < NextOffset
    BY <1>0, <1>1, <2>1 DEF Offsets
  <2> QED BY <2>1, <2>2
<1>3. ASSUME NEW k \in Consumers, Read(k)
      PROVE  Passing /\ Keeping
  <2>1. /\ NextOffset = position /\ NextOffset' = position + 1 /\ position \in Nat
        /\ Offsets' = Offsets /\ UNCHANGED copies
    BY <1>3, ReadMoves
  <2>2. \A o \in Offsets : o < position + 1 => o < position \/ o = position
    BY <1>0, <2>1
  <2> QED BY <1>3, <2>1, <2>2
<1>4. ASSUME NEW k \in Consumers, Stores(k)
      PROVE  Passing /\ Keeping /\ copies'[holding[k]] # 0
  <2>1. /\ NextOffset' = NextOffset /\ Offsets' = Offsets
        /\ \A o \in Offsets \ {holding[k]} : copies'[o] = copies[o]
        /\ copies[holding[k]] \in Nat /\ copies'[holding[k]] = copies[holding[k]] + 1
    BY <1>4, StoreMoves
  <2> QED BY <2>1
<1>5. ASSUME NEW c \in Captures, Arrives(c)
      PROVE  Passing /\ Keeping
  <2>1. UNCHANGED <<position, committed, owner>>
    BY <1>5, ArrivalFacts
  <2>2. \A o \in Offsets' \ Offsets : o = Len(log) + 1
    BY ReadersGrow
  <2>3. NextOffset' = NextOffset /\ \A o \in Offsets' \ Offsets : ~(o < NextOffset)
    BY <1>1, <2>1, <2>2 DEF NextOffset
  <2>4. \A o \in Offsets : copies'[o] = copies[o]
    BY <1>5, ArrivalFacts, EntersFacts
  <2> QED BY <2>3, <2>4
<1>6. ASSUME ~GroupSteps, ~TopicSteps
      PROVE  Passing /\ Keeping
  <2>1. UNCHANGED <<log, copies>> /\ NextOffset' = NextOffset
    BY <1>6, OtherMoves
  <2>2. Offsets' = Offsets
    BY <2>1 DEF Offsets
  <2> QED BY <2>1, <2>2
<1>7. Passing /\ Keeping
  BY <1>2, <1>3, <1>4, <1>5, <1>6 DEF GroupSteps, TopicSteps, Arrives, Stores
<1> QED BY <1>0, <1>4, <1>7 DEF Stores

LEMMA PassedNext ==
  ASSUME ListenersOK, ProducersOK, TopicOK, GroupOK, SaversOK, Lives, ReadersOK, Passed, [Next]_vars
  PROVE  Passed'
<1> SUFFICES ASSUME NEW o \in Offsets', o < NextOffset', copies'[o] = 0
             PROVE  \E k \in readers'[o] : Copying(k, o)' \/ CtxDone(k[1])'
  BY DEF Passed
<1>1. /\ o \in Offsets /\ copies[o] = 0
      /\ o < NextOffset \/ \E k \in Consumers : Read(k) /\ o = position
  BY PassingMoves
<1>2. CASE o < NextOffset
  <2>1. PICK k \in readers[o] : Copying(k, o) \/ CtxDone(k[1])
    BY <1>1, <1>2 DEF Passed
  <2>2. k \in Consumers /\ life[k[1]] # "none" /\ k[1] \in Captures
    BY <1>1, ConsumerFacts DEF ReadersOK, TopicOK, Offsets
  <2>3. k \in readers'[o]
    BY <1>1, ReadersGrow
  <2>4. CtxDone(k[1]) => CtxDone(k[1])'
    BY <2>2, LifeMoves
  <2>5. ~CopyEnds(k) \/ ~Copying(k, o)
    BY <2>2, PassingMoves DEF Copying
  <2> QED BY <2>1, <2>2, <2>3, <2>4, <2>5, CopyingStays
<1>3. ASSUME NEW k \in Consumers, Read(k), o = position
      PROVE  k \in readers'[o] /\ Copying(k, o)'
  BY <1>1, <1>3, ReadFacts DEF Copying, SaversOK
<1> QED BY <1>1, <1>2, <1>3

-----------------------------------------------------------------------------
(* What was taken is somewhere, and nothing ends a capture without a cause.*)

Held(p) == p \in batch[p[1]]
Given(p) == p \in UNION Handed(p[1])
InTopic(p) == \E o \in Offsets : p \in log[o]

Placed(p) == Held(p) \/ Given(p) \/ p \in refused \/ InTopic(p)

(* Produce puts a batch into the queue or among what was refused.          *)
LEMMA ProducePlaces ==
  ASSUME ProducersOK, NEW c \in Captures, NEW b, Produce(c, b), UNCHANGED adrift,
         NEW p \in Packets
  PROVE  /\ p \in b /\ p[1] = c => Placed(p)'
         /\ Given(p) => Given(p)'
         /\ p \in refused => p \in refused'
<1>1. p[1] \in Captures
  BY PacketFacts
<1>2. CASE refused' = refused \union b /\ UNCHANGED queue
  BY <1>2 DEF Given, Placed, Handed
<1>3. CASE queue' = [queue EXCEPT ![c] = @ \union {b}] /\ UNCHANGED refused
  <2>1. \A d \in Captures : queue'[d] = IF d = c THEN queue[c] \union {b} ELSE queue[d]
    BY <1>3 DEF ProducersOK
  <2>2. Given(p) => Given(p)'
    BY <1>1, <2>1 DEF Given, Handed
  <2>3. p \in b /\ p[1] = c => Given(p)'
    BY <1>1, <2>1 DEF Given, Handed
  <2> QED BY <1>3, <2>2, <2>3 DEF Placed
<1> QED BY <1>2, <1>3 DEF Produce

LEMMA TakePlaces ==
  ASSUME ListenersOK, ProducersOK, Batches, ListenersOK', NEW c \in Captures, TakePacket(c),
         NEW p \in Packets,
         Placed(p) \/ (Sendable(p) /\ p = <<c, taken[c] + 1>>)
  PROVE  Placed(p)'
<1>1. PICK b \in SUBSET Packets :
        /\ batch[c] \subseteq b
        /\ Sendable(<<c, taken[c] + 1>>) => <<c, taken[c] + 1>> \in b
        /\ \/ batch' = [batch EXCEPT ![c] = {}] /\ Produce(c, b)
           \/ batch' = [batch EXCEPT ![c] = b] /\ UNCHANGED <<queue, refused>>
        /\ UNCHANGED <<adrift, log>>
  BY TakeFacts
<1>2. p[1] \in Captures
  BY PacketFacts
<1>3. CASE p[1] = c /\ p \in b
  <2>1. CASE batch' = [batch EXCEPT ![c] = {}] /\ Produce(c, b)
    BY <1>1, <1>3, <2>1, ProducePlaces
  <2>2. CASE batch' = [batch EXCEPT ![c] = b]
    BY <1>3, <2>2 DEF Placed, Held, ProducersOK
  <2> QED BY <1>1, <2>1, <2>2
<1>4. CASE Held(p) /\ p[1] # c
  <2>1. batch'[p[1]] = batch[p[1]]
    BY <1>1, <1>2, <1>4 DEF ProducersOK
  <2> QED BY <1>4, <2>1 DEF Placed, Held
<1>5. CASE Given(p)
  <2>1. UNCHANGED queue => Given(p)'
    BY <1>1, <1>5 DEF Given, Handed
  <2> QED BY <1>1, <1>5, <2>1, ProducePlaces DEF Placed
<1>6. CASE p \in refused
  BY <1>1, <1>6, ProducePlaces DEF Placed
<1>7. CASE InTopic(p)
  BY <1>1, <1>7 DEF Placed, InTopic, Offsets
<1>8. Held(p) /\ p[1] = c => p \in b
  BY <1>1 DEF Held
<1>9. Sendable(p) /\ p = <<c, taken[c] + 1>> => p[1] = c /\ p \in b
  BY <1>1
<1> QED BY <1>3, <1>4, <1>5, <1>6, <1>7, <1>8, <1>9 DEF Placed

LEMMA LeavePlaces ==
  ASSUME ProducersOK, NEW c \in Captures, ListenerLeaves(c), NEW p \in Packets, Placed(p)
  PROVE  Placed(p)'
<1>1. /\ \/ batch[c] # {} /\ Produce(c, batch[c])
         \/ batch[c] = {} /\ UNCHANGED <<queue, refused>>
      /\ batch' = [batch EXCEPT ![c] = {}]
      /\ UNCHANGED <<adrift, log>>
  BY LeaveFacts
<1>2. p[1] \in Captures
  BY PacketFacts
<1>3. CASE Held(p) /\ p[1] = c
  BY <1>1, <1>3, ProducePlaces DEF Held
<1>4. CASE Held(p) /\ p[1] # c
  <2>1. batch'[p[1]] = batch[p[1]]
    BY <1>1, <1>2, <1>4 DEF ProducersOK
  <2> QED BY <1>4, <2>1 DEF Placed, Held
<1>5. CASE Given(p)
  <2>1. UNCHANGED queue => Given(p)'
    BY <1>1, <1>5 DEF Given, Handed
  <2> QED BY <1>1, <1>5, <2>1, ProducePlaces DEF Placed
<1>6. CASE p \in refused
  BY <1>1, <1>6, ProducePlaces DEF Placed
<1>7. CASE InTopic(p)
  BY <1>1, <1>7 DEF Placed, InTopic, Offsets
<1> QED BY <1>3, <1>4, <1>5, <1>6, <1>7 DEF Placed

LEMMA ArrivalPlaces ==
  ASSUME TopicOK, ProducersOK, TopicGrows, NEW c \in Captures, Arrives(c),
         NEW p \in Packets, Placed(p)
  PROVE  Placed(p)'
<1>1. PICK b \in Handed(c) :
        /\ Len(log') = Len(log) + 1 /\ log'[Len(log) + 1] = b
        /\ \A d \in Captures : \A a \in Handed(d) : a # b => a \in Handed(d)'
  BY ArrivalFacts, EntersFacts
<1>2. p[1] \in Captures
  BY PacketFacts
<1>3. UNCHANGED <<batch, refused>>
  BY ArrivalFacts
<1>4. CASE InTopic(p)
  BY <1>4 DEF Placed, InTopic, TopicGrows
<1>5. CASE Held(p) \/ p \in refused
  BY <1>3, <1>5 DEF Placed, Held
<1>6. CASE Given(p)
  <2>1. PICK a \in Handed(p[1]) : p \in a
    BY <1>6 DEF Given
  <2>2. CASE a = b
    <3>1. Len(log) + 1 \in Offsets'
      BY <1>1 DEF Offsets, TopicGrows
    <3> QED BY <1>1, <2>1, <2>2, <3>1 DEF Placed, InTopic
  <2>3. CASE a # b
    <3>1. a \in Handed(p[1])'
      BY <1>1, <1>2, <2>1, <2>3
    <3> QED BY <2>1, <3>1 DEF Placed, Given
  <2> QED BY <2>2, <2>3
<1> QED BY <1>4, <1>5, <1>6 DEF Placed

LEMMA GiveUpPlaces ==
  ASSUME ProducersOK, NEW c \in Captures, GiveUp(c), NEW p \in Packets, Placed(p)
  PROVE  Placed(p)'
  BY GiveUpFacts, PacketFacts DEF Placed, Held, Given, InTopic, Offsets

LEMMA LeftBehindNext ==
  ASSUME ListenersOK, ProducersOK, TopicOK, GroupOK, SaversOK, Lives, Batches,
         NothingLeftBehind, [Next]_vars
  PROVE  NothingLeftBehind'
<1>1. TopicGrows /\ ListenersOK'
  BY TopicNext, ListenersNext
<1> DEFINE Due(p) == p[2] <= taken[p[1]] /\ Sendable(p) /\ life[p[1]] # "killed"
<1>2. ASSUME NEW p \in Packets, Due(p)
      PROVE  Placed(p)
  BY <1>2 DEF NothingLeftBehind, Placed, Held, Given, Handed, InTopic
<1>3. SUFFICES ASSUME NEW p \in Packets, p[2] <= taken'[p[1]], Sendable(p),
                      life'[p[1]] # "killed"
               PROVE  Placed(p)'
  BY DEF NothingLeftBehind, Placed, Held, Given, Handed, InTopic, Sendable
<1>4. p[1] \in Captures /\ p[2] \in Nat /\ p[2] >= 1 /\ p = <<p[1], p[2]>>
  BY PacketFacts, CaptureStreamAssumption
<1>5. CASE Kill
  <2>1. taken[p[1]] = 0
    BY <1>3, <1>4, <1>5 DEF Kill, Lives, ListenersOK
  <2>2. UNCHANGED taken
    BY <1>5 DEF Kill
  <2> QED BY <1>3, <1>4, <2>1, <2>2
<1>6. ASSUME Placed(p), ~Kill
      PROVE  Placed(p)'
  <2>1. CASE UNCHANGED <<batch, queue, reported, adrift, refused>>
    BY <1>1, <1>6, <2>1 DEF Placed, Held, Given, Handed, InTopic, TopicGrows
  <2> QED BY <1>1, <1>6, <2>1, TakePlaces, LeavePlaces, ArrivalPlaces, GiveUpPlaces, WhoChanges
          DEF Frames, ProducerSteps, Arrives
<1>7. ASSUME ~Due(p), ~Kill
      PROVE  Placed(p)'
  <2>1. life[p[1]] # "killed"
    <3>1. ASSUME life[p[1]] = "killed"
          PROVE  life'[p[1]] = "killed"
      <4>1. ASSUME NEW c \in Captures, Start(c) \/ Stop(c)
            PROVE  life'[p[1]] = "killed"
        BY <1>4, <3>1, <4>1 DEF Start, Stop, Cancelled, ListenersOK
      <4>2. ASSUME NEW k \in Consumers, CopyFails(k)
            PROVE  life'[p[1]] = "killed"
        BY <1>4, <3>1, <4>2 DEF CopyFails, Abort, Cancelled, ListenersOK
      <4> QED BY <1>7, <3>1, <4>1, <4>2, WhoChanges DEF Frames, LifeSteps
    <3> QED BY <1>3, <3>1
  <2>2. p[2] > taken[p[1]] /\ p[2] <= taken'[p[1]]
    BY <1>3, <1>4, <1>7, <2>1 DEF ListenersOK
  <2>3. ASSUME NEW c \in Captures, TakePacket(c)
        PROVE  p = <<c, taken[c] + 1>>
    <3>1. taken' = [taken EXCEPT ![c] = @ + 1]
      BY <2>3 DEF TakePacket
    <3> QED BY <1>4, <2>2, <3>1 DEF ListenersOK
  <2>4. ASSUME NEW c \in Captures, Start(c) \/ ListenerLeaves(c)
        PROVE  UNCHANGED taken
    BY <2>4 DEF Start, ListenerLeaves
  <2>5. taken'[p[1]] # taken[p[1]]
    BY <1>4, <2>2 DEF ListenersOK
  <2>6. PICK c \in Captures : TakePacket(c)
    BY <1>7, <2>4, <2>5, WhoChanges DEF Frames, ListenerSteps
  <2> QED BY <1>1, <1>3, <2>3, <2>6, TakePlaces
<1> QED BY <1>2, <1>5, <1>6, <1>7

LEMMA CancelCauseNext ==
  ASSUME ListenersOK, ProducersOK, TopicOK, GroupOK, SaversOK, CausesOK, Lives, Batches,
         ReadersOK, CancelHasCause, [Next]_vars
  PROVE  CancelHasCause'
<1>1. TopicGrows
  BY TopicNext
<1>2. stopped \subseteq stopped' /\ faulted \subseteq faulted'
  <2>1. ASSUME NEW c \in Captures, Stop(c)
        PROVE  stopped \subseteq stopped' /\ faulted \subseteq faulted'
    BY <2>1 DEF Stop
  <2>2. ASSUME NEW c \in Captures, Deliver(c)
        PROVE  UNCHANGED <<stopped, faulted>>
    BY <2>2 DEF Deliver, causes
  <2>3. ASSUME NEW k \in Consumers, Evict(k)
        PROVE  UNCHANGED <<stopped, faulted>>
    BY <2>3 DEF Evict, Expel, causes
  <2>4. ASSUME NEW k \in Consumers, CopyFails(k)
        PROVE  stopped \subseteq stopped' /\ faulted \subseteq faulted'
    BY <2>4 DEF CopyFails
  <2> QED BY <2>1, <2>2, <2>3, <2>4, WhoChanges DEF Frames, CauseSteps
<1> DEFINE Blames(c, o) == log[o] \intersect LongName # {} /\ \E k \in readers[o] : k[1] = c
<1>3. ASSUME NEW c \in Captures, NEW o \in Offsets, Blames(c, o)
      PROVE  o \in Offsets' /\ Blames(c, o)'
  <2>1. o \in Offsets' /\ log'[o] = log[o]
    BY <1>1 DEF TopicGrows
  <2>2. readers[o] \subseteq readers'[o]
    BY ReadersGrow
  <2> QED BY <1>3, <2>1, <2>2
<1>4. SUFFICES ASSUME NEW c \in Captures, life'[c] = "cancelled"
               PROVE  c \in stopped' \union faulted' \/ \E o \in Offsets' : Blames(c, o)'
  BY DEF CancelHasCause
<1>5. CASE life[c] = "cancelled"
  <2>1. c \in stopped \union faulted \/ \E o \in Offsets : Blames(c, o)
    BY <1>5 DEF CancelHasCause
  <2> HIDE DEF Blames
  <2> QED BY <1>2, <1>3, <2>1
<1>6. ASSUME NEW d \in Captures, Stop(d), life[c] # "cancelled"
      PROVE  c \in stopped'
  BY <1>4, <1>6 DEF Stop, Cancelled, ListenersOK
<1>7. ASSUME NEW d \in Captures, Start(d), life[c] # "cancelled"
      PROVE  FALSE
  BY <1>4, <1>7 DEF Start, ListenersOK
<1>8. ASSUME Kill, life[c] # "cancelled"
      PROVE  FALSE
  BY <1>4, <1>8 DEF Kill, ListenersOK
<1>9. ASSUME NEW k \in Consumers, CopyFails(k), life[c] # "cancelled"
      PROVE  c \in faulted' \/ \E o \in Offsets' : Blames(c, o)'
  <2>1. /\ saver[k] = "copying"
        /\ life' = [life EXCEPT ![k[1]] = IF @ = "on" THEN "cancelled" ELSE @]
        /\ faulted' = IF CtxDone(k[1]) \/ ~Accepts(log[holding[k]])
                      THEN faulted ELSE faulted \union {k[1]}
    BY <1>9 DEF CopyFails, Abort, Cancelled
  <2>2. c = k[1] /\ life[c] = "on"
    BY <1>4, <1>9, <2>1, ConsumerFacts DEF ListenersOK
  <2>3. CASE Accepts(log[holding[k]])
    BY <2>1, <2>2, <2>3 DEF CtxDone
  <2>4. CASE ~Accepts(log[holding[k]])
    <3>1. holding[k] \in Offsets /\ k \in readers[holding[k]]
      BY <2>1, HoldingFacts DEF ReadersOK
    <3>2. log[holding[k]] \intersect NonIP = {}
      BY <3>1 DEF Batches, IsBatch, Sendable
    <3>3. Blames(c, holding[k])
      BY <2>2, <2>4, <3>1, <3>2 DEF Accepts
    <3> HIDE DEF Blames
    <3> QED BY <1>3, <3>1, <3>3
  <2> QED BY <2>3, <2>4
<1> HIDE DEF Blames
<1> QED BY <1>4, <1>5, <1>6, <1>7, <1>8, <1>9, WhoChanges DEF Frames, LifeSteps

-----------------------------------------------------------------------------
(* The invariant *)

LEMMA InitInv == Init => Inv
<1> SUFFICES ASSUME Init
             PROVE  Inv
  OBVIOUS
<1> USE CaptureStreamAssumption DEF Init
<1>1. IsFiniteSet({}) /\ Cardinality({}) = 0
  BY FS_EmptySet
<1>2. ListenersOK /\ ProducersOK /\ SaversOK /\ CausesOK
  BY DEF ListenersOK, ProducersOK, SaversOK, CausesOK
<1>3. TopicOK
  BY DEF TopicOK
<1>31. GroupOK
  <2>1. Len(log) = 0
    OBVIOUS
  <2>2. /\ position = 1 /\ committed = 1 /\ members = {} /\ synced = {}
        /\ owner = NoConsumer /\ uncommitted = {}
    OBVIOUS
  <2>3. rebalancing \in BOOLEAN
    OBVIOUS
  <2> HIDE DEF Init
  <2> QED BY <2>1, <2>2, <2>3 DEF GroupOK
<1>4. Lives /\ QueueFits
  BY <1>1, ConsumerFacts DEF Lives, QueueFits, Unreported
<1>5. Batches /\ Apart /\ ReadersOK /\ ReadOnce /\ Passed
  BY <1>1 DEF Batches, IsBatch, Apart, Handed, ReadersOK, ReadOnce, Passed, Offsets
<1>6. NothingLeftBehind
  <2>1. \A p \in Packets : p[1] \in Captures /\ p[2] \in Nat /\ p[2] >= 1
    BY PacketFacts
  <2> QED BY <2>1 DEF NothingLeftBehind
<1>7. CancelHasCause
  BY DEF CancelHasCause
<1> QED BY <1>2, <1>3, <1>31, <1>4, <1>5, <1>6, <1>7 DEF Inv

LEMMA InvNext == Inv /\ [Next]_vars => Inv'
<1> SUFFICES ASSUME Inv, [Next]_vars
             PROVE  Inv'
  OBVIOUS
<1> USE DEF Inv
<1>1. ListenersOK' /\ ProducersOK' /\ TopicOK' /\ GroupOK' /\ SaversOK' /\ CausesOK'
  BY ListenersNext, ProducersNext, TopicNext, GroupNext, SaversNext, CausesNext
<1>2. Lives' /\ Batches' /\ QueueFits' /\ Apart'
  BY LivesNext, BatchesNext, QueueFitsNext, ApartNext
<1>3. ReadersOK' /\ ReadOnce' /\ Passed'
  BY ReadersNext, ReadOnceNext, PassedNext
<1>4. NothingLeftBehind' /\ CancelHasCause'
  BY LeftBehindNext, CancelCauseNext
<1> QED BY <1>1, <1>2, <1>3, <1>4

LEMMA Invariance == Spec => []Inv
  BY InitInv, InvNext, PTL DEF Spec

-----------------------------------------------------------------------------
(* The theorems *)

(* Batches of one capture and at most BatchSize packets, no producer above *)
(* its queue's limit, the partition owned by a member of the group, and    *)
(* savers that copy a message of the topic.                                *)
THEOREM StreamTypeCorrect == Spec => []TypeOK
<1>1. Inv => TypeOK
  <2> SUFFICES ASSUME Inv
               PROVE  TypeOK
    OBVIOUS
  <2>1. /\ life \in [Captures -> {"none", "on", "cancelled", "killed"}]
        /\ \A c \in Captures : taken[c] \in 0 .. PacketLimit[c]
        /\ listener \in [Captures -> {"none", "listening", "left"}]
    BY CaptureStreamAssumption DEF Inv, ListenersOK
  <2>2. ASSUME NEW c \in Captures
        PROVE  /\ batch[c] \subseteq {p \in Packets : p[1] = c} /\ Cardinality(batch[c]) < BatchSize
               /\ \A b \in queue[c] \union adrift[c] :
                    b \subseteq {p \in Packets : p[1] = c} /\ b # {}
               /\ Cardinality(queue[c]) + Unreported(c) <= QueueRoom
    BY BatchFacts DEF Inv, Batches, IsBatch, QueueFits, Handed
  <2>3. ASSUME NEW o \in Offsets
        PROVE  log[o] \in SUBSET Packets /\ Cardinality(log[o]) \in 1 .. BatchSize
    BY DEF Inv, Batches, IsBatch, FullSize
  <2>4. copies \in [Offsets -> Nat] /\ readers \in [Offsets -> SUBSET Consumers]
    BY DEF Inv, TopicOK, Offsets
  <2>5. /\ saver \in [Consumers -> {"none", "looking", "polling", "copying", "pausing", "left"}]
        /\ reported \in [Captures -> Nat]
        /\ \A k \in Consumers :
             /\ holding[k] \in Offsets \/ holding[k] = 0
             /\ saver[k] = "copying" => holding[k] # 0
        /\ faults \in 0 .. MaxFaults /\ stopped \subseteq Captures /\ faulted \subseteq Captures
        /\ refused \subseteq Packets
    BY DEF Inv, SaversOK, ProducersOK, CausesOK
  <2>6. /\ 1 <= committed /\ position <= Len(log) + 1
        /\ owner # NoConsumer => committed <= position /\ owner \in members \ synced
        /\ members \subseteq Consumers /\ synced \subseteq members /\ rebalancing \in BOOLEAN
        /\ uncommitted \subseteq Offsets
    BY DEF Inv, GroupOK
  <2> QED BY <2>1, <2>2, <2>3, <2>4, <2>5, <2>6 DEF TypeOK
<1> QED BY <1>1, Invariance, PTL

(* A stop leaves no packet behind: the listener's last batch goes to the   *)
(* producer, and a packet that is not in the topic then was refused by a   *)
(* full queue or is in a batch the producer gave up without a word.        *)
THEOREM StopLeavesNothingBehind == Spec => []NothingLeftBehind
  BY Invariance, PTL DEF Inv

(* The offset is committed before the rows are stored: what is lost by it  *)
(* was in the hands of a saver whose capture has ended.                    *)
THEOREM OnlyAnEndLoses == Spec => []LossNeedsAnEnd
<1>1. Inv => LossNeedsAnEnd
  <2> SUFFICES ASSUME Inv, NEW o \in 1 .. committed - 1, copies[o] = 0
               PROVE  \E k \in readers[o] : Copying(k, o) \/ CtxDone(k[1])
    BY DEF LossNeedsAnEnd, Copying
  <2>1. o \in Offsets /\ o < NextOffset
    BY DEF Inv, GroupOK, TopicOK, Offsets, NextOffset
  <2> QED BY <2>1 DEF Inv, Passed
<1> QED BY <1>1, Invariance, PTL

(* A row is written twice only after a message that was sent again or      *)
(* offsets that were lost with the partition: whatever order commits,      *)
(* copies and rebalances come in, there is no third way.                   *)
THEOREM OnlyResendsAndLostOffsetsStoreTwice == Spec => []StoredTwiceHasCause
<1>1. Inv => StoredTwiceHasCause
  <2> SUFFICES ASSUME Inv
               PROVE  StoredTwiceHasCause
    OBVIOUS
  <2>1. ASSUME NEW o \in Offsets, copies[o] > 1
        PROVE  o \in uncommitted
    <3>1. copies[o] \in Nat
      BY DEF Inv, TopicOK, Offsets
    <3> QED BY <2>1, <3>1 DEF Inv, ReadOnce
  <2>2. \A o1, o2 \in Offsets :
          o1 # o2 /\ log[o1] \intersect log[o2] # {} => log[o1] \in resent
    BY DEF Inv, Apart
  <2> QED BY <2>1, <2>2 DEF StoredTwiceHasCause
<1> QED BY <1>1, Invariance, PTL

(* What onFailure cancels: a saver ends its capture when the database      *)
(* fails or when it read a row the table cannot take, which may be another *)
(* capture's; packets without addresses never reach the topic.             *)
THEOREM CancelNeedsACause == Spec => []CancelHasCause
  BY Invariance, PTL DEF Inv
=============================================================================
