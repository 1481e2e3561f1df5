-------------------------- MODULE NlsCommandsProofs --------------------------
(***************************************************************************)
(* What the commands of nls keep in the file, in the databases and on the  *)
(* path of the socket, for any number of processes, URLs and interfaces,   *)
(* whatever overlaps and whatever is killed.                               *)
(***************************************************************************)
EXTENDS NlsCommands, TLAPS

-----------------------------------------------------------------------------
(* The inductive invariant *)

(* A process holds a setting while it sets it, a database that is migrated *)
(* has a URL, and a file that is absent has no values.                     *)
Types ==
  /\ TypeOK
  /\ \A p \in Processes : Setting(p) => arg[p] \in Settings
  /\ \A p \in Processes : pc[p] = "migrating" => config[p].db \in Urls
  /\ file.state = "absent" => file.cfg = ZeroConfig

Known(url) == url \in migrated \union {NoValue}

(* What is written, and what a daemon has read, has its tables.            *)
Migrated ==
  /\ Known(file.cfg.db)
  /\ \A p \in Processes :
       pc[p] \in {"saving", "writing", "connecting", "removing", "binding", "serving"} =>
         Known(config[p].db)

(* As long as no command has overlapped a config set, there is one config  *)
(* set, which holds what was wanted with its own change in it, and the     *)
(* file is as it was wanted but while that one writes it.                  *)
OneSetter ==
  ~raced =>
    /\ \A p, q \in Processes : Setting(p) /\ Setting(q) => p = q
    /\ \A p \in Processes : Setting(p) => config[p] = With(want, arg[p])
    /\ (\A p \in Processes : pc[p] # "writing") => file.cfg = want
    /\ \A p \in Processes :
         pc[p] \in {"connecting", "removing", "binding", "serving"} => config[p].db = read[p]

(* Two daemons that use the path have met, and one that has met nobody     *)
(* finds the path as it left it.                                           *)
PathKept ==
  /\ \A d, e \in Processes : d # e /\ UsesPath(d) /\ UsesPath(e) => d \in met /\ e \in met
  /\ \A d \in Processes \ met :
       /\ pc[d] # "inuse"
       /\ pc[d] = "binding" => path = NoProcess
       /\ pc[d] = "serving" => path = d

Inv == Types /\ Migrated /\ OneSetter /\ PathKept

-----------------------------------------------------------------------------
(* The data and the two config sets *)

LEMMA WithFacts ==
  /\ ZeroConfig \in Configs
  /\ \A cfg \in Configs, s \in Settings :
       /\ With(cfg, s) \in Configs
       /\ IF s.key = "db-url" THEN With(cfg, s).db \in Urls ELSE With(cfg, s).db = cfg.db
  BY DEF Configs, ZeroConfig, Settings, With

(* A config set starts from what is in the file, whatever its text.        *)
Sets(p, s) ==
  /\ s \in Settings
  /\ arg' = [arg EXCEPT ![p] = s]
  /\ config' = [config EXCEPT ![p] = With(file.cfg, s)]
  /\ \/ s.key = "db-url" /\ Goes(p, "migrating")
     \/ s.key # "db-url" /\ Goes(p, "saving")

SetsOrFails(p) ==
  /\ pc[p] = "idle"
  /\ raced' = (raced \/ \E q \in Processes : Setting(q))
  /\ (\E s \in Settings : Sets(p, s)) \/ (Goes(p, "failed") /\ UNCHANGED <<config, arg>>)
  /\ UNCHANGED <<file, migrated, path, peer, want, read, met>>

LEMMA SetFacts ==
  ASSUME Types, NEW p \in Processes,
         (\E u \in Urls : SetDb(p, u)) \/ \E i \in Ifaces : SetInterface(p, i)
  PROVE  SetsOrFails(p)
<1>1. \A cfg : ReadsAs(cfg) \/ (file.state = "absent" /\ cfg = ZeroConfig) => cfg = file.cfg
  BY DEF ReadsAs, Types
<1>2. file.cfg \in Configs
  BY DEF Types, TypeOK
<1>3. ASSUME NEW u \in Urls, SetDb(p, u)
      PROVE  SetsOrFails(p)
  <2> DEFINE s == [key |-> "db-url", value |-> u]
  <2>1. s \in Settings /\ s.key = "db-url" /\ With(file.cfg, s) = [file.cfg EXCEPT !.db = u]
    BY DEF Settings, With
  <2>2. /\ \/ /\ config' = [config EXCEPT ![p] = [file.cfg EXCEPT !.db = u]]
              /\ arg' = [arg EXCEPT ![p] = s] /\ Goes(p, "migrating")
           \/ Goes(p, "failed") /\ UNCHANGED <<config, arg>>
        /\ pc[p] = "idle" /\ NotesRead
        /\ UNCHANGED <<file, migrated, path, peer, want, read, met>>
    BY <1>1, <1>3 DEF SetDb, StartingConfig
  <2> HIDE DEF s
  <2> QED BY <2>1, <2>2 DEF Sets, SetsOrFails, NotesRead
<1>4. ASSUME NEW i \in Ifaces, SetInterface(p, i)
      PROVE  SetsOrFails(p)
  <2> DEFINE s == [key |-> "interface", value |-> i]
  <2>1. s \in Settings /\ s.key # "db-url" /\ With(file.cfg, s) = [file.cfg EXCEPT !.iface = i]
    BY DEF Settings, With
  <2>2. /\ \/ /\ config' = [config EXCEPT ![p] = [file.cfg EXCEPT !.iface = i]]
              /\ arg' = [arg EXCEPT ![p] = s] /\ Goes(p, "saving")
           \/ Goes(p, "failed") /\ UNCHANGED <<config, arg>>
        /\ pc[p] = "idle" /\ NotesRead
        /\ UNCHANGED <<file, migrated, path, peer, want, read, met>>
    BY <1>1, <1>4 DEF SetInterface, StartingConfig
  <2> HIDE DEF s
  <2> QED BY <2>1, <2>2 DEF Sets, SetsOrFails, NotesRead
<1> QED BY <1>3, <1>4

(* A daemon that starts has read what is in the file.                      *)
LEMMA StartFacts ==
  ASSUME NEW p \in Processes, DaemonStart(p)
  PROVE  /\ pc[p] = "idle"
         /\ raced' = (raced \/ \E q \in Processes : Setting(q))
         /\ read' = [read EXCEPT ![p] = want.db]
         /\ \/ config' = [config EXCEPT ![p] = file.cfg] /\ Goes(p, "connecting")
            \/ Goes(p, "failed") /\ UNCHANGED config
         /\ UNCHANGED <<file, migrated, path, arg, peer, want, met>>
  BY DEF DaemonStart, NotesRead, ReadsAs

-----------------------------------------------------------------------------
(* The file, the databases and the path keep their types *)

LEMMA TypesNext ==
  ASSUME Types, [Next]_vars
  PROVE  Types'
<1> USE NlsAssumption DEF Types, TypeOK, Goes, Setting, Final, Pcs
<1>1. ASSUME NEW p \in Processes, SetsOrFails(p)
      PROVE  Types'
  <2>1. CASE Goes(p, "failed") /\ UNCHANGED <<config, arg>>
    BY <1>1, <2>1 DEF SetsOrFails
  <2>2. ASSUME NEW s \in Settings, Sets(p, s)
        PROVE  Types'
    <3>1. raced' \in BOOLEAN
      BY <1>1 DEF SetsOrFails
    <3>2. /\ config' \in [Processes -> Configs]
          /\ s.key = "db-url" => config'[p].db \in Urls
          /\ \A q \in Processes \ {p} : config'[q] = config[q]
      BY <2>2, WithFacts DEF Sets
    <3>3. /\ arg' \in [Processes -> Settings \union {NoSetting}]
          /\ arg'[p] \in Settings /\ \A q \in Processes \ {p} : arg'[q] = arg[q]
      BY <2>2 DEF Sets
    <3>4. /\ pc' \in [Processes -> Pcs] /\ pc'[p] \in {"migrating", "saving"}
          /\ pc'[p] = "migrating" => s.key = "db-url"
          /\ \A q \in Processes \ {p} : pc'[q] = pc[q]
      BY <2>2 DEF Sets
    <3>5. UNCHANGED <<file, migrated, path, peer, want, read, met>>
      BY <1>1 DEF SetsOrFails
    <3> QED BY <3>1, <3>2, <3>3, <3>4, <3>5
  <2> QED BY <1>1, <2>1, <2>2 DEF SetsOrFails
<1>2. ASSUME NEW p \in Processes, DaemonStart(p)
      PROVE  Types'
  <2>1. raced' \in BOOLEAN
    BY <1>2, StartFacts
  <2>5. want.db \in Urls \union {NoValue}
    BY DEF Configs
  <2>2. /\ read' \in [Processes -> Urls \union {NoValue}]
        /\ config' \in [Processes -> Configs]
        /\ \A q \in Processes \ {p} : config'[q] = config[q]
    BY <1>2, <2>5, StartFacts
  <2>3. /\ pc' \in [Processes -> Pcs] /\ pc'[p] \in {"connecting", "failed"}
        /\ \A q \in Processes \ {p} : pc'[q] = pc[q]
    BY <1>2, StartFacts
  <2>4. UNCHANGED <<file, migrated, path, arg, peer, want, met>>
    BY <1>2, StartFacts
  <2> QED BY <2>1, <2>2, <2>3, <2>4
<1>3. ASSUME NEW p \in Processes, Dial(p)
      PROVE  Types'
  BY <1>3 DEF Dial, Open
<1>4. ASSUME NEW p \in Processes, Migrate(p)
      PROVE  Types'
  BY <1>4 DEF Migrate, AfterFailure
<1>5. ASSUME NEW p \in Processes, Truncate(p)
      PROVE  Types'
  <2>1. pc' \in [Processes -> Pcs] /\ \A q \in Processes : Setting(q)' => Setting(q)
    BY <1>5 DEF Truncate
  <2>2. UNCHANGED file \/ file' = [state |-> "text", cfg |-> ZeroConfig]
    BY <1>5 DEF Truncate
  <2> QED BY <1>5, <2>1, <2>2, WithFacts DEF Truncate
<1>6. ASSUME NEW p \in Processes, Write(p)
      PROVE  Types'
  BY <1>6, WithFacts DEF Write, Saved
<1>7. ASSUME NEW p \in Processes, Connect(p)
      PROVE  Types'
  BY <1>7 DEF Connect, UsesPath, Open
<1>8. ASSUME NEW p \in Processes, RemovePath(p)
      PROVE  Types'
  BY <1>8 DEF RemovePath, Removed
<1>9. ASSUME NEW p \in Processes, Bind(p)
      PROVE  Types'
  BY <1>9 DEF Bind
<1>10. ASSUME NEW p \in Processes, HandleShutdown(p)
      PROVE  Types'
  BY <1>10 DEF HandleShutdown
<1>11. ASSUME NEW p \in Processes, CloseListener(p)
      PROVE  Types'
  BY <1>11 DEF CloseListener
<1>12. ASSUME NEW p \in Processes, Exit(p)
      PROVE  Types'
  BY <1>12 DEF Exit, LeftAtExit
<1>13. ASSUME NEW p \in Processes, Answered(p)
      PROVE  Types'
  BY <1>13 DEF Answered
<1>14. ASSUME NEW p \in Processes, HungUp(p)
      PROVE  Types'
  BY <1>14 DEF HungUp, Gone
<1>15. ASSUME NEW p \in Processes, Kill(p)
      PROVE  Types'
  BY <1>15 DEF Kill
<1>16. CASE UNCHANGED vars
  BY <1>16 DEF vars
<1> QED
  BY <1>1, <1>2, <1>3, <1>4, <1>5, <1>6, <1>7, <1>8, <1>9, <1>10, <1>11, <1>12, <1>13, <1>14, <1>15, <1>16, SetFacts DEF Next, Works, Over

(* What is written, and what a daemon serves, has its tables *)

LEMMA MigratedNext ==
  ASSUME Types, Migrated, [Next]_vars
  PROVE  Migrated'
<1> USE NlsAssumption DEF Types, TypeOK, Migrated, Known, Goes
<1>1. ASSUME NEW p \in Processes, SetsOrFails(p)
      PROVE  Migrated'
  <2>1. CASE Goes(p, "failed") /\ UNCHANGED <<config, arg>>
    BY <1>1, <2>1 DEF SetsOrFails
  <2>2. ASSUME NEW s \in Settings, Sets(p, s)
        PROVE  Migrated'
    BY <1>1, <2>2, WithFacts DEF SetsOrFails, Sets
  <2> QED BY <1>1, <2>1, <2>2 DEF SetsOrFails
<1>2. ASSUME NEW p \in Processes, DaemonStart(p)
      PROVE  Migrated'
  BY <1>2, StartFacts
<1>3. ASSUME NEW p \in Processes, Dial(p)
      PROVE  Migrated'
  BY <1>3 DEF Dial, Open
<1>4. ASSUME NEW p \in Processes, Migrate(p)
      PROVE  Migrated'
  BY <1>4 DEF Migrate, AfterFailure
<1>5. ASSUME NEW p \in Processes, Truncate(p)
      PROVE  Migrated'
  <2>1. file' = file \/ file'.cfg.db = NoValue
    BY <1>5 DEF Truncate, ZeroConfig
  <2> QED BY <1>5, <2>1 DEF Truncate
<1>6. ASSUME NEW p \in Processes, Write(p)
      PROVE  Migrated'
  BY <1>6 DEF Write, Saved
<1>7. ASSUME NEW p \in Processes, Connect(p)
      PROVE  Migrated'
  BY <1>7 DEF Connect, UsesPath, Open
<1>8. ASSUME NEW p \in Processes, RemovePath(p)
      PROVE  Migrated'
  BY <1>8 DEF RemovePath, Removed
<1>9. ASSUME NEW p \in Processes, Bind(p)
      PROVE  Migrated'
  BY <1>9 DEF Bind
<1>10. ASSUME NEW p \in Processes, HandleShutdown(p)
      PROVE  Migrated'
  BY <1>10 DEF HandleShutdown
<1>11. ASSUME NEW p \in Processes, CloseListener(p)
      PROVE  Migrated'
  BY <1>11 DEF CloseListener
<1>12. ASSUME NEW p \in Processes, Exit(p)
      PROVE  Migrated'
  BY <1>12 DEF Exit, LeftAtExit
<1>13. ASSUME NEW p \in Processes, Answered(p)
      PROVE  Migrated'
  BY <1>13 DEF Answered
<1>14. ASSUME NEW p \in Processes, HungUp(p)
      PROVE  Migrated'
  BY <1>14 DEF HungUp, Gone
<1>15. ASSUME NEW p \in Processes, Kill(p)
      PROVE  Migrated'
  BY <1>15 DEF Kill
<1>16. CASE UNCHANGED vars
  BY <1>16 DEF vars
<1> QED
  BY <1>1, <1>2, <1>3, <1>4, <1>5, <1>6, <1>7, <1>8, <1>9, <1>10, <1>11, <1>12, <1>13, <1>14, <1>15, <1>16, SetFacts DEF Next, Works, Over

(* One config set at a time, unless commands overlap *)

LEMMA OneSetterNext ==
  ASSUME Types, OneSetter, [Next]_vars
  PROVE  OneSetter'
<1> USE NlsAssumption DEF Types, TypeOK, OneSetter, Goes, Setting
<1>1. ASSUME NEW p \in Processes, SetsOrFails(p)
      PROVE  OneSetter'
  <2> SUFFICES ASSUME ~raced'
               PROVE  OneSetter'
    OBVIOUS
  <2>1. ~raced /\ \A q \in Processes : ~Setting(q)
    BY <1>1 DEF SetsOrFails
  <2>2. file.cfg = want
    BY <2>1
  <2>3. UNCHANGED <<file, read, want>>
    BY <1>1 DEF SetsOrFails
  <2>4. CASE Goes(p, "failed") /\ UNCHANGED <<config, arg>>
    BY <1>1, <2>1, <2>2, <2>3, <2>4 DEF SetsOrFails
  <2>5. ASSUME NEW s \in Settings, Sets(p, s)
        PROVE  OneSetter'
    <3>1. /\ arg' = [arg EXCEPT ![p] = s] /\ config' = [config EXCEPT ![p] = With(want, s)]
          /\ Goes(p, "migrating") \/ Goes(p, "saving")
      BY <2>2, <2>5 DEF Sets
    <3> QED BY <1>1, <2>1, <2>2, <2>3, <3>1 DEF SetsOrFails
  <2> QED BY <1>1, <2>4, <2>5 DEF SetsOrFails
<1>2. ASSUME NEW p \in Processes, DaemonStart(p)
      PROVE  OneSetter'
  <2> SUFFICES ASSUME ~raced'
               PROVE  OneSetter'
    OBVIOUS
  <2>1. ~raced /\ \A q \in Processes : ~Setting(q)
    BY <1>2, StartFacts
  <2>2. file.cfg = want
    BY <2>1
  <2>3. /\ read' = [read EXCEPT ![p] = want.db]
        /\ \/ config' = [config EXCEPT ![p] = file.cfg] /\ Goes(p, "connecting")
           \/ Goes(p, "failed") /\ UNCHANGED config
        /\ UNCHANGED <<file, arg, want>>
    BY <1>2, StartFacts
  <2> QED BY <2>1, <2>2, <2>3
<1>3. ASSUME NEW p \in Processes, Dial(p)
      PROVE  OneSetter'
  BY <1>3 DEF Dial, Open
<1>4. ASSUME NEW p \in Processes, Migrate(p)
      PROVE  OneSetter'
  BY <1>4 DEF Migrate, AfterFailure
<1>5. ASSUME NEW p \in Processes, Truncate(p)
      PROVE  OneSetter'
  BY <1>5 DEF Truncate, ReadFails
<1>6. ASSUME NEW p \in Processes, Write(p)
      PROVE  OneSetter'
  BY <1>6 DEF Write, Saved
<1>7. ASSUME NEW p \in Processes, Connect(p)
      PROVE  OneSetter'
  BY <1>7 DEF Connect, UsesPath, Open
<1>8. ASSUME NEW p \in Processes, RemovePath(p)
      PROVE  OneSetter'
  BY <1>8 DEF RemovePath, Removed
<1>9. ASSUME NEW p \in Processes, Bind(p)
      PROVE  OneSetter'
  BY <1>9 DEF Bind
<1>10. ASSUME NEW p \in Processes, HandleShutdown(p)
      PROVE  OneSetter'
  BY <1>10 DEF HandleShutdown
<1>11. ASSUME NEW p \in Processes, CloseListener(p)
      PROVE  OneSetter'
  BY <1>11 DEF CloseListener
<1>12. ASSUME NEW p \in Processes, Exit(p)
      PROVE  OneSetter'
  BY <1>12 DEF Exit, LeftAtExit
<1>13. ASSUME NEW p \in Processes, Answered(p)
      PROVE  OneSetter'
  BY <1>13 DEF Answered
<1>14. ASSUME NEW p \in Processes, HungUp(p)
      PROVE  OneSetter'
  BY <1>14 DEF HungUp, Gone
<1>15. ASSUME NEW p \in Processes, Kill(p)
      PROVE  OneSetter'
  BY <1>15 DEF Kill
<1>16. CASE UNCHANGED vars
  BY <1>16 DEF vars
<1> QED
  BY <1>1, <1>2, <1>3, <1>4, <1>5, <1>6, <1>7, <1>8, <1>9, <1>10, <1>11, <1>12, <1>13, <1>14, <1>15, <1>16, SetFacts DEF Next, Works, Over

(* The path of a daemon that is alone *)

LEMMA PathKeptNext ==
  ASSUME Types, PathKept, [Next]_vars
  PROVE  PathKept'
<1> USE NlsAssumption DEF Types, TypeOK, PathKept, UsesPath, Open, Goes
<1>1. ASSUME NEW p \in Processes, SetsOrFails(p)
      PROVE  PathKept'
  BY <1>1 DEF SetsOrFails, Sets
<1>2. ASSUME NEW p \in Processes, DaemonStart(p)
      PROVE  PathKept'
  BY <1>2, StartFacts
<1>3. ASSUME NEW p \in Processes, Dial(p)
      PROVE  PathKept'
  BY <1>3 DEF Dial, Open
<1>4. ASSUME NEW p \in Processes, Migrate(p)
      PROVE  PathKept'
  BY <1>4 DEF Migrate, AfterFailure
<1>5. ASSUME NEW p \in Processes, Truncate(p)
      PROVE  PathKept'
  BY <1>5 DEF Truncate, ReadFails
<1>6. ASSUME NEW p \in Processes, Write(p)
      PROVE  PathKept'
  BY <1>6 DEF Write, Saved
<1>7. ASSUME NEW p \in Processes, Connect(p)
      PROVE  PathKept'
  BY <1>7 DEF Connect, UsesPath, Open
<1>8. ASSUME NEW p \in Processes, RemovePath(p)
      PROVE  PathKept'
  BY <1>8 DEF RemovePath, Removed
<1>9. ASSUME NEW p \in Processes, Bind(p)
      PROVE  PathKept'
  BY <1>9 DEF Bind
<1>10. ASSUME NEW p \in Processes, HandleShutdown(p)
      PROVE  PathKept'
  BY <1>10 DEF HandleShutdown
<1>11. ASSUME NEW p \in Processes, CloseListener(p)
      PROVE  PathKept'
  BY <1>11 DEF CloseListener
<1>12. ASSUME NEW p \in Processes, Exit(p)
      PROVE  PathKept'
  BY <1>12 DEF Exit, LeftAtExit
<1>13. ASSUME NEW p \in Processes, Answered(p)
      PROVE  PathKept'
  BY <1>13 DEF Answered
<1>14. ASSUME NEW p \in Processes, HungUp(p)
      PROVE  PathKept'
  BY <1>14 DEF HungUp, Gone
<1>15. ASSUME NEW p \in Processes, Kill(p)
      PROVE  PathKept'
  BY <1>15 DEF Kill
<1>16. CASE UNCHANGED vars
  BY <1>16 DEF vars
<1> QED
  BY <1>1, <1>2, <1>3, <1>4, <1>5, <1>6, <1>7, <1>8, <1>9, <1>10, <1>11, <1>12, <1>13, <1>14, <1>15, <1>16, SetFacts DEF Next, Works, Over

-----------------------------------------------------------------------------
(* The invariant and the theorems *)

LEMMA InitInv == Init => Inv
<1> SUFFICES ASSUME Init
             PROVE  Inv
  OBVIOUS
<1> USE NlsAssumption DEF Init
<1>1. \A p \in Processes : ~Setting(p) /\ ~UsesPath(p) /\ pc[p] = "idle"
  BY DEF Setting, UsesPath, Open
<1>2. file.cfg \in Configs /\ want = file.cfg /\ file.cfg.db \in Urls \union {NoValue}
  BY WithFacts DEF Configs
<1>3. TypeOK
  <2>1. file \in [state : {"absent", "text", "garbled"}, cfg : Configs]
    BY WithFacts
  <2>2. raced \in BOOLEAN
    OBVIOUS
  <2>3. /\ pc \in [Processes -> Pcs] /\ arg \in [Processes -> Settings \union {NoSetting}]
        /\ config \in [Processes -> Configs] /\ peer \in [Processes -> Processes \union {NoProcess}]
        /\ read \in [Processes -> Urls \union {NoValue}]
    BY WithFacts DEF Pcs
  <2>4. migrated \subseteq Urls /\ path \in Processes \union {NoProcess} /\ met \subseteq Processes
    BY <1>2
  <2> QED BY <1>2, <2>1, <2>2, <2>3, <2>4 DEF TypeOK
<1>4. file.state = "absent" => file.cfg = ZeroConfig
  OBVIOUS
<1>5. Types
  BY <1>1, <1>3, <1>4 DEF Types
<1>6. Migrated
  BY <1>1 DEF Migrated, Known
<1>7. OneSetter
  BY <1>1, <1>2 DEF OneSetter
<1>8. PathKept
  BY <1>1 DEF PathKept
<1> QED BY <1>5, <1>6, <1>7, <1>8 DEF Inv

LEMMA InvNext == Inv /\ [Next]_vars => Inv'
  BY TypesNext, MigratedNext, OneSetterNext, PathKeptNext DEF Inv

LEMMA Invariance == Spec => []Inv
  BY InitInv, InvNext, PTL DEF Spec

(* The file, the databases and the path hold what the commands put there,  *)
(* and each process is where the code of its command can be.               *)
THEOREM CommandsTypeCorrect == Spec => []TypeOK
  BY Invariance, PTL DEF Inv, Types

(* config set migrates a database before it writes its URL: the file never *)
(* names, and no daemon serves, a database without its tables.             *)
THEOREM NoDaemonWithoutTables == Spec => []MigratedFirst
<1>1. Inv => MigratedFirst
  BY DEF Inv, Migrated, MigratedFirst, Known
<1> QED BY <1>1, Invariance, PTL

(* SaveConfig writes both fields of what config set read: as long as no    *)
(* other command reads the file during a config set, and none is killed    *)
(* while it writes, nothing that was set is lost.                          *)
THEOREM SettingsAreKept == Spec => []ConfigIsKept
<1>1. Inv => ConfigIsKept
  BY DEF Inv, OneSetter, ConfigIsKept
<1> QED BY <1>1, Invariance, PTL

(* Start removes whatever is at the path before it listens, and a closing  *)
(* listener unlinks the path: a daemon with no other beside it is reached  *)
(* there, and never finds the path in use.                                 *)
THEOREM LoneDaemonIsReachable == Spec => []ReachableAlone
<1>1. Inv => ReachableAlone
  BY DEF Inv, PathKept, ReachableAlone
<1> QED BY <1>1, Invariance, PTL

-----------------------------------------------------------------------------
(* Clients and daemons *)

(* The one that a client waits for serves, is closing, or has ended.       *)
HasDaemon ==
  \A p \in Processes : pc[p] = "waiting" =>
    /\ peer[p] \in Processes
    /\ pc[peer[p]] \in {"serving", "closing", "leaving"} \union Final

LEMMA HasDaemonNext ==
  ASSUME Types, HasDaemon, [Next]_vars
  PROVE  HasDaemon'
<1> USE NlsAssumption DEF Types, TypeOK, HasDaemon, Final, Goes
<1>1. ASSUME NEW p \in Processes, SetsOrFails(p)
      PROVE  HasDaemon'
  BY <1>1 DEF SetsOrFails, Sets
<1>2. ASSUME NEW p \in Processes, DaemonStart(p)
      PROVE  HasDaemon'
  BY <1>2, StartFacts
<1>3. ASSUME NEW p \in Processes, Dial(p)
      PROVE  HasDaemon'
  BY <1>3 DEF Dial, Open
<1>4. ASSUME NEW p \in Processes, Migrate(p)
      PROVE  HasDaemon'
  BY <1>4 DEF Migrate, AfterFailure
<1>5. ASSUME NEW p \in Processes, Truncate(p)
      PROVE  HasDaemon'
  BY <1>5 DEF Truncate, ReadFails
<1>6. ASSUME NEW p \in Processes, Write(p)
      PROVE  HasDaemon'
  BY <1>6 DEF Write, Saved
<1>7. ASSUME NEW p \in Processes, Connect(p)
      PROVE  HasDaemon'
  BY <1>7 DEF Connect
<1>8. ASSUME NEW p \in Processes, RemovePath(p)
      PROVE  HasDaemon'
  BY <1>8 DEF RemovePath
<1>9. ASSUME NEW p \in Processes, Bind(p)
      PROVE  HasDaemon'
  BY <1>9 DEF Bind
<1>10. ASSUME NEW p \in Processes, HandleShutdown(p)
      PROVE  HasDaemon'
  BY <1>10 DEF HandleShutdown
<1>11. ASSUME NEW p \in Processes, CloseListener(p)
      PROVE  HasDaemon'
  BY <1>11 DEF CloseListener
<1>12. ASSUME NEW p \in Processes, Exit(p)
      PROVE  HasDaemon'
  BY <1>12 DEF Exit
<1>13. ASSUME NEW p \in Processes, Answered(p)
      PROVE  HasDaemon'
  BY <1>13 DEF Answered
<1>14. ASSUME NEW p \in Processes, HungUp(p)
      PROVE  HasDaemon'
  BY <1>14 DEF HungUp
<1>15. ASSUME NEW p \in Processes, Kill(p)
      PROVE  HasDaemon'
  BY <1>15 DEF Kill
<1>16. CASE UNCHANGED vars
  BY <1>16 DEF vars
<1> QED
  BY <1>1, <1>2, <1>3, <1>4, <1>5, <1>6, <1>7, <1>8, <1>9, <1>10, <1>11, <1>12, <1>13, <1>14, <1>15, <1>16, SetFacts DEF Next, Works, Over

(* Send has no timeout, so all that ends the wait of an `nls daemon stop`  *)
(* is the process it is connected to: that is always a daemon which can    *)
(* still take the request, is on its way out, or is gone with its end of   *)
(* the connection, whatever other daemons do to the path or whoever is     *)
(* killed.                                                                 *)
THEOREM ClientsWaitForDaemons == Spec => []HasDaemon
<1>1. Init => HasDaemon
  BY DEF Init, HasDaemon
<1>2. Inv /\ HasDaemon /\ [Next]_vars => HasDaemon'
  BY HasDaemonNext DEF Inv
<1> QED
  BY <1>1, <1>2, Invariance, PTL DEF Spec
=============================================================================
