----------------------------- MODULE NlsCommands -----------------------------
(***************************************************************************)
(* The processes of the command nls on one host and what they share: the   *)
(* configuration file, the databases it may name and the path of the       *)
(* daemon's socket.  `nls config set` reads the file, migrates a database  *)
(* whose URL is set, and writes the file anew; `nls daemon start` reads    *)
(* it, connects, and takes the path over; `nls daemon stop` talks to       *)
(* whoever listens there.  Any of them may be killed.                      *)
(*                                                                         *)
(* Every process runs one command.  The other requests to a daemon, and    *)
(* what it does with them, are in CaptureSessions.                         *)
(***************************************************************************)
EXTENDS Naturals, FiniteSets

CONSTANTS
  Processes,  \* the processes
  Urls,       \* values of db-url
  Ifaces,     \* values of interface
  NoValue,    \* the zero value of a field
  NoProcess

ASSUME NlsAssumption ==
  /\ NoValue \notin Urls \union Ifaces
  /\ NoProcess \notin Processes

Configs == [db : Urls \union {NoValue}, iface : Ifaces \union {NoValue}]

ZeroConfig == [db |-> NoValue, iface |-> NoValue]

(* The key and the value a config set is given. *)
Settings == [key : {"db-url"}, value : Urls] \union [key : {"interface"}, value : Ifaces]

NoSetting == [key |-> "none", value |-> NoValue]

With(cfg, s) ==
  IF s.key = "db-url" THEN [cfg EXCEPT !.db = s.value] ELSE [cfg EXCEPT !.iface = s.value]

VARIABLES
  file,      \* config.yaml: a file that is absent, has text, or is garbled,
             \* and the values in it
  migrated,  \* the databases with every migration applied
  path,      \* nls.sock: the process whose socket is there
  pc,        \* where each process is
  arg,       \* what a config set was given
  config,    \* the configuration it has read, with its own change
  peer,      \* the daemon a client is connected to
  want,      \* observation: the values that were set
  raced,     \* observation: a config set was at work when another process
             \* read the file, or was killed while it wrote
  read,      \* observation: want, when a daemon read the file
  met        \* observation: the daemons that had another one beside them

vars == <<file, migrated, path, pc, arg, config, peer, want, raced, read, met>>

Pcs == {"idle", "migrating", "saving", "writing", "connecting", "removing", "binding",
        "serving", "closing", "leaving", "waiting", "done", "failed", "inuse", "killed"}

Final == {"done", "failed", "inuse", "killed"}

Setting(p) == pc[p] \in {"migrating", "saving", "writing"}

(* The first command ever, or one after others that have kept a file. *)
Init ==
  /\ \E cfg \in Configs :
       /\ file = [state |-> "text", cfg |-> cfg] \/ file = [state |-> "absent", cfg |-> ZeroConfig]
       /\ want = file.cfg /\ migrated = {file.cfg.db} \ {NoValue}
  /\ path = NoProcess
  /\ pc = [p \in Processes |-> "idle"]
  /\ arg = [p \in Processes |-> NoSetting]
  /\ config = [p \in Processes |-> ZeroConfig]
  /\ peer = [p \in Processes |-> NoProcess]
  /\ raced = FALSE
  /\ read = [p \in Processes |-> NoValue]
  /\ met = {}

Goes(p, to) == pc' = [pc EXCEPT ![p] = to]

-----------------------------------------------------------------------------
(* nls config set *)

(* A garbled file may still parse.  An empty one is a zero configuration.  *)
ReadsAs(cfg) == file.state # "absent" /\ file.cfg = cfg

ReadFails == file.state = "garbled"

NotesRead == raced' = (raced \/ \E p \in Processes : Setting(p))

(* Mutant: the command starts from an empty configuration. *)
StartingConfigZero(cfg) == ZeroConfig

StartingConfig(cfg) == cfg

(* The first ReadConfig of config set; no file is as good as an empty one. *)
SetDb(p, url) ==
  /\ pc[p] = "idle"
  /\ NotesRead
  /\ \/ \E cfg \in Configs :
          /\ ReadsAs(cfg) \/ (file.state = "absent" /\ cfg = ZeroConfig)
          /\ config' = [config EXCEPT ![p] = [StartingConfig(cfg) EXCEPT !.db = url]]
          /\ arg' = [arg EXCEPT ![p] = [key |-> "db-url", value |-> url]]
          /\ Goes(p, "migrating")
     \/ ReadFails /\ Goes(p, "failed") /\ UNCHANGED <<config, arg>>
  /\ UNCHANGED <<file, migrated, path, peer, want, read, met>>

SetInterface(p, i) ==
  /\ pc[p] = "idle"
  /\ NotesRead
  /\ \/ \E cfg \in Configs :
          /\ ReadsAs(cfg) \/ (file.state = "absent" /\ cfg = ZeroConfig)
          /\ config' = [config EXCEPT ![p] = [StartingConfig(cfg) EXCEPT !.iface = i]]
          /\ arg' = [arg EXCEPT ![p] = [key |-> "interface", value |-> i]]
          /\ Goes(p, "saving")
     \/ ReadFails /\ Goes(p, "failed") /\ UNCHANGED <<config, arg>>
  /\ UNCHANGED <<file, migrated, path, peer, want, read, met>>

(* Mutant: the error of RunMigrations is not looked at. *)
AfterFailureSaving == "saving"

AfterFailure == "failed"

(* RunMigrations applies what is missing, or fails on the way. *)
Migrate(p) ==
  /\ pc[p] = "migrating"
  /\ \/ migrated' = migrated \union {config[p].db} /\ Goes(p, "saving")
     \/ UNCHANGED migrated /\ Goes(p, AfterFailure)
  /\ UNCHANGED <<file, path, arg, config, peer, want, raced, read, met>>

(* SaveConfig reads the file again, for its error only; os.WriteFile       *)
(* truncates it.                                                           *)
Truncate(p) ==
  /\ pc[p] = "saving"
  /\ \/ file' = [state |-> "text", cfg |-> ZeroConfig] /\ Goes(p, "writing")
     \/ ReadFails /\ Goes(p, "failed") /\ UNCHANGED file
  /\ UNCHANGED <<migrated, path, arg, config, peer, want, raced, read, met>>

(* Mutant: the two strings change places. *)
SavedSwapped(cfg) == [db |-> cfg.iface, iface |-> cfg.db]

Saved(cfg) == cfg

(* Both fields are written.  What another process wrote since the file was *)
(* truncated may be longer, and its end stays behind.                      *)
Write(p) ==
  /\ pc[p] = "writing"
  /\ \/ file' = [state |-> "text", cfg |-> Saved(config[p])]
     \/ file.cfg \notin {ZeroConfig, config[p]} /\ file' = [state |-> "garbled", cfg |-> Saved(config[p])]
  /\ want' = With(want, arg[p])
  /\ Goes(p, "done")
  /\ UNCHANGED <<migrated, path, arg, config, peer, raced, read, met>>

-----------------------------------------------------------------------------
(* nls daemon start *)

(* ReadConfig; without a file there is no daemon. *)
DaemonStart(p) ==
  /\ pc[p] = "idle"
  /\ NotesRead
  /\ read' = [read EXCEPT ![p] = want.db]
  /\ \/ \E cfg \in Configs :
          /\ ReadsAs(cfg)
          /\ config' = [config EXCEPT ![p] = cfg]
          /\ Goes(p, "connecting")
     \/ /\ ReadFails \/ file.state = "absent"
        /\ Goes(p, "failed") /\ UNCHANGED config
  /\ UNCHANGED <<file, migrated, path, arg, peer, want, met>>

Open(d) == pc[d] \in {"serving", "closing"}

UsesPath(d) == pc[d] \in {"removing", "binding"} \/ Open(d)

(* InitDB.  An empty URL stands for the default database of pgx. *)
Connect(p) ==
  /\ pc[p] = "connecting"
  /\ \/ /\ Goes(p, "removing")
        /\ LET others == {d \in Processes : UsesPath(d)}
           IN  met' = met \union others \union {d \in {p} : others # {}}
     \/ Goes(p, "failed") /\ UNCHANGED met
  /\ UNCHANGED <<file, migrated, path, arg, config, peer, want, raced, read>>

(* Mutant: the path of an earlier daemon is left alone. *)
RemovedNot == path

(* os.Remove *)
Removed == NoProcess

RemovePath(p) ==
  /\ pc[p] = "removing"
  /\ path' = Removed
  /\ Goes(p, "binding")
  /\ UNCHANGED <<file, migrated, arg, config, peer, want, raced, read, met>>

(* net.Listen *)
Bind(p) ==
  /\ pc[p] = "binding"
  /\ IF path = NoProcess
     THEN path' = p /\ Goes(p, "serving")
     ELSE Goes(p, "inuse") /\ UNCHANGED path
  /\ UNCHANGED <<file, migrated, arg, config, peer, want, raced, read, met>>

(* handleRequest calls the daemon's cancel function for CmdShutdown; the   *)
(* client may be gone by then.                                             *)
HandleShutdown(d) ==
  /\ pc[d] = "serving"
  /\ \E p \in Processes : pc[p] \in {"waiting", "killed"} /\ peer[p] = d
  /\ Goes(d, "closing")
  /\ UNCHANGED <<file, migrated, path, arg, config, peer, want, raced, read, met>>

(* The goroutine that waits for the context closes the listener, which     *)
(* unlinks the path, whosever socket is there.                             *)
CloseListener(d) ==
  /\ pc[d] = "closing"
  /\ path' = NoProcess
  /\ Goes(d, "leaving")
  /\ UNCHANGED <<file, migrated, arg, config, peer, want, raced, read, met>>

(* The deferred Close finds the listener closed and the path unlinked. *)
LeftAtExit == path

Exit(d) ==
  /\ pc[d] = "leaving"
  /\ path' = LeftAtExit
  /\ Goes(d, "done")
  /\ UNCHANGED <<file, migrated, arg, config, peer, want, raced, read, met>>

-----------------------------------------------------------------------------
(* nls daemon stop *)

(* net.Dial: nobody may be there, or nobody any more. *)
Dial(p) ==
  /\ pc[p] = "idle"
  /\ IF path # NoProcess /\ Open(path)
     THEN peer' = [peer EXCEPT ![p] = path] /\ Goes(p, "waiting")
     ELSE Goes(p, "failed") /\ UNCHANGED peer
  /\ UNCHANGED <<file, migrated, path, arg, config, want, raced, read, met>>

Answered(p) ==
  /\ pc[p] = "waiting" /\ pc[peer[p]] \in {"closing", "leaving"}
  /\ Goes(p, "done")
  /\ UNCHANGED <<file, migrated, path, arg, config, peer, want, raced, read, met>>

(* Mutant: a client notices only a daemon that was killed. *)
GoneKilled(d) == pc[d] = "killed"

(* The connection ends with the process at its other end. *)
Gone(d) == pc[d] \in Final

(* The process at the other end is gone before it has answered. *)
HungUp(p) ==
  /\ pc[p] = "waiting" /\ Gone(peer[p])
  /\ Goes(p, "failed")
  /\ UNCHANGED <<file, migrated, path, arg, config, peer, want, raced, read, met>>

-----------------------------------------------------------------------------
(* A killed daemon leaves its path behind, a killed config set what it has *)
(* written.                                                                *)
Kill(p) ==
  /\ pc[p] \notin Final \union {"idle"}
  /\ Goes(p, "killed")
  /\ raced' = (raced \/ pc[p] = "writing")
  /\ UNCHANGED <<file, migrated, path, arg, config, peer, want, read, met>>

Works(p) ==
  \/ Migrate(p) \/ Truncate(p) \/ Write(p)
  \/ Connect(p) \/ RemovePath(p) \/ Bind(p) \/ HandleShutdown(p) \/ CloseListener(p) \/ Exit(p)
  \/ Answered(p) \/ HungUp(p)

(* Every process has ended or serves. *)
Over == (\A p \in Processes : pc[p] \in Final \union {"serving"}) /\ UNCHANGED vars

Next ==
  \/ \E p \in Processes :
       \/ \E u \in Urls : SetDb(p, u)
       \/ \E i \in Ifaces : SetInterface(p, i)
       \/ DaemonStart(p) \/ Dial(p) \/ Works(p) \/ Kill(p)
  \/ Over

Spec == Init /\ [][Next]_vars

(* Processes run; nobody need start or kill one. *)
FairSpec == Spec /\ \A p \in Processes : WF_vars(Works(p))

-----------------------------------------------------------------------------
(* Properties *)

(* A file that is absent has no values; only a process that was given one  *)
(* holds a value; clients talk to daemons.                                 *)
TypeOK ==
  /\ file \in [state : {"absent", "text", "garbled"}, cfg : Configs]
  /\ migrated \subseteq Urls
  /\ path \in Processes \union {NoProcess}
  /\ pc \in [Processes -> Pcs]
  /\ arg \in [Processes -> Settings \union {NoSetting}]
  /\ config \in [Processes -> Configs]
  /\ peer \in [Processes -> Processes \union {NoProcess}]
  /\ want \in Configs /\ raced \in BOOLEAN
  /\ read \in [Processes -> Urls \union {NoValue}]
  /\ met \subseteq Processes

(* As long as no process reads the file while a config set is at work, and *)
(* none is killed while it writes, every value that was set is there, a    *)
(* set of one key keeps the other, and every daemon serves the database    *)
(* that was configured when it started.                                    *)
ConfigIsKept ==
  ~raced =>
    /\ (\A p \in Processes : pc[p] # "writing") => file.cfg = want
    /\ \A p \in Processes : pc[p] = "serving" => config[p].db = read[p]

(* However commands overlap and whatever is killed, the file never names a *)
(* database without the tables, and no daemon serves one, but for the      *)
(* default database of an empty URL.                                       *)
MigratedFirst ==
  /\ file.cfg.db \in migrated \union {NoValue}
  /\ \A p \in Processes : pc[p] = "serving" => config[p].db \in migrated \union {NoValue}

(* A daemon that has had no other beside it can be reached, and found its  *)
(* path free, also when an earlier one was killed and left its socket.     *)
ReachableAlone ==
  \A d \in Processes \ met : pc[d] # "inuse" /\ (pc[d] = "serving" => path = d)

(* Every command comes to its end, although Send has no timeout: a client  *)
(* whose daemon goes away before it answers does not wait for ever.        *)
CommandsEnd ==
  \A p \in Processes : pc[p] # "idle" ~> pc[p] \in Final \union {"serving"}
=============================================================================
