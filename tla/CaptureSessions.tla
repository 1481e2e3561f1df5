--------------------------- MODULE CaptureSessions ---------------------------
(***************************************************************************)
(* The live-sniffer daemon: the requests `nls start`, `nls stop` and       *)
(* `nls daemon stop`, each served by a goroutine of its own, the map       *)
(* Launcher.Sessions from session ids to cancel functions, the table       *)
(* capture_sessions, and the goroutines of every capture: its savers and   *)
(* its listener.  The daemon may be killed and started again.              *)
(*                                                                         *)
(* What is captured is left out: a saver reads from Kafka until a COPY of  *)
(* its fails or its context ends.  `nls list` changes nothing.             *)
(*                                                                         *)
(* A statement under way when its context ends has its effect before the   *)
(* call returns, or never.                                                 *)
(***************************************************************************)
CONSTANTS
  Captures,    \* the start requests, each with the pipeline it launches
  Sessions,    \* the ids capture_sessions may draw
  Interfaces,  \* the network interfaces
  Savers,      \* the saver workers a capture may have
  Requests,    \* the stop and shutdown requests
  DBFails,     \* statements on capture_sessions may fail
  NoCapture, NoSession

ASSUME CaptureAssumption ==
  /\ NoCapture \notin Captures
  /\ NoSession \notin Sessions
  /\ DBFails \in BOOLEAN

VARIABLES
  status, iface,   \* capture_sessions: the status ("none" without a row), the interface
  up,              \* the daemon runs
  closing,         \* the daemon's context is done
  handles,         \* Launcher.Sessions
  done,            \* the captures whose cancel function was called
  starter,         \* where the start request of each capture is
  wanted,          \* the interface it asks for
  session,         \* the session it was given
  saver,           \* where each of its savers is
  listener,        \* where its listener is
  req              \* the stop and shutdown requests

table == <<status, iface>>
daemon == <<up, closing>>
start == <<starter, wanted, session>>
vars == <<table, daemon, handles, done, start, saver, listener, req>>

Statuses == {"none", "starting", "running", "finished", "crashed"}
StarterPcs == {"none", "open", "reuse", "insert", "register", "spawn", "marking",
               "answered", "refused"}
SaverPcs == {"none", "reading", "reporting", "cancelling", "failed", "left"}
ListenerPcs == {"none", "listening", "left"}
RequestPcs == {"idle", "next", "update", "answered", "lost"}

(* A request that has not come; whom it will stop is of no consequence. *)
NoRequest == [pc |-> "idle", shutdown |-> FALSE, canonical |-> TRUE, left |-> {},
              id |-> NoSession]

Init ==
  /\ status = [s \in Sessions |-> "none"]
  /\ \E i \in Interfaces : iface = [s \in Sessions |-> i]
  /\ up = TRUE /\ closing = FALSE
  /\ handles = [s \in Sessions |-> NoCapture]
  /\ done = {}
  /\ starter = [c \in Captures |-> "none"]
  /\ wanted \in [Captures -> Interfaces]
  /\ session = [c \in Captures |-> NoSession]
  /\ saver = [c \in Captures |-> [w \in Savers |-> "none"]]
  /\ listener = [c \in Captures |-> "none"]
  /\ req = [r \in Requests |-> NoRequest]

(* The context of a capture is a child of the daemon's. *)
CtxDone(c) == c \in done \/ closing

Fails(ctxDone) == DBFails \/ ctxDone

-----------------------------------------------------------------------------
(* StartPipeline *)

StarterGoes(c, pc) == starter' = [starter EXCEPT ![c] = pc]
SaverGoes(c, w, pc) == saver' = [saver EXCEPT ![c][w] = pc]

(* The request arrives, its worker count is in bounds and a producer is    *)
(* made.                                                                   *)
Start(c) ==
  /\ up /\ ~closing
  /\ starter[c] = "none"
  /\ StarterGoes(c, "open")
  /\ UNCHANGED <<table, daemon, handles, done, wanted, session, saver, listener, req>>

(* pcap.OpenLive. *)
OpenListener(c) ==
  /\ starter[c] = "open"
  /\ StarterGoes(c, "reuse") \/ StarterGoes(c, "refused")
  /\ UNCHANGED <<table, daemon, handles, done, wanted, session, saver, listener, req>>

(* Mutant: the status of the session is not looked at. *)
ReusableAny(i) == {s \in Sessions : iface[s] = i /\ status[s] # "none"}

(* No session has the status 'stopped', which the query names as well. *)
Reusable(i) == {s \in Sessions : iface[s] = i /\ status[s] = "crashed"}

StartAll(rows) ==
  status' = [s \in Sessions |-> IF s \in rows THEN "starting" ELSE status[s]]

(* The UPDATE of StartSession changes every row it finds and returns one. *)
Reuse(c) ==
  LET rows == Reusable(wanted[c]) IN
  /\ starter[c] = "reuse"
  /\ \/ \E s \in rows :
          /\ StartAll(rows)
          /\ session' = [session EXCEPT ![c] = s]
          /\ StarterGoes(c, "register")
     \/ rows = {} /\ StarterGoes(c, "insert") /\ UNCHANGED <<status, session>>
     \/ /\ Fails(closing)
        /\ UNCHANGED status \/ StartAll(rows)
        /\ StarterGoes(c, "refused") /\ UNCHANGED session
  /\ UNCHANGED <<iface, daemon, handles, done, wanted, saver, listener, req>>

InsertSession(c) ==
  /\ starter[c] = "insert"
  /\ \/ \E s \in Sessions :
          /\ status[s] = "none"
          /\ status' = [status EXCEPT ![s] = "starting"]
          /\ iface' = [iface EXCEPT ![s] = wanted[c]]
          /\ \/ StarterGoes(c, "register") /\ session' = [session EXCEPT ![c] = s]
             \/ Fails(closing) /\ StarterGoes(c, "refused") /\ UNCHANGED session
     \/ Fails(closing) /\ StarterGoes(c, "refused") /\ UNCHANGED <<table, session>>
  /\ UNCHANGED <<daemon, handles, done, wanted, saver, listener, req>>

Register(c) ==
  /\ starter[c] = "register"
  /\ handles' = [handles EXCEPT ![session[c]] = c]
  /\ StarterGoes(c, "spawn")
  /\ UNCHANGED <<table, daemon, done, wanted, session, saver, listener, req>>

(* One round of the loop over the workers: a consumer and its saver. *)
SpawnSaver(c, w) ==
  /\ starter[c] = "spawn"
  /\ saver[c][w] = "none"
  /\ SaverGoes(c, w, "reading")
  /\ UNCHANGED <<table, daemon, handles, done, start, listener, req>>

(* NewConsumer fails: the savers there are run on. *)
SpawnFails(c) ==
  /\ starter[c] = "spawn"
  /\ \E w \in Savers : saver[c][w] = "none"
  /\ StarterGoes(c, "refused")
  /\ UNCHANGED <<table, daemon, handles, done, wanted, session, saver, listener, req>>

(* The savers that were asked for run; the listener is next, and the       *)
(* status, if the context is not done.                                     *)
Listen(c) ==
  /\ starter[c] = "spawn"
  /\ \E w \in Savers : saver[c][w] # "none"
  /\ listener' = [listener EXCEPT ![c] = "listening"]
  /\ StarterGoes(c, IF CtxDone(c) THEN "answered" ELSE "marking")
  /\ UNCHANGED <<table, daemon, handles, done, wanted, session, saver, req>>

MarkRunning(c) ==
  /\ starter[c] = "marking"
  /\ \/ status' = [status EXCEPT ![session[c]] = "running"]
     \/ Fails(CtxDone(c)) /\ UNCHANGED status
  /\ StarterGoes(c, "answered")
  /\ UNCHANGED <<iface, daemon, handles, done, wanted, session, saver, listener, req>>

-----------------------------------------------------------------------------
(* PacketSaverWorker and ListenOnNetwork *)

(* A COPY fails; onFailure writes the status with the capture's context. *)
CopyFails(c, w) ==
  /\ saver[c][w] = "reading"
  /\ SaverGoes(c, w, IF CtxDone(c) THEN "left" ELSE "reporting")
  /\ UNCHANGED <<table, daemon, handles, done, start, listener, req>>

ReportCrash(c, w) ==
  /\ saver[c][w] = "reporting"
  /\ \/ status' = [status EXCEPT ![session[c]] = "crashed"]
     \/ Fails(CtxDone(c)) /\ UNCHANGED status
  /\ SaverGoes(c, w, "cancelling")
  /\ UNCHANGED <<iface, daemon, handles, done, start, listener, req>>

CancelCapture(c, w) ==
  /\ saver[c][w] = "cancelling"
  /\ done' = done \union {c}
  /\ SaverGoes(c, w, "failed")
  /\ UNCHANGED <<table, daemon, handles, start, listener, req>>

(* Mutant: the saver looks at its own cancel function only when a read     *)
(* fails, and never at the daemon's.                                       *)
SaverSeesOwn(c) == c \in done /\ starter[c] = "answered"

SaverSees(c) == CtxDone(c)

SaverLeaves(c, w) ==
  /\ saver[c][w] = "reading"
  /\ SaverSees(c)
  /\ SaverGoes(c, w, "left")
  /\ UNCHANGED <<table, daemon, handles, done, start, listener, req>>

(* The context is looked at when the next packet comes. *)
ListenerLeaves(c) ==
  /\ listener[c] = "listening"
  /\ CtxDone(c)
  /\ listener' = [listener EXCEPT ![c] = "left"]
  /\ UNCHANGED <<table, daemon, handles, done, start, saver, req>>

-----------------------------------------------------------------------------
(* StopPipeline and StopAll *)

(* `nls stop` with any UUID, spelled as the map spells it or not. *)
Stop(r) ==
  /\ up /\ ~closing
  /\ req[r].pc = "idle"
  /\ \E s \in Sessions, spelled \in BOOLEAN :
       req' = [req EXCEPT ![r].pc = "next", ![r].canonical = spelled, ![r].left = {s}]
  /\ UNCHANGED <<table, daemon, handles, done, start, saver, listener>>

(* `nls daemon stop`: the ids that are in the map now. *)
Shutdown(r) ==
  /\ up /\ ~closing
  /\ req[r].pc = "idle"
  /\ req' = [req EXCEPT ![r].pc = "next", ![r].shutdown = TRUE,
                        ![r].left = {s \in Sessions : handles[s] # NoCapture}]
  /\ UNCHANGED <<table, daemon, handles, done, start, saver, listener>>

(* Mutant: the entry is deleted and the function is not called. *)
CancelHandleNot(s) == UNCHANGED done /\ handles' = [handles EXCEPT ![s] = NoCapture]

CancelHandle(s) ==
  /\ done' = done \union {c \in Captures : handles[s] = c}
  /\ handles' = [handles EXCEPT ![s] = NoCapture]

StopSession(r) ==
  /\ req[r].pc = "next"
  /\ \E s \in req[r].left :
       /\ IF req[r].canonical THEN CancelHandle(s) ELSE UNCHANGED <<handles, done>>
       /\ req' = [req EXCEPT ![r].pc = IF closing THEN "next" ELSE "update",
                             ![r].left = @ \ {s}, ![r].id = s]
  /\ UNCHANGED <<table, daemon, start, saver, listener>>

StatusFinish == "finished"

(* The UPDATE changes the row, if there is one. *)
MarkFinished(r) ==
  /\ req[r].pc = "update"
  /\ \/ /\ status[req[r].id] # "none"
        /\ status' = [status EXCEPT ![req[r].id] = StatusFinish]
     \/ /\ Fails(closing) \/ status[req[r].id] = "none"
        /\ UNCHANGED status
  /\ req' = [req EXCEPT ![r].pc = "next"]
  /\ UNCHANGED <<iface, daemon, handles, done, start, saver, listener>>

(* Mutant: the daemon's cancel function is called by the first request. *)
CloseNot(r) == closing

Close(r) == closing \/ req[r].shutdown

AnswerRequest(r) ==
  /\ req[r].pc = "next"
  /\ req[r].left = {}
  /\ closing' = Close(r)
  /\ req' = [req EXCEPT ![r].pc = "answered"]
  /\ UNCHANGED <<table, up, handles, done, start, saver, listener>>

-----------------------------------------------------------------------------
(* The process *)

(* Goroutines go with the process, as do the cancel functions. *)
Ends ==
  /\ up' = FALSE
  /\ handles' = [s \in Sessions |-> NoCapture]
  /\ done' = done \union {c \in Captures : starter[c] # "none"}
  /\ starter' = [c \in Captures |->
       IF starter[c] \in {"none", "answered"} THEN starter[c] ELSE "refused"]
  /\ saver' = [c \in Captures |-> [w \in Savers |->
       CASE saver[c][w] \in {"reporting", "cancelling"} -> "failed"
         [] saver[c][w] = "reading" -> "left"
         [] OTHER -> saver[c][w]]]
  /\ listener' = [c \in Captures |->
       IF listener[c] = "listening" THEN "left" ELSE listener[c]]
  /\ req' = [r \in Requests |->
       IF req[r].pc \in {"next", "update"} THEN [req[r] EXCEPT !.pc = "lost"] ELSE req[r]]
  /\ UNCHANGED <<table, closing, wanted, session>>

(* Accept fails on the closed socket: Daemon.Start returns, and so does    *)
(* main.  It waits for nobody.                                             *)
Return == up /\ closing /\ Ends

Kill == up /\ Ends

(* A new daemon: an empty map, and no look at capture_sessions. *)
Restart ==
  /\ ~up
  /\ up' = TRUE /\ closing' = FALSE
  /\ UNCHANGED <<table, handles, done, start, saver, listener, req>>

Starter(c) ==
  \/ OpenListener(c) \/ Reuse(c) \/ InsertSession(c) \/ Register(c)
  \/ (\E w \in Savers : SpawnSaver(c, w)) \/ SpawnFails(c) \/ Listen(c) \/ MarkRunning(c)

Saver(c, w) ==
  CopyFails(c, w) \/ ReportCrash(c, w) \/ CancelCapture(c, w) \/ SaverLeaves(c, w)

Handler(r) == StopSession(r) \/ MarkFinished(r) \/ AnswerRequest(r)

Next ==
  \/ \E c \in Captures : Start(c) \/ Starter(c) \/ ListenerLeaves(c)
  \/ \E c \in Captures, w \in Savers : Saver(c, w)
  \/ \E r \in Requests : Stop(r) \/ Shutdown(r) \/ Handler(r)
  \/ Return \/ Kill \/ Restart

Spec == Init /\ [][Next]_vars

(* Statements are answered, a read from Kafka returns after 100 ms and the *)
(* scheduler runs every goroutine.  A COPY need not fail, no packet need   *)
(* come and nobody need kill or start the daemon.                          *)
Fairness ==
  /\ \A c \in Captures : WF_vars(Starter(c))
  /\ \A c \in Captures, w \in Savers :
       WF_vars(ReportCrash(c, w)) /\ WF_vars(CancelCapture(c, w)) /\ WF_vars(SaverLeaves(c, w))
  /\ \A r \in Requests : WF_vars(Handler(r))
  /\ WF_vars(Return)

FairSpec == Spec /\ Fairness

-----------------------------------------------------------------------------
(* Properties *)

(* Rows carry the statuses of storage/store.go, and every goroutine is     *)
(* where the code can be.                                                  *)
TypeOK ==
  /\ status \in [Sessions -> Statuses]
  /\ iface \in [Sessions -> Interfaces]
  /\ up \in BOOLEAN /\ closing \in BOOLEAN
  /\ handles \in [Sessions -> Captures \union {NoCapture}]
  /\ done \subseteq Captures
  /\ starter \in [Captures -> StarterPcs]
  /\ wanted \in [Captures -> Interfaces]
  /\ session \in [Captures -> Sessions \union {NoSession}]
  /\ saver \in [Captures -> [Savers -> SaverPcs]]
  /\ listener \in [Captures -> ListenerPcs]
  /\ req \in [Requests -> [pc : RequestPcs, shutdown : BOOLEAN, canonical : BOOLEAN,
                           left : SUBSET Sessions, id : Sessions \union {NoSession}]]

Reported(c, w) == saver[c][w] \in {"reporting", "cancelling", "failed"}

ReportedTwice(c) == \E v, w \in Savers : v # w /\ Reported(c, v) /\ Reported(c, w)

(* Savers or a listener run, and neither a failure nor a request has begun *)
(* to end them.                                                            *)
Capturing(c) ==
  /\ listener[c] = "listening" \/ \E w \in Savers : saver[c][w] = "reading"
  /\ \A w \in Savers : ~Reported(c, w)
  /\ ~CtxDone(c)

(* A capture that goes on can be stopped by its session id: the map holds  *)
(* its cancel function, however starts, stops, failures and restarts       *)
(* interleave.  The one exception is a session whose earlier capture had   *)
(* two savers fail: the second may report the crash of a session that is   *)
(* in use again.                                                           *)
Stoppable ==
  \A c \in Captures : Capturing(c) =>
    \/ handles[session[c]] = c
    \/ \E b \in Captures \ {c} : session[b] = session[c] /\ ReportedTwice(b)

Quiet(c) ==
  /\ starter[c] \in {"answered", "refused"}
  /\ \A w \in Savers : saver[c][w] \in {"none", "failed", "left"}

(* Once its cancel function was called the savers of a capture leave for   *)
(* good, also those that are launched after it.                            *)
SaversLeave == \A c \in Captures : [](c \in done => <>[]Quiet(c))

(* `nls daemon stop` ends the daemon, whatever is under way. *)
ShutdownEnds ==
  \A r \in Requests : req[r].pc = "next" /\ req[r].shutdown ~> ~up
=============================================================================
