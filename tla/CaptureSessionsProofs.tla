------------------------ MODULE CaptureSessionsProofs ------------------------
(***************************************************************************)
(* A capture that goes on can be stopped by its session id, for any number *)
(* of captures, sessions, savers and requests, unless an earlier capture   *)
(* of its session reported its crash twice.                                *)
(***************************************************************************)
EXTENDS CaptureSessions, TLAPS

(* The type invariant by what it is about. *)
TableOK ==
  /\ status \in [Sessions -> Statuses]
  /\ iface \in [Sessions -> Interfaces]

LauncherOK ==
  /\ up \in BOOLEAN /\ closing \in BOOLEAN
  /\ handles \in [Sessions -> Captures \union {NoCapture}]
  /\ done \subseteq Captures

StartersOK ==
  /\ starter \in [Captures -> StarterPcs]
  /\ wanted \in [Captures -> Interfaces]
  /\ session \in [Captures -> Sessions \union {NoSession}]

SaversOK == saver \in [Captures -> [Savers -> SaverPcs]]

ListenersOK == listener \in [Captures -> ListenerPcs]

Request ==
  [pc : RequestPcs, shutdown : BOOLEAN, canonical : BOOLEAN, left : SUBSET Sessions,
   id : Sessions \union {NoSession}]

RequestsOK == req \in [Requests -> Request]

(* A capture has a session from StartSession on, and goroutines after it.  *)
HasSession ==
  \A c \in Captures :
    /\ starter[c] \in {"none", "open", "reuse", "insert"} => session[c] = NoSession
    /\ starter[c] \in {"none", "open", "reuse", "insert", "register"} =>
         listener[c] = "none" /\ \A w \in Savers : saver[c][w] = "none"
    /\ session[c] = NoSession =>
         /\ starter[c] \notin {"register", "spawn", "marking", "answered"}
         /\ listener[c] = "none" /\ \A w \in Savers : saver[c][w] = "none"

(* A request that updates a row names it. *)
NamesRow == \A r \in Requests : req[r].pc = "update" => req[r].id \in Sessions

(* A capture's report of its crash was written, or was not accepted. *)
Written(c) == \E w \in Savers : saver[c][w] \in {"cancelling", "failed"}

(* Every capture of a session reports at most once. *)
Sound(s) == \A b \in Captures : session[b] = s => ~ReportedTwice(b)

RowsExist ==
  \A c \in Captures : session[c] \in Sessions => status[session[c]] # "none"

(* A session is taken over only when all its captures have reported: while *)
(* it is crashed ...                                                       *)
CrashWritten ==
  \A s \in Sessions : status[s] = "crashed" /\ Sound(s) =>
    \A c \in Captures : session[c] = s => Written(c)

(* ... and of two captures of one session one has.                         *)
OneFresh ==
  \A c, d \in Captures :
    c # d /\ session[c] = session[d] /\ session[c] \in Sessions /\ Sound(session[c])
      => Written(c) \/ Written(d)

(* Goroutines of the capture run, or soon will, none has reported a        *)
(* failure, and its cancel function was not called.                        *)
Fresh(c) ==
  /\ \/ starter[c] = "spawn" \/ listener[c] = "listening"
     \/ \E w \in Savers : saver[c][w] = "reading"
  /\ \A w \in Savers : ~Reported(c, w)
  /\ c \notin done

(* Such a capture holds the entry of its session.                          *)
Held ==
  \A c \in Captures : Fresh(c) /\ Sound(session[c]) => handles[session[c]] = c

Inv == TypeOK /\ HasSession /\ NamesRow /\ RowsExist /\ CrashWritten /\ OneFresh /\ Held

-----------------------------------------------------------------------------
(* Every step keeps the types. *)
LEMMA StepType == TypeOK /\ NamesRow /\ [Next]_vars => TypeOK'
<1> SUFFICES ASSUME TypeOK, NamesRow, [Next]_vars
             PROVE  TypeOK'
  OBVIOUS
<1> DEFINE Types == TableOK /\ LauncherOK /\ StartersOK /\ SaversOK /\ ListenersOK /\ RequestsOK
<1>1. (TypeOK <=> Types) /\ (TypeOK <=> Types)'
  BY DEF TypeOK, TableOK, LauncherOK, StartersOK, SaversOK, ListenersOK, RequestsOK, Request
<1>0. TableOK /\ LauncherOK /\ StartersOK /\ SaversOK /\ ListenersOK /\ RequestsOK
  BY <1>1
<1> USE <1>0 DEF table, daemon, start
<1>2. ASSUME NEW c \in Captures, Start(c) \/ OpenListener(c)
      PROVE  Types'
  <2>1. StartersOK'
    BY <1>2 DEF Start, OpenListener, StarterGoes, StartersOK, StarterPcs
  <2>2. (TableOK /\ LauncherOK /\ SaversOK /\ ListenersOK /\ RequestsOK)'
    BY <1>2 DEF Start, OpenListener, StarterGoes, TableOK, LauncherOK, SaversOK,
       ListenersOK, RequestsOK
  <2> QED
    BY <2>1, <2>2
<1>3. ASSUME NEW c \in Captures, Reuse(c)
      PROVE  Types'
  <2>1. TableOK'
    BY <1>3 DEF Reuse, StarterGoes, StartAll, Reusable, TableOK, Statuses
  <2>2. StartersOK'
    BY <1>3 DEF Reuse, StarterGoes, StartAll, Reusable, StartersOK, StarterPcs
  <2>3. (LauncherOK /\ SaversOK /\ ListenersOK /\ RequestsOK)'
    BY <1>3 DEF Reuse, StarterGoes, StartAll, Reusable, LauncherOK, SaversOK, ListenersOK,
       RequestsOK
  <2> QED
    BY <2>1, <2>2, <2>3
<1>4. ASSUME NEW c \in Captures, InsertSession(c)
      PROVE  Types'
  <2>1. TableOK'
    <3>1. CASE UNCHANGED table
      BY <3>1 DEF TableOK
    <3>2. CASE \E s \in Sessions : /\ status' = [status EXCEPT ![s] = "starting"]
                                   /\ iface' = [iface EXCEPT ![s] = wanted[c]]
      BY <3>2 DEF TableOK, StartersOK, Statuses
    <3> QED
      BY <1>4, <3>1, <3>2 DEF InsertSession
  <2>2. StartersOK'
    BY <1>4 DEF InsertSession, StarterGoes, StartersOK, StarterPcs
  <2>3. (LauncherOK /\ SaversOK /\ ListenersOK /\ RequestsOK)'
    BY <1>4 DEF InsertSession, StarterGoes, LauncherOK, SaversOK, ListenersOK, RequestsOK
  <2> QED
    BY <2>1, <2>2, <2>3
<1>5. ASSUME NEW c \in Captures, Register(c)
      PROVE  Types'
  <2>1. LauncherOK'
    BY <1>5 DEF Register, StarterGoes, LauncherOK
  <2>2. StartersOK'
    BY <1>5 DEF Register, StarterGoes, StartersOK, StarterPcs
  <2>3. (TableOK /\ SaversOK /\ ListenersOK /\ RequestsOK)'
    BY <1>5 DEF Register, StarterGoes, TableOK, SaversOK, ListenersOK, RequestsOK
  <2> QED
    BY <2>1, <2>2, <2>3
<1>6. ASSUME NEW c \in Captures, NEW w \in Savers, SpawnSaver(c, w)
      PROVE  Types'
  <2>1. SaversOK'
    BY <1>6 DEF SpawnSaver, SaverGoes, SaversOK, SaverPcs
  <2>2. (TableOK /\ LauncherOK /\ StartersOK /\ ListenersOK /\ RequestsOK)'
    BY <1>6 DEF SpawnSaver, SaverGoes, TableOK, LauncherOK, StartersOK, ListenersOK,
       RequestsOK
  <2> QED
    BY <2>1, <2>2
<1>7. ASSUME NEW c \in Captures, SpawnFails(c)
      PROVE  Types'
  <2>1. StartersOK'
    BY <1>7 DEF SpawnFails, StarterGoes, StartersOK, StarterPcs
  <2>2. (TableOK /\ LauncherOK /\ SaversOK /\ ListenersOK /\ RequestsOK)'
    BY <1>7 DEF SpawnFails, StarterGoes, TableOK, LauncherOK, SaversOK, ListenersOK,
       RequestsOK
  <2> QED
    BY <2>1, <2>2
<1>8. ASSUME NEW c \in Captures, Listen(c)
      PROVE  Types'
  <2>1. StartersOK'
    BY <1>8 DEF Listen, StarterGoes, StartersOK, StarterPcs
  <2>2. ListenersOK'
    BY <1>8 DEF Listen, StarterGoes, ListenersOK, ListenerPcs
  <2>3. (TableOK /\ LauncherOK /\ SaversOK /\ RequestsOK)'
    BY <1>8 DEF Listen, StarterGoes, TableOK, LauncherOK, SaversOK, RequestsOK
  <2> QED
    BY <2>1, <2>2, <2>3
<1>9. ASSUME NEW c \in Captures, MarkRunning(c)
      PROVE  Types'
  <2>1. TableOK'
    BY <1>9 DEF MarkRunning, StarterGoes, TableOK, Statuses
  <2>2. StartersOK'
    BY <1>9 DEF MarkRunning, StarterGoes, StartersOK, StarterPcs
  <2>3. (LauncherOK /\ SaversOK /\ ListenersOK /\ RequestsOK)'
    BY <1>9 DEF MarkRunning, StarterGoes, LauncherOK, SaversOK, ListenersOK, RequestsOK
  <2> QED
    BY <2>1, <2>2, <2>3
<1>10. ASSUME NEW c \in Captures, NEW w \in Savers, CopyFails(c, w)
       PROVE  Types'
  <2>1. SaversOK'
    BY <1>10 DEF CopyFails, SaverGoes, SaversOK, SaverPcs
  <2>2. (TableOK /\ LauncherOK /\ StartersOK /\ ListenersOK /\ RequestsOK)'
    BY <1>10 DEF CopyFails, SaverGoes, TableOK, LauncherOK, StartersOK, ListenersOK,
       RequestsOK
  <2> QED
    BY <2>1, <2>2
<1>11. ASSUME NEW c \in Captures, NEW w \in Savers, SaverLeaves(c, w)
       PROVE  Types'
  <2>1. SaversOK'
    BY <1>11 DEF SaverLeaves, SaverGoes, SaversOK, SaverPcs
  <2>2. (TableOK /\ LauncherOK /\ StartersOK /\ ListenersOK /\ RequestsOK)'
    BY <1>11 DEF SaverLeaves, SaverGoes, TableOK, LauncherOK, StartersOK, ListenersOK,
       RequestsOK
  <2> QED
    BY <2>1, <2>2
<1>12. ASSUME NEW c \in Captures, NEW w \in Savers, ReportCrash(c, w)
       PROVE  Types'
  <2>1. TableOK'
    BY <1>12 DEF ReportCrash, SaverGoes, TableOK, Statuses
  <2>2. SaversOK'
    BY <1>12 DEF ReportCrash, SaverGoes, SaversOK, SaverPcs
  <2>3. (LauncherOK /\ StartersOK /\ ListenersOK /\ RequestsOK)'
    BY <1>12 DEF ReportCrash, SaverGoes, LauncherOK, StartersOK, ListenersOK, RequestsOK
  <2> QED
    BY <2>1, <2>2, <2>3
<1>13. ASSUME NEW c \in Captures, NEW w \in Savers, CancelCapture(c, w)
       PROVE  Types'
  <2>1. LauncherOK'
    BY <1>13 DEF CancelCapture, SaverGoes, LauncherOK
  <2>2. SaversOK'
    BY <1>13 DEF CancelCapture, SaverGoes, SaversOK, SaverPcs
  <2>3. (TableOK /\ StartersOK /\ ListenersOK /\ RequestsOK)'
    BY <1>13 DEF CancelCapture, SaverGoes, TableOK, StartersOK, ListenersOK, RequestsOK
  <2> QED
    BY <2>1, <2>2, <2>3
<1>14. ASSUME NEW c \in Captures, ListenerLeaves(c)
       PROVE  Types'
  <2>1. ListenersOK'
    BY <1>14 DEF ListenerLeaves, ListenersOK, ListenerPcs
  <2>2. (TableOK /\ LauncherOK /\ StartersOK /\ SaversOK /\ RequestsOK)'
    BY <1>14 DEF ListenerLeaves, TableOK, LauncherOK, StartersOK, SaversOK, RequestsOK
  <2> QED
    BY <2>1, <2>2
<1>15. ASSUME NEW r \in Requests, Stop(r)
       PROVE  Types'
  <2>1. RequestsOK'
    <3>1. PICK s \in Sessions, b \in BOOLEAN :
            req' = [req EXCEPT ![r].pc = "next", ![r].canonical = b, ![r].left = {s}]
      BY <1>15 DEF Stop
    <3> DEFINE q == [req[r] EXCEPT !.pc = "next", !.canonical = b, !.left = {s}]
    <3>2. q \in Request
      BY DEF RequestsOK, Request, RequestPcs
    <3>3. req' = [req EXCEPT ![r] = q]
      BY <3>1
    <3> QED
      BY <3>2, <3>3 DEF RequestsOK
  <2>2. (TableOK /\ LauncherOK /\ StartersOK /\ SaversOK /\ ListenersOK)'
    BY <1>15 DEF Stop, TableOK, LauncherOK, StartersOK, SaversOK, ListenersOK
  <2> QED
    BY <2>1, <2>2
<1>16. ASSUME NEW r \in Requests, Shutdown(r)
       PROVE  Types'
  <2>1. RequestsOK'
    <3> DEFINE q == [req[r] EXCEPT !.pc = "next", !.shutdown = TRUE,
                       !.left = {s \in Sessions : handles[s] # NoCapture}]
    <3>1. q \in Request
      BY DEF RequestsOK, Request, RequestPcs
    <3>2. req' = [req EXCEPT ![r] = q]
      BY <1>16 DEF Shutdown
    <3> QED
      BY <3>1, <3>2 DEF RequestsOK
  <2>2. (TableOK /\ LauncherOK /\ StartersOK /\ SaversOK /\ ListenersOK)'
    BY <1>16 DEF Shutdown, TableOK, LauncherOK, StartersOK, SaversOK, ListenersOK
  <2> QED
    BY <2>1, <2>2
<1>17. ASSUME NEW r \in Requests, StopSession(r)
       PROVE  Types'
  <2>1. LauncherOK'
    BY <1>17 DEF StopSession, CancelHandle, LauncherOK
  <2>2. RequestsOK'
    BY <1>17 DEF StopSession, CancelHandle, RequestsOK, Request, RequestPcs
  <2>3. (TableOK /\ StartersOK /\ SaversOK /\ ListenersOK)'
    BY <1>17 DEF StopSession, CancelHandle, TableOK, StartersOK, SaversOK, ListenersOK
  <2> QED
    BY <2>1, <2>2, <2>3
<1>18. ASSUME NEW r \in Requests, MarkFinished(r)
       PROVE  Types'
  <2>1. TableOK'
    BY <1>18 DEF MarkFinished, StatusFinish, TableOK, Statuses
  <2>2. RequestsOK'
    BY <1>18 DEF MarkFinished, StatusFinish, RequestsOK, Request, RequestPcs
  <2>3. (LauncherOK /\ StartersOK /\ SaversOK /\ ListenersOK)'
    BY <1>18 DEF MarkFinished, StatusFinish, LauncherOK, StartersOK, SaversOK, ListenersOK
  <2> QED
    BY <2>1, <2>2, <2>3
<1>19. ASSUME NEW r \in Requests, AnswerRequest(r)
       PROVE  Types'
  <2>1. LauncherOK'
    BY <1>19 DEF AnswerRequest, Close, LauncherOK
  <2>2. RequestsOK'
    BY <1>19 DEF AnswerRequest, Close, RequestsOK, Request, RequestPcs
  <2>3. (TableOK /\ StartersOK /\ SaversOK /\ ListenersOK)'
    BY <1>19 DEF AnswerRequest, Close, TableOK, StartersOK, SaversOK, ListenersOK
  <2> QED
    BY <2>1, <2>2, <2>3
<1>20. ASSUME Return \/ Kill
       PROVE  Types'
  <2>1. LauncherOK'
    BY <1>20 DEF Return, Kill, Ends, LauncherOK
  <2>2. StartersOK'
    BY <1>20 DEF Return, Kill, Ends, StartersOK, StarterPcs
  <2>3. SaversOK'
    BY <1>20 DEF Return, Kill, Ends, SaversOK, SaverPcs
  <2>4. ListenersOK'
    BY <1>20 DEF Return, Kill, Ends, ListenersOK, ListenerPcs
  <2>5. RequestsOK'
    <3>1. \A r \in Requests : [req[r] EXCEPT !.pc = "lost"] \in Request
      BY DEF RequestsOK, Request, RequestPcs
    <3>2. req' = [r \in Requests |->
            IF req[r].pc \in {"next", "update"} THEN [req[r] EXCEPT !.pc = "lost"] ELSE req[r]]
      BY <1>20 DEF Return, Kill, Ends
    <3> QED
      BY <3>1, <3>2 DEF RequestsOK
  <2>6. (TableOK)'
    BY <1>20 DEF Return, Kill, Ends, TableOK
  <2> QED
    BY <2>1, <2>2, <2>3, <2>4, <2>5, <2>6
<1>21. ASSUME Restart
       PROVE  Types'
  <2>1. LauncherOK'
    BY <1>21 DEF Restart, LauncherOK
  <2>2. (TableOK /\ StartersOK /\ SaversOK /\ ListenersOK /\ RequestsOK)'
    BY <1>21 DEF Restart, TableOK, StartersOK, SaversOK, ListenersOK, RequestsOK
  <2> QED
    BY <2>1, <2>2
<1>22. ASSUME UNCHANGED vars
       PROVE  Types'
  BY <1>22 DEF vars, TableOK, LauncherOK, StartersOK, SaversOK, ListenersOK, RequestsOK
<1>23. Types'
  BY <1>2, <1>3, <1>4, <1>5, <1>6, <1>7, <1>8, <1>9, <1>10, <1>11, <1>12, <1>13, <1>14,
     <1>15, <1>16, <1>17, <1>18, <1>19, <1>20, <1>21, <1>22 DEF Next, Starter, Saver,
     Handler
<1> QED
  BY <1>1, <1>23

(* The steps that change a status, a session or a saver. *)
LEMMA Changes ==
  [Next]_vars =>
    \/ UNCHANGED <<status, session, saver>>
    \/ \E c \in Captures : Reuse(c) \/ InsertSession(c) \/ MarkRunning(c)
    \/ \E c \in Captures, w \in Savers : SpawnSaver(c, w) \/ Saver(c, w)
    \/ \E r \in Requests : MarkFinished(r)
    \/ Ends
<1> SUFFICES ASSUME [Next]_vars
             PROVE  \/ UNCHANGED <<status, session, saver>>
                    \/ \E c \in Captures : Reuse(c) \/ InsertSession(c) \/ MarkRunning(c)
                    \/ \E c \in Captures, w \in Savers : SpawnSaver(c, w) \/ Saver(c, w)
                    \/ \E r \in Requests : MarkFinished(r)
                    \/ Ends
  OBVIOUS
<1> DEFINE Same == UNCHANGED <<status, session, saver>>
<1>1. ASSUME NEW c \in Captures,
             Start(c) \/ OpenListener(c) \/ Register(c) \/ SpawnFails(c) \/ Listen(c)
      PROVE  Same
  BY <1>1 DEF Start, OpenListener, Register, SpawnFails, Listen, table
<1>2. ASSUME NEW c \in Captures, ListenerLeaves(c)
      PROVE  Same
  BY <1>2 DEF ListenerLeaves, table, start
<1>3. ASSUME NEW r \in Requests, Stop(r) \/ Shutdown(r) \/ StopSession(r) \/ AnswerRequest(r)
      PROVE  Same
  BY <1>3 DEF Stop, Shutdown, StopSession, AnswerRequest, table, start
<1>4. ASSUME Restart \/ UNCHANGED vars
      PROVE  Same
  BY <1>4 DEF Restart, vars, table, start
<1> QED
  BY <1>1, <1>2, <1>3, <1>4 DEF Next, Starter, Handler, Return, Kill

(* A session once given is kept, and so is the fact of a report. *)
LEMMA Grows ==
  TypeOK /\ HasSession /\ [Next]_vars =>
    \A c \in Captures :
      /\ session[c] # NoSession => session'[c] = session[c]
      /\ \A w \in Savers :
           /\ Reported(c, w) => Reported(c, w)'
           /\ saver[c][w] \in {"cancelling", "failed"} =>
                saver'[c][w] \in {"cancelling", "failed"}
<1> SUFFICES ASSUME TypeOK, HasSession, [Next]_vars
             PROVE  /\ \A c \in Captures : session[c] # NoSession => session'[c] = session[c]
                    /\ \A c \in Captures, w \in Savers :
                         /\ Reported(c, w) => Reported(c, w)'
                         /\ saver[c][w] \in {"cancelling", "failed"} =>
                              saver'[c][w] \in {"cancelling", "failed"}
  OBVIOUS
<1> DEFINE SessionsKept == \A c \in Captures : session[c] # NoSession => session'[c] = session[c]
           SaversGrow ==
             \A c \in Captures, w \in Savers :
               /\ Reported(c, w) => Reported(c, w)'
               /\ saver[c][w] \in {"cancelling", "failed"} =>
                    saver'[c][w] \in {"cancelling", "failed"}
<1> USE DEF TypeOK, Reported
<1>1. ASSUME UNCHANGED session
      PROVE  SessionsKept
  BY <1>1
<1>2. ASSUME UNCHANGED saver
      PROVE  SaversGrow
  BY <1>2
<1>3. ASSUME NEW c \in Captures, Reuse(c) \/ InsertSession(c)
      PROVE  SessionsKept /\ SaversGrow
  <2>1. session[c] = NoSession
    BY <1>3 DEF Reuse, InsertSession, HasSession
  <2>2. SessionsKept
    BY <1>3, <2>1 DEF Reuse, InsertSession
  <2> QED
    BY <1>2, <1>3, <2>2 DEF Reuse, InsertSession
<1>4. ASSUME NEW c \in Captures, NEW w \in Savers, SpawnSaver(c, w) \/ Saver(c, w)
      PROVE  SaversGrow
  BY <1>4 DEF SpawnSaver, Saver, CopyFails, ReportCrash, CancelCapture, SaverLeaves, SaverGoes
<1>5. ASSUME NEW c \in Captures, NEW w \in Savers, SpawnSaver(c, w) \/ Saver(c, w)
      PROVE  SessionsKept
  BY <1>1, <1>5 DEF SpawnSaver, Saver, CopyFails, ReportCrash, CancelCapture, SaverLeaves, start
<1>6. ASSUME Ends
      PROVE  SessionsKept /\ SaversGrow
  BY <1>6 DEF Ends
<1>7. ASSUME NEW c \in Captures, MarkRunning(c)
      PROVE  SessionsKept /\ SaversGrow
  BY <1>1, <1>2, <1>7 DEF MarkRunning
<1>8. ASSUME NEW r \in Requests, MarkFinished(r)
      PROVE  SessionsKept /\ SaversGrow
  BY <1>1, <1>2, <1>8 DEF MarkFinished, start
<1> QED
  BY <1>1, <1>2, <1>3, <1>4, <1>5, <1>6, <1>7, <1>8, Changes

(* No step makes a session sound again. *)
LEMMA SoundBefore ==
  ASSUME TypeOK, HasSession, [Next]_vars, NEW s \in Sessions, Sound(s)'
  PROVE  Sound(s)
<1> SUFFICES ASSUME NEW b \in Captures, session[b] = s, ReportedTwice(b)
             PROVE  FALSE
  BY DEF Sound
<1>1. s # NoSession
  BY CaptureAssumption
<1>2. session'[b] = s
  BY <1>1, Grows
<1>3. ReportedTwice(b)'
  BY Grows DEF ReportedTwice
<1> QED
  BY <1>2, <1>3 DEF Sound

(* No step makes a capture that has reported fresh again. *)
LEMMA WrittenStays ==
  ASSUME TypeOK, HasSession, [Next]_vars, NEW c \in Captures, Written(c)
  PROVE  Written(c)'
  BY Grows DEF Written

(* A starter runs in order, and a goroutine belongs to a session.          *)
LEMMA StepHasSession == TypeOK /\ HasSession /\ [Next]_vars => HasSession'
<1> SUFFICES ASSUME TypeOK, HasSession, [Next]_vars
             PROVE  HasSession'
  OBVIOUS
<1> USE CaptureAssumption DEF TypeOK, HasSession, StarterGoes, SaverGoes, table, start
<1>1. ASSUME NEW c \in Captures, Start(c) \/ OpenListener(c)
      PROVE  HasSession'
  BY <1>1 DEF Start, OpenListener
<1>2. ASSUME NEW c \in Captures, Reuse(c)
      PROVE  HasSession'
  <2>1. CASE \E s \in Sessions : /\ session' = [session EXCEPT ![c] = s]
                                 /\ starter' = [starter EXCEPT ![c] = "register"]
    BY <1>2, <2>1 DEF Reuse
  <2>2. CASE /\ UNCHANGED session
             /\ \E pc \in {"insert", "refused"} : starter' = [starter EXCEPT ![c] = pc]
    BY <1>2, <2>2 DEF Reuse
  <2> QED
    BY <1>2, <2>1, <2>2 DEF Reuse, Reusable
<1>3. ASSUME NEW c \in Captures, InsertSession(c)
      PROVE  HasSession'
  BY <1>3 DEF InsertSession
<1>4. ASSUME NEW c \in Captures, Register(c) \/ SpawnFails(c)
      PROVE  HasSession'
  BY <1>4 DEF Register, SpawnFails
<1>5. ASSUME NEW c \in Captures, Listen(c) \/ MarkRunning(c)
      PROVE  HasSession'
  BY <1>5 DEF Listen, MarkRunning
<1>6. ASSUME NEW c \in Captures, NEW w \in Savers, SpawnSaver(c, w) \/ Saver(c, w)
      PROVE  HasSession'
  BY <1>6 DEF SpawnSaver, Saver, CopyFails, ReportCrash, CancelCapture, SaverLeaves
<1>7. ASSUME NEW c \in Captures, ListenerLeaves(c)
      PROVE  HasSession'
  BY <1>7 DEF ListenerLeaves
<1>8. ASSUME NEW r \in Requests, Stop(r) \/ Shutdown(r) \/ Handler(r)
      PROVE  HasSession'
  <2>1. UNCHANGED <<starter, session, saver, listener>>
    BY <1>8 DEF Stop, Shutdown, Handler, StopSession, MarkFinished, AnswerRequest
  <2> QED
    BY <2>1
<1>9. ASSUME Ends
      PROVE  HasSession'
  BY <1>9 DEF Ends
<1>10. ASSUME Restart \/ UNCHANGED vars
       PROVE  HasSession'
  BY <1>10 DEF Restart, vars
<1> QED
  BY <1>1, <1>2, <1>3, <1>4, <1>5, <1>6, <1>7, <1>8, <1>9, <1>10
     DEF Next, Starter, Return, Kill

(* StopPipeline updates the row it was called for.                         *)
LEMMA StepNamesRow == TypeOK /\ NamesRow /\ [Next]_vars => NamesRow'
<1> SUFFICES ASSUME TypeOK, NamesRow, [Next]_vars
             PROVE  NamesRow'
  OBVIOUS
<1> USE DEF TypeOK, NamesRow
<1>1. ASSUME UNCHANGED req
      PROVE  NamesRow'
  BY <1>1
<1>2. ASSUME NEW r \in Requests, Stop(r) \/ Shutdown(r)
      PROVE  NamesRow'
  <2>1. req'[r].pc = "next" /\ \A q \in Requests \ {r} : req'[q] = req[q]
    <3>1. CASE Stop(r)
      BY <3>1 DEF Stop
    <3>2. CASE Shutdown(r)
      BY <3>2 DEF Shutdown
    <3> QED BY <1>2, <3>1, <3>2
  <2> QED
    BY <2>1
<1>3. ASSUME NEW r \in Requests, Handler(r)
      PROVE  NamesRow'
  <2>1. \A q \in Requests \ {r} : req'[q] = req[q]
    BY <1>3 DEF Handler, StopSession, MarkFinished, AnswerRequest
  <2>2. req'[r].pc \in {"next", "answered"} \/ req'[r].id \in Sessions
    <3>1. ASSUME MarkFinished(r) \/ AnswerRequest(r)
          PROVE  req'[r].pc \in {"next", "answered"}
      BY <3>1 DEF MarkFinished, AnswerRequest
    <3>2. ASSUME StopSession(r)
          PROVE  req'[r].id \in Sessions
      BY <3>2 DEF StopSession
    <3> QED
      BY <1>3, <3>1, <3>2 DEF Handler
  <2> QED
    BY <2>1, <2>2
<1>4. ASSUME Ends
      PROVE  NamesRow'
  BY <1>4 DEF Ends
<1>5. ASSUME NEW c \in Captures, Start(c) \/ Starter(c) \/ ListenerLeaves(c)
      PROVE  UNCHANGED req
  BY <1>5 DEF Start, Starter, ListenerLeaves, OpenListener, Reuse, InsertSession, Register,
              SpawnSaver, SpawnFails, Listen, MarkRunning
<1>6. ASSUME NEW c \in Captures, NEW w \in Savers, Saver(c, w)
      PROVE  UNCHANGED req
  BY <1>6 DEF Saver, CopyFails, ReportCrash, CancelCapture, SaverLeaves
<1>7. ASSUME Restart \/ UNCHANGED vars
      PROVE  UNCHANGED req
  BY <1>7 DEF Restart, vars
<1> QED
  BY <1>1, <1>2, <1>3, <1>4, <1>5, <1>6, <1>7 DEF Next, Return, Kill

(* A row that is there stays, and a session that is given has one.         *)
LEMMA StepRows == TypeOK /\ HasSession /\ NamesRow /\ RowsExist /\ [Next]_vars => RowsExist'
<1> SUFFICES ASSUME TypeOK, HasSession, NamesRow, RowsExist, [Next]_vars
             PROVE  RowsExist'
  OBVIOUS
<1> USE CaptureAssumption DEF TypeOK, RowsExist
<1>1. CASE UNCHANGED <<status, session>>
  BY <1>1
<1>2. ASSUME NEW c \in Captures, Reuse(c)
      PROVE  RowsExist'
  BY <1>2 DEF Reuse, StartAll, Reusable
<1>3. ASSUME NEW c \in Captures, InsertSession(c)
      PROVE  RowsExist'
  BY <1>3 DEF InsertSession, table
<1>4. ASSUME NEW c \in Captures, MarkRunning(c)
      PROVE  RowsExist'
  BY <1>4 DEF MarkRunning
<1>5. ASSUME NEW c \in Captures, NEW w \in Savers, SpawnSaver(c, w) \/ Saver(c, w)
      PROVE  RowsExist'
  BY <1>5 DEF SpawnSaver, Saver, CopyFails, ReportCrash, CancelCapture, SaverLeaves, table, start
<1>6. ASSUME NEW r \in Requests, MarkFinished(r)
      PROVE  RowsExist'
  BY <1>6 DEF MarkFinished, StatusFinish, NamesRow, start
<1>7. ASSUME Ends
      PROVE  RowsExist'
  BY <1>7 DEF Ends, table
<1> QED
  BY <1>1, <1>2, <1>3, <1>4, <1>5, <1>6, <1>7, Changes

(* A session becomes crashed by the one report of its last capture: all    *)
(* the others have reported before.                                        *)
LEMMA StepCrash ==
  TypeOK /\ HasSession /\ NamesRow /\ CrashWritten /\ OneFresh /\ [Next]_vars => CrashWritten'
<1> SUFFICES ASSUME TypeOK, HasSession, NamesRow, CrashWritten, OneFresh, [Next]_vars,
                    NEW s \in Sessions, status'[s] = "crashed", Sound(s)',
                    NEW c \in Captures, session'[c] = s
             PROVE  Written(c)'
  BY DEF CrashWritten
<1>1. Sound(s)
  BY SoundBefore
<1>2. s # NoSession
  BY CaptureAssumption
<1>3. session[c] = s
  <2>1. SUFFICES ASSUME session[c] # s
                 PROVE  FALSE
    OBVIOUS
  <2>2. \E d \in Captures : Reuse(d) \/ InsertSession(d)
    BY <2>1, Changes DEF MarkRunning, SpawnSaver, Saver, CopyFails, ReportCrash, CancelCapture,
                        SaverLeaves, MarkFinished, Ends, start
  <2>3. status'[s] = "starting"
    BY <1>2, <2>1, <2>2 DEF Reuse, InsertSession, StartAll, TypeOK
  <2> QED
    BY <2>3
<1>4. CASE status[s] = "crashed"
  BY <1>1, <1>3, <1>4, WrittenStays DEF CrashWritten
<1>5. ASSUME NEW b \in Captures, NEW w \in Savers, ReportCrash(b, w), session[b] = s
      PROVE  Written(c)'
  <2>1. saver[b][w] = "reporting" /\ saver'[b][w] = "cancelling"
    BY <1>5 DEF ReportCrash, SaverGoes, TypeOK
  <2>2. CASE b = c
    BY <2>1, <2>2 DEF Written
  <2>3. CASE b # c
    <3>1. ~Written(b)
      BY <1>1, <1>5, <2>1 DEF Written, Sound, ReportedTwice, Reported
    <3>2. Written(c)
      BY <1>1, <1>3, <1>5, <2>3, <3>1 DEF OneFresh
    <3> QED
      BY <3>2, WrittenStays
  <2> QED
    BY <2>2, <2>3
<1>6. CASE status[s] # "crashed"
  <2>1. \E b \in Captures, w \in Savers : ReportCrash(b, w) /\ session[b] = s
    <3> USE <1>6 DEF TypeOK, table, start
    <3>1. ASSUME NEW d \in Captures, Reuse(d)
          PROVE  FALSE
      BY <3>1 DEF Reuse, StartAll
    <3>2. ASSUME NEW d \in Captures, InsertSession(d) \/ MarkRunning(d)
          PROVE  FALSE
      BY <3>2 DEF InsertSession, MarkRunning
    <3>3. ASSUME NEW d \in Captures, NEW w \in Savers,
                 SpawnSaver(d, w) \/ CopyFails(d, w) \/ CancelCapture(d, w) \/ SaverLeaves(d, w)
          PROVE  FALSE
      BY <3>3 DEF SpawnSaver, CopyFails, CancelCapture, SaverLeaves
    <3>4. ASSUME NEW d \in Captures, NEW w \in Savers, ReportCrash(d, w)
          PROVE  session[d] = s
      BY <3>4 DEF ReportCrash
    <3>5. ASSUME NEW r \in Requests, MarkFinished(r)
          PROVE  FALSE
      BY <3>5 DEF MarkFinished, StatusFinish, NamesRow
    <3>6. ~Ends
      BY DEF Ends
    <3>7. ~UNCHANGED status
      OBVIOUS
    <3> QED
      BY <3>1, <3>2, <3>3, <3>4, <3>5, <3>6, <3>7, Changes DEF Saver
  <2> QED
    BY <1>5, <2>1
<1> QED
  BY <1>4, <1>6

(* A capture is given a session whose other captures have all reported.    *)
LEMMA TakesOver ==
  ASSUME TypeOK, HasSession, RowsExist, CrashWritten, [Next]_vars,
         NEW s \in Sessions, Sound(s), NEW c \in Captures, NEW d \in Captures, c # d,
         session[c] # s, session'[c] = s, session'[d] = s
  PROVE  Written(d)
<1>1. Reuse(c) \/ InsertSession(c)
  BY Changes DEF Reuse, InsertSession, MarkRunning, SpawnSaver, Saver, CopyFails, ReportCrash,
                 CancelCapture, SaverLeaves, MarkFinished, Ends, start, TypeOK
<1>2. session[d] = s
  BY <1>1 DEF Reuse, InsertSession, TypeOK
<1>3. CASE Reuse(c)
  <2>1. status[s] = "crashed"
    BY <1>3 DEF Reuse, Reusable, TypeOK
  <2> QED
    BY <1>2, <2>1 DEF CrashWritten
<1>4. CASE InsertSession(c)
  <2>1. status[s] = "none"
    BY <1>4 DEF InsertSession, TypeOK
  <2> QED
    BY <1>2, <2>1 DEF RowsExist
<1> QED
  BY <1>1, <1>3, <1>4

(* Of two captures of a session one has reported.                          *)
LEMMA StepFresh ==
  TypeOK /\ HasSession /\ RowsExist /\ CrashWritten /\ OneFresh /\ [Next]_vars => OneFresh'
<1> SUFFICES ASSUME TypeOK, HasSession, RowsExist, CrashWritten, OneFresh, [Next]_vars,
                    NEW c \in Captures, NEW d \in Captures, NEW s \in Sessions,
                    c # d, session'[c] = s, session'[d] = s, Sound(s)'
             PROVE  Written(c)' \/ Written(d)'
  BY DEF OneFresh
<1>1. Sound(s)
  BY SoundBefore
<1>2. Written(c) \/ Written(d)
  <2>1. CASE session[c] = s /\ session[d] = s
    BY <1>1, <2>1 DEF OneFresh
  <2>2. CASE session[c] # s
    BY <1>1, <2>2, TakesOver
  <2>3. CASE session[d] # s
    BY <1>1, <2>3, TakesOver
  <2> QED
    BY <2>1, <2>2, <2>3
<1> QED
  BY <1>2, WrittenStays

(* The entry of a session changes hands only when the capture that had it  *)
(* is cancelled or has reported.                                           *)
LEMMA StepHeld == Inv /\ [Next]_vars => Held'
<1> SUFFICES ASSUME Inv, [Next]_vars, NEW c \in Captures, Fresh(c)', Sound(session[c])',
                    NEW s, session'[c] = s
             PROVE  handles'[session'[c]] = c
  BY DEF Held
<1>0. TypeOK /\ HasSession /\ NamesRow /\ CrashWritten /\ OneFresh /\ Held
  BY DEF Inv
<1> USE <1>0
<1>1. HasSession' /\ TypeOK'
  BY StepHasSession, StepType
<1>2. session'[c] \in Sessions
  BY <1>1 DEF HasSession, Fresh, TypeOK
<1>3. Sound(s)
  <2>1. Sound(s)'
    BY DEF Sound
  <2> QED
    BY <1>2, <2>1, SoundBefore
<1>4. ASSUME Fresh(c), session'[c] = session[c]
      PROVE  handles[session'[c]] = c
  BY <1>3, <1>4 DEF Held
<1> USE DEF TypeOK, Fresh, Reported, StarterGoes, SaverGoes, table, start, daemon
<1>5. ASSUME NEW d \in Captures, Register(d)
      PROVE  handles'[session'[c]] = c
  <2>1. CASE d = c
    BY <1>2, <1>5, <2>1 DEF Register
  <2>2. CASE d # c
    <3>1. Fresh(c) /\ session'[c] = session[c]
      BY <1>5, <2>2 DEF Register
    <3>2. ~Written(c) /\ ~Written(d)
      BY <1>5, <3>1 DEF Written, Register, HasSession
    <3>3. session[d] # session[c]
      BY <1>2, <1>3, <2>2, <3>1, <3>2 DEF OneFresh
    <3> QED
      BY <1>2, <1>4, <1>5, <3>1, <3>3 DEF Register
  <2> QED
    BY <2>1, <2>2
<1>6. ASSUME NEW r \in Requests, StopSession(r)
      PROVE  handles'[session'[c]] = c
  <2>1. Fresh(c) /\ session'[c] = session[c]
    BY <1>6 DEF StopSession, CancelHandle
  <2> QED
    BY <1>2, <1>4, <1>6, <2>1 DEF StopSession, CancelHandle
<1>7. ASSUME NEW d \in Captures, Reuse(d) \/ InsertSession(d)
      PROVE  handles'[session'[c]] = c
  <2>1. d # c
    BY <1>7 DEF Reuse, InsertSession, HasSession
  <2> QED
    BY <1>4, <1>7, <2>1 DEF Reuse, InsertSession
<1>8. ASSUME NEW d \in Captures, Start(d) \/ OpenListener(d) \/ SpawnFails(d) \/ MarkRunning(d)
      PROVE  handles'[session'[c]] = c
  BY <1>4, <1>8 DEF Start, OpenListener, SpawnFails, MarkRunning
<1>9. ASSUME NEW d \in Captures, Listen(d) \/ ListenerLeaves(d)
      PROVE  handles'[session'[c]] = c
  BY <1>4, <1>9 DEF Listen, ListenerLeaves
<1>10. ASSUME NEW d \in Captures, NEW w \in Savers, SpawnSaver(d, w) \/ Saver(d, w)
       PROVE  handles'[session'[c]] = c
  BY <1>4, <1>10 DEF SpawnSaver, Saver, CopyFails, ReportCrash, CancelCapture, SaverLeaves
<1>11. ASSUME NEW r \in Requests,
              Stop(r) \/ Shutdown(r) \/ MarkFinished(r) \/ AnswerRequest(r)
       PROVE  handles'[session'[c]] = c
  BY <1>4, <1>11 DEF Stop, Shutdown, MarkFinished, AnswerRequest
<1>12. ~Ends
  <2>1. SUFFICES ASSUME Ends
                 PROVE  FALSE
    OBVIOUS
  <2>2. starter'[c] # "spawn" /\ listener'[c] # "listening"
    BY <2>1 DEF Ends
  <2>3. \A w \in Savers : saver'[c][w] # "reading"
    BY <2>1 DEF Ends
  <2> QED
    BY <2>2, <2>3
<1>13. ASSUME Restart \/ UNCHANGED vars
       PROVE  handles'[session'[c]] = c
  BY <1>4, <1>13 DEF Restart, vars
<1> QED
  BY <1>5, <1>6, <1>7, <1>8, <1>9, <1>10, <1>11, <1>12, <1>13
     DEF Next, Starter, Handler, Return, Kill

-----------------------------------------------------------------------------
(* The daemon starts with an empty map and an empty table.                 *)
LEMMA InitInv == Init => Inv
<1> SUFFICES ASSUME Init
             PROVE  Inv
  OBVIOUS
<1> USE CaptureAssumption DEF Init
<1>1. req \in [Requests -> Request] /\ \A r \in Requests : req[r].pc = "idle"
  BY DEF NoRequest, Request, RequestPcs
<1>2. TypeOK
  BY <1>1 DEF TypeOK, Statuses, StarterPcs, SaverPcs, ListenerPcs, Request
<1>3. HasSession /\ NamesRow /\ RowsExist /\ CrashWritten /\ Held
  BY <1>1 DEF HasSession, NamesRow, RowsExist, CrashWritten, Held, Fresh
<1>4. OneFresh
  BY DEF OneFresh
<1> QED
  BY <1>2, <1>3, <1>4 DEF Inv

LEMMA StepInv == Inv /\ [Next]_vars => Inv'
  BY StepType, StepHasSession, StepNamesRow, StepRows, StepCrash, StepFresh, StepHeld DEF Inv

LEMMA Invariance == Spec => []Inv
  BY InitInv, StepInv, PTL DEF Spec

(* Rows carry the statuses of storage/store.go, and starters, savers,      *)
(* listeners and requests are where the code can be.                       *)
THEOREM SessionTypeCorrect == Spec => []TypeOK
  BY Invariance, PTL DEF Inv

(* A capture that goes on can be stopped by its session id, unless an      *)
(* earlier capture of the session reported its crash twice.                *)
THEOREM CapturesCanBeStopped == Spec => []Stoppable
<1>1. Inv => Stoppable
  <2> SUFFICES ASSUME Inv, NEW c \in Captures, Capturing(c), handles[session[c]] # c
               PROVE  \E b \in Captures \ {c} : session[b] = session[c] /\ ReportedTwice(b)
    BY DEF Stoppable
  <2>1. Fresh(c)
    BY DEF Capturing, Fresh, CtxDone
  <2>2. ~Sound(session[c])
    BY <2>1 DEF Inv, Held
  <2>3. ~ReportedTwice(c)
    BY DEF Capturing, ReportedTwice
  <2> QED
    BY <2>2, <2>3 DEF Sound
<1> QED
  BY <1>1, Invariance, PTL
=============================================================================
