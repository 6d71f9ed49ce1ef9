------------------------ MODULE LauncherSessionProofs ------------------------
(***************************************************************************)
(* What the sessions of the launcher promise, for any number of launches   *)
(* and ctls, any ports, modes and failing assets, and any number of        *)
(* processes that die.                                                     *)
(***************************************************************************)
EXTENDS LauncherSession, TLAPS

-----------------------------------------------------------------------------
(* The types.                                                              *)

\* A session file that is there is one of the sessions.
LEMMA FileIsSession ==
    ASSUME TypeOK, file # NoFile
    PROVE  /\ file \in Sessions
           /\ file.id \in Launches
           /\ file.pid \in Procs
           /\ file.state \in States
           /\ file.port \in Ports \cup {None}
<1>1. file \in Sessions
  BY DEF TypeOK
<1> QED
  BY <1>1 DEF Sessions

\* What WriteOwnedSession leaves is a session, or no file.
LEMMA WrittenType ==
    ASSUME TypeOK, NEW l \in Launches, NEW pid \in Procs, NEW state \in States,
           NEW endpoint \in Ports \cup {None},
           WriteOwnedSession(l, pid, state, endpoint)
    PROVE  file' \in Sessions \cup {NoFile}
<1>1. CASE Owned(l)
  BY <1>1 DEF WriteOwnedSession, Sessions
<1>2. CASE ~Owned(l)
  BY <1>2 DEF WriteOwnedSession, TypeOK
<1> QED
  BY <1>1, <1>2

\* A process that ends leaves the types as they are.
LEMMA DeadType ==
    ASSUME TypeOK, NEW l \in Launches, Dies(l)
    PROVE  /\ workerPc' \in [Launches -> WorkerPcs]
           /\ svc' \in [Launches -> States]
           /\ watch' \in [Launches -> {"off", "on", "ending"}]
           /\ port' \in [Launches -> Ports \cup {None}]
           /\ last' \in [Launches -> States]
           /\ stopping' \in [Launches -> BOOLEAN]
           /\ raised' \in [Launches -> BOOLEAN]
           /\ client' \in [Launches -> Launches \cup {None}]
           /\ answer' \in [Launches -> {"ok", "error"}]
           /\ requests' \subseteq Requests
           /\ reply' \in [Launches -> {"none", "ok", "error"}]
<1>1. workerPc' \in [Launches -> WorkerPcs]
  BY DEF Dies, GoWorker, TypeOK, WorkerPcs
<1>2. /\ svc' \in [Launches -> States]
      /\ last' \in [Launches -> States]
  BY DEF Dies, TypeOK, States
<1>3. /\ watch' \in [Launches -> {"off", "on", "ending"}]
      /\ port' \in [Launches -> Ports \cup {None}]
  BY DEF Dies, TypeOK
<1>4. /\ stopping' \in [Launches -> BOOLEAN]
      /\ raised' \in [Launches -> BOOLEAN]
  BY DEF Dies, TypeOK
<1>5. /\ client' \in [Launches -> Launches \cup {None}]
      /\ answer' \in [Launches -> {"ok", "error"}]
  BY DEF Dies, TypeOK
<1>6. requests' \subseteq Requests
  BY DEF Dies, HangsUp, TypeOK
<1>7. reply' \in [Launches -> {"none", "ok", "error"}]
  BY DEF Dies, HangsUp, TypeOK
<1> QED
  BY <1>1, <1>2, <1>3, <1>4, <1>5, <1>6, <1>7

\* What a control command leaves on its way.
LEMMA SentType ==
    ASSUME TypeOK, NEW p \in Launches \cup {None},
           NEW command \in {"status", "start", "terminate"},
           SendControlCommand(p, command)
    PROVE  /\ requests' \subseteq Requests
           /\ reply' \in [Launches -> {"none", "ok", "error"}]
<1> DEFINE served == IF file = NoFile THEN {}
                     ELSE {l \in Launches : port[l] # None /\ port[l] = file.port}
<1>1. \A l \in served : [to |-> l, id |-> file.id, command |-> command, from |-> p] \in Requests
  <2> SUFFICES ASSUME NEW l \in served
               PROVE  [to |-> l, id |-> file.id, command |-> command, from |-> p] \in Requests
    OBVIOUS
  <2>1. l \in Launches /\ file.id \in Launches
    BY FileIsSession
  <2> QED
    BY <2>1 DEF Requests
<1>2. requests' = requests \cup
        {[to |-> l, id |-> file.id, command |-> command, from |-> p] : l \in served}
  BY DEF SendControlCommand
<1>3. requests' \subseteq Requests
  BY <1>1, <1>2 DEF TypeOK
<1>4. reply' \in [Launches -> {"none", "ok", "error"}]
  BY DEF SendControlCommand, TypeOK
<1> QED
  BY <1>3, <1>4

\* A claim that removes the file.
LEMMA UnlinkType ==
    ASSUME TypeOK, NEW l \in Launches, file # NoFile, Unlink(l)
    PROVE  /\ file' \in Sessions \cup {NoFile}
           /\ parentPc' \in [Launches -> ParentPcs]
           /\ replaced' \subseteq [id : Launches, pid : Procs, svc : States]
<1>1. file' \in Sessions \cup {NoFile}
  BY DEF Unlink
<1>2. parentPc' \in [Launches -> ParentPcs]
  BY DEF Unlink, GoParent, TypeOK, ParentPcs
<1>3. \A k \in {file.id} : [id |-> k, pid |-> file.pid, svc |-> svc[k]]
                              \in [id : Launches, pid : Procs, svc : States]
  BY FileIsSession DEF TypeOK
<1>4. replaced' \subseteq [id : Launches, pid : Procs, svc : States]
  BY <1>3 DEF Unlink, TypeOK
<1> QED
  BY <1>1, <1>2, <1>4

LEMMA TypeInit == Init => TypeOK
<1> SUFFICES ASSUME Init PROVE TypeOK
  OBVIOUS
<1>1. "claim" \in ParentPcs /\ "none" \in WorkerPcs /\ "IDLE" \in States
  BY DEF ParentPcs, WorkerPcs, States
<1>2. 0 \in 0..MaxCrashes
  BY SessionAssumption
<1> QED
  BY <1>1, <1>2 DEF Init, TypeOK

\* The end of a request.
LEMMA EndRequestType ==
    ASSUME TypeOK, NEW l \in Launches, NEW a \in {"ok", "error"}, EndRequest(l, a)
    PROVE  /\ workerPc' \in [Launches -> WorkerPcs]
           /\ client' \in [Launches -> Launches \cup {None}]
           /\ answer' \in [Launches -> {"ok", "error"}]
           /\ reply' \in [Launches -> {"none", "ok", "error"}]
<1>1. workerPc' \in [Launches -> WorkerPcs]
  BY DEF EndRequest, GoWorker, TypeOK, WorkerPcs
<1>2. /\ client' \in [Launches -> Launches \cup {None}]
      /\ answer' \in [Launches -> {"ok", "error"}]
  BY DEF EndRequest, TypeOK
<1>3. reply' \in [Launches -> {"none", "ok", "error"}]
  BY DEF EndRequest, TypeOK
<1> QED
  BY <1>1, <1>2, <1>3

\* A worker that has come to an end of its service.
LEMMA TerminatedType ==
    ASSUME TypeOK, NEW l \in Launches, TerminateService(l)
    PROVE  svc' \in [Launches -> States] /\ UNCHANGED watch
<1>1. Terminal \subseteq States
  BY DEF States
<1> QED
  BY <1>1 DEF TerminateService, TypeOK

LEMMA ParentTypeStep ==
    ASSUME TypeOK, NEW l \in Launches,
           ParentStep(l) \/ ReadyTimeout(l) \/ ParentCrash(l)
    PROVE  TypeOK'
<1> USE DEF parents, workers, service, serving, clients, history, GoParent
<1>1. ASSUME NEW pc \in ParentPcs PROVE [parentPc EXCEPT ![l] = pc] \in [Launches -> ParentPcs]
  BY DEF TypeOK
<1>2. ASSUME NEW s \in Launches \cup {None}
      PROVE  [observed EXCEPT ![l] = s] \in [Launches -> Launches \cup {None}]
  BY DEF TypeOK
<1>3. /\ Parent(l) \in Procs
      /\ Worker(l) \in Procs
      /\ {"STARTING", "FAILED"} \subseteq States
  BY DEF Parent, Worker, Procs, States, Terminal
<1>4. {"claim", "reserve", "probe", "probing", "recheck", "spawn", "record", "wait", "poll",
       "ask", "asking", "quit", "late", "fail",
       "refused", "ready", "failed", "raised", "gone"} \subseteq ParentPcs
  BY DEF ParentPcs, ParentEnds
<1>5. CASE ParentBusy(l)
  BY <1>1, <1>2, <1>4, <1>5 DEF ParentBusy, TypeOK
<1>6. CASE Claim(l)
  <2>1. UNCHANGED <<mode, workers, clients, crashes, began>>
    BY <1>6 DEF Claim
  <2>2. CASE file = NoFile /\ GoParent(l, "reserve") /\ UNCHANGED <<file, observed, replaced>>
    BY <1>1, <1>4, <2>1, <2>2 DEF TypeOK
  <2>3. CASE file # NoFile /\ Unlink(l) /\ UNCHANGED observed
    BY <2>1, <2>3, UnlinkType DEF TypeOK
  <2>4. CASE /\ file # NoFile
             /\ observed' = [observed EXCEPT ![l] = file.id]
             /\ GoParent(l, "probe")
             /\ UNCHANGED <<file, replaced>>
    BY <1>1, <1>2, <1>4, <2>1, <2>4, FileIsSession DEF TypeOK
  <2> QED
    BY <1>6, <2>2, <2>3, <2>4 DEF Claim
<1>7. CASE Probe(l)
  <2>1. requests' \subseteq Requests /\ reply' \in [Launches -> {"none", "ok", "error"}]
    BY <1>7, SentType DEF Probe
  <2> QED
    BY <1>1, <1>4, <1>7, <2>1 DEF Probe, TypeOK
<1>8. CASE Probed(l)
  BY <1>1, <1>4, <1>8 DEF Probed, TypeOK
<1>9. CASE Recheck(l)
  <2>1. /\ observed' \in [Launches -> Launches \cup {None}]
        /\ reply' \in [Launches -> {"none", "ok", "error"}]
        /\ UNCHANGED <<mode, workers, ctlPc, requests, crashes, began>>
    BY <1>2, <1>9 DEF Recheck, TypeOK
  <2>2. CASE file = NoFile /\ GoParent(l, "reserve") /\ UNCHANGED <<file, replaced>>
    BY <1>1, <1>4, <2>1, <2>2 DEF TypeOK
  <2>3. CASE file # NoFile /\ Unlink(l)
    BY <2>1, <2>3, UnlinkType DEF TypeOK
  <2>4. CASE GoParent(l, "refused") /\ UNCHANGED <<file, replaced>>
    BY <1>1, <1>4, <2>1, <2>4 DEF TypeOK
  <2> QED
    BY <1>9, <2>2, <2>3, <2>4 DEF Recheck
<1>10. CASE ReserveSession(l)
  <2>1. file' \in Sessions
    BY <1>3, <1>10 DEF ReserveSession, Sessions
  <2> QED
    BY <1>1, <1>4, <1>10, <2>1 DEF ReserveSession, TypeOK
<1>11. CASE Popen(l)
  <2>1. workerPc' \in [Launches -> WorkerPcs]
    BY <1>11 DEF Popen, GoWorker, TypeOK, WorkerPcs
  <2> QED
    BY <1>1, <1>4, <1>11, <2>1 DEF Popen, TypeOK
<1>12. CASE RecordWorker(l)
  <2>1. file' \in Sessions \cup {NoFile}
    BY <1>3, <1>12, WrittenType DEF RecordWorker
  <2> QED
    BY <1>1, <1>4, <1>12, <2>1 DEF RecordWorker, TypeOK
<1>13. CASE WaitReady(l)
  <2>1. PICK pc \in ParentPcs : GoParent(l, pc)
    BY <1>4, <1>13 DEF WaitReady
  <2> QED
    BY <1>1, <1>13, <2>1 DEF WaitReady, TypeOK
<1>14. CASE Ask(l)
  <2>1. requests' \subseteq Requests /\ reply' \in [Launches -> {"none", "ok", "error"}]
    BY <1>14, SentType DEF Ask
  <2> QED
    BY <1>1, <1>4, <1>14, <2>1 DEF Ask, TypeOK
<1>15. CASE Asked(l)
  <2>1. reply' \in [Launches -> {"none", "ok", "error"}]
    BY <1>15 DEF Asked, TypeOK
  <2> QED
    BY <1>1, <1>4, <1>15, <2>1 DEF Asked, TypeOK
<1>16. CASE Poll(l)
  BY <1>1, <1>4, <1>16 DEF Poll, TypeOK
<1>17. CASE StopBackgroundProcess(l)
  <2>1. CASE GoParent(l, IF parentPc[l] = "quit" THEN "failed" ELSE "fail")
             /\ UNCHANGED <<workers, requests, reply>>
    BY <1>1, <1>4, <1>17, <2>1 DEF StopBackgroundProcess, TypeOK
  <2>2. CASE Dies(l) /\ UNCHANGED parentPc
    BY <1>17, <2>2, DeadType DEF StopBackgroundProcess, TypeOK
  <2> QED
    BY <1>17, <2>1, <2>2 DEF StopBackgroundProcess
<1>18. CASE ParentFails(l)
  <2>1. PICK pid \in Procs : WriteOwnedSession(l, pid, "FAILED", None)
    BY <1>3, <1>18 DEF ParentFails
  <2>2. file' \in Sessions \cup {NoFile}
    BY <1>3, <2>1, WrittenType
  <2> QED
    BY <1>1, <1>4, <1>18, <2>2 DEF ParentFails, TypeOK
<1>19. CASE ReadyTimeout(l)
  BY <1>1, <1>4, <1>19 DEF ReadyTimeout, TypeOK
<1>20. CASE ParentCrash(l)
  <2>1. crashes' \in 0..MaxCrashes
    BY <1>20, SessionAssumption DEF ParentCrash, TypeOK
  <2> QED
    BY <1>1, <1>2, <1>4, <1>20, <2>1 DEF ParentCrash, TypeOK
<1> QED
  BY <1>5, <1>6, <1>7, <1>8, <1>9, <1>10, <1>11, <1>12, <1>13, <1>14, <1>15, <1>16, <1>17,
     <1>18, <1>19, <1>20 DEF ParentStep

LEMMA WorkerTypeStep ==
    ASSUME TypeOK, NEW l \in Launches,
           WorkerStep(l) \/ Interrupt(l) \/ WorkerCrash(l) \/ RequestTimeout(l)
           \/ WatchBegins(l) \/ WatchEnds(l) \/ WatchStops(l)
    PROVE  TypeOK'
<1> USE DEF parents, workers, service, serving, clients, history
<1>1. ASSUME NEW pc \in WorkerPcs, GoWorker(l, pc)
      PROVE  workerPc' \in [Launches -> WorkerPcs]
  BY <1>1 DEF TypeOK, GoWorker
<1>2. ASSUME NEW s \in States PROVE [svc EXCEPT ![l] = s] \in [Launches -> States]
  BY DEF TypeOK
<1>3. /\ Worker(l) \in Procs
      /\ {"FAILED", "ACTIVATED", "RUNNING", "TERMINATING"} \cup Terminal \subseteq States
      /\ svc[l] \in States
  BY DEF Worker, Procs, States, Operating, Terminal, TypeOK
<1>4. {"load", "activate", "starting", "first", "serve", "terminate", "disp", "loop", "final",
       "abort", "fail", "dead"} \subseteq WorkerPcs
  BY DEF WorkerPcs
<1>5. CASE Load(l)
  <2>1. workerPc' \in [Launches -> WorkerPcs]
    BY <1>1, <1>4, <1>5 DEF Load, Goes
  <2> QED
    BY <1>5, <2>1 DEF Load, Goes, TypeOK
<1>6. CASE Activate(l)
  <2>1. workerPc' \in [Launches -> WorkerPcs]
    BY <1>1, <1>4, <1>6 DEF Activate, Goes
  <2>2. /\ svc' \in [Launches -> States]
        /\ watch' \in [Launches -> {"off", "on", "ending"}]
    BY <1>2, <1>3, <1>6, TerminatedType DEF Activate, TypeOK
  <2> QED
    BY <1>6, <2>1, <2>2 DEF Activate, Goes, TypeOK
<1>7. CASE CmdStart(l)
  <2>1. svc' \in [Launches -> States]
    BY <1>2, <1>3, <1>7 DEF CmdStart, TypeOK
  <2>2. /\ workerPc' \in [Launches -> WorkerPcs]
        /\ client' \in [Launches -> Launches \cup {None}]
        /\ answer' \in [Launches -> {"ok", "error"}]
        /\ reply' \in [Launches -> {"none", "ok", "error"}]
    <3>1. PICK outcome \in {"ok", "error", "raise"} :
             IF port[l] = None
             THEN /\ GoWorker(l, IF outcome = "ok" THEN "first" ELSE "abort")
                  /\ UNCHANGED <<client, answer, reply>>
             ELSE IF outcome = "raise" THEN EndRequest(l, "error")
             ELSE /\ GoWorker(l, "disp")
                  /\ answer' = [answer EXCEPT ![l] = outcome]
                  /\ UNCHANGED <<client, reply>>
      BY <1>7 DEF CmdStart
    <3>2. CASE port[l] = None
      BY <1>1, <1>4, <3>1, <3>2 DEF TypeOK
    <3>3. CASE port[l] # None /\ outcome = "raise"
      BY <3>1, <3>3, EndRequestType
    <3>4. CASE port[l] # None /\ outcome # "raise"
      BY <1>1, <1>4, <3>1, <3>4 DEF TypeOK
    <3> QED
      BY <3>2, <3>3, <3>4
  <2> QED
    BY <1>7, <2>1, <2>2 DEF CmdStart, TypeOK
<1>8. CASE Loop(l)
  <2>1. workerPc' \in [Launches -> WorkerPcs]
    BY <1>1, <1>4, <1>8 DEF Loop, Goes
  <2> QED
    BY <1>8, <2>1 DEF Loop, Goes, TypeOK
<1>9. CASE Dispatch(l)
  <2> DEFINE place == [status |-> "disp", start |-> "starting", terminate |-> "terminate"]
  <2>1. PICK r \in requests :
           /\ requests' = requests \ {r}
           /\ \/ /\ \/ reply' = reply
                    \/ \E a \in {"ok", "error"} : reply' = [reply EXCEPT ![r.from] = a]
                 /\ UNCHANGED <<workerPc, client>>
              \/ /\ client' = [client EXCEPT ![l] = r.from]
                 /\ GoWorker(l, place[r.command])
                 /\ UNCHANGED reply
    BY <1>9 DEF Dispatch
  <2>2. r.from \in Launches \cup {None} /\ r.command \in {"status", "start", "terminate"}
    BY DEF TypeOK, Requests
  <2>3. place[r.command] \in WorkerPcs
    BY <1>4, <2>2
  <2>4. /\ workerPc' \in [Launches -> WorkerPcs]
        /\ client' \in [Launches -> Launches \cup {None}]
        /\ reply' \in [Launches -> {"none", "ok", "error"}]
    <3>1. CASE UNCHANGED <<workerPc, client>>
      BY <2>1, <3>1 DEF TypeOK
    <3>2. CASE client' = [client EXCEPT ![l] = r.from] /\ GoWorker(l, place[r.command])
               /\ UNCHANGED reply
      BY <1>1, <2>2, <2>3, <3>2 DEF TypeOK
    <3> QED
      BY <2>1, <3>1, <3>2
  <2>5. requests' \subseteq Requests
    BY <2>1 DEF TypeOK
  <2> QED
    BY <1>9, <2>4, <2>5 DEF Dispatch, TypeOK
<1>10. CASE TerminateOnRequest(l)
  <2>1. svc' \in [Launches -> States] /\ UNCHANGED watch
    BY <1>10, TerminatedType DEF TerminateOnRequest
  <2>2. CASE svc'[l] = "TERMINATED"
    <3>1. workerPc' \in [Launches -> WorkerPcs] /\ stopping' \in [Launches -> BOOLEAN]
      BY <1>1, <1>4, <1>10, <2>2 DEF TerminateOnRequest, TypeOK
    <3> QED
      BY <1>10, <2>1, <2>2, <3>1 DEF TerminateOnRequest, TypeOK
  <2>3. CASE svc'[l] # "TERMINATED"
    <3>1. /\ workerPc' \in [Launches -> WorkerPcs]
          /\ client' \in [Launches -> Launches \cup {None}]
          /\ answer' \in [Launches -> {"ok", "error"}]
          /\ reply' \in [Launches -> {"none", "ok", "error"}]
      BY <1>10, <2>3, EndRequestType DEF TerminateOnRequest
    <3> QED
      BY <1>10, <2>1, <2>3, <3>1 DEF TerminateOnRequest, TypeOK
  <2> QED
    BY <2>2, <2>3
<1>11. CASE Persisted(l)
  <2>1. PICK p \in Ports :
           /\ WriteOwnedSession(l, Worker(l), svc[l], p)
           /\ IF workerPc[l] = "final" /\ ~raised[l] THEN Dies(l) ELSE
              /\ port' = [port EXCEPT ![l] = p]
              /\ last' = [last EXCEPT ![l] = svc[l]]
              /\ UNCHANGED <<service, stopping, raised, requests>>
              /\ IF workerPc[l] = "disp" THEN EndRequest(l, answer[l]) ELSE
                 /\ GoWorker(l, IF workerPc[l] = "final" THEN "abort" ELSE "serve")
                 /\ UNCHANGED <<client, answer, reply>>
    BY <1>11 DEF Persisted
  <2>2. file' \in Sessions \cup {NoFile}
    BY <1>3, <2>1, WrittenType
  <2>3. began' \subseteq Launches /\ UNCHANGED <<parents, ctlPc, crashes, replaced>>
    BY <1>11 DEF Persisted, TypeOK
  <2>4. CASE workerPc[l] = "final" /\ ~raised[l]
    BY <2>1, <2>2, <2>3, <2>4, DeadType DEF TypeOK
  <2>5. CASE ~(workerPc[l] = "final" /\ ~raised[l])
    <3>1. /\ port' \in [Launches -> Ports \cup {None}]
          /\ last' \in [Launches -> States]
      BY <1>3, <2>1, <2>5 DEF TypeOK
    <3>2. /\ workerPc' \in [Launches -> WorkerPcs]
          /\ client' \in [Launches -> Launches \cup {None}]
          /\ answer' \in [Launches -> {"ok", "error"}]
          /\ reply' \in [Launches -> {"none", "ok", "error"}]
      <4>1. CASE workerPc[l] = "disp"
        <5>1. answer[l] \in {"ok", "error"}
          BY DEF TypeOK
        <5> QED
          BY <2>1, <2>5, <4>1, <5>1, EndRequestType
      <4>2. CASE workerPc[l] # "disp"
        BY <1>1, <1>4, <2>1, <2>5, <4>2 DEF TypeOK
      <4> QED
        BY <4>1, <4>2
    <3> QED
      BY <2>1, <2>2, <2>3, <2>5, <3>1, <3>2 DEF TypeOK
  <2> QED
    BY <2>4, <2>5
<1>12. CASE PersistRaises(l)
  <2>1. raised' \in [Launches -> BOOLEAN]
    BY <1>12 DEF PersistRaises, TypeOK
  <2>2. /\ workerPc' \in [Launches -> WorkerPcs]
        /\ client' \in [Launches -> Launches \cup {None}]
        /\ answer' \in [Launches -> {"ok", "error"}]
        /\ reply' \in [Launches -> {"none", "ok", "error"}]
    <3>1. CASE workerPc[l] = "disp"
      BY <1>12, <3>1, EndRequestType DEF PersistRaises
    <3>2. CASE workerPc[l] # "disp"
      BY <1>1, <1>4, <1>12, <3>2 DEF PersistRaises, TypeOK
    <3> QED
      BY <3>1, <3>2
  <2> QED
    BY <1>12, <2>1, <2>2 DEF PersistRaises, TypeOK
<1>13. CASE Abort(l)
  <2>1. workerPc' \in [Launches -> WorkerPcs]
    BY <1>1, <1>4, <1>13 DEF Abort, Goes
  <2>2. svc' \in [Launches -> States] /\ UNCHANGED watch
    BY <1>13, TerminatedType DEF Abort
  <2> QED
    BY <1>13, <2>1, <2>2 DEF Abort, Goes, TypeOK
<1>14. CASE WorkerFails(l)
  <2>1. file' \in Sessions \cup {NoFile}
    <3>1. CASE WriteOwnedSession(l, Worker(l), "FAILED", None)
      BY <1>3, <3>1, WrittenType
    <3>2. CASE UNCHANGED file
      BY <3>2 DEF TypeOK
    <3> QED
      BY <1>14, <3>1, <3>2 DEF WorkerFails
  <2> QED
    BY <1>14, <2>1, DeadType DEF WorkerFails, TypeOK
<1>15. CASE Interrupt(l)
  <2>1. CASE Dies(l)
    BY <1>15, <2>1, DeadType DEF Interrupt, TypeOK
  <2>2. CASE ~Dies(l)
    <3>1. /\ workerPc' \in [Launches -> WorkerPcs]
          /\ raised' \in [Launches -> BOOLEAN]
      BY <1>1, <1>4, <1>15, <2>2 DEF Interrupt, TypeOK
    <3>2. svc' \in [Launches -> States] /\ UNCHANGED watch
      BY <1>15, <2>2, TerminatedType DEF Interrupt
    <3>3. /\ client' \in [Launches -> Launches \cup {None}]
          /\ answer' \in [Launches -> {"ok", "error"}]
          /\ reply' \in [Launches -> {"none", "ok", "error"}]
      BY <1>15, <2>2 DEF Interrupt, TypeOK
    <3> QED
      BY <1>15, <2>2, <3>1, <3>2, <3>3 DEF Interrupt, TypeOK
  <2> QED
    BY <2>1, <2>2
<1>16. CASE WorkerCrash(l)
  <2>1. crashes' \in 0..MaxCrashes
    BY <1>16, SessionAssumption DEF WorkerCrash, TypeOK
  <2> QED
    BY <1>16, <2>1, DeadType DEF WorkerCrash, TypeOK
<1>17. CASE RequestTimeout(l)
  <2>1. /\ reply' \in [Launches -> {"none", "ok", "error"}]
        /\ requests' \subseteq Requests
        /\ client' \in [Launches -> Launches \cup {None}]
    BY <1>17 DEF RequestTimeout, TypeOK
  <2> QED
    BY <1>17, <2>1 DEF RequestTimeout, TypeOK
<1>18. CASE WatchBegins(l)
  <2>1. svc' \in [Launches -> States] /\ watch' \in [Launches -> {"off", "on", "ending"}]
    BY <1>2, <1>3, <1>18 DEF WatchBegins, TypeOK
  <2> QED
    BY <1>18, <2>1 DEF WatchBegins, TypeOK
<1>19. CASE WatchEnds(l)
  <2>1. svc' \in [Launches -> States] /\ watch' \in [Launches -> {"off", "on", "ending"}]
    BY <1>2, <1>3, <1>19 DEF WatchEnds, TypeOK
  <2> QED
    BY <1>19, <2>1 DEF WatchEnds, TypeOK
<1>20. CASE WatchStops(l)
  BY <1>20 DEF WatchStops, TypeOK
<1> QED
  BY <1>5, <1>6, <1>7, <1>8, <1>9, <1>10, <1>11, <1>12, <1>13, <1>14, <1>15, <1>16, <1>17,
     <1>18, <1>19, <1>20 DEF WorkerStep

LEMMA TypeStep == TypeOK /\ [Next]_vars => TypeOK'
<1> SUFFICES ASSUME TypeOK, [Next]_vars PROVE TypeOK'
  OBVIOUS
<1>1. CASE \E l \in Launches : ParentStep(l) \/ ReadyTimeout(l) \/ ParentCrash(l)
  BY <1>1, ParentTypeStep
<1>2. CASE \E l \in Launches :
             \/ WorkerStep(l) \/ Interrupt(l) \/ WorkerCrash(l) \/ RequestTimeout(l)
             \/ WatchBegins(l) \/ WatchEnds(l) \/ WatchStops(l)
  BY <1>2, WorkerTypeStep
<1>3. CASE \E c \in Ctls : CtlRead(c)
  <2>1. ctlPc' \in [Ctls -> {"idle", "send", "done"}]
    BY <1>3 DEF CtlRead, TypeOK
  <2> QED
    BY <1>3, <2>1 DEF CtlRead, TypeOK, parents, workers, service, serving, history
<1>4. CASE \E c \in Ctls : CtlSend(c)
  <2>1. PICK command \in Commands : SendControlCommand(None, command)
    BY <1>4 DEF CtlSend
  <2>2. requests' \subseteq Requests /\ reply' \in [Launches -> {"none", "ok", "error"}]
    BY <2>1, SentType, SessionAssumption
  <2>3. ctlPc' \in [Ctls -> {"idle", "send", "done"}]
    BY <1>4 DEF CtlSend, TypeOK
  <2> QED
    BY <1>4, <2>2, <2>3 DEF CtlSend, TypeOK, parents, workers, service, serving, history
<1>5. CASE UNCHANGED vars
  BY <1>5 DEF vars, TypeOK, parents, workers, service, serving, clients, history
<1> QED
  BY <1>1, <1>2, <1>3, <1>4, <1>5 DEF Next

\* Every variable keeps its type: pcs, answers and states are among those the
\* code has, a session that was written names a launch, a process and a port,
\* and no more processes die than the bound allows.
THEOREM TypeCorrect == Spec => []TypeOK
<1> QED
  BY TypeInit, TypeStep, PTL DEF Spec

-----------------------------------------------------------------------------
(* The invariant.                                                          *)

Early == {"claim", "probe", "probing", "recheck", "reserve"}
Over == {"TERMINATING"} \cup Terminal
Told == {"ask", "asking", "ready"}
Shown == States \ {"STARTING", "FAILED"}

\* Worker l has its assets no longer, and no step of it starts them again.
Harmless(l) == svc[l] \in Over /\ workerPc[l] \notin {"load", "activate", "starting"}

\* The file of l named its parent when it was taken.
Taken(l) == \E r \in replaced : r.id = l /\ r.pid = Parent(l)

\* A session neither STARTING nor FAILED was written by its worker, and a parent
\* that asks has seen such a session of its own.
Beginnings ==
    /\ file # NoFile /\ file.state \in Shown => file.id \in began
    /\ \A l \in Launches : parentPc[l] \in Told => l \in began

\* The session names its parent or its worker.
PidOfSession == file # NoFile => file.pid \in {Parent(file.id), Worker(file.id)}

\* Between unlink and link there is no file, and one parent only.
Reserving ==
    \A l \in Launches : parentPc[l] = "reserve" =>
        /\ file = NoFile
        /\ \A k \in Launches : parentPc[k] = "reserve" => k = l

\* A parent about to spawn has the session, which names it; nobody takes it.
Spawning ==
    \A l \in Launches : parentPc[l] = "spawn" =>
        Owned(l) /\ file.pid = Parent(l) /\ file.state = "STARTING"

\* No worker before Popen, none alive when the parent writes FAILED.
WorkerOfParent ==
    \A l \in Launches :
        /\ parentPc[l] \in Early \cup {"spawn"} => workerPc[l] = "none"
        /\ parentPc[l] = "fail" => ~WorkerAlive(l)

\* The worker of a terminal session is harmless.
Finished ==
    \A l \in Launches : WorkerAlive(l) /\ Owned(l) /\ IsTerminal(file) => Harmless(l)

\* So is a worker without the file, unless the file named its parent.
Lost ==
    \A l \in Launches : WorkerAlive(l) /\ ~Owned(l) => Harmless(l) \/ Taken(l)

SessionInv ==
    /\ Beginnings
    /\ PidOfSession
    /\ Reserving
    /\ Spawning
    /\ WorkerOfParent
    /\ Finished
    /\ Lost

-----------------------------------------------------------------------------
(* What the steps do to the file, the places and the workers.              *)

\* The parent goes on, and the file and the worker are as they were.
ParentMoves(l) ==
    /\ ParentAlive(l)
    /\ \E pc \in ParentPcs \ {"spawn"} :
          /\ parentPc' = [parentPc EXCEPT ![l] = pc]
          /\ pc \in Early => parentPc[l] \in Early
          /\ pc = "reserve" => file = NoFile /\ \A k \in Launches : parentPc[k] # "reserve"
          /\ pc = "fail" => ~WorkerAlive(l) \/ parentPc[l] = "spawn"
          /\ pc \in Told => \/ parentPc[l] \in Told
                            \/ Owned(l) /\ file.state \in Shown
    /\ UNCHANGED <<file, workerPc, svc, began, replaced>>

\* A claim takes the file of a session that is terminal, or whose process is gone.
ParentTakes(l) ==
    /\ file # NoFile
    /\ parentPc[l] \in Early
    /\ \A k \in Launches : parentPc[k] # "reserve"
    /\ IsTerminal(file) \/ ~IsProcessAlive(file.pid)
    /\ Unlink(l)
    /\ UNCHANGED <<workerPc, svc, began>>

ParentSpawns(l) ==
    /\ parentPc[l] = "spawn"
    /\ parentPc' = [parentPc EXCEPT ![l] = "record"]
    /\ workerPc' = [workerPc EXCEPT ![l] = "load"]
    /\ UNCHANGED <<file, svc, began, replaced>>

\* The parent writes its session, if it is still its own.
ParentWrites(l) ==
    /\ parentPc[l] \in {"record", "fail"}
    /\ \E pid \in {Parent(l), Worker(l)} :
          WriteOwnedSession(l, pid, IF parentPc[l] = "record" THEN "STARTING" ELSE "FAILED", None)
    /\ \E pc \in {"wait", "raised", "failed"} : parentPc' = [parentPc EXCEPT ![l] = pc]
    /\ UNCHANGED <<workerPc, svc, began, replaced>>

\* The worker goes on or ends; a harmless one stays harmless.
WorkerMoves(l) ==
    /\ WorkerAlive(l)
    /\ \E pc \in WorkerPcs \ {"none"}, s \in States :
          /\ workerPc' = [workerPc EXCEPT ![l] = pc]
          /\ svc' = [svc EXCEPT ![l] = s]
          /\ Harmless(l) /\ pc # "dead" => /\ s \in Over
                                           /\ pc \notin {"load", "activate", "starting"}
    /\ UNCHANGED <<file, parentPc, began, replaced>>

\* The worker writes its session, with the state it has, and may end with it.
WorkerPersists(l) ==
    /\ WorkerAlive(l) /\ Owned(l)
    /\ \E p \in Ports : WriteOwnedSession(l, Worker(l), svc[l], p)
    /\ \/ workerPc' = [workerPc EXCEPT ![l] = "dead"] /\ svc' = [svc EXCEPT ![l] = "IDLE"]
       \/ /\ \E pc \in {"abort", "serve", "loop"} : workerPc' = [workerPc EXCEPT ![l] = pc]
          /\ UNCHANGED svc
    /\ began' = began \cup {l}
    /\ UNCHANGED <<parentPc, replaced>>

\* The worker writes FAILED if it can, and ends.
WorkerFailing(l) ==
    /\ WorkerAlive(l)
    /\ \/ WriteOwnedSession(l, Worker(l), "FAILED", None)
       \/ UNCHANGED file
    /\ workerPc' = [workerPc EXCEPT ![l] = "dead"]
    /\ svc' = [svc EXCEPT ![l] = "IDLE"]
    /\ UNCHANGED <<parentPc, began, replaced>>

Moves(l) ==
    \/ ParentMoves(l) \/ ParentTakes(l) \/ ReserveSession(l) \/ ParentSpawns(l)
    \/ ParentWrites(l) \/ WorkerMoves(l) \/ WorkerPersists(l) \/ WorkerFailing(l)

Rests == UNCHANGED <<file, parentPc, workerPc, svc, began, replaced>>

\* Who has the lock finds no parent between unlink and link, unless it is itself.
LEMMA LockExcludes ==
    ASSUME NEW l \in Launches, NEW p \in {Parent(l), Worker(l)}, SessionFileLock(p),
           parentPc[l] # "reserve"
    PROVE  \A k \in Launches : parentPc[k] # "reserve"
<1> SUFFICES ASSUME NEW k \in Launches, parentPc[k] = "reserve" PROVE FALSE
  OBVIOUS
<1>1. p = Parent(k)
  BY DEF SessionFileLock
<1>2. Parent(k) # Worker(l)
  BY DEF Parent, Worker
<1>3. Parent(k) = Parent(l) => k = l
  BY DEF Parent
<1> QED
  BY <1>1, <1>2, <1>3

\* A parent that has come back takes no step.
LEMMA ParentActs ==
    ASSUME NEW l \in Launches, ParentStep(l) \/ ReadyTimeout(l) \/ ParentCrash(l)
    PROVE  ParentAlive(l)
<1>1. CASE ParentBusy(l)
  <2>1. AtLock(Parent(l))
    BY <1>1 DEF ParentBusy, Busy
  <2>2. parentPc[l] \in {"claim", "recheck", "reserve", "record", "fail"}
    BY <2>1 DEF AtLock, Parent
  <2> QED
    BY <2>2 DEF ParentAlive, ParentEnds
<1>2. CASE Claim(l) \/ Probe(l) \/ Probed(l) \/ Recheck(l) \/ ReserveSession(l) \/ Popen(l)
  BY <1>2 DEF Claim, Probe, Probed, Recheck, ReserveSession, Popen, ParentAlive, ParentEnds
<1>3. CASE RecordWorker(l) \/ WaitReady(l) \/ Ask(l) \/ Asked(l) \/ Poll(l)
  BY <1>3 DEF RecordWorker, WaitReady, Ask, Asked, Poll, ParentAlive, ParentEnds
<1>4. CASE StopBackgroundProcess(l) \/ ParentFails(l) \/ ReadyTimeout(l) \/ ParentCrash(l)
  BY <1>4 DEF StopBackgroundProcess, ParentFails, ReadyTimeout, ParentCrash,
              ParentAlive, ParentEnds
<1> QED
  BY <1>1, <1>2, <1>3, <1>4 DEF ParentStep

LEMMA ParentMovesCases ==
    ASSUME TypeOK, NEW l \in Launches,
           ParentStep(l) \/ ReadyTimeout(l) \/ ParentCrash(l)
    PROVE  Moves(l)
<1> USE DEF parents, workers, service, serving, clients, history, GoParent
<1>1. {"claim", "reserve", "probe", "probing", "recheck", "record", "wait", "poll",
       "ask", "asking", "quit", "late", "fail",
       "refused", "ready", "failed", "raised", "gone"} \subseteq ParentPcs \ {"spawn"}
  BY DEF ParentPcs, ParentEnds
<1>2. parentPc[l] # "reserve" /\ SessionFileLock(Parent(l)) =>
        \A k \in Launches : parentPc[k] # "reserve"
  BY LockExcludes
<1>3. ParentAlive(l)
  BY ParentActs
<1>4. CASE ParentBusy(l)
  <2>1. ParentMoves(l)
    BY <1>3, <1>1, <1>4 DEF ParentBusy, ParentMoves, Early, Told
  <2> QED
    BY <2>1 DEF Moves
<1>5. CASE Claim(l)
  <2>1. parentPc[l] = "claim" /\ \A k \in Launches : parentPc[k] # "reserve"
    BY <1>2, <1>5 DEF Claim
  <2>2. UNCHANGED <<workerPc, svc, began>>
    BY <1>5 DEF Claim
  <2>3. CASE file = NoFile /\ GoParent(l, "reserve") /\ UNCHANGED <<file, observed, replaced>>
    <3>1. ParentMoves(l)
      BY <1>3, <1>1, <2>1, <2>2, <2>3 DEF ParentMoves, Early, Told
    <3> QED
      BY <3>1 DEF Moves
  <2>4. CASE file # NoFile /\ IsTerminal(file) /\ Unlink(l)
    BY <2>1, <2>2, <2>4 DEF ParentTakes, Early, Moves
  <2>5. CASE GoParent(l, "probe") /\ UNCHANGED <<file, replaced>>
    <3>1. ParentMoves(l)
      BY <1>3, <1>1, <2>1, <2>2, <2>5 DEF ParentMoves, Early, Told
    <3> QED
      BY <3>1 DEF Moves
  <2> QED
    BY <1>5, <2>3, <2>4, <2>5 DEF Claim
<1>6. CASE Probe(l) \/ Probed(l)
  <2>1. ParentMoves(l)
    BY <1>3, <1>1, <1>6 DEF Probe, Probed, ParentMoves, Early, Told
  <2> QED
    BY <2>1 DEF Moves
<1>7. CASE Recheck(l)
  <2>1. parentPc[l] = "recheck" /\ \A k \in Launches : parentPc[k] # "reserve"
    BY <1>2, <1>7 DEF Recheck
  <2>2. UNCHANGED <<workerPc, svc, began>>
    BY <1>7 DEF Recheck
  <2>3. CASE file = NoFile /\ GoParent(l, "reserve") /\ UNCHANGED <<file, replaced>>
    <3>1. ParentMoves(l)
      BY <1>3, <1>1, <2>1, <2>2, <2>3 DEF ParentMoves, Early, Told
    <3> QED
      BY <3>1 DEF Moves
  <2>4. CASE file # NoFile /\ MayReplace(l) /\ Unlink(l)
    BY <2>1, <2>2, <2>4 DEF ParentTakes, MayReplace, Early, Moves
  <2>5. CASE GoParent(l, "refused") /\ UNCHANGED <<file, replaced>>
    <3>1. ParentMoves(l)
      BY <1>3, <1>1, <2>1, <2>2, <2>5 DEF ParentMoves, Early, Told
    <3> QED
      BY <3>1 DEF Moves
  <2> QED
    BY <1>7, <2>3, <2>4, <2>5 DEF Recheck
<1>8. CASE ReserveSession(l)
  BY <1>8 DEF Moves
<1>9. CASE Popen(l)
  <2>1. parentPc[l] = "spawn" /\ UNCHANGED <<file, svc, began, replaced>>
    BY <1>9 DEF Popen
  <2>2. CASE GoWorker(l, "load") /\ GoParent(l, "record")
    <3>1. ParentSpawns(l)
      BY <2>1, <2>2 DEF ParentSpawns, GoWorker
    <3> QED
      BY <3>1 DEF Moves
  <2>3. CASE GoParent(l, "fail") /\ UNCHANGED workerPc
    <3>1. ParentMoves(l)
      BY <1>3, <1>1, <2>1, <2>3 DEF ParentMoves, Early, Told
    <3> QED
      BY <3>1 DEF Moves
  <2> QED
    BY <1>9, <2>2, <2>3 DEF Popen
<1>10. CASE RecordWorker(l)
  <2>1. ParentWrites(l)
    BY <1>10 DEF RecordWorker, ParentWrites
  <2> QED
    BY <2>1 DEF Moves
<1>11. CASE WaitReady(l)
  <2>1. UNCHANGED <<file, workerPc, svc, began, replaced>>
    BY <1>11 DEF WaitReady
  <2>2. PICK pc \in {"quit", "failed", "ask", "poll"} :
          /\ parentPc' = [parentPc EXCEPT ![l] = pc]
          /\ pc = "ask" => Owned(l) /\ file.state \notin {"STARTING", "FAILED"}
    BY <1>11 DEF WaitReady, Owned
  <2>3. pc = "ask" => Owned(l) /\ file.state \in Shown
    BY <2>2, FileIsSession DEF Shown, Owned
  <2>4. ParentMoves(l)
    BY <1>3, <1>1, <2>1, <2>2, <2>3 DEF ParentMoves, Early, Told
  <2> QED
    BY <2>4 DEF Moves
<1>12. CASE Ask(l) \/ Asked(l) \/ Poll(l) \/ ReadyTimeout(l) \/ ParentCrash(l)
  <2>1. PICK pc \in {"asking", "ready", "poll", "wait", "fail", "late", "gone"} :
          /\ parentPc' = [parentPc EXCEPT ![l] = pc]
          /\ pc = "fail" => ~WorkerAlive(l)
          /\ pc \in Told => parentPc[l] \in Told
    BY <1>12 DEF Ask, Asked, Poll, ReadyTimeout, ParentCrash, Told
  <2>2. UNCHANGED <<file, workerPc, svc, began, replaced>>
    BY <1>12 DEF Ask, Asked, Poll, ReadyTimeout, ParentCrash
  <2>3. ParentMoves(l)
    BY <1>3, <1>1, <2>1, <2>2 DEF ParentMoves, Early
  <2> QED
    BY <2>3 DEF Moves
<1>13. CASE StopBackgroundProcess(l)
  <2>1. UNCHANGED <<file, began, replaced>>
    BY <1>13 DEF StopBackgroundProcess
  <2>2. CASE /\ ~WorkerAlive(l)
             /\ GoParent(l, IF parentPc[l] = "quit" THEN "failed" ELSE "fail")
             /\ UNCHANGED <<workers, requests, reply>>
    <3>1. ParentMoves(l)
      BY <1>3, <1>1, <2>1, <2>2 DEF ParentMoves, Early, Told
    <3> QED
      BY <3>1 DEF Moves
  <2>3. CASE WorkerAlive(l) /\ Dies(l) /\ UNCHANGED parentPc
    <3>1. WorkerMoves(l)
      BY <2>1, <2>3 DEF WorkerMoves, Dies, GoWorker, WorkerPcs, States
    <3> QED
      BY <3>1 DEF Moves
  <2> QED
    BY <1>13, <2>2, <2>3 DEF StopBackgroundProcess
<1>14. CASE ParentFails(l)
  <2>1. ParentWrites(l)
    BY <1>14 DEF ParentFails, ParentWrites
  <2> QED
    BY <2>1 DEF Moves
<1> QED
  BY <1>4, <1>5, <1>6, <1>7, <1>8, <1>9, <1>10, <1>11, <1>12, <1>13, <1>14 DEF ParentStep

LEMMA WorkerMovesCases ==
    ASSUME TypeOK, NEW l \in Launches,
           WorkerStep(l) \/ Interrupt(l) \/ WorkerCrash(l)
           \/ WatchBegins(l) \/ WatchEnds(l) \/ WatchStops(l)
    PROVE  Moves(l)
<1> USE DEF parents, workers, service, serving, clients, history
<1>1. {"activate", "starting", "first", "serve", "terminate", "disp", "loop", "final", "abort",
       "fail", "dead"} \subseteq WorkerPcs \ {"none"}
  BY DEF WorkerPcs
<1>2. /\ {"IDLE", "FAILED", "ACTIVATED", "RUNNING"} \cup Over \subseteq States
      /\ Terminal \subseteq Over
      /\ svc[l] \in States
      /\ workerPc[l] \in WorkerPcs
      /\ svc = [svc EXCEPT ![l] = svc[l]]
      /\ workerPc = [workerPc EXCEPT ![l] = workerPc[l]]
  BY DEF States, Operating, Terminal, TypeOK, Over
<1>3. ASSUME WorkerAlive(l), Dies(l), UNCHANGED <<file, parentPc, began, replaced>>
      PROVE  WorkerMoves(l)
  BY <1>1, <1>2, <1>3 DEF WorkerMoves, Dies, GoWorker
<1>4. CASE Load(l)
  <2>1. PICK pc \in {"activate", "fail"} : workerPc' = [workerPc EXCEPT ![l] = pc]
    BY <1>4 DEF Load, Goes, GoWorker
  <2>2. WorkerMoves(l)
    BY <1>1, <1>2, <1>4, <2>1 DEF Load, Goes, WorkerMoves, WorkerAlive, Harmless
  <2> QED
    BY <2>2 DEF Moves
<1>5. CASE Activate(l)
  <2>1. PICK pc \in {"starting", "first", "abort"} : workerPc' = [workerPc EXCEPT ![l] = pc]
    BY <1>5 DEF Activate, Goes, GoWorker
  <2>2. PICK s \in States : svc' = [svc EXCEPT ![l] = s]
    BY <1>2, <1>5 DEF Activate, TerminateService
  <2>3. WorkerMoves(l)
    BY <1>1, <1>5, <2>1, <2>2 DEF Activate, WorkerMoves, WorkerAlive, Harmless
  <2> QED
    BY <2>3 DEF Moves
<1>6. CASE CmdStart(l)
  <2>1. PICK s \in States : svc' = [svc EXCEPT ![l] = s]
    BY <1>2, <1>6 DEF CmdStart
  <2>2. PICK pc \in {"first", "abort", "serve", "loop", "disp"} :
           workerPc' = [workerPc EXCEPT ![l] = pc]
    BY <1>6 DEF CmdStart, GoWorker, EndRequest
  <2>3. WorkerMoves(l)
    BY <1>1, <1>6, <2>1, <2>2 DEF CmdStart, WorkerMoves, WorkerAlive, Harmless
  <2> QED
    BY <2>3 DEF Moves
<1>7. CASE Loop(l)
  <2>1. PICK pc \in {"loop", "final"} : workerPc' = [workerPc EXCEPT ![l] = pc]
    BY <1>7 DEF Loop, Goes, GoWorker
  <2>2. WorkerMoves(l)
    BY <1>1, <1>2, <1>7, <2>1 DEF Loop, Goes, WorkerMoves, WorkerAlive, Harmless
  <2> QED
    BY <2>2 DEF Moves
<1>8. CASE Dispatch(l)
  <2>1. PICK r \in requests :
           \/ UNCHANGED workerPc
           \/ /\ r.command = "start" => svc[l] = "ACTIVATED"
              /\ GoWorker(l, [status |-> "disp", start |-> "starting",
                              terminate |-> "terminate"][r.command])
    BY <1>8 DEF Dispatch
  <2>2. r.command \in {"status", "start", "terminate"}
    BY DEF TypeOK, Requests
  <2>3. PICK pc \in {"serve", "disp", "starting", "terminate"} :
           /\ workerPc' = [workerPc EXCEPT ![l] = pc]
           /\ pc = "starting" => svc[l] = "ACTIVATED"
    BY <1>2, <1>8, <2>1, <2>2 DEF Dispatch, GoWorker
  <2>4. "ACTIVATED" \notin Over
    BY DEF Over, Terminal
  <2>5. WorkerMoves(l)
    BY <1>1, <1>2, <1>8, <2>3, <2>4 DEF Dispatch, WorkerMoves, WorkerAlive, Harmless
  <2> QED
    BY <2>5 DEF Moves
<1>9. CASE TerminateOnRequest(l)
  <2>1. PICK s \in Terminal : svc' = [svc EXCEPT ![l] = s]
    BY <1>9 DEF TerminateOnRequest, TerminateService
  <2>2. PICK pc \in {"disp", "serve", "loop"} : workerPc' = [workerPc EXCEPT ![l] = pc]
    BY <1>9 DEF TerminateOnRequest, EndRequest, GoWorker
  <2>3. WorkerMoves(l)
    BY <1>1, <1>2, <1>9, <2>1, <2>2 DEF TerminateOnRequest, WorkerMoves, WorkerAlive
  <2> QED
    BY <2>3 DEF Moves
<1>10. CASE Persisted(l)
  <2>1. /\ WorkerAlive(l) /\ Owned(l)
        /\ began' = began \cup {l}
        /\ UNCHANGED <<parentPc, replaced>>
    BY <1>10 DEF Persisted, WorkerAlive
  <2>2. \E p \in Ports : WriteOwnedSession(l, Worker(l), svc[l], p)
    BY <1>10 DEF Persisted
  <2>3. CASE Dies(l)
    BY <2>1, <2>2, <2>3 DEF WorkerPersists, Dies, GoWorker, Moves
  <2>4. CASE ~Dies(l)
    <3>1. UNCHANGED svc
      BY <1>10, <2>4 DEF Persisted
    <3>2. \E pc \in {"abort", "serve", "loop"} : workerPc' = [workerPc EXCEPT ![l] = pc]
      BY <1>10, <2>4 DEF Persisted, EndRequest, GoWorker
    <3> QED
      BY <2>1, <2>2, <3>1, <3>2 DEF WorkerPersists, Moves
  <2> QED
    BY <2>3, <2>4
<1>11. CASE PersistRaises(l)
  <2>1. PICK pc \in {"serve", "loop", "final", "abort"} :
           workerPc' = [workerPc EXCEPT ![l] = pc]
    BY <1>11 DEF PersistRaises, EndRequest, GoWorker
  <2>2. WorkerMoves(l)
    BY <1>1, <1>2, <1>11, <2>1 DEF PersistRaises, WorkerMoves, WorkerAlive, Harmless
  <2> QED
    BY <2>2 DEF Moves
<1>12. CASE Abort(l)
  <2>1. PICK s \in Terminal : svc' = [svc EXCEPT ![l] = s]
    BY <1>12 DEF Abort, TerminateService
  <2>2. WorkerMoves(l)
    BY <1>1, <1>2, <1>12, <2>1 DEF Abort, Goes, GoWorker, WorkerMoves, WorkerAlive
  <2> QED
    BY <2>2 DEF Moves
<1>13. CASE WorkerFails(l)
  <2>1. WorkerFailing(l)
    BY <1>13 DEF WorkerFails, WorkerFailing, WorkerAlive, Dies, GoWorker
  <2> QED
    BY <2>1 DEF Moves
<1>14. CASE Interrupt(l)
  <2>1. CASE Dies(l)
    BY <1>3, <1>14, <2>1 DEF Interrupt, Moves
  <2>2. CASE ~Dies(l)
    <3>1. PICK s \in Terminal : svc' = [svc EXCEPT ![l] = s]
      BY <1>14, <2>2 DEF Interrupt, TerminateService
    <3>2. WorkerMoves(l)
      BY <1>1, <1>2, <1>14, <2>2, <3>1 DEF Interrupt, GoWorker, WorkerMoves
    <3> QED
      BY <3>2 DEF Moves
  <2> QED
    BY <2>1, <2>2
<1>15. CASE WorkerCrash(l)
  BY <1>3, <1>15 DEF WorkerCrash, Moves
<1>16. CASE WatchBegins(l) \/ WatchEnds(l) \/ WatchStops(l)
  <2>1. WorkerAlive(l) /\ UNCHANGED <<file, parentPc, workerPc, began, replaced>>
    BY <1>16 DEF WatchBegins, WatchEnds, WatchStops
  <2>2. PICK s \in States : /\ svc' = [svc EXCEPT ![l] = s]
                            /\ svc[l] \in Over => s \in Over
    BY <1>2, <1>16 DEF WatchBegins, WatchEnds, WatchStops, Over
  <2>3. workerPc[l] \in WorkerPcs \ {"none"}
    BY <1>2, <2>1 DEF WorkerAlive
  <2>4. WorkerMoves(l)
    BY <1>2, <2>1, <2>2, <2>3 DEF WorkerMoves, Harmless
  <2> QED
    BY <2>4 DEF Moves
<1> QED
  BY <1>4, <1>5, <1>6, <1>7, <1>8, <1>9, <1>10, <1>11, <1>12, <1>13, <1>14, <1>15, <1>16
     DEF WorkerStep

LEMMA StepCases ==
    ASSUME TypeOK, [Next]_vars
    PROVE  Rests \/ \E l \in Launches : Moves(l)
<1>1. CASE \E l \in Launches : ParentStep(l) \/ ReadyTimeout(l) \/ ParentCrash(l)
  BY <1>1, ParentMovesCases
<1>2. CASE \E l \in Launches :
             \/ WorkerStep(l) \/ Interrupt(l) \/ WorkerCrash(l)
             \/ WatchBegins(l) \/ WatchEnds(l) \/ WatchStops(l)
  BY <1>2, WorkerMovesCases
<1>3. CASE \E l \in Launches : RequestTimeout(l)
  BY <1>3 DEF RequestTimeout, Rests, parents, service, history
<1>4. CASE \E c \in Ctls : CtlRead(c) \/ CtlSend(c)
  BY <1>4 DEF CtlRead, CtlSend, Rests, parents, workers, service, history
<1>5. CASE UNCHANGED vars
  BY <1>5 DEF vars, Rests, parents, workers, service, history
<1> QED
  BY <1>1, <1>2, <1>3, <1>4, <1>5 DEF Next

\* Writing its own session changes what is in it and not whose it is.
LEMMA WriteKeepsOwner ==
    ASSUME NEW l \in Launches, NEW pid, NEW state, NEW endpoint,
           WriteOwnedSession(l, pid, state, endpoint)
    PROVE  /\ \A k \in Launches : Owned(k)' <=> Owned(k)
           /\ Owned(l) => /\ file' # NoFile
                          /\ file'.id = l /\ file'.pid = pid /\ file'.state = state
           /\ ~Owned(l) => UNCHANGED file
<1>1. CASE Owned(l)
  <2>1. file' = [id |-> l, pid |-> pid, state |-> state, port |-> endpoint]
    BY <1>1 DEF WriteOwnedSession
  <2>2. file'.id = l /\ file'.pid = pid /\ file'.state = state
    BY <2>1
  <2>3. file' # NoFile
    BY <2>2, SessionAssumption DEF NoFile
  <2> QED
    BY <1>1, <2>2, <2>3 DEF Owned
<1>2. CASE ~Owned(l)
  BY <1>2 DEF WriteOwnedSession, Owned
<1> QED
  BY <1>1, <1>2

LEMMA ReserveWrites ==
    ASSUME NEW l \in Launches, ReserveSession(l)
    PROVE  /\ file' # NoFile
           /\ file'.id = l /\ file'.pid = Parent(l) /\ file'.state = "STARTING"
           /\ parentPc[l] = "reserve"
           /\ parentPc' = [parentPc EXCEPT ![l] = "spawn"]
           /\ UNCHANGED <<workerPc, svc, began, replaced>>
<1>1. file' = [id |-> l, pid |-> Parent(l), state |-> "STARTING", port |-> None]
  BY DEF ReserveSession
<1>2. file'.id = l /\ file'.pid = Parent(l) /\ file'.state = "STARTING"
  BY <1>1
<1>3. file' # NoFile
  BY <1>2, SessionAssumption DEF NoFile
<1> QED
  BY <1>2, <1>3 DEF ReserveSession, GoParent, workers, service, history

LEMMA InvInit == Init => SessionInv
<1> SUFFICES ASSUME Init PROVE SessionInv
  OBVIOUS
<1>1. Beginnings /\ PidOfSession /\ Reserving /\ Spawning
  BY DEF Init, Beginnings, PidOfSession, Reserving, Spawning, Told
<1>2. WorkerOfParent /\ Finished /\ Lost
  BY DEF Init, WorkerOfParent, Finished, Lost, WorkerAlive, Early
<1> QED
  BY <1>1, <1>2 DEF SessionInv

LEMMA BeginningsStep ==
    ASSUME TypeOK, SessionInv, NEW l \in Launches, Moves(l)
    PROVE  Beginnings'
<1> USE DEF SessionInv, Beginnings, Told
<1>1. began \subseteq began'
  BY DEF Moves, ParentMoves, ParentTakes, ReserveSession, ParentSpawns, ParentWrites,
         WorkerMoves, WorkerPersists, WorkerFailing, history
<1>2. \A k \in Launches : parentPc'[k] \in Told => k \in began'
  <2>1. CASE ParentMoves(l)
    <3>1. PICK pc \in ParentPcs :
             /\ parentPc' = [parentPc EXCEPT ![l] = pc]
             /\ pc \in Told => parentPc[l] \in Told \/ (Owned(l) /\ file.state \in Shown)
      BY <2>1 DEF ParentMoves
    <3> QED
      BY <1>1, <3>1 DEF Owned, TypeOK
  <2>2. CASE ParentTakes(l) \/ ReserveSession(l) \/ ParentSpawns(l) \/ ParentWrites(l)
    <3>1. PICK pc \in {"reserve", "spawn", "record", "wait", "raised", "failed"} :
             parentPc' = [parentPc EXCEPT ![l] = pc]
      BY <2>2 DEF ParentTakes, Unlink, GoParent, ReserveSession, ParentSpawns, ParentWrites
    <3> QED
      BY <1>1, <3>1 DEF TypeOK
  <2>3. CASE WorkerMoves(l) \/ WorkerPersists(l) \/ WorkerFailing(l)
    <3>1. UNCHANGED parentPc
      BY <2>3 DEF WorkerMoves, WorkerPersists, WorkerFailing
    <3> QED
      BY <1>1, <3>1
  <2> QED
    BY <2>1, <2>2, <2>3 DEF Moves
<1>3. file' # NoFile /\ file'.state \in Shown => file'.id \in began'
  <2>1. CASE ParentMoves(l) \/ ParentSpawns(l) \/ WorkerMoves(l)
    BY <1>1, <2>1 DEF ParentMoves, ParentSpawns, WorkerMoves
  <2>2. CASE ParentTakes(l)
    BY <2>2 DEF ParentTakes, Unlink
  <2>3. CASE ReserveSession(l)
    BY <2>3, ReserveWrites DEF Shown
  <2>4. CASE ParentWrites(l) \/ WorkerFailing(l)
    <3>1. UNCHANGED file \/ \E state \in {"STARTING", "FAILED"} :
             \E pid \in {Parent(l), Worker(l)} : WriteOwnedSession(l, pid, state, None)
      BY <2>4 DEF ParentWrites, WorkerFailing
    <3>2. UNCHANGED file \/ file'.state \in {"STARTING", "FAILED"}
      BY <3>1, WriteKeepsOwner
    <3> QED
      BY <1>1, <3>2 DEF Shown
  <2>5. CASE WorkerPersists(l)
    BY <2>5, WriteKeepsOwner DEF WorkerPersists
  <2> QED
    BY <2>1, <2>2, <2>3, <2>4, <2>5 DEF Moves
<1> QED
  BY <1>2, <1>3

LEMMA PidStep ==
    ASSUME TypeOK, SessionInv, NEW l \in Launches, Moves(l)
    PROVE  PidOfSession'
<1> USE DEF SessionInv, PidOfSession
<1>1. CASE UNCHANGED file
  BY <1>1 DEF Parent, Worker
<1>2. CASE ParentTakes(l)
  BY <1>2 DEF ParentTakes, Unlink
<1>3. CASE ReserveSession(l)
  BY <1>3, ReserveWrites
<1>4. CASE ParentWrites(l) \/ WorkerFailing(l) \/ WorkerPersists(l)
  <2>1. UNCHANGED file \/ \E state \in States \cup {"STARTING", "FAILED"} :
           \E pid \in {Parent(l), Worker(l)}, p \in Ports \cup {None} :
              WriteOwnedSession(l, pid, state, p)
    <3>1. svc[l] \in States
      BY DEF TypeOK
    <3> QED
      BY <1>4, <3>1 DEF ParentWrites, WorkerFailing, WorkerPersists
  <2>2. UNCHANGED file \/ (file'.id = l /\ file'.pid \in {Parent(l), Worker(l)})
    BY <2>1, WriteKeepsOwner
  <2> QED
    BY <1>1, <2>2 DEF Parent, Worker
<1> QED
  BY <1>1, <1>2, <1>3, <1>4 DEF Moves, ParentMoves, ParentSpawns, WorkerMoves

LEMMA ReservingStep ==
    ASSUME TypeOK, SessionInv, NEW l \in Launches, Moves(l)
    PROVE  Reserving'
<1> USE DEF SessionInv, Reserving
<1>1. CASE ParentMoves(l)
  <2>1. PICK pc \in ParentPcs :
           /\ parentPc' = [parentPc EXCEPT ![l] = pc]
           /\ pc = "reserve" => file = NoFile /\ \A k \in Launches : parentPc[k] # "reserve"
           /\ UNCHANGED file
    BY <1>1 DEF ParentMoves
  <2> QED
    BY <2>1 DEF TypeOK
<1>2. CASE ParentTakes(l)
  <2>1. /\ file' = NoFile
        /\ parentPc' = [parentPc EXCEPT ![l] = "reserve"]
        /\ \A k \in Launches : parentPc[k] # "reserve"
    BY <1>2 DEF ParentTakes, Unlink, GoParent
  <2> QED
    BY <2>1 DEF TypeOK
<1>3. CASE ReserveSession(l)
  <2>1. /\ parentPc[l] = "reserve"
        /\ parentPc' = [parentPc EXCEPT ![l] = "spawn"]
    BY <1>3, ReserveWrites
  <2>2. \A k \in Launches : parentPc'[k] # "reserve"
    BY <2>1 DEF TypeOK
  <2> QED
    BY <2>2
<1>4. CASE ParentSpawns(l) \/ ParentWrites(l)
  <2>1. PICK pc \in {"record", "wait", "raised", "failed"} :
           parentPc' = [parentPc EXCEPT ![l] = pc]
    BY <1>4 DEF ParentSpawns, ParentWrites
  <2>2. \A k \in Launches : parentPc'[k] = "reserve" => parentPc[k] = "reserve"
    BY <2>1 DEF TypeOK
  <2>3. file = NoFile => file' = NoFile
    BY <1>4 DEF ParentSpawns, ParentWrites, WriteOwnedSession, Owned
  <2> QED
    BY <2>2, <2>3
<1>5. CASE WorkerMoves(l) \/ WorkerPersists(l) \/ WorkerFailing(l)
  <2>1. UNCHANGED parentPc /\ (file = NoFile => file' = NoFile)
    BY <1>5 DEF WorkerMoves, WorkerPersists, WorkerFailing, WriteOwnedSession, Owned
  <2> QED
    BY <2>1
<1> QED
  BY <1>1, <1>2, <1>3, <1>4, <1>5 DEF Moves

\* A claim does not take the file from a parent about to spawn.
LEMMA TakesNotSpawning ==
    ASSUME SessionInv, NEW l \in Launches, ParentTakes(l)
    PROVE  \A k \in Launches : parentPc[k] # "spawn"
<1> SUFFICES ASSUME NEW k \in Launches, parentPc[k] = "spawn" PROVE FALSE
  OBVIOUS
<1>1. file.pid = Parent(k) /\ file.state = "STARTING"
  BY DEF SessionInv, Spawning
<1>2. ~IsTerminal(file)
  BY <1>1 DEF IsTerminal, Terminal
<1>3. IsProcessAlive(Parent(k))
  BY DEF IsProcessAlive, Parent, ParentAlive, ParentEnds
<1> QED
  BY <1>1, <1>2, <1>3 DEF ParentTakes

LEMMA SpawningStep ==
    ASSUME TypeOK, SessionInv, NEW l \in Launches, Moves(l)
    PROVE  Spawning'
<1> USE DEF SessionInv, Spawning
<1>1. CASE ParentMoves(l)
  <2>1. PICK pc \in ParentPcs \ {"spawn"} :
           parentPc' = [parentPc EXCEPT ![l] = pc] /\ UNCHANGED file
    BY <1>1 DEF ParentMoves
  <2> QED
    BY <2>1 DEF TypeOK, Owned
<1>2. CASE ParentTakes(l)
  <2>1. parentPc' = [parentPc EXCEPT ![l] = "reserve"]
    BY <1>2 DEF ParentTakes, Unlink, GoParent
  <2>2. \A k \in Launches : parentPc'[k] # "spawn"
    BY <1>2, <2>1, TakesNotSpawning DEF TypeOK
  <2> QED
    BY <2>2
<1>3. CASE ReserveSession(l)
  <2>1. /\ file' # NoFile /\ file'.id = l /\ file'.pid = Parent(l) /\ file'.state = "STARTING"
        /\ parentPc[l] = "reserve"
        /\ parentPc' = [parentPc EXCEPT ![l] = "spawn"]
    BY <1>3, ReserveWrites
  <2>2. file = NoFile
    BY <2>1 DEF Reserving
  <2>3. \A k \in Launches : parentPc'[k] = "spawn" => k = l
    BY <2>1, <2>2 DEF TypeOK, Owned
  <2> QED
    BY <2>1, <2>3 DEF Owned
<1>4. CASE ParentSpawns(l)
  <2>1. \A k \in Launches : parentPc'[k] = "spawn" => parentPc[k] = "spawn"
    BY <1>4 DEF ParentSpawns, TypeOK
  <2> QED
    BY <1>4, <2>1 DEF ParentSpawns, Owned
<1>5. CASE ParentWrites(l)
  <2>1. PICK pc \in {"wait", "raised", "failed"} : parentPc' = [parentPc EXCEPT ![l] = pc]
    BY <1>5 DEF ParentWrites
  <2>2. \A k \in Launches : parentPc'[k] = "spawn" => parentPc[k] = "spawn" /\ k # l
    BY <2>1 DEF TypeOK
  <2>3. UNCHANGED file \/ Owned(l)
    BY <1>5, WriteKeepsOwner DEF ParentWrites
  <2>4. Owned(l) => \A k \in Launches : parentPc'[k] # "spawn"
    BY <2>2 DEF Owned
  <2> QED
    BY <2>2, <2>3, <2>4 DEF Owned
<1>6. CASE WorkerMoves(l) \/ WorkerPersists(l) \/ WorkerFailing(l)
  <2>1. UNCHANGED parentPc /\ (UNCHANGED file \/ Owned(l)) /\ WorkerAlive(l)
    BY <1>6, WriteKeepsOwner DEF WorkerMoves, WorkerPersists, WorkerFailing
  <2>2. parentPc[l] # "spawn"
    BY <2>1 DEF WorkerOfParent, WorkerAlive
  <2>3. Owned(l) => \A k \in Launches : parentPc[k] # "spawn"
    BY <2>2 DEF Owned
  <2> QED
    BY <2>1, <2>3 DEF Owned
<1> QED
  BY <1>1, <1>2, <1>3, <1>4, <1>5, <1>6 DEF Moves

LEMMA WorkerOfParentStep ==
    ASSUME TypeOK, SessionInv, NEW l \in Launches, Moves(l)
    PROVE  WorkerOfParent'
<1> USE DEF SessionInv, WorkerOfParent, Early
<1>1. CASE ParentMoves(l)
  <2>1. PICK pc \in ParentPcs \ {"spawn"} :
           /\ parentPc' = [parentPc EXCEPT ![l] = pc]
           /\ pc \in Early => parentPc[l] \in Early
           /\ pc = "fail" => ~WorkerAlive(l) \/ parentPc[l] = "spawn"
           /\ UNCHANGED workerPc
    BY <1>1 DEF ParentMoves
  <2>2. pc = "fail" => ~WorkerAlive(l)
    BY <2>1 DEF WorkerAlive
  <2> QED
    BY <2>1, <2>2 DEF TypeOK, WorkerAlive
<1>2. CASE ParentTakes(l) \/ ReserveSession(l)
  <2>1. PICK pc \in {"reserve", "spawn"} :
           /\ parentPc' = [parentPc EXCEPT ![l] = pc]
           /\ parentPc[l] \in Early
           /\ UNCHANGED workerPc
    BY <1>2, ReserveWrites DEF ParentTakes, Unlink, GoParent
  <2> QED
    BY <2>1 DEF TypeOK, WorkerAlive
<1>3. CASE ParentSpawns(l)
  BY <1>3 DEF ParentSpawns, TypeOK, WorkerAlive
<1>4. CASE ParentWrites(l)
  <2>1. PICK pc \in {"wait", "raised", "failed"} :
           parentPc' = [parentPc EXCEPT ![l] = pc] /\ UNCHANGED workerPc
    BY <1>4 DEF ParentWrites
  <2> QED
    BY <2>1 DEF TypeOK, WorkerAlive
<1>5. CASE WorkerMoves(l) \/ WorkerPersists(l) \/ WorkerFailing(l)
  <2>1. PICK pc : workerPc' = [workerPc EXCEPT ![l] = pc]
    BY <1>5 DEF WorkerMoves, WorkerPersists, WorkerFailing
  <2>2. UNCHANGED parentPc /\ WorkerAlive(l)
    BY <1>5 DEF WorkerMoves, WorkerPersists, WorkerFailing
  <2>3. parentPc[l] \notin Early \cup {"spawn", "fail"}
    BY <2>2 DEF WorkerAlive
  <2> QED
    BY <2>1, <2>2, <2>3 DEF TypeOK, WorkerAlive
<1> QED
  BY <1>1, <1>2, <1>3, <1>4, <1>5 DEF Moves

\* Whoever is alive was alive, or is spawned by this step.
LEMMA AliveBefore ==
    ASSUME TypeOK, NEW l \in Launches, Moves(l), NEW k \in Launches, WorkerAlive(k)'
    PROVE  WorkerAlive(k) \/ (ParentSpawns(l) /\ k = l)
<1>1. CASE UNCHANGED workerPc
  BY <1>1 DEF WorkerAlive
<1>2. CASE ParentSpawns(l)
  BY <1>2 DEF ParentSpawns, TypeOK, WorkerAlive
<1>3. CASE WorkerMoves(l) \/ WorkerPersists(l) \/ WorkerFailing(l)
  <2>1. PICK pc : workerPc' = [workerPc EXCEPT ![l] = pc]
    BY <1>3 DEF WorkerMoves, WorkerPersists, WorkerFailing
  <2>2. WorkerAlive(l)
    BY <1>3 DEF WorkerMoves, WorkerPersists, WorkerFailing
  <2> QED
    BY <2>1, <2>2 DEF TypeOK, WorkerAlive
<1> QED
  BY <1>1, <1>2, <1>3, ReserveWrites DEF Moves, ParentMoves, ParentTakes, ParentWrites

\* A worker that was harmless and lives on is harmless.
LEMMA HarmlessStays ==
    ASSUME TypeOK, NEW l \in Launches, Moves(l), NEW k \in Launches,
           ~(ParentSpawns(l) /\ k = l), WorkerAlive(k)', Harmless(k)
    PROVE  Harmless(k)'
<1>1. CASE UNCHANGED <<workerPc, svc>>
  BY <1>1 DEF Harmless
<1>2. CASE ParentSpawns(l)
  BY <1>2 DEF ParentSpawns, Harmless, TypeOK
<1>3. CASE WorkerMoves(l)
  <2>1. PICK pc \in WorkerPcs \ {"none"}, s \in States :
           /\ workerPc' = [workerPc EXCEPT ![l] = pc]
           /\ svc' = [svc EXCEPT ![l] = s]
           /\ Harmless(l) /\ pc # "dead" => /\ s \in Over
                                            /\ pc \notin {"load", "activate", "starting"}
    BY <1>3 DEF WorkerMoves
  <2> QED
    BY <2>1 DEF TypeOK, Harmless, WorkerAlive
<1>4. CASE WorkerPersists(l)
  <2>1. CASE k = l
    BY <1>4, <2>1 DEF WorkerPersists, TypeOK, Harmless, WorkerAlive
  <2>2. CASE k # l
    <3>1. workerPc'[k] = workerPc[k] /\ svc'[k] = svc[k]
      BY <1>4, <2>2 DEF WorkerPersists, TypeOK
    <3> QED
      BY <3>1 DEF Harmless
  <2> QED
    BY <2>1, <2>2
<1>5. CASE WorkerFailing(l)
  BY <1>5 DEF WorkerFailing, TypeOK, Harmless, WorkerAlive
<1> QED
  BY <1>1, <1>2, <1>3, <1>4, <1>5, ReserveWrites
     DEF Moves, ParentMoves, ParentTakes, ParentWrites

LEMMA FinishedStep ==
    ASSUME TypeOK, SessionInv, NEW l \in Launches, Moves(l)
    PROVE  Finished'
<1> SUFFICES ASSUME NEW k \in Launches, WorkerAlive(k)', Owned(k)', IsTerminal(file)'
             PROVE  Harmless(k)'
  BY DEF Finished
<1>1. file'.id = k /\ file' # NoFile /\ file'.state \in Terminal
  BY DEF Owned, IsTerminal
<1>2. ~(ParentSpawns(l) /\ k = l)
  <2>1. ASSUME ParentSpawns(l), k = l PROVE FALSE
    <3>1. file.state = "STARTING" /\ UNCHANGED file
      BY <2>1 DEF ParentSpawns, SessionInv, Spawning
    <3> QED
      BY <1>1, <3>1 DEF Terminal
  <2> QED
    BY <2>1
<1>3. WorkerAlive(k)
  BY <1>2, AliveBefore
<1>4. CASE UNCHANGED file
  <2>1. Harmless(k)
    BY <1>3, <1>1, <1>4 DEF SessionInv, Finished, Owned, IsTerminal
  <2> QED
    BY <1>2, <2>1, HarmlessStays
<1>5. CASE ParentTakes(l)
  BY <1>1, <1>5 DEF ParentTakes, Unlink
<1>6. CASE ReserveSession(l)
  BY <1>1, <1>6, ReserveWrites DEF Terminal
<1>7. CASE ParentWrites(l)
  <2>1. PICK pid \in {Parent(l), Worker(l)} :
           WriteOwnedSession(l, pid, IF parentPc[l] = "record" THEN "STARTING" ELSE "FAILED", None)
    BY <1>7 DEF ParentWrites
  <2>2. CASE Owned(l)
    <3>1. k = l /\ file'.state = IF parentPc[l] = "record" THEN "STARTING" ELSE "FAILED"
      BY <1>1, <2>1, <2>2, WriteKeepsOwner
    <3>2. parentPc[l] = "fail"
      BY <1>1, <1>7, <3>1 DEF ParentWrites, Terminal
    <3> QED
      BY <1>3, <3>1, <3>2 DEF SessionInv, WorkerOfParent
  <2>3. CASE ~Owned(l)
    BY <1>4, <2>1, <2>3, WriteKeepsOwner
  <2> QED
    BY <2>2, <2>3
<1>8. CASE WorkerPersists(l)
  <2>1. k = l /\ file'.state = svc[l]
    BY <1>1, <1>8, WriteKeepsOwner DEF WorkerPersists
  <2>2. PICK pc \in {"abort", "serve", "loop"} :
           workerPc' = [workerPc EXCEPT ![l] = pc] /\ UNCHANGED svc
    BY <1>8, <2>1 DEF WorkerPersists, TypeOK, WorkerAlive
  <2> QED
    BY <1>1, <2>1, <2>2 DEF Harmless, Over, TypeOK
<1>9. CASE WorkerFailing(l)
  <2>1. CASE k = l
    BY <1>9, <2>1 DEF WorkerFailing, TypeOK, WorkerAlive
  <2>2. CASE k # l
    <3>1. UNCHANGED file \/ file'.id = l
      BY <1>9, WriteKeepsOwner DEF WorkerFailing
    <3> QED
      BY <1>1, <1>4, <2>2, <3>1
  <2> QED
    BY <2>1, <2>2
<1> QED
  BY <1>4, <1>5, <1>6, <1>7, <1>8, <1>9 DEF Moves, ParentMoves, ParentSpawns, WorkerMoves

LEMMA LostStep ==
    ASSUME TypeOK, SessionInv, NEW l \in Launches, Moves(l)
    PROVE  Lost'
<1> SUFFICES ASSUME NEW k \in Launches, WorkerAlive(k)', ~Owned(k)'
             PROVE  Harmless(k)' \/ Taken(k)'
  BY DEF Lost
<1>1. ~(ParentSpawns(l) /\ k = l)
  <2>1. ASSUME ParentSpawns(l), k = l PROVE FALSE
    <3>1. Owned(k) /\ UNCHANGED file
      BY <2>1 DEF ParentSpawns, SessionInv, Spawning
    <3> QED
      BY <3>1 DEF Owned
  <2> QED
    BY <2>1
<1>2. WorkerAlive(k)
  BY <1>1, AliveBefore
<1>3. replaced \subseteq replaced'
  BY ReserveWrites DEF Moves, ParentMoves, ParentTakes, Unlink, ParentSpawns, ParentWrites,
         WorkerMoves, WorkerPersists, WorkerFailing
<1>4. CASE ~Owned(k)
  <2>1. CASE Harmless(k)
    BY <1>1, <2>1, HarmlessStays
  <2>2. CASE Taken(k)
    BY <1>3, <2>2 DEF Taken
  <2> QED
    BY <1>2, <1>4, <2>1, <2>2 DEF SessionInv, Lost
<1>5. CASE Owned(k)
  <2>1. ParentTakes(l)
    <3>1. CASE UNCHANGED file
      BY <1>5, <3>1 DEF Owned
    <3>2. CASE ReserveSession(l)
      <4>1. file = NoFile
        BY <3>2, ReserveWrites DEF SessionInv, Reserving
      <4> QED
        BY <1>5, <4>1 DEF Owned
    <3>3. CASE ParentWrites(l) \/ WorkerPersists(l) \/ WorkerFailing(l)
      <4>1. UNCHANGED file \/ (Owned(k)' <=> Owned(k))
        BY <3>3, WriteKeepsOwner DEF ParentWrites, WorkerPersists, WorkerFailing
      <4> QED
        BY <1>5, <3>1, <4>1
    <3> QED
      BY <3>1, <3>2, <3>3 DEF Moves, ParentMoves, ParentSpawns, WorkerMoves
  <2>2. file # NoFile /\ file.id = k
    BY <1>5 DEF Owned
  <2>3. CASE IsTerminal(file)
    <3>1. Harmless(k)
      BY <1>2, <1>5, <2>3 DEF SessionInv, Finished
    <3> QED
      BY <1>1, <3>1, HarmlessStays
  <2>4. CASE ~IsTerminal(file)
    <3>1. ~IsProcessAlive(file.pid)
      BY <2>1, <2>4 DEF ParentTakes
    <3>2. IsProcessAlive(Worker(k))
      BY <1>2 DEF IsProcessAlive, Worker
    <3>3. file.pid = Parent(k)
      BY <2>2, <3>1, <3>2 DEF SessionInv, PidOfSession
    <3>4. [id |-> k, pid |-> file.pid, svc |-> svc[k]] \in replaced'
      BY <1>2, <2>1, <2>2, <2>4 DEF ParentTakes, Unlink
    <3> QED
      BY <3>3, <3>4 DEF Taken
  <2> QED
    BY <2>3, <2>4
<1> QED
  BY <1>4, <1>5

\* A step that no part of the invariant looks at.
LEMMA RestStep == SessionInv /\ Rests => SessionInv'
<1> SUFFICES ASSUME SessionInv, Rests PROVE SessionInv'
  OBVIOUS
<1> USE DEF SessionInv, Rests
<1>1. Beginnings' /\ Reserving'
  BY DEF Beginnings, Reserving
<1>2. PidOfSession' /\ Spawning'
  BY DEF PidOfSession, Spawning, Owned
<1>3. WorkerOfParent'
  BY DEF WorkerOfParent, WorkerAlive
<1>4. Finished' /\ Lost'
  BY DEF Finished, Lost, WorkerAlive, Owned, IsTerminal, Harmless, Taken
<1> QED
  BY <1>1, <1>2, <1>3, <1>4

LEMMA SessionStep == TypeOK /\ SessionInv /\ [Next]_vars => SessionInv'
<1> SUFFICES ASSUME TypeOK, SessionInv, [Next]_vars PROVE SessionInv'
  OBVIOUS
<1>1. CASE Rests
  BY <1>1, RestStep
<1>2. CASE \E l \in Launches : Moves(l)
  <2>1. PICK l \in Launches : Moves(l)
    BY <1>2
  <2> QED
    BY <2>1, BeginningsStep, PidStep, ReservingStep, SpawningStep, WorkerOfParentStep,
       FinishedStep, LostStep DEF SessionInv
<1> QED
  BY <1>1, <1>2, StepCases

LEMMA SessionInvHolds == Spec => [](TypeOK /\ SessionInv)
<1>1. Init => TypeOK /\ SessionInv
  BY TypeInit, InvInit
<1>2. TypeOK /\ SessionInv /\ [Next]_vars => (TypeOK /\ SessionInv)'
  BY TypeStep, SessionStep
<1> QED
  BY <1>1, <1>2, PTL DEF Spec

-----------------------------------------------------------------------------
(* The theorems.                                                           *)

\* A parent that returns 0 had the worker it spawned write the session before:
\* it asks only who it saw in its own session, past STARTING and not FAILED,
\* and such a session is the worker's.
THEOREM SuccessIsEarned == Spec => []SuccessMeansStarted
<1>1. SessionInv => SuccessMeansStarted
  BY DEF SessionInv, Beginnings, Told, SuccessMeansStarted
<1> QED
  BY <1>1, SessionInvHolds, PTL

\* Whose session file says TERMINATED or FAILED runs no assets: a request to
\* start is refused by then, and the parent writes FAILED only over a worker
\* that is not alive.
THEOREM TerminalSessionsAreOver == Spec => []TerminalIsOver
<1>1. TypeOK /\ SessionInv => TerminalIsOver
  <2> SUFFICES ASSUME TypeOK, SessionInv, file # NoFile, IsTerminal(file), Operates(file.id)
               PROVE  FALSE
    BY DEF TerminalIsOver
  <2>1. PICK k \in Launches : k = file.id
    BY FileIsSession
  <2>2. WorkerAlive(k) /\ svc[k] \in {"ACTIVATED", "RUNNING"}
    BY <2>1 DEF Operates
  <2>3. Harmless(k)
    BY <2>1, <2>2 DEF SessionInv, Finished, Owned
  <2> QED
    BY <2>2, <2>3 DEF Harmless, Over, Terminal
<1> QED
  BY <1>1, SessionInvHolds, PTL

\* Who lost a session that was not terminal while the worker lived had it name
\* the parent, and the parent had come back or died before it could record the
\* worker: nothing else makes a claim take a live session.
ReplacedAreOrphans == \A r \in replaced : r.pid = Parent(r.id) /\ ~ParentAlive(r.id)

LEMMA OrphansStep == TypeOK /\ SessionInv /\ ReplacedAreOrphans /\ [Next]_vars
                       => ReplacedAreOrphans'
<1> SUFFICES ASSUME TypeOK, SessionInv, ReplacedAreOrphans, [Next]_vars
             PROVE  ReplacedAreOrphans'
  OBVIOUS
<1>1. CASE Rests
  BY <1>1 DEF Rests, ReplacedAreOrphans, ParentAlive, Parent
<1>2. CASE \E l \in Launches : Moves(l)
  <2>1. PICK l \in Launches : Moves(l)
    BY <1>2
  <2>2. \A r \in replaced : ~ParentAlive(r.id)'
    <3> SUFFICES ASSUME NEW r \in replaced PROVE ~ParentAlive(r.id)'
      OBVIOUS
    <3>1. PICK k \in Launches : k = r.id
      BY DEF TypeOK
    <3>2. ~ParentAlive(k)
      BY <3>1 DEF ReplacedAreOrphans
    <3>3. parentPc'[k] = parentPc[k]
      <4>1. CASE UNCHANGED parentPc
        BY <4>1
      <4>2. CASE ParentAlive(l) /\ \E pc \in ParentPcs : parentPc' = [parentPc EXCEPT ![l] = pc]
        BY <3>2, <4>2 DEF TypeOK
      <4>3. CASE ParentMoves(l)
        BY <4>2, <4>3 DEF ParentMoves
      <4>4. CASE ParentTakes(l) \/ ReserveSession(l) \/ ParentSpawns(l) \/ ParentWrites(l)
        <5>1. parentPc[l] \in Early \cup {"spawn", "record", "fail"}
          BY <4>4, ReserveWrites DEF ParentTakes, ParentSpawns, ParentWrites, Early
        <5>2. ParentAlive(l)
          BY <5>1 DEF Early, ParentAlive, ParentEnds
        <5>3. \E pc \in ParentPcs : parentPc' = [parentPc EXCEPT ![l] = pc]
          BY <4>4, ReserveWrites DEF ParentTakes, Unlink, GoParent, ParentSpawns, ParentWrites,
             ParentPcs, ParentEnds
        <5> QED
          BY <4>2, <5>2, <5>3
      <4> QED
        BY <2>1, <4>1, <4>3, <4>4 DEF Moves, WorkerMoves, WorkerPersists, WorkerFailing
    <3> QED
      BY <3>1, <3>2, <3>3 DEF ParentAlive
  <2>3. CASE UNCHANGED replaced
    BY <2>2, <2>3 DEF ReplacedAreOrphans, Parent
  <2>4. CASE ParentTakes(l)
    <3>1. PICK k \in Launches : k = file.id
      BY <2>4, FileIsSession DEF ParentTakes
    <3>2. replaced' \subseteq replaced \cup {[id |-> k, pid |-> file.pid, svc |-> svc[k]]}
      BY <2>4, <3>1 DEF ParentTakes, Unlink
    <3>3. CASE WorkerAlive(k) /\ ~IsTerminal(file)
      <4>1. ~IsProcessAlive(file.pid) /\ file.pid \in {Parent(k), Worker(k)}
        BY <2>4, <3>1, <3>3 DEF ParentTakes, SessionInv, PidOfSession
      <4>2. file.pid = Parent(k) /\ ~ParentAlive(k)
        BY <3>3, <4>1 DEF IsProcessAlive, Parent, Worker
      <4>3. k # l
        BY <2>4, <4>2 DEF ParentTakes, Early, ParentAlive, ParentEnds
      <4>4. parentPc'[k] = parentPc[k]
        BY <2>4, <4>3 DEF ParentTakes, Unlink, GoParent, TypeOK
      <4>5. ~ParentAlive(k)'
        BY <4>2, <4>4 DEF ParentAlive
      <4>6. ASSUME NEW r \in replaced'
            PROVE  r.pid = Parent(r.id) /\ ~ParentAlive(r.id)'
        <5>1. CASE r \in replaced
          BY <2>2, <5>1 DEF ReplacedAreOrphans
        <5>2. CASE r \notin replaced
          <6>1. r.id = k /\ r.pid = file.pid
            BY <3>2, <4>6, <5>2
          <6> QED
            BY <4>2, <4>5, <6>1 DEF ParentAlive
        <5> QED
          BY <5>1, <5>2
      <4> QED
        BY <4>6 DEF ReplacedAreOrphans, Parent
    <3>4. CASE ~(WorkerAlive(k) /\ ~IsTerminal(file))
      <4>1. UNCHANGED replaced
        BY <2>4, <3>1, <3>4 DEF ParentTakes, Unlink
      <4> QED
        BY <2>3, <4>1
    <3> QED
      BY <3>3, <3>4
  <2> QED
    BY <2>1, <2>3, <2>4, ReserveWrites DEF Moves, ParentMoves, ParentSpawns, ParentWrites,
       WorkerMoves, WorkerPersists, WorkerFailing
<1> QED
  BY <1>1, <1>2, StepCases

\* With two launchers and no crash the exception is real: a parent that cannot
\* have the lock comes back without having recorded its worker.
THEOREM OnlyOrphansAreReplaced == Spec => []ReplacedAreOrphans
<1>1. Init => ReplacedAreOrphans
  BY DEF Init, ReplacedAreOrphans
<1> QED
  BY <1>1, OrphansStep, SessionInvHolds, PTL DEF Spec

\* Of two workers that run assets one does not have the file.  It lost it
\* while the file still named its parent and the parent was gone: the only way
\* for a claim to take the file from a worker that is not harmless.
THEOREM OneOperates == Spec => []OneLauncherOperates
<1>1. SessionInv => OneLauncherOperates
  <2> SUFFICES ASSUME SessionInv, NEW k \in Launches, NEW l \in Launches,
                      k # l, Operates(k), Operates(l)
               PROVE  \E r \in replaced : r.id \in {k, l} /\ r.pid = Parent(r.id)
    BY DEF OneLauncherOperates
  <2>1. PICK j \in {k, l} : ~Owned(j)
    BY DEF Owned
  <2>2. WorkerAlive(j) /\ svc[j] \in {"ACTIVATED", "RUNNING"}
    BY DEF Operates
  <2>3. ~Harmless(j)
    BY <2>2 DEF Harmless, Over, Terminal
  <2>4. Taken(j)
    BY <2>1, <2>2, <2>3 DEF SessionInv, Lost
  <2> QED
    BY <2>4 DEF Taken
<1> QED
  BY <1>1, SessionInvHolds, PTL

=============================================================================
