--------------------------- MODULE LauncherSession ---------------------------
(***************************************************************************)
(* Background sessions of the launcher.  A launch (--background) is a      *)
(* parent process, which claims the session file, spawns a worker and      *)
(* waits until it is ready, and the worker, which serves control requests  *)
(* on a local port and keeps the file up to date.  All launches here use   *)
(* one session file.  hako_launcher_ctl sends commands to whatever session *)
(* the file names.                                                         *)
(*                                                                         *)
(* A launch stands for its session id: id, token and pid are drawn anew    *)
(* for each of them and are checked together.  Ports are used again.       *)
(***************************************************************************)
EXTENDS Naturals

CONSTANTS
    Launches,    \* runs of hako_launcher --background, all on one session file
    Ctls,        \* runs of hako_launcher_ctl
    Commands,    \* commands the ctls may be given
    Modes,       \* values of --_background-mode
    Failing,     \* launches with an asset that may exit by itself
    Ports,       \* ports the system hands out
    None,        \* no port, no launch
    MaxCrashes   \* bound on the processes that die by themselves

Parent(l) == <<"parent", l>>
Worker(l) == <<"worker", l>>
Procs == {"parent", "worker"} \X Launches

ASSUME SessionAssumption ==
    /\ Commands \subseteq {"status", "start", "terminate"}
    /\ Modes \subseteq {"immediate", "activate-only"}
    /\ Failing \subseteq Launches
    /\ None \notin Launches \cup Ports
    /\ MaxCrashes \in Nat

Terminal == {"TERMINATED", "FAILED"}
Operating == {"ACTIVATED", "RUNNING", "TERMINATING"}
States == {"STARTING", "IDLE"} \cup Operating \cup Terminal
Sessions == [id : Launches, pid : Procs, state : States, port : Ports \cup {None}]
NoFile == [id |-> None]
Requests == [to : Launches, id : Launches, command : {"status", "start", "terminate"},
             from : Launches \cup {None}]

VARIABLES
    file,       \* the session file
    mode,       \* per launch: its mode
    parentPc,   \* per launch: place of the parent
    observed,   \* per launch: the session id its claim saw
    workerPc,   \* per launch: place of the worker
    svc,        \* per launch: state of the worker's LauncherService
    watch,      \* per launch: the watch thread of an asset that may exit: off, on, or
                \* in terminate()
    port,       \* per launch: the port the worker listens on
    last,       \* per launch: _last_persisted_state
    stopping,   \* per launch: stop_requested
    raised,     \* per launch: an exception is leaving serve_until_terminated()
    client,     \* per launch: the parent whose request is being dispatched
    answer,     \* per launch: the answer it will get
    ctlPc,      \* per ctl: its place
    requests,   \* requests sent and not taken yet
    reply,      \* per launch: the answer its parent got to its last request
    crashes,    \* processes that died by themselves
    \* History variables, read by properties only.
    began,      \* launches whose worker wrote its session
    replaced    \* sessions not terminal, removed by a claim while their worker lived

parents == <<mode, parentPc, observed>>
serving == <<port, last, stopping, raised, client, answer>>
service == <<svc, watch>>
workers == <<workerPc, service, serving>>
clients == <<ctlPc, requests, reply>>
history == <<began, replaced>>
vars == <<file, parents, workers, clients, crashes, history>>

ParentEnds == {"refused", "ready", "failed", "raised", "gone"}
ParentPcs == ParentEnds \cup
    {"claim", "reserve", "probe", "probing", "recheck", "spawn", "record",
     "wait", "poll", "ask", "asking", "quit", "late", "fail"}
WorkerPcs == {"none", "load", "activate", "starting", "first", "serve",
              "terminate", "disp", "loop", "final", "abort", "fail", "dead"}

TypeOK ==
    /\ file \in Sessions \cup {NoFile}
    /\ mode \in [Launches -> Modes]
    /\ parentPc \in [Launches -> ParentPcs]
    /\ observed \in [Launches -> Launches \cup {None}]
    /\ workerPc \in [Launches -> WorkerPcs]
    /\ svc \in [Launches -> States]
    /\ watch \in [Launches -> {"off", "on", "ending"}]
    /\ port \in [Launches -> Ports \cup {None}]
    /\ last \in [Launches -> States]
    /\ stopping \in [Launches -> BOOLEAN]
    /\ raised \in [Launches -> BOOLEAN]
    /\ client \in [Launches -> Launches \cup {None}]
    /\ answer \in [Launches -> {"ok", "error"}]
    /\ ctlPc \in [Ctls -> {"idle", "send", "done"}]
    /\ requests \subseteq Requests
    /\ reply \in [Launches -> {"none", "ok", "error"}]
    /\ crashes \in 0..MaxCrashes
    /\ began \subseteq Launches
    /\ replaced \subseteq [id : Launches, pid : Procs, svc : States]

Init ==
    /\ file = NoFile
    /\ mode \in [Launches -> Modes]
    /\ parentPc = [l \in Launches |-> "claim"]
    /\ observed = [l \in Launches |-> None]
    /\ workerPc = [l \in Launches |-> "none"]
    /\ svc = [l \in Launches |-> "IDLE"]
    /\ watch = [l \in Launches |-> "off"]
    /\ port = [l \in Launches |-> None]
    /\ last = [l \in Launches |-> "IDLE"]
    /\ stopping = [l \in Launches |-> FALSE]
    /\ raised = [l \in Launches |-> FALSE]
    /\ client = [l \in Launches |-> None]
    /\ answer = [l \in Launches |-> "ok"]
    /\ ctlPc = [c \in Ctls |-> "idle"]
    /\ requests = {}
    /\ reply = [l \in Launches |-> "none"]
    /\ crashes = 0
    /\ began = {}
    /\ replaced = {}

-----------------------------------------------------------------------------
(* Processes, the session lock, the control socket.                        *)

ParentAlive(l) == parentPc[l] \notin ParentEnds
WorkerAlive(l) == workerPc[l] \notin {"none", "dead"}
IsProcessAlive(p) == IF p[1] = "parent" THEN ParentAlive(p[2]) ELSE WorkerAlive(p[2])
IsTerminal(session) == session.state \in Terminal
Owned(l) == file # NoFile /\ file.id = l

GoParent(l, pc) == parentPc' = [parentPc EXCEPT ![l] = pc]
GoWorker(l, pc) == workerPc' = [workerPc EXCEPT ![l] = pc]

\* session_file_lock.  What is done under the lock is one step, except that a
\* claim may stop between unlink and link.  Who is at such a step may have the
\* lock already when another one asks for it.
AtLock(p) ==
    IF p[1] = "parent" THEN parentPc[p[2]] \in {"claim", "recheck", "reserve", "record", "fail"}
                       ELSE workerPc[p[2]] \in {"first", "loop", "disp", "final", "fail"}

SessionFileLock(p) ==
    /\ AtLock(p)
    /\ \A l \in Launches : parentPc[l] = "reserve" => p = Parent(l)

Busy(p) == AtLock(p) /\ \E q \in Procs \ {p} : AtLock(q)

\* mutant: the payload has no pid
MutWriteOwnedSession(l, pid, state, endpoint) ==
    file' = IF Owned(l) THEN [id |-> l, pid |-> None, state |-> state, port |-> endpoint]
                        ELSE file

WriteOwnedSession(l, pid, state, endpoint) ==
    file' = IF Owned(l) THEN [id |-> l, pid |-> pid, state |-> state, port |-> endpoint]
                        ELSE file

\* The connection closes without an answer to whoever waits for worker l.
HangsUp(l) ==
    LET Cut(p) == client[l] = p \/ \E r \in requests : r.to = l /\ r.from = p
    IN /\ reply' = [p \in Launches |-> IF Cut(p) THEN "error" ELSE reply[p]]
       /\ requests' = {r \in requests : r.to # l}

\* Worker l is gone, and with it its memory and its socket.
Dies(l) ==
    /\ GoWorker(l, "dead")
    /\ svc' = [svc EXCEPT ![l] = "IDLE"]
    /\ watch' = [watch EXCEPT ![l] = "off"]
    /\ port' = [port EXCEPT ![l] = None]
    /\ last' = [last EXCEPT ![l] = "IDLE"]
    /\ stopping' = [stopping EXCEPT ![l] = FALSE]
    /\ raised' = [raised EXCEPT ![l] = FALSE]
    /\ client' = [client EXCEPT ![l] = None]
    /\ answer' = [answer EXCEPT ![l] = "ok"]
    /\ HangsUp(l)

\* send_control_command reads the file again, and connects to the port in it.
\* The answer comes back to a parent; what a ctl prints of it is left out.
SendControlCommand(p, command) ==
    LET served == IF file = NoFile THEN {}
                  ELSE {l \in Launches : port[l] # None /\ port[l] = file.port}
    IN /\ requests' = requests \cup
            {[to |-> l, id |-> file.id, command |-> command, from |-> p] : l \in served}
       /\ reply' = IF p = None THEN reply
                   ELSE [reply EXCEPT ![p] = IF served = {} THEN "error" ELSE "none"]

Waiting(p) == /\ reply[p] = "none"
              /\ \/ \E r \in requests : r.from = p
                 \/ \E l \in Launches : client[l] = p

\* The client's timeout.  The worker still answers; a status nobody waits for
\* does no more than the loop around it does anyway.
RequestTimeout(p) ==
    /\ Waiting(p)
    /\ reply' = [reply EXCEPT ![p] = "error"]
    /\ requests' = {r \in requests : r.from # p}
    /\ client' = [l \in Launches |-> IF client[l] = p THEN None ELSE client[l]]
    /\ UNCHANGED <<file, parents, workerPc, service, port, last, stopping, raised, answer,
                   ctlPc, crashes, history>>
-----------------------------------------------------------------------------
(* The parent: _spawn_background.                                          *)

Unlink(l) ==
    /\ file' = NoFile
    /\ replaced' = replaced \cup
         {[id |-> k, pid |-> file.pid, svc |-> svc[k]] : k \in
            {k \in {file.id} : WorkerAlive(k) /\ ~IsTerminal(file)}}
    /\ GoParent(l, "reserve")

Claim(l) ==
    /\ parentPc[l] = "claim" /\ SessionFileLock(Parent(l))
    /\ \/ /\ file = NoFile
          /\ GoParent(l, "reserve")
          /\ UNCHANGED <<file, observed, replaced>>
       \/ /\ file # NoFile /\ IsTerminal(file)
          /\ Unlink(l)
          /\ UNCHANGED observed
       \/ /\ file # NoFile /\ ~IsTerminal(file)
          /\ observed' = [observed EXCEPT ![l] = file.id]
          /\ GoParent(l, "probe")
          /\ UNCHANGED <<file, replaced>>
    /\ UNCHANGED <<mode, workers, clients, crashes, began>>

Probe(l) ==
    /\ parentPc[l] = "probe"
    /\ SendControlCommand(l, "status")
    /\ GoParent(l, "probing")
    /\ UNCHANGED <<file, mode, observed, workers, ctlPc, crashes, history>>

Probed(l) ==
    /\ parentPc[l] = "probing" /\ reply[l] # "none"
    /\ GoParent(l, "recheck")
    /\ UNCHANGED <<file, mode, observed, workers, clients, crashes, history>>

\* mutant: an endpoint that does not answer is enough
MutMayReplace(l) == IsTerminal(file) \/ reply[l] = "error"

MayReplace(l) ==
    \/ IsTerminal(file)
    \/ reply[l] = "error" /\ ~IsProcessAlive(file.pid)

Recheck(l) ==
    /\ parentPc[l] = "recheck" /\ SessionFileLock(Parent(l))
    /\ \/ /\ file = NoFile
          /\ GoParent(l, "reserve")
          /\ UNCHANGED <<file, replaced>>
       \/ /\ file # NoFile /\ file.id = observed[l] /\ MayReplace(l)
          /\ Unlink(l)
       \/ /\ file # NoFile /\ (file.id # observed[l] \/ ~MayReplace(l))
          /\ GoParent(l, "refused")
          /\ UNCHANGED <<file, replaced>>
    /\ observed' = [observed EXCEPT ![l] = None]
    /\ reply' = [reply EXCEPT ![l] = "none"]
    /\ UNCHANGED <<mode, workers, ctlPc, requests, crashes, began>>

ReserveSession(l) ==
    /\ parentPc[l] = "reserve"
    /\ file' = [id |-> l, pid |-> Parent(l), state |-> "STARTING", port |-> None]
    /\ GoParent(l, "spawn")
    /\ UNCHANGED <<mode, observed, workers, clients, crashes, history>>

\* Someone else holds the lock: the parent does not wait for it.
ParentBusy(l) ==
    /\ parentPc[l] # "reserve" /\ Busy(Parent(l))
    /\ GoParent(l, IF parentPc[l] \in {"claim", "recheck"} THEN "refused" ELSE "raised")
    /\ observed' = [observed EXCEPT ![l] = None]
    /\ UNCHANGED <<file, mode, workers, clients, crashes, history>>

Popen(l) ==
    /\ parentPc[l] = "spawn"
    /\ \/ GoWorker(l, "load") /\ GoParent(l, "record")
       \/ GoParent(l, "fail") /\ UNCHANGED workerPc
    /\ UNCHANGED <<file, mode, observed, service, serving, clients, crashes, history>>

\* The STARTING session again, now with the worker's pid; no endpoint.
RecordWorker(l) ==
    /\ parentPc[l] = "record" /\ SessionFileLock(Parent(l))
    /\ WriteOwnedSession(l, Worker(l), "STARTING", None)
    /\ GoParent(l, IF Owned(l) THEN "wait" ELSE "raised")
    /\ UNCHANGED <<mode, observed, workers, clients, crashes, history>>

\* mutant: whose session it is does not matter
MutWaitReady(l) ==
    /\ parentPc[l] = "wait"
    /\ GoParent(l, CASE file # NoFile /\ file.state = "FAILED" -> "failed"
                     [] file # NoFile /\ file.state \notin {"STARTING", "FAILED"} -> "ask"
                     [] OTHER -> "poll")
    /\ UNCHANGED <<file, mode, observed, workers, clients, crashes, history>>

\* One turn of the wait for the worker; ask before sleeping if it looks ready.
WaitReady(l) ==
    /\ parentPc[l] = "wait"
    /\ GoParent(l, CASE file # NoFile /\ file.id # l -> "quit"
                     [] Owned(l) /\ file.state = "FAILED" -> "failed"
                     [] Owned(l) /\ file.state \notin {"STARTING", "FAILED"} -> "ask"
                     [] OTHER -> "poll")
    /\ UNCHANGED <<file, mode, observed, workers, clients, crashes, history>>

Ask(l) ==
    /\ parentPc[l] = "ask"
    /\ SendControlCommand(l, "status")
    /\ GoParent(l, "asking")
    /\ UNCHANGED <<file, mode, observed, workers, ctlPc, crashes, history>>

Asked(l) ==
    /\ parentPc[l] = "asking" /\ reply[l] # "none"
    /\ GoParent(l, IF reply[l] = "ok" THEN "ready" ELSE "poll")
    /\ reply' = [reply EXCEPT ![l] = "none"]
    /\ UNCHANGED <<file, mode, observed, workers, ctlPc, requests, crashes, history>>

Poll(l) ==
    /\ parentPc[l] = "poll"
    /\ GoParent(l, IF WorkerAlive(l) THEN "wait" ELSE "fail")
    /\ UNCHANGED <<file, mode, observed, workers, clients, crashes, history>>

\* mutant: the deadline counts only for a worker that has ended
MutReadyTimeout(l) ==
    /\ parentPc[l] = "wait" /\ ~WorkerAlive(l)
    /\ GoParent(l, "late")
    /\ UNCHANGED <<file, mode, observed, workers, clients, crashes, history>>

ReadyTimeout(l) ==
    /\ parentPc[l] = "wait"
    /\ GoParent(l, "late")
    /\ UNCHANGED <<file, mode, observed, workers, clients, crashes, history>>

\* mutant: the worker is not waited for, nor killed
MutStopBackgroundProcess(l) ==
    /\ parentPc[l] \in {"quit", "late"}
    /\ GoParent(l, IF parentPc[l] = "quit" THEN "failed" ELSE "fail")
    /\ UNCHANGED <<file, mode, observed, workers, clients, crashes, history>>

\* _stop_background_process: wait for the worker to end, kill it after a while.
StopBackgroundProcess(l) ==
    /\ parentPc[l] \in {"quit", "late"}
    /\ \/ /\ ~WorkerAlive(l)
          /\ GoParent(l, IF parentPc[l] = "quit" THEN "failed" ELSE "fail")
          /\ UNCHANGED <<workers, requests, reply>>
       \/ /\ WorkerAlive(l)
          /\ Dies(l)
          /\ UNCHANGED parentPc
    /\ UNCHANGED <<file, mode, observed, ctlPc, crashes, history>>

ParentFails(l) ==
    /\ parentPc[l] = "fail" /\ SessionFileLock(Parent(l))
    /\ WriteOwnedSession(l, IF workerPc[l] = "none" THEN Parent(l) ELSE Worker(l), "FAILED", None)
    /\ GoParent(l, IF Owned(l) THEN "failed" ELSE "raised")
    /\ UNCHANGED <<mode, observed, workers, clients, crashes, history>>
-----------------------------------------------------------------------------
(* The worker: _run_background_worker and its LauncherControlServer.       *)

Goes(l, pc) == GoWorker(l, pc) /\ UNCHANGED serving

\* The process starts and reads its launch file, or cannot.
Load(l) ==
    /\ workerPc[l] = "load"
    /\ \/ Goes(l, "activate")
       \/ Goes(l, "fail")
    /\ UNCHANGED <<file, parents, service, clients, crashes, history>>

\* service.terminate(): TERMINATED, or FAILED and an exception.
TerminateService(l) ==
    /\ \E s \in Terminal : svc' = [svc EXCEPT ![l] = s]
    /\ UNCHANGED watch

Activate(l) ==
    /\ workerPc[l] = "activate"
    /\ \/ /\ svc' = [svc EXCEPT ![l] = "ACTIVATED"]
          /\ watch' = [watch EXCEPT ![l] = IF l \in Failing THEN "on" ELSE "off"]
          /\ Goes(l, IF mode[l] = "immediate" THEN "starting" ELSE "first")
       \/ /\ TerminateService(l)
          /\ Goes(l, "abort")
    /\ UNCHANGED <<file, parents, clients, crashes, history>>

\* The end of a request: back in the loop, which persists what changed
\* before it looks at its condition.
EndRequest(l, a) ==
    /\ reply' = IF client[l] = None THEN reply ELSE [reply EXCEPT ![client[l]] = a]
    /\ client' = [client EXCEPT ![l] = None]
    /\ answer' = [answer EXCEPT ![l] = "ok"]
    /\ GoWorker(l, IF svc'[l] = last'[l] THEN "serve" ELSE "loop")

\* cmd("start") ends: RUNNING whatever hako-cmd returned and whatever the watch
\* thread did meanwhile, or an exception.  Before the port is bound it was
\* _run_background_worker that called it, afterwards a start request.
CmdStart(l) ==
    /\ workerPc[l] = "starting"
    /\ UNCHANGED <<watch, port, last, stopping, raised>>
    /\ \E outcome \in {"ok", "error", "raise"} :
          /\ svc' = IF outcome = "raise" THEN svc ELSE [svc EXCEPT ![l] = "RUNNING"]
          /\ IF port[l] = None
             THEN /\ GoWorker(l, IF outcome = "ok" THEN "first" ELSE "abort")
                  /\ UNCHANGED <<client, answer, reply>>
             ELSE IF outcome = "raise" THEN EndRequest(l, "error")
             ELSE /\ GoWorker(l, "disp")
                  /\ answer' = [answer EXCEPT ![l] = outcome]
                  /\ UNCHANGED <<client, reply>>
    /\ UNCHANGED <<file, parents, ctlPc, requests, crashes, history>>

\* handle_request() timed out, and the state has changed; or the loop ends.
Loop(l) ==
    /\ workerPc[l] = "serve"
    /\ \/ svc[l] # last[l] /\ Goes(l, "loop")
       \/ (stopping[l] \/ svc[l] = "TERMINATED") /\ Goes(l, "final")
    /\ UNCHANGED <<file, parents, service, clients, crashes, history>>

Verified(l, r) == r.id = l

\* handle_request() takes a request; dispatch() up to the command's own work.
Dispatch(l) ==
    /\ workerPc[l] = "serve" /\ ~stopping[l]
    /\ \E r \in requests :
          LET refused == ~Verified(l, r) \/ (r.command = "start" /\ svc[l] # "ACTIVATED")
              unchanged == r.command = "status" /\ svc[l] = last[l]
              place == [status |-> "disp", start |-> "starting", terminate |-> "terminate"]
          IN /\ r.to = l
             /\ requests' = requests \ {r}
             /\ IF refused \/ unchanged
                THEN /\ reply' = IF r.from = None THEN reply
                                 ELSE [reply EXCEPT ![r.from] = IF refused THEN "error" ELSE "ok"]
                     /\ UNCHANGED <<workerPc, client>>
                ELSE /\ client' = [client EXCEPT ![l] = r.from]
                     /\ GoWorker(l, place[r.command])
                     /\ UNCHANGED reply
    /\ UNCHANGED <<file, parents, service, port, last, stopping, raised, answer, ctlPc,
                   crashes, history>>

TerminateOnRequest(l) ==
    /\ workerPc[l] = "terminate"
    /\ TerminateService(l)
    /\ UNCHANGED <<port, last, raised>>
    /\ IF svc'[l] = "TERMINATED"
       THEN /\ stopping' = [stopping EXCEPT ![l] = TRUE]
            /\ GoWorker(l, "disp")
            /\ UNCHANGED <<client, answer, reply>>
       ELSE EndRequest(l, "error") /\ UNCHANGED stopping
    /\ UNCHANGED <<file, parents, ctlPc, requests, crashes, history>>

\* persist() gets the lock, and the file is still this session's.  At the first
\* one the server has its port.
Persisted(l) ==
    /\ workerPc[l] \in {"first", "loop", "disp", "final"}
    /\ SessionFileLock(Worker(l)) /\ Owned(l)
    /\ \E p \in Ports :
          /\ IF workerPc[l] = "first" THEN \A k \in Launches : port[k] # p ELSE p = port[l]
          /\ WriteOwnedSession(l, Worker(l), svc[l], p)
          /\ IF workerPc[l] = "final" /\ ~raised[l] THEN Dies(l) ELSE
             /\ port' = [port EXCEPT ![l] = p]
             /\ last' = [last EXCEPT ![l] = svc[l]]
             /\ UNCHANGED <<service, stopping, raised, requests>>
             /\ IF workerPc[l] = "disp" THEN EndRequest(l, answer[l]) ELSE
                /\ GoWorker(l, IF workerPc[l] = "final" THEN "abort" ELSE "serve")
                /\ UNCHANGED <<client, answer, reply>>
    /\ began' = began \cup {l}
    /\ UNCHANGED <<parents, ctlPc, crashes, replaced>>

\* mutant: a session that cannot be written is ignored
MutPersistRaises(l) ==
    /\ workerPc[l] \in {"first", "loop", "disp", "final"}
    /\ Busy(Worker(l)) \/ (SessionFileLock(Worker(l)) /\ ~Owned(l))
    /\ \E p \in Ports : /\ \A k \in Launches \ {l} : port[k] # p
                        /\ port' = [port EXCEPT ![l] = p]
    /\ last' = [last EXCEPT ![l] = svc[l]]
    /\ GoWorker(l, "serve")
    /\ UNCHANGED <<file, parents, service, stopping, raised, client, answer, clients, crashes,
                   history>>

\* No lock within a second, or the file is another session's: persist() raises.
PersistRaises(l) ==
    /\ workerPc[l] \in {"first", "loop", "disp", "final"}
    /\ Busy(Worker(l)) \/ (SessionFileLock(Worker(l)) /\ ~Owned(l))
    /\ raised' = [raised EXCEPT ![l] = workerPc[l] = "loop"]
    /\ UNCHANGED <<service, port, last, stopping>>
    /\ IF workerPc[l] = "disp" THEN EndRequest(l, "error") ELSE
       /\ GoWorker(l, IF workerPc[l] = "loop" THEN "final" ELSE "abort")
       /\ UNCHANGED <<client, answer, reply>>
    /\ UNCHANGED <<file, parents, ctlPc, requests, crashes, history>>

\* The exception handler of _run_background_worker.
Abort(l) ==
    /\ workerPc[l] = "abort"
    /\ TerminateService(l)
    /\ Goes(l, "fail")
    /\ UNCHANGED <<file, parents, clients, crashes, history>>

WorkerFails(l) ==
    /\ workerPc[l] = "fail"
    /\ \/ SessionFileLock(Worker(l)) /\ WriteOwnedSession(l, Worker(l), "FAILED", None)
       \/ Busy(Worker(l)) /\ UNCHANGED file
    /\ Dies(l)
    /\ UNCHANGED <<parents, ctlPc, crashes, history>>

\* SIGINT: terminate() and SystemExit.  Out of the loop it passes the last
\* persist(), from anywhere else it ends the process.
Interrupt(l) ==
    /\ parentPc[l] \in {"quit", "late"} /\ WorkerAlive(l)
    /\ IF port[l] # None /\ workerPc[l] \in {"starting", "terminate", "serve", "loop", "disp"}
       THEN /\ TerminateService(l)
            /\ GoWorker(l, "final")
            /\ raised' = [raised EXCEPT ![l] = FALSE]
            /\ reply' = IF client[l] = None THEN reply ELSE [reply EXCEPT ![client[l]] = "error"]
            /\ client' = [client EXCEPT ![l] = None]
            /\ answer' = [answer EXCEPT ![l] = "ok"]
            /\ UNCHANGED <<port, last, stopping, requests>>
       ELSE Dies(l)
    /\ UNCHANGED <<file, parents, ctlPc, crashes, history>>

\* The watch thread sees an asset gone.
WatchBegins(l) ==
    /\ WorkerAlive(l) /\ watch[l] = "on"
    /\ svc' = [svc EXCEPT ![l] = "TERMINATING"]
    /\ watch' = [watch EXCEPT ![l] = "ending"]
    /\ UNCHANGED <<file, parents, workerPc, serving, clients, crashes, history>>

WatchEnds(l) ==
    /\ WorkerAlive(l) /\ watch[l] = "ending"
    /\ \E s \in Terminal : svc' = [svc EXCEPT ![l] = s]
    /\ watch' = [watch EXCEPT ![l] = "off"]
    /\ UNCHANGED <<file, parents, workerPc, serving, clients, crashes, history>>

\* The watch thread sees that it is to stop.
WatchStops(l) ==
    /\ WorkerAlive(l) /\ watch[l] = "on" /\ svc[l] \in Terminal
    /\ watch' = [watch EXCEPT ![l] = "off"]
    /\ UNCHANGED <<file, parents, workerPc, svc, serving, clients, crashes, history>>
-----------------------------------------------------------------------------
(* hako_launcher_ctl, crashes, and the whole.                              *)

CtlRead(c) ==
    /\ ctlPc[c] = "idle"
    /\ ctlPc' = [ctlPc EXCEPT ![c] = IF file = NoFile THEN "done"
                                     ELSE IF IsTerminal(file) THEN "done" ELSE "send"]
    /\ UNCHANGED <<file, parents, workers, requests, reply, crashes, history>>

CtlSend(c) ==
    /\ ctlPc[c] = "send"
    /\ \E command \in Commands : SendControlCommand(None, command)
    /\ ctlPc' = [ctlPc EXCEPT ![c] = "done"]
    /\ UNCHANGED <<file, parents, workers, crashes, history>>

ParentCrash(l) ==
    /\ crashes < MaxCrashes /\ ParentAlive(l)
    /\ crashes' = crashes + 1
    /\ GoParent(l, "gone")
    /\ observed' = [observed EXCEPT ![l] = None]
    /\ UNCHANGED <<file, mode, workers, clients, history>>

WorkerCrash(l) ==
    /\ crashes < MaxCrashes /\ WorkerAlive(l)
    /\ crashes' = crashes + 1
    /\ Dies(l)
    /\ UNCHANGED <<file, parents, ctlPc, history>>

ParentStep(l) ==
    \/ ParentBusy(l)
    \/ Claim(l) \/ Probe(l) \/ Probed(l) \/ Recheck(l) \/ ReserveSession(l)
    \/ Popen(l) \/ RecordWorker(l) \/ WaitReady(l) \/ Ask(l) \/ Asked(l) \/ Poll(l)
    \/ StopBackgroundProcess(l) \/ ParentFails(l)

WorkerStep(l) ==
    \/ Load(l) \/ Activate(l) \/ CmdStart(l)
    \/ Loop(l) \/ Dispatch(l) \/ TerminateOnRequest(l)
    \/ Persisted(l) \/ PersistRaises(l) \/ Abort(l) \/ WorkerFails(l)

Next ==
    \/ \E l \in Launches :
          \/ ParentStep(l) \/ RequestTimeout(l) \/ ReadyTimeout(l) \/ ParentCrash(l)
          \/ WorkerStep(l) \/ Interrupt(l) \/ WorkerCrash(l)
          \/ WatchBegins(l) \/ WatchEnds(l) \/ WatchStops(l)
    \/ \E c \in Ctls : CtlRead(c) \/ CtlSend(c)

Spec == Init /\ [][Next]_vars

\* Each process goes on; a request times out; the wait for the worker has a
\* deadline, which passes however often the parent polls.
Fairness ==
    /\ \A l \in Launches : /\ WF_vars(ParentStep(l)) /\ SF_vars(ReadyTimeout(l))
                           /\ WF_vars(RequestTimeout(l)) /\ WF_vars(WorkerStep(l))

LiveSpec == Spec /\ Fairness
-----------------------------------------------------------------------------
Operates(l) == WorkerAlive(l) /\ svc[l] \in {"ACTIVATED", "RUNNING"}

\* A session file that says TERMINATED or FAILED, which anyone may reuse and
\* no command reaches, is not the file of a worker that still runs its assets.
TerminalIsOver ==
    file # NoFile /\ IsTerminal(file) => ~Operates(file.id)

\* Two launchers never run assets on one session file, unless one's file named
\* its parent and the parent was gone when the other took the file.
OneLauncherOperates ==
    \A k, l \in Launches : k # l /\ Operates(k) /\ Operates(l) =>
        \E r \in replaced : r.id \in {k, l} /\ r.pid = Parent(r.id)

\* A launch that returns 0 had its worker write its own session first.
SuccessMeansStarted ==
    \A l \in Launches : parentPc[l] = "ready" => l \in began

\* Whatever the others do, a launch comes back (or its parent is killed).
LaunchReturns ==
    \A l \in Launches : parentPc[l] = "claim" ~> parentPc[l] \in ParentEnds

\* A worker whose session was taken from it ends: its first persist() fails.
ReplacedEnds ==
    \A l \in Launches :
        (\E r \in replaced : r.id = l) ~> workerPc[l] = "dead"

\* The worker serves, and its file says where no longer: its parent, slower than
\* the worker, put the STARTING session over the worker's.
Unreachable(l) == Owned(l) /\ file.port = None /\ port[l] # None

\* It does not stay so: the worker writes the file again when its state changes,
\* or the parent, while it lives, gives up waiting and stops the worker.
UnreachableEnds ==
    \A l \in Launches : Unreachable(l) ~> ~Unreachable(l) \/ parentPc[l] = "gone"

\* docs/launcher-background-lifecycle.md:54 "Starting with `--background` refuses
\* to overwrite a live session": one whose worker has its assets running.
RefusesLiveSession == \A r \in replaced : r.svc \notin Operating
=============================================================================
