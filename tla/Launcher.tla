------------------------------ MODULE Launcher ------------------------------
(***************************************************************************)
(* The launcher: LauncherService and its HakoMonitor, driven by the main   *)
(* thread of hako_launcher (--mode immediate, activate-only or serve), the *)
(* watch threads that activate() starts, and the SIGINT handler, which     *)
(* runs on the main thread between any two of its steps.                   *)
(*                                                                         *)
(* Each activation has a HakoMonitor of its own; they are numbered.  A     *)
(* process is its monitor's number, the asset it runs, and how often that  *)
(* monitor had started the asset before: start may be typed again.         *)
(***************************************************************************)
EXTENDS Naturals, FiniteSets

CONSTANTS
    Before,     \* assets with activation_timing before_start
    After,      \* assets with activation_timing after_start
    NoAsset,    \* no asset in hand
    Stubborn,   \* assets whose processes may survive SIGTERM and SIGKILL
    Modes,      \* values of --mode
    MaxGen,     \* bound on the activations
    MaxRuns     \* bound on the starts of an asset in an activation

Assets == Before \cup After
Gens == 1..MaxGen
Procs == Gens \X Assets \X (1..MaxRuns)
Main == <<"main", 0>>
Sig == <<"sigint", 0>>
Watch(g) == <<"watch", g>>
Threads == {Main, Sig} \cup {Watch(g) : g \in Gens}

ASSUME LauncherAssumption ==
    /\ IsFiniteSet(Assets)
    /\ Before \cap After = {}
    /\ NoAsset \notin Assets
    /\ Stubborn \subseteq Assets
    /\ Modes \subseteq {"immediate", "activate-only", "serve"}
    /\ MaxGen \in Nat \ {0}
    /\ MaxRuns \in Nat \ {0}

VARIABLES
    mode,       \* args.mode
    state,      \* LauncherService.state
    gen,        \* the current monitor; 0 before the first activation
    stop,       \* _stop_watch.is_set()
    status,     \* of every process
    listed,     \* the processes in the procs of their monitor
    aborted,    \* per monitor: _aborted
    cleaning,   \* per monitor: _cleanup_in_progress
    complete,   \* per monitor: _cleanup_complete
    mainPc,     \* place of the main thread
    toStart,    \* assets start_assets() has yet to start
    timing,     \* the timing start_assets() was given
    asset,      \* the asset being started
    watchPc,    \* per activation: place of its watch thread
    pc,         \* per thread: its place in terminate() or abort()
    via,        \* per thread: was abort() called by terminate()?
    mon,        \* per thread: the monitor it cleans up
    signalled,  \* SIGINT was delivered
    exited,     \* the launcher has exited
    \* History variables, read by properties only.
    late,       \* processes spawned after their monitor was aborted
    overtaken   \* activations reported TERMINATED by the terminate() of an earlier one

monitors == <<status, listed, aborted, cleaning, complete>>
starting == <<toStart, timing, asset>>
cleanup == <<pc, via, mon>>
history == <<late, overtaken>>
vars == <<mode, state, gen, stop, monitors, mainPc, starting, watchPc, cleanup, signalled, exited, history>>

MainPcs == {"command", "autostart", "check", "spawn", "settle", "aborting", "error", "undo",
            "fatal", "giveup", "watch", "activated", "cli", "cliStop", "cliReset", "running", "terminating"}

TypeOK ==
    /\ mode \in Modes
    /\ state \in {"IDLE", "ACTIVATING", "ACTIVATED", "RUNNING", "STOPPED",
                  "TERMINATING", "TERMINATED", "FAILED"}
    /\ gen \in Gens \cup {0}
    /\ stop \in BOOLEAN
    /\ status \in [Procs -> {"none", "alive", "dead"}]
    /\ listed \subseteq Procs
    /\ aborted \in [Gens -> BOOLEAN]
    /\ cleaning \in [Gens -> BOOLEAN]
    /\ complete \in [Gens -> BOOLEAN]
    /\ mainPc \in MainPcs
    /\ toStart \subseteq Assets
    /\ timing \in {"before", "after"}
    /\ asset \in Assets \cup {NoAsset}
    /\ watchPc \in [Gens -> {"off", "watching", "retry"}]
    /\ pc \in [Threads -> {"out", "abort", "wait", "terminate", "kill", "finish", "clean", "failed"}]
    /\ via \in [Threads -> BOOLEAN]
    /\ mon \in [Threads -> Gens \cup {0}]
    /\ \A t \in Threads : pc[t] = "out" <=> mon[t] = 0
    /\ signalled \in BOOLEAN
    /\ exited \in BOOLEAN
    /\ late \subseteq Procs
    /\ overtaken \subseteq Gens

Init ==
    /\ mode \in Modes
    /\ state = "IDLE"
    /\ gen = 0
    /\ stop = FALSE
    /\ status = [p \in Procs |-> "none"]
    /\ listed = {}
    /\ aborted = [g \in Gens |-> FALSE]
    /\ cleaning = [g \in Gens |-> FALSE]
    /\ complete = [g \in Gens |-> FALSE]
    /\ mainPc = "command"
    /\ toStart = {}
    /\ timing = "before"
    /\ asset = NoAsset
    /\ watchPc = [g \in Gens |-> "off"]
    /\ pc = [t \in Threads |-> "out"]
    /\ via = [t \in Threads |-> FALSE]
    /\ mon = [t \in Threads |-> 0]
    /\ signalled = FALSE
    /\ exited = FALSE
    /\ late = {}
    /\ overtaken = {}

ListedOf(g) == {p \in listed : p[1] = g}
AliveOf(g) == {p \in ListedOf(g) : status[p] = "alive"}
RunsOf(a) == Cardinality({p \in ListedOf(gen) : p[2] = a})

\* A process ends by itself; what it does after the launcher's exit is no
\* longer looked at.
AssetExits(p) ==
    /\ ~exited
    /\ status[p] = "alive"
    /\ status' = [status EXCEPT ![p] = "dead"]
    /\ UNCHANGED <<mode, state, gen, stop, listed, aborted, cleaning, complete, mainPc, starting,
                   watchPc, cleanup, signalled, exited, history>>

-----------------------------------------------------------------------------
(* LauncherService.terminate() and HakoMonitor.abort(), by any thread. *)

Goes(t, from, to) ==
    /\ pc[t] = from
    /\ pc' = [pc EXCEPT ![t] = to]

\* terminate() up to the call of abort(); before the first activation it only
\* reports that there is nothing to do.
Terminate(t) ==
    /\ Goes(t, "out", "abort")
    /\ state' = "TERMINATING"
    /\ stop' = TRUE
    /\ via' = [via EXCEPT ![t] = TRUE]
    /\ mon' = [mon EXCEPT ![t] = gen]

\* Mutant: terminate() goes on before the first activation.
MutNeverNothing == FALSE
NothingToTerminate == state = "IDLE"

Abort(t) ==
    /\ Goes(t, "out", "abort")
    /\ via' = [via EXCEPT ![t] = FALSE]
    /\ mon' = [mon EXCEPT ![t] = gen]

AbortFlag(t) ==
    /\ Goes(t, "abort", "wait")
    /\ aborted' = [aborted EXCEPT ![mon[t]] = TRUE]
    /\ UNCHANGED <<mode, state, gen, stop, status, listed, cleaning, complete, mainPc, starting,
                   watchPc, via, mon, signalled, exited, history>>

\* Mutant: a cleanup in progress is not waited for.
MutNoWait(g) == g \in Gens
MayClean(g) == ~cleaning[g]

\* Mutant: what an earlier cleanup left alive is not looked at again.
MutTrustEarlier(g) == complete[g] \/ aborted[g]
\* An earlier cleanup was complete and still is.
AlreadyClean(g) == complete[g] /\ AliveOf(g) = {}

\* Out of the wait: an earlier cleanup was enough, or this thread cleans up.
AbortProceed(t) ==
    LET g == mon[t]
    IN  /\ pc[t] = "wait"
        /\ MayClean(g)
        /\ \/ /\ AlreadyClean(g)
              /\ pc' = [pc EXCEPT ![t] = "clean"]
              /\ UNCHANGED cleaning
           \/ /\ ~AlreadyClean(g)
              /\ pc' = [pc EXCEPT ![t] = "terminate"]
              /\ cleaning' = [cleaning EXCEPT ![g] = TRUE]
        /\ UNCHANGED <<mode, state, gen, stop, status, listed, aborted, complete, mainPc, starting,
                       watchPc, via, mon, signalled, exited, history>>

\* A pass over the processes of the monitor: terminate() on each, then kill()
\* on each that is still alive.
Pass(t, from, to) ==
    /\ Goes(t, from, to)
    /\ \E survivors \in SUBSET {p \in AliveOf(mon[t]) : p[2] \in Stubborn} :
          status' = [p \in Procs |-> IF p \in AliveOf(mon[t]) \ survivors
                                     THEN "dead" ELSE status[p]]
    /\ UNCHANGED <<mode, state, gen, stop, listed, aborted, cleaning, complete, mainPc, starting,
                   watchPc, via, mon, signalled, exited, history>>

\* Mutant: abort() never reports survivors.
MutIgnoreSurvivors(g) == {}
Survivors(g) == AliveOf(g)

\* Mutant: a cleanup with survivors leaves the flag set.
MutFlagStays(g) == cleaning' = [cleaning EXCEPT ![g] = Survivors(g) # {}]
CleaningDone(g) == cleaning' = [cleaning EXCEPT ![g] = FALSE]

\* The survivors decide whether abort() returns or raises.
AbortFinish(t) ==
    LET g == mon[t]
    IN  /\ Goes(t, "finish", IF Survivors(g) = {} THEN "clean" ELSE "failed")
        /\ complete' = [complete EXCEPT ![g] = Survivors(g) = {}]
        /\ CleaningDone(g)
        /\ UNCHANGED <<mode, state, gen, stop, status, listed, aborted, mainPc, starting,
                       watchPc, via, mon, signalled, exited, history>>

\* Back in the caller of abort(); terminate() records how it ended.
Returned(t, result) ==
    /\ Goes(t, result, "out")
    /\ state' = IF ~via[t] THEN state
                ELSE IF result = "clean" THEN "TERMINATED" ELSE "FAILED"
    /\ overtaken' = IF via[t] /\ result = "clean" /\ mon[t] < gen
                    THEN overtaken \cup {gen} ELSE overtaken
    /\ via' = [via EXCEPT ![t] = FALSE]
    /\ mon' = [mon EXCEPT ![t] = 0]

CleanupStep(t) ==
    \/ AbortFlag(t)
    \/ AbortProceed(t)
    \/ Pass(t, "terminate", "kill")
    \/ Pass(t, "kill", "finish")
    \/ AbortFinish(t)

-----------------------------------------------------------------------------
(* The main thread. *)

MainGoes(from, to) ==
    /\ mainPc = from
    /\ pc[Main] = "out"
    /\ mainPc' = to

\* activate(), once in the modes without commands.
Activate ==
    /\ MainGoes("command", "check")
    /\ IF mode = "serve" THEN state \in {"IDLE", "TERMINATED"} ELSE state = "IDLE" /\ gen = 0
    /\ gen < MaxGen
    /\ gen' = gen + 1
    /\ state' = "ACTIVATING"
    /\ timing' = "before"
    /\ toStart' = Before
    /\ UNCHANGED <<mode, stop, monitors, asset, watchPc, cleanup, signalled, exited, history>>

\* Head of the loop of start_assets().
NextAsset ==
    /\ MainGoes("check", "spawn")
    /\ ~aborted[gen]
    /\ \E a \in toStart : asset' = a /\ toStart' = toStart \ {a}
    /\ UNCHANGED <<mode, state, gen, stop, monitors, timing, watchPc, cleanup, signalled, exited, history>>

AfterStartAssets == IF timing = "before" THEN "watch" ELSE "running"

NoMoreAssets ==
    /\ MainGoes("check", AfterStartAssets)
    /\ aborted[gen] \/ toStart = {}
    /\ UNCHANGED <<mode, state, gen, stop, monitors, starting, watchPc, cleanup, signalled, exited, history>>

\* The process is spawned and appended to procs.
Spawn ==
    LET p == <<gen, asset, RunsOf(asset) + 1>>
    IN  /\ MainGoes("spawn", "settle")
        /\ status' = [status EXCEPT ![p] = "alive"]
        /\ listed' = listed \cup {p}
        /\ late' = IF aborted[gen] THEN late \cup {p} ELSE late
        /\ UNCHANGED <<mode, state, gen, stop, aborted, cleaning, complete, starting, watchPc,
                       cleanup, signalled, exited, overtaken>>

\* The environment or the command of the asset is at fault: an exception.
SpawnFails ==
    /\ MainGoes("spawn", "error")
    /\ UNCHANGED <<mode, state, gen, stop, monitors, starting, watchPc, cleanup, signalled, exited, history>>

\* start_grace_sec and delay_sec have passed.
Settled ==
    /\ MainGoes("settle", "check")
    /\ asset' = NoAsset
    /\ UNCHANGED <<mode, state, gen, stop, monitors, toStart, timing, watchPc, cleanup, signalled, exited, history>>

\* The process ended within start_grace_sec.
StartFailed ==
    /\ MainGoes("settle", "aborting")
    /\ status[<<gen, asset, RunsOf(asset)>>] = "dead"
    /\ Abort(Main)
    /\ UNCHANGED <<mode, state, gen, stop, monitors, starting, watchPc, signalled, exited, history>>

\* abort("start_failed") returned, and start_assets() returns; or it raised.
StartAborted ==
    /\ mainPc = "aborting"
    /\ \/ Returned(Main, "clean") /\ mainPc' = AfterStartAssets
       \/ Returned(Main, "failed") /\ mainPc' = "error"
    /\ UNCHANGED <<mode, gen, stop, monitors, starting, watchPc, signalled, exited, late>>

\* An exception in start_assets(): activate() terminates and lets it go on.
UndoActivation ==
    /\ timing = "before"
    /\ MainGoes("error", "undo")
    /\ Terminate(Main)
    /\ UNCHANGED <<mode, gen, monitors, starting, watchPc, signalled, exited, history>>

Undone ==
    /\ mainPc = "undo"
    /\ Returned(Main, "clean") \/ Returned(Main, "failed")
    /\ mainPc' = "fatal"
    /\ UNCHANGED <<mode, gen, stop, monitors, starting, watchPc, signalled, exited, late>>

StartCmdRaises ==
    /\ timing = "after"
    /\ MainGoes("error", "fatal")
    /\ UNCHANGED <<mode, state, gen, stop, monitors, starting, watchPc, cleanup, signalled, exited, history>>

\* The exception reaches main(): serve prints it, the other modes terminate.
Fatal ==
    /\ \/ /\ mode = "serve"
          /\ MainGoes("fatal", "command")
          /\ UNCHANGED <<state, stop, cleanup>>
       \/ /\ mode # "serve"
          /\ MainGoes("fatal", "giveup")
          /\ Terminate(Main)
    /\ UNCHANGED <<mode, gen, monitors, starting, watchPc, signalled, exited, history>>

StartWatch ==
    /\ MainGoes("watch", "activated")
    /\ stop' = FALSE
    /\ watchPc' = [watchPc EXCEPT ![gen] = "watching"]
    /\ UNCHANGED <<mode, state, gen, monitors, starting, cleanup, signalled, exited, history>>

Activated ==
    /\ MainGoes("activated", IF mode = "immediate" THEN "autostart" ELSE "command")
    /\ state' = "ACTIVATED"
    /\ UNCHANGED <<mode, gen, stop, monitors, starting, watchPc, cleanup, signalled, exited, history>>

Commandable == state \in {"ACTIVATED", "RUNNING", "STOPPED"}

\* cmd() up to the call of hako-cmd, or refused.
Cmd ==
    /\ \/ Commandable /\ MainGoes("autostart", "cli")
       \/ ~Commandable /\ MainGoes("autostart", "command")
       \/ /\ mode = "serve"
          /\ Commandable
          /\ \/ (\A a \in After : RunsOf(a) < MaxRuns) /\ MainGoes("command", "cli")
             \/ MainGoes("command", "cliStop")
             \/ MainGoes("command", "cliReset")
    /\ UNCHANGED <<mode, state, gen, stop, monitors, starting, watchPc, cleanup, signalled, exited, history>>

\* hako-cmd start ends, with 0 or not, or cannot be run.
CliStart ==
    /\ \/ MainGoes("cli", "check") /\ timing' = "after" /\ toStart' = After
       \/ MainGoes("cli", "running") /\ UNCHANGED <<timing, toStart>>
       \/ MainGoes("cli", "fatal") /\ UNCHANGED <<timing, toStart>>
    /\ UNCHANGED <<mode, state, gen, stop, monitors, asset, watchPc, cleanup, signalled, exited, history>>

CmdDone ==
    /\ \/ MainGoes("running", "command") /\ state' = "RUNNING"
       \/ MainGoes("cliStop", "command") /\ state' = "STOPPED"
       \/ MainGoes("cliReset", "command") /\ state' = "ACTIVATED"
    /\ UNCHANGED <<mode, gen, stop, monitors, starting, watchPc, cleanup, signalled, exited, history>>

TerminateCommand ==
    /\ mode = "serve"
    /\ ~NothingToTerminate
    /\ MainGoes("command", "terminating")
    /\ Terminate(Main)
    /\ UNCHANGED <<mode, gen, monitors, starting, watchPc, signalled, exited, history>>

\* terminate is done, or raised; quit is done.
TerminateCommandDone ==
    /\ mainPc = "terminating"
    /\ mainPc' = "command"
    /\ \/ Returned(Main, "clean") /\ exited' \in BOOLEAN
       \/ Returned(Main, "failed") /\ UNCHANGED exited
    /\ UNCHANGED <<mode, gen, stop, monitors, starting, watchPc, signalled, late>>

\* End of the input: serve leaves, whatever still runs.
EndOfInput ==
    /\ mode = "serve"
    /\ MainGoes("command", "command")
    /\ exited' = TRUE
    /\ UNCHANGED <<mode, state, gen, stop, monitors, starting, watchPc, cleanup, signalled, history>>

\* main() returns: after the terminate() of its exception handler, or when it
\* finds the state TERMINATED.
MainReturns ==
    /\ exited' = TRUE
    /\ \/ /\ mainPc = "giveup"
          /\ Returned(Main, "clean") \/ Returned(Main, "failed")
       \/ /\ mode # "serve" /\ gen > 0
          /\ MainGoes("command", "command")
          /\ state = "TERMINATED"
          /\ UNCHANGED <<state, cleanup, overtaken>>
    /\ UNCHANGED <<mode, mainPc, gen, stop, monitors, starting, watchPc, signalled, late>>

MainStep ==
    \/ Activate \/ NextAsset \/ NoMoreAssets \/ Spawn \/ SpawnFails \/ Settled
    \/ StartFailed \/ StartAborted \/ UndoActivation \/ Undone \/ StartCmdRaises \/ Fatal
    \/ StartWatch \/ Activated \/ Cmd \/ CliStart \/ CmdDone
    \/ TerminateCommand \/ TerminateCommandDone \/ EndOfInput \/ MainReturns
    \/ CleanupStep(Main)

-----------------------------------------------------------------------------
(* The watch threads and the signal handler. *)

\* Mutant: the watch goes over the processes there were when it was started.
MutWatchedAtStart(g) == {p \in ListedOf(g) : p[2] \in Before}
Watched(g) == ListedOf(g)

\* _watch_loop() finds a dead process in the procs of the current monitor.
WatchFinds(g) ==
    /\ watchPc[g] = "watching"
    /\ ~stop
    /\ \E p \in Watched(gen) : status[p] = "dead"
    /\ Terminate(Watch(g))
    /\ UNCHANGED <<mode, gen, monitors, mainPc, starting, watchPc, signalled, exited, history>>

\* It is told to stop, or there is nothing to watch.
WatchStops(g) ==
    /\ watchPc[g] = "watching" /\ pc[Watch(g)] = "out"
    /\ stop \/ ListedOf(gen) = {}
    /\ watchPc' = [watchPc EXCEPT ![g] = "off"]
    /\ UNCHANGED <<mode, state, gen, stop, monitors, mainPc, starting, cleanup, signalled, exited, history>>

\* terminate() returned and the thread ends; or it raised and is called again,
\* for the last time.
WatchTerminated(g) ==
    /\ \/ /\ Returned(Watch(g), "clean")
          /\ watchPc' = [watchPc EXCEPT ![g] = "off"]
       \/ /\ Returned(Watch(g), "failed")
          /\ watchPc' = [watchPc EXCEPT ![g] = IF @ = "watching" THEN "retry" ELSE "off"]
    /\ UNCHANGED <<mode, gen, stop, monitors, mainPc, starting, signalled, exited, late>>

WatchRetries(g) ==
    /\ watchPc[g] = "retry"
    /\ Terminate(Watch(g))
    /\ UNCHANGED <<mode, gen, monitors, mainPc, starting, watchPc, signalled, exited, history>>

WatchStep(g) ==
    WatchFinds(g) \/ WatchStops(g) \/ WatchTerminated(g) \/ WatchRetries(g) \/ CleanupStep(Watch(g))

\* The handler calls terminate() and leaves by sys.exit().
Interrupt ==
    /\ ~signalled
    /\ signalled' = TRUE
    /\ \/ NothingToTerminate /\ exited' = TRUE /\ UNCHANGED <<state, stop, cleanup>>
       \/ ~NothingToTerminate /\ UNCHANGED exited /\ Terminate(Sig)
    /\ UNCHANGED <<mode, gen, monitors, mainPc, starting, watchPc, history>>

InterruptExits ==
    /\ Returned(Sig, "clean") \/ Returned(Sig, "failed")
    /\ exited' = TRUE
    /\ UNCHANGED <<mode, gen, stop, monitors, mainPc, starting, watchPc, signalled, late>>

SigStep == InterruptExits \/ CleanupStep(Sig)

-----------------------------------------------------------------------------
Next ==
    \/ \E p \in Procs : AssetExits(p)
    \/ /\ ~exited
       /\ \/ ~signalled /\ MainStep
          \/ \E g \in Gens : WatchStep(g)
          \/ Interrupt
          \/ SigStep

Spec == Init /\ [][Next]_vars

\* The threads are scheduled; hako-cmd and the waits of start_assets() end.
\* Nobody has to type a command, and terminate is not typed so fast, forever,
\* that a notified watch thread never finds the cleanup at rest.
Fairness ==
    /\ WF_vars(~exited /\ ~signalled /\ MainStep /\ ~(mode = "serve" /\ mainPc = "command"))
    /\ \A g \in Gens : /\ WF_vars(~exited /\ WatchStep(g))
                       /\ SF_vars(~exited /\ AbortProceed(Watch(g)))
    /\ WF_vars(~exited /\ SigStep)

FairSpec == Spec /\ Fairness

-----------------------------------------------------------------------------
(* Properties. *)

\* A monitor is cleaned up by one thread at a time.
OneCleanup ==
    \A t, u \in Threads :
        /\ pc[t] \in {"terminate", "kill", "finish"}
        /\ pc[u] \in {"terminate", "kill", "finish"}
        /\ mon[t] = mon[u]
        => t = u

\* terminate() reports TERMINATED only when every process of the monitor has
\* ended, except those that start_assets() spawned behind the abort's back.
CleanWhenReported ==
    [][\A t \in Threads :
          pc[t] = "clean" /\ pc'[t] = "out" => AliveOf(mon[t]) \subseteq late]_vars

\* Two activations never run side by side.  An asset of an earlier activation
\* that is still alive was spawned behind the back of its abort, or the
\* activation was taken for TERMINATED when a watch thread came back, late,
\* from the terminate() of the one before.
OneActivation ==
    \A p \in Procs : status[p] = "alive" /\ p[1] < gen => p \in late \/ p[1] \in overtaken

\* The main thread was interrupted in a cleanup, which the handler waits for.
SelfBlocked == signalled /\ pc[Main] \in {"terminate", "kill", "finish"}

\* Every call of abort() and terminate() ends, unless the handler waits for
\* the thread it interrupted.
CleanupEnds ==
    \A t \in Threads :
        pc[t] # "out" ~> (pc[t] = "out" \/ exited \/ SelfBlocked)

\* Once an asset has ended, all the processes of its activation end, except
\* those spawned behind the abort's back and those that cannot be killed.
OneDownAllDown ==
    \A p \in Procs :
        status[p] = "dead" ~>
            \/ \A q \in AliveOf(p[1]) : q \in late \/ q[2] \in Stubborn
            \/ exited \/ SelfBlocked

\* No thread is about to do anything: main() waits and the watch threads ended.
AtRest ==
    /\ mode # "serve" /\ ~exited /\ ~signalled
    /\ gen > 0 /\ mainPc = "command"
    /\ \A g \in Gens : watchPc[g] = "off"

\* The README's "If any asset stops, every remaining asset is terminated".
RemainingTerminated ==
    AtRest /\ Stubborn = {} =>
        \A p, q \in ListedOf(gen) : status[p] = "dead" => status[q] = "dead"
=============================================================================
