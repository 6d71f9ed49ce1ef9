--------------------------- MODULE LauncherProofs ---------------------------
(***************************************************************************)
(* Theorems about Launcher, for any assets, any of them stubborn, any      *)
(* number of activations and of starts.                                    *)
(***************************************************************************)
EXTENDS Launcher, FiniteSetTheorems, TLAPS

\* Before the first activation nothing has happened.
Fresh ==
    /\ state = "IDLE" <=> gen = 0
    /\ gen = 0 => /\ mainPc = "command"
                  /\ \A t \in Threads : pc[t] = "out"
                  /\ \A g \in Gens : watchPc[g] = "off"
    /\ \A p \in listed : p[1] <= gen

\* What start_assets() will spawn has been started less than MaxRuns times.
Startable ==
    /\ \A a \in toStart : RunsOf(a) < MaxRuns
    /\ mainPc = "spawn" => asset \in Assets \ toStart /\ RunsOf(asset) < MaxRuns
    /\ mainPc = "cli" => \A a \in After : RunsOf(a) < MaxRuns

\* Until start_assets("after_start") only assets of the other kind are started.
BeforeFirst ==
    /\ mainPc \in {"watch", "activated", "autostart"} => timing = "before"
    /\ timing = "before" => /\ toStart \subseteq Before
                            /\ mainPc = "spawn" => asset \in Before
                            /\ \A p \in listed : p[1] = gen => p[2] \in Before

Typed == TypeOK /\ Fresh /\ Startable /\ BeforeFirst

-----------------------------------------------------------------------------
LEMMA RunsCounted ==
  ASSUME TypeOK, NEW a
  PROVE  /\ RunsOf(a) \in Nat
         /\ (\A p \in listed : ~(p[1] = gen /\ p[2] = a)) => RunsOf(a) = 0
  <1> DEFINE S == {p \in ListedOf(gen) : p[2] = a}
             f == [p \in S |-> p[3]]
  <1>1. \A p \in S : p \in Procs /\ p[1] = gen /\ p[2] = a
    BY DEF TypeOK, ListedOf
  <1>2. f \in [S -> 1..MaxRuns]
    BY <1>1 DEF Procs
  <1>3. ASSUME NEW p \in S, NEW q \in S, f[p] = f[q] PROVE p = q
    <2>1. p \in Gens \X Assets \X (1..MaxRuns) /\ q \in Gens \X Assets \X (1..MaxRuns)
      BY <1>1 DEF Procs
    <2>2. p = <<gen, a, p[3]>> /\ q = <<gen, a, q[3]>>
      BY <1>1, <2>1
    <2>3. QED
      BY <1>3, <2>2
  <1>4. f \in Injection(S, 1..MaxRuns)
    BY <1>2, <1>3 DEF Injection, IsInjective
  <1>5. IsFiniteSet(1..MaxRuns)
    BY LauncherAssumption, FS_Interval DEF LauncherAssumption
  <1>6. IsFiniteSet(S)
    BY ONLY <1>4, <1>5, FS_Injection
  <1>7. RunsOf(a) \in Nat
    BY <1>6, FS_CardinalityType DEF RunsOf
  <1>8. ASSUME \A p \in listed : ~(p[1] = gen /\ p[2] = a) PROVE RunsOf(a) = 0
    <2>1. S = {}
      BY <1>8 DEF ListedOf
    <2>2. QED
      BY <2>1, FS_EmptySet DEF RunsOf
  <1>9. QED
    BY <1>7, <1>8

LEMMA RunsSame ==
  ASSUME UNCHANGED <<listed, gen>>, NEW a
  PROVE  RunsOf(a)' = RunsOf(a)
  BY DEF RunsOf, ListedOf

LEMMA TypedInit == Init => Typed
  <1> SUFFICES ASSUME Init PROVE Typed
    OBVIOUS
  <1>1. TypeOK
    BY LauncherAssumption DEF Init, TypeOK, MainPcs, LauncherAssumption
  <1>2. Fresh /\ BeforeFirst
    BY LauncherAssumption DEF Init, Fresh, BeforeFirst, LauncherAssumption
  <1>3. Startable
    BY DEF Init, Startable
  <1>4. QED
    BY <1>1, <1>2, <1>3 DEF Typed

-----------------------------------------------------------------------------
(* Each step preserves Typed. *)

LEMMA CleanupTyped ==
  ASSUME Typed, NEW t \in Threads, CleanupStep(t)
  PROVE  Typed'
  <1> USE LauncherAssumption DEF LauncherAssumption
  <1>1. mon[t] \in Gens /\ UNCHANGED <<listed, gen, state, mainPc, watchPc, mon, timing, toStart, asset>>
    BY DEF Typed, TypeOK, CleanupStep, AbortFlag, AbortProceed, Pass, AbortFinish, Goes,
       starting, cleanup, history, monitors
  <1>2. TypeOK'
    <2>1. CASE AbortFlag(t)
      BY <2>1, <1>1 DEF Typed, TypeOK, AbortFlag, Goes, starting, cleanup, history, monitors
    <2>2. CASE AbortProceed(t)
      BY <2>2, <1>1 DEF Typed, TypeOK, AbortProceed, starting, history
    <2>3. CASE Pass(t, "terminate", "kill") \/ Pass(t, "kill", "finish")
      BY <2>3, <1>1 DEF Typed, TypeOK, Pass, Goes, starting, cleanup, history, monitors
    <2>4. CASE AbortFinish(t)
      BY <2>4, <1>1 DEF Typed, TypeOK, AbortFinish, CleaningDone, Goes, starting, cleanup, history, monitors
    <2>5. QED
      BY <2>1, <2>2, <2>3, <2>4 DEF CleanupStep
  <1>3. pc[t] # "out" /\ gen # 0
    BY <1>1 DEF Typed, TypeOK, Fresh, Gens
  <1>4. Fresh' /\ BeforeFirst'
    BY <1>1, <1>3 DEF Typed, Fresh, BeforeFirst
  <1>5. Startable'
    BY <1>1, RunsSame DEF Typed, Startable
  <1>6. QED
    BY <1>2, <1>4, <1>5 DEF Typed

\* The part of TypeOK that calls and returns of terminate() and abort() change.
CallsTyped ==
    /\ state \in {"IDLE", "ACTIVATING", "ACTIVATED", "RUNNING", "STOPPED",
                  "TERMINATING", "TERMINATED", "FAILED"}
    /\ pc \in [Threads -> {"out", "abort", "wait", "terminate", "kill", "finish", "clean", "failed"}]
    /\ via \in [Threads -> BOOLEAN]
    /\ mon \in [Threads -> Gens \cup {0}]
    /\ \A t \in Threads : pc[t] = "out" <=> mon[t] = 0
    /\ overtaken \subseteq Gens

LEMMA ReturnedTyped ==
  ASSUME Typed, NEW t \in Threads, NEW r \in {"clean", "failed"}, Returned(t, r), UNCHANGED gen
  PROVE  CallsTyped' /\ state' # "IDLE" /\ gen \in Gens
  <1>1. gen \in Gens
    BY DEF Typed, TypeOK, Fresh, Returned, Goes
  <1>2. state' # "IDLE"
    BY <1>1 DEF Typed, Fresh, Returned, Gens
  <1>3. pc' = [pc EXCEPT ![t] = "out"] /\ mon' = [mon EXCEPT ![t] = 0]
    BY DEF Returned, Goes
  <1>4. pc' \in [Threads -> {"out", "abort", "wait", "terminate", "kill", "finish", "clean", "failed"}]
    BY <1>3 DEF Typed, TypeOK
  <1>5. mon' \in [Threads -> Gens \cup {0}]
    BY <1>3 DEF Typed, TypeOK
  <1>6. \A u \in Threads : pc'[u] = "out" <=> mon'[u] = 0
    BY <1>3 DEF Typed, TypeOK
  <1>7. via' \in [Threads -> BOOLEAN]
    BY DEF Typed, TypeOK, Returned
  <1>8. overtaken' \subseteq Gens
    BY <1>1 DEF Typed, TypeOK, Returned
  <1>9. state' \in {"IDLE", "ACTIVATING", "ACTIVATED", "RUNNING", "STOPPED",
                    "TERMINATING", "TERMINATED", "FAILED"}
    BY DEF Typed, TypeOK, Returned
  <1>10. QED
    BY <1>1, <1>2, <1>4, <1>5, <1>6, <1>7, <1>8, <1>9 DEF CallsTyped

LEMMA CalledTyped ==
  ASSUME Typed, NEW t \in Threads, gen # 0, Terminate(t) \/ (Abort(t) /\ UNCHANGED state),
         UNCHANGED <<gen, overtaken>>
  PROVE  CallsTyped' /\ state' # "IDLE" /\ gen \in Gens
  <1>1. gen \in Gens
    BY DEF Typed, TypeOK
  <1>2. pc' = [pc EXCEPT ![t] = "abort"] /\ mon' = [mon EXCEPT ![t] = gen]
    BY DEF Terminate, Abort, Goes
  <1>3. pc' \in [Threads -> {"out", "abort", "wait", "terminate", "kill", "finish", "clean", "failed"}]
    BY <1>2 DEF Typed, TypeOK
  <1>4. mon' \in [Threads -> Gens \cup {0}]
    BY <1>1, <1>2 DEF Typed, TypeOK
  <1>5. \A u \in Threads : pc'[u] = "out" <=> mon'[u] = 0
    BY <1>2 DEF Typed, TypeOK
  <1>6. via' \in [Threads -> BOOLEAN] /\ overtaken' \subseteq Gens
    BY DEF Typed, TypeOK, Terminate, Abort
  <1>7. state' \in {"IDLE", "ACTIVATING", "ACTIVATED", "RUNNING", "STOPPED",
                    "TERMINATING", "TERMINATED", "FAILED"} /\ state' # "IDLE"
    BY DEF Typed, TypeOK, Fresh, Terminate
  <1>8. QED
    BY <1>1, <1>3, <1>4, <1>5, <1>6, <1>7 DEF CallsTyped

\* The process about to be spawned is one of Procs.
LEMMA SpawnsProc ==
  ASSUME Typed, mainPc = "spawn"
  PROVE  <<gen, asset, RunsOf(asset) + 1>> \in Procs
  <1>1. gen \in Gens /\ asset \in Assets
    BY DEF Typed, TypeOK, Fresh, Startable
  <1>2. RunsOf(asset) \in Nat /\ RunsOf(asset) < MaxRuns
    BY RunsCounted DEF Typed, Startable
  <1>3. RunsOf(asset) + 1 \in 1..MaxRuns
    BY <1>2, LauncherAssumption DEF LauncherAssumption
  <1>4. QED
    BY <1>1, <1>3 DEF Procs

LEMMA MainTyped ==
  ASSUME Typed, MainStep
  PROVE  Typed'
  <1> USE LauncherAssumption DEF LauncherAssumption, Typed
  <1> USE DEF history, cleanup, starting, monitors
  <1>0. Main \in Threads /\ gen \in Nat /\ \A p \in listed : p[1] \in Nat
    BY DEF Threads, TypeOK, Gens, Procs
  <1>1. CASE Activate
    <2>1. TypeOK'
      <3>1. gen' \in Gens /\ toStart' \subseteq Assets
        BY <1>0, <1>1 DEF Activate, Gens, Assets
      <3>2. QED
        BY <3>1, <1>1 DEF TypeOK, MainPcs, Activate, MainGoes
    <2>2. Fresh'
      BY <1>0, <1>1 DEF Fresh, Activate, MainGoes
    <2>3. \A p \in listed' : p[1] # gen'
      BY <1>0, <1>1 DEF Fresh, Activate
    <2>4. BeforeFirst'
      BY <1>1, <2>3 DEF BeforeFirst, Activate, MainGoes
    <2>5. \A a : RunsOf(a)' = 0
      <3>1. ListedOf(gen)' = {}
        BY <2>3 DEF ListedOf
      <3>2. QED
        BY <3>1, FS_EmptySet DEF RunsOf
    <2>6. Startable'
      BY <1>1, <2>5 DEF Startable, Activate, MainGoes
    <2>7. QED
      BY <2>1, <2>2, <2>4, <2>6

  <1>2. CASE NextAsset
    <2>1. TypeOK'
      BY <1>2 DEF TypeOK, MainPcs, NextAsset, MainGoes
    <2>2. Fresh'
      BY <1>2 DEF Fresh, NextAsset, MainGoes
    <2>3. BeforeFirst' /\ Startable'
      BY <1>2, RunsSame DEF TypeOK, BeforeFirst, Startable, NextAsset, MainGoes
    <2>4. QED
      BY <2>1, <2>2, <2>3

  <1>3. CASE NoMoreAssets
    <2>1. TypeOK'
      BY <1>3 DEF TypeOK, MainPcs, NoMoreAssets, MainGoes, AfterStartAssets
    <2>2. Fresh'
      BY <1>3 DEF Fresh, NoMoreAssets, MainGoes, AfterStartAssets
    <2>3. BeforeFirst' /\ Startable'
      BY <1>3, RunsSame DEF BeforeFirst, Startable, NoMoreAssets, MainGoes, AfterStartAssets
    <2>4. QED
      BY <2>1, <2>2, <2>3

  <1>4. CASE Spawn
    <2> DEFINE p == <<gen, asset, RunsOf(asset) + 1>>
    <2>1. p \in Procs /\ mainPc = "spawn" /\ mainPc' = "settle" /\ listed' = listed \cup {p}
      BY <1>4, SpawnsProc DEF Spawn, MainGoes
    <2>2. TypeOK'
      BY <1>4, <2>1 DEF TypeOK, MainPcs, Spawn
    <2>3. Fresh'
      BY <1>0, <1>4, <2>1 DEF Fresh, Spawn
    <2>4. BeforeFirst'
      BY <1>4, <2>1 DEF BeforeFirst, Spawn
    <2>5. ASSUME NEW a \in toStart PROVE RunsOf(a)' = RunsOf(a)
      <3>1. a # asset
        BY <2>1, <2>5 DEF Startable
      <3>2. {q \in ListedOf(gen)' : q[2] = a} = {q \in ListedOf(gen) : q[2] = a}
        BY <2>1, <3>1, <1>4 DEF ListedOf, Spawn
      <3>3. QED
        BY <3>2, <1>4 DEF RunsOf, Spawn
    <2>6. Startable'
      BY <1>4, <2>1, <2>5 DEF Startable, Spawn
    <2>7. QED
      BY <2>2, <2>3, <2>4, <2>6

  <1>5. CASE SpawnFails
    <2>1. TypeOK'
      BY <1>5 DEF TypeOK, MainPcs, SpawnFails, MainGoes
    <2>2. Fresh'
      BY <1>5 DEF Fresh, SpawnFails, MainGoes
    <2>3. BeforeFirst' /\ Startable'
      BY <1>5, RunsSame DEF BeforeFirst, Startable, SpawnFails, MainGoes
    <2>4. QED
      BY <2>1, <2>2, <2>3

  <1>6. CASE Settled
    <2>1. TypeOK'
      BY <1>6 DEF TypeOK, MainPcs, Settled, MainGoes
    <2>2. Fresh'
      BY <1>6 DEF Fresh, Settled, MainGoes
    <2>3. BeforeFirst' /\ Startable'
      BY <1>6, RunsSame DEF BeforeFirst, Startable, Settled, MainGoes
    <2>4. QED
      BY <2>1, <2>2, <2>3

  <1>7. CASE StartFailed
    <2>0. gen # 0
      BY <1>7 DEF Fresh, StartFailed, MainGoes
    <2>1. CallsTyped' /\ state' # "IDLE" /\ gen \in Gens
      BY <1>0, <1>7, <2>0, CalledTyped DEF StartFailed
    <2>2. TypeOK'
      BY <1>7, <2>1 DEF TypeOK, CallsTyped, MainPcs, StartFailed, MainGoes
    <2>3. Fresh'
      BY <1>0, <1>7, <2>1 DEF Fresh, Gens, StartFailed, MainGoes
    <2>4. BeforeFirst' /\ Startable'
      BY <1>7, RunsSame DEF BeforeFirst, Startable, StartFailed, MainGoes
    <2>5. QED
      BY <2>2, <2>3, <2>4

  <1>8. CASE StartAborted
    <2>0. CallsTyped' /\ state' # "IDLE" /\ gen \in Gens
      BY <1>0, <1>8, ReturnedTyped DEF StartAborted
    <2>1. TypeOK'
      BY <1>8, <2>0 DEF TypeOK, CallsTyped, MainPcs, StartAborted, AfterStartAssets
    <2>2. Fresh'
      BY <1>0, <1>8, <2>0 DEF Fresh, Gens, StartAborted, AfterStartAssets
    <2>3. BeforeFirst' /\ Startable'
      BY <1>8, RunsSame DEF BeforeFirst, Startable, StartAborted, Returned, Goes, AfterStartAssets
    <2>4. QED
      BY <2>1, <2>2, <2>3

  <1>9. CASE UndoActivation
    <2>0. gen # 0
      BY <1>9 DEF Fresh, UndoActivation, MainGoes
    <2>1. CallsTyped' /\ state' # "IDLE" /\ gen \in Gens
      BY <1>0, <1>9, <2>0, CalledTyped DEF UndoActivation
    <2>2. TypeOK'
      BY <1>9, <2>1 DEF TypeOK, CallsTyped, MainPcs, UndoActivation, MainGoes, Terminate
    <2>3. Fresh'
      BY <1>0, <1>9, <2>1 DEF Fresh, Gens, UndoActivation, MainGoes
    <2>4. BeforeFirst' /\ Startable'
      BY <1>9, RunsSame DEF BeforeFirst, Startable, UndoActivation, MainGoes
    <2>5. QED
      BY <2>2, <2>3, <2>4

  <1>10. CASE Undone
    <2>0. CallsTyped' /\ state' # "IDLE" /\ gen \in Gens
      BY <1>0, <1>10, ReturnedTyped DEF Undone
    <2>1. TypeOK'
      BY <1>10, <2>0 DEF TypeOK, CallsTyped, MainPcs, Undone
    <2>2. Fresh'
      BY <1>0, <1>10, <2>0 DEF Fresh, Gens, Undone
    <2>3. BeforeFirst' /\ Startable'
      BY <1>10, RunsSame DEF BeforeFirst, Startable, Undone, Returned, Goes
    <2>4. QED
      BY <2>1, <2>2, <2>3

  <1>11. CASE StartCmdRaises
    <2>1. TypeOK'
      BY <1>11 DEF TypeOK, MainPcs, StartCmdRaises, MainGoes
    <2>2. Fresh'
      BY <1>11 DEF Fresh, StartCmdRaises, MainGoes
    <2>3. BeforeFirst' /\ Startable'
      BY <1>11, RunsSame DEF BeforeFirst, Startable, StartCmdRaises, MainGoes
    <2>4. QED
      BY <2>1, <2>2, <2>3

  <1>12. CASE Fatal
    <2>1. TypeOK'
      <3>1. CASE mode = "serve"
        BY <1>12, <3>1 DEF TypeOK, MainPcs, Fatal, MainGoes
      <3>2. CASE mode # "serve"
        <4>1. gen # 0 /\ Terminate(Main)
          BY <1>12, <3>2 DEF Fresh, Fatal, MainGoes
        <4>2. CallsTyped'
          BY <1>0, <1>12, <4>1, CalledTyped DEF Fatal
        <4>3. QED
          BY <1>12, <3>2, <4>2 DEF TypeOK, CallsTyped, MainPcs, Fatal, MainGoes, Terminate
      <3>3. QED
        BY <3>1, <3>2
    <2>2. Fresh'
      BY <1>12 DEF Fresh, Fatal, MainGoes, Terminate, Goes
    <2>3. BeforeFirst' /\ Startable'
      BY <1>12, RunsSame DEF BeforeFirst, Startable, Fatal, MainGoes, Terminate, Goes
    <2>4. QED
      BY <2>1, <2>2, <2>3

  <1>13. CASE StartWatch
    <2>1. TypeOK'
      BY <1>13 DEF TypeOK, MainPcs, StartWatch, MainGoes
    <2>2. Fresh'
      BY <1>13 DEF Fresh, StartWatch, MainGoes
    <2>3. BeforeFirst' /\ Startable'
      BY <1>13, RunsSame DEF BeforeFirst, Startable, StartWatch, MainGoes
    <2>4. QED
      BY <2>1, <2>2, <2>3

  <1>14. CASE Activated
    <2>1. TypeOK'
      BY <1>14 DEF TypeOK, MainPcs, Activated, MainGoes
    <2>2. Fresh'
      BY <1>14 DEF Fresh, Activated, MainGoes
    <2>3. BeforeFirst' /\ Startable'
      BY <1>14, RunsSame DEF BeforeFirst, Startable, Activated, MainGoes
    <2>4. QED
      BY <2>1, <2>2, <2>3

  <1>15. CASE Cmd
    <2>1. TypeOK'
      BY <1>15 DEF TypeOK, MainPcs, Cmd, MainGoes, Commandable
    <2>2. Fresh'
      BY <1>15 DEF Fresh, Cmd, MainGoes, Commandable
    <2>3. BeforeFirst'
      BY <1>15 DEF BeforeFirst, Cmd, MainGoes
    <2>4. mainPc = "autostart" => \A a \in After : RunsOf(a) = 0
      BY RunsCounted DEF BeforeFirst
    <2>5. Startable'
      BY <1>15, <2>4, RunsSame DEF Startable, Cmd, MainGoes
    <2>6. QED
      BY <2>1, <2>2, <2>3, <2>5

  <1>16. CASE CliStart
    <2>1. TypeOK'
      BY <1>16 DEF TypeOK, MainPcs, CliStart, MainGoes, Assets
    <2>2. Fresh'
      BY <1>16 DEF Fresh, CliStart, MainGoes
    <2>3. BeforeFirst' /\ Startable'
      BY <1>16, RunsSame DEF BeforeFirst, Startable, CliStart, MainGoes
    <2>4. QED
      BY <2>1, <2>2, <2>3

  <1>17. CASE CmdDone
    <2>1. TypeOK'
      BY <1>17 DEF TypeOK, MainPcs, CmdDone, MainGoes
    <2>2. Fresh'
      BY <1>17 DEF Fresh, CmdDone, MainGoes
    <2>3. BeforeFirst' /\ Startable'
      BY <1>17, RunsSame DEF BeforeFirst, Startable, CmdDone, MainGoes
    <2>4. QED
      BY <2>1, <2>2, <2>3

  <1>18. CASE TerminateCommand
    <2>0. gen # 0
      BY <1>18 DEF Fresh, NothingToTerminate, TerminateCommand, MainGoes
    <2>1. CallsTyped' /\ state' # "IDLE" /\ gen \in Gens
      BY <1>0, <1>18, <2>0, CalledTyped DEF TerminateCommand
    <2>2. TypeOK'
      BY <1>18, <2>1 DEF TypeOK, CallsTyped, MainPcs, TerminateCommand, MainGoes, Terminate
    <2>3. Fresh'
      BY <1>0, <1>18, <2>1 DEF Fresh, Gens, TerminateCommand, MainGoes, NothingToTerminate
    <2>4. BeforeFirst' /\ Startable'
      BY <1>18, RunsSame DEF BeforeFirst, Startable, TerminateCommand, MainGoes, NothingToTerminate
    <2>5. QED
      BY <2>2, <2>3, <2>4

  <1>19. CASE TerminateCommandDone
    <2>0. CallsTyped' /\ state' # "IDLE" /\ gen \in Gens
      BY <1>0, <1>19, ReturnedTyped DEF TerminateCommandDone
    <2>1. TypeOK'
      BY <1>19, <2>0 DEF TypeOK, CallsTyped, MainPcs, TerminateCommandDone
    <2>2. Fresh'
      BY <1>0, <1>19, <2>0 DEF Fresh, Gens, TerminateCommandDone
    <2>3. BeforeFirst' /\ Startable'
      BY <1>19, RunsSame DEF BeforeFirst, Startable, TerminateCommandDone, Returned, Goes
    <2>4. QED
      BY <2>1, <2>2, <2>3

  <1>20. CASE EndOfInput
    <2>1. TypeOK'
      BY <1>20 DEF TypeOK, MainPcs, EndOfInput, MainGoes
    <2>2. Fresh'
      BY <1>20 DEF Fresh, EndOfInput, MainGoes
    <2>3. BeforeFirst' /\ Startable'
      BY <1>20, RunsSame DEF BeforeFirst, Startable, EndOfInput, MainGoes
    <2>4. QED
      BY <2>1, <2>2, <2>3

  <1>21. CASE MainReturns
    <2>0. BeforeFirst' /\ Startable'
      BY <1>21, RunsSame DEF BeforeFirst, Startable, MainReturns
    <2>1. CASE Returned(Main, "clean") \/ Returned(Main, "failed")
      <3>1. CallsTyped' /\ state' # "IDLE" /\ gen \in Gens
        BY <1>0, <1>21, <2>1, ReturnedTyped DEF MainReturns
      <3>2. TypeOK'
        BY <1>21, <3>1 DEF TypeOK, CallsTyped, MainReturns
      <3>3. Fresh'
        BY <1>21, <3>1 DEF Fresh, Gens, MainReturns
      <3>4. QED
        BY <2>0, <3>2, <3>3
    <2>2. CASE UNCHANGED <<state, cleanup, overtaken>>
      <3>1. TypeOK'
        BY <1>21, <2>2 DEF TypeOK, MainReturns
      <3>2. Fresh'
        BY <1>21, <2>2 DEF Fresh, MainReturns
      <3>3. QED
        BY <2>0, <3>1, <3>2
    <2>3. QED
      BY <1>21, <2>1, <2>2 DEF MainReturns

  <1>22. CASE CleanupStep(Main)
    BY <1>0, <1>22, CleanupTyped
  <1>23. QED
    BY <1>1, <1>2, <1>3, <1>4, <1>5, <1>6, <1>7, <1>8, <1>9, <1>10, <1>11, <1>12, <1>13, <1>14,
       <1>15, <1>16, <1>17, <1>18, <1>19, <1>20, <1>21, <1>22 DEF MainStep

LEMMA WatchTyped ==
  ASSUME Typed, NEW g \in Gens, WatchStep(g)
  PROVE  Typed'
  <1> USE DEF history, cleanup, starting, monitors, Typed
  <1>0. Watch(g) \in Threads
    BY DEF Threads
  <1>1. CASE WatchFinds(g) \/ WatchRetries(g)
    <2>1. gen # 0
      BY <1>1 DEF Fresh, WatchFinds, WatchRetries
    <2>2. CallsTyped' /\ state' # "IDLE" /\ gen \in Gens
      BY <1>0, <1>1, <2>1, CalledTyped DEF WatchFinds, WatchRetries
    <2>3. TypeOK'
      BY <1>1, <2>2 DEF TypeOK, CallsTyped, WatchFinds, WatchRetries, Terminate
    <2>4. Fresh' /\ BeforeFirst' /\ Startable'
      BY <1>1, <2>1, <2>2, RunsSame DEF Fresh, BeforeFirst, Startable, WatchFinds, WatchRetries
    <2>5. QED
      BY <2>3, <2>4
  <1>2. CASE WatchStops(g)
    <2>1. TypeOK'
      BY <1>2 DEF TypeOK, WatchStops
    <2>2. Fresh' /\ BeforeFirst' /\ Startable'
      BY <1>2, RunsSame DEF TypeOK, Fresh, BeforeFirst, Startable, WatchStops
    <2>3. QED
      BY <2>1, <2>2
  <1>3. CASE WatchTerminated(g)
    <2>1. CallsTyped' /\ state' # "IDLE" /\ gen \in Gens
      BY <1>0, <1>3, ReturnedTyped DEF WatchTerminated
    <2>2. TypeOK'
      BY <1>3, <2>1 DEF TypeOK, CallsTyped, WatchTerminated
    <2>3. Fresh' /\ BeforeFirst' /\ Startable'
      BY <1>3, <2>1, RunsSame DEF Fresh, Gens, BeforeFirst, Startable, WatchTerminated
    <2>4. QED
      BY <2>2, <2>3
  <1>4. CASE CleanupStep(Watch(g))
    BY <1>0, <1>4, CleanupTyped
  <1>5. QED
    BY <1>1, <1>2, <1>3, <1>4 DEF WatchStep

LEMMA SigTyped ==
  ASSUME Typed, Interrupt \/ SigStep
  PROVE  Typed'
  <1> USE DEF history, cleanup, starting, monitors, Typed
  <1>0. Sig \in Threads
    BY DEF Threads
  <1>1. CASE Interrupt /\ NothingToTerminate
    <2>1. TypeOK'
      BY <1>1 DEF TypeOK, Interrupt
    <2>2. Fresh' /\ BeforeFirst' /\ Startable'
      BY <1>1, RunsSame DEF Fresh, BeforeFirst, Startable, Interrupt
    <2>3. QED
      BY <2>1, <2>2
  <1>2. CASE Interrupt /\ ~NothingToTerminate
    <2>1. gen # 0 /\ Terminate(Sig)
      BY <1>2 DEF Fresh, NothingToTerminate, Interrupt
    <2>2. CallsTyped' /\ state' # "IDLE" /\ gen \in Gens
      BY <1>0, <1>2, <2>1, CalledTyped DEF Interrupt
    <2>3. TypeOK'
      BY <1>2, <2>1, <2>2 DEF TypeOK, CallsTyped, Interrupt, Terminate
    <2>4. Fresh' /\ BeforeFirst' /\ Startable'
      BY <1>2, <2>1, <2>2, RunsSame DEF Fresh, BeforeFirst, Startable, Interrupt
    <2>5. QED
      BY <2>3, <2>4
  <1>3. CASE InterruptExits
    <2>1. CallsTyped' /\ state' # "IDLE" /\ gen \in Gens
      BY <1>0, <1>3, ReturnedTyped DEF InterruptExits
    <2>2. TypeOK'
      BY <1>3, <2>1 DEF TypeOK, CallsTyped, InterruptExits
    <2>3. Fresh' /\ BeforeFirst' /\ Startable'
      BY <1>3, <2>1, RunsSame DEF Fresh, Gens, BeforeFirst, Startable, InterruptExits
    <2>4. QED
      BY <2>2, <2>3
  <1>4. CASE CleanupStep(Sig)
    BY <1>0, <1>4, CleanupTyped
  <1>5. QED
    BY <1>1, <1>2, <1>3, <1>4 DEF SigStep

LEMMA TypedStep ==
  ASSUME Typed, [Next]_vars
  PROVE  Typed'
  <1>1. ASSUME NEW p \in Procs, AssetExits(p) PROVE Typed'
    <2>1. TypeOK'
      BY <1>1 DEF Typed, TypeOK, AssetExits, history, cleanup, starting
    <2>2. Fresh' /\ BeforeFirst' /\ Startable'
      BY <1>1, RunsSame
      DEF Typed, Fresh, BeforeFirst, Startable, AssetExits, history, cleanup, starting
    <2>3. QED
      BY <2>1, <2>2 DEF Typed
  <1>2. CASE UNCHANGED vars
    <2>1. TypeOK'
      BY <1>2 DEF Typed, TypeOK, vars, monitors, history, cleanup, starting
    <2>2. Fresh' /\ BeforeFirst' /\ Startable'
      BY <1>2, RunsSame
      DEF Typed, Fresh, BeforeFirst, Startable, vars, monitors, history, cleanup, starting
    <2>3. QED
      BY <2>1, <2>2 DEF Typed
  <1>3. QED
    BY <1>1, <1>2, MainTyped, WatchTyped, SigTyped DEF Next

\* The variables keep their types: in particular no process is spawned that the
\* bounds do not foresee, and a thread has a monitor exactly while it cleans up.
THEOREM TypeCorrect == Spec => []TypeOK
  <1>1. Init => Typed
    BY TypedInit
  <1>2. Typed /\ [Next]_vars => Typed'
    BY TypedStep
  <1>3. Typed => TypeOK
    BY DEF Typed
  <1>4. QED
    BY <1>1, <1>2, <1>3, PTL DEF Spec

-----------------------------------------------------------------------------
(* Cleanups and activations. *)

Working == {"terminate", "kill", "finish"}

\* Who is past the flag, in abort() or on the way back.
Aborting == {"wait", "clean", "failed"} \cup Working

\* A thread cleans up its own monitor with the flag set.
Flagged == \A t \in Threads : pc[t] \in Working => cleaning[mon[t]]

\* Threads come from the current activation or an earlier one; from the wait on
\* their monitor is aborted, and before they come back it is clean.
Aborts == \A t \in Threads :
    /\ mon[t] <= gen
    /\ pc[t] \in Aborting => aborted[mon[t]]
    /\ pc[t] = "clean" => AliveOf(mon[t]) \subseteq late

AliveIsListed == \A p \in Procs : status[p] = "alive" => p \in listed

\* TERMINATED is true, unless it was reported about an earlier activation.
TerminatedIsClean ==
    state = "TERMINATED" /\ gen \notin overtaken =>
        aborted[gen] /\ AliveOf(gen) \subseteq late

IInv == /\ Typed /\ Flagged /\ OneCleanup
        /\ Aborts /\ AliveIsListed /\ TerminatedIsClean /\ OneActivation

\* What a step does to the cleanups and the activations when it is neither a
\* step of a cleanup, nor a spawn, nor the end of an asset, nor an activation.
Elsewhere ==
    /\ UNCHANGED <<monitors, gen, late>>
    /\ overtaken \subseteq overtaken'
    /\ \A t \in Threads : \/ pc'[t] = pc[t] /\ mon'[t] = mon[t]
                          \/ pc'[t] = "abort" /\ mon'[t] = gen
                          \/ pc'[t] = "out" /\ mon'[t] = 0
    /\ state' = "TERMINATED" =>
          \/ state = "TERMINATED"
          \/ gen \in overtaken'
          \/ \E t \in Threads : pc[t] = "clean" /\ mon[t] = gen

LEMMA CallElsewhere ==
  ASSUME Typed, NEW t \in Threads, Terminate(t) \/ (Abort(t) /\ UNCHANGED state),
         UNCHANGED <<monitors, gen, history>>
  PROVE  Elsewhere
  <1>1. pc' = [pc EXCEPT ![t] = "abort"] /\ mon' = [mon EXCEPT ![t] = gen]
    BY DEF Terminate, Abort, Goes
  <1>2. \A u \in Threads : \/ pc'[u] = pc[u] /\ mon'[u] = mon[u]
                           \/ pc'[u] = "abort" /\ mon'[u] = gen
    BY <1>1 DEF Typed, TypeOK
  <1>3. QED
    BY <1>2 DEF Elsewhere, Terminate, history

LEMMA ReturnElsewhere ==
  ASSUME Typed, Aborts, NEW t \in Threads, NEW r \in {"clean", "failed"}, Returned(t, r),
         UNCHANGED <<monitors, gen, late>>
  PROVE  Elsewhere
  <1>1. pc' = [pc EXCEPT ![t] = "out"] /\ mon' = [mon EXCEPT ![t] = 0] /\ pc[t] = r
    BY DEF Returned, Goes
  <1>2. \A u \in Threads : \/ pc'[u] = pc[u] /\ mon'[u] = mon[u]
                           \/ pc'[u] = "out" /\ mon'[u] = 0
    BY <1>1 DEF Typed, TypeOK
  <1>3. mon[t] \in Nat /\ gen \in Nat /\ mon[t] <= gen
    BY DEF Typed, TypeOK, Gens, Aborts
  <1>4. mon[t] = gen \/ mon[t] < gen
    BY <1>3
  <1>5. ASSUME state' = "TERMINATED", state # "TERMINATED"
        PROVE  gen \in overtaken' \/ (pc[t] = "clean" /\ mon[t] = gen)
    BY <1>1, <1>4, <1>5 DEF Returned
  <1>6. overtaken \subseteq overtaken'
    BY DEF Returned
  <1>7. QED
    BY <1>2, <1>5, <1>6 DEF Elsewhere

LEMMA MainElsewhere ==
  ASSUME Typed, Aborts, MainStep
  PROVE  Activate \/ Spawn \/ CleanupStep(Main) \/ Elsewhere
  <1> USE DEF history, cleanup
  <1>0. Main \in Threads
    BY DEF Threads
  <1>1. CASE NextAsset \/ NoMoreAssets \/ SpawnFails \/ Settled \/ StartCmdRaises
             \/ StartWatch \/ Activated \/ Cmd \/ CliStart \/ CmdDone \/ EndOfInput
    BY <1>1 DEF Elsewhere, NextAsset, NoMoreAssets, SpawnFails, Settled, StartCmdRaises,
                StartWatch, Activated, Cmd, CliStart, CmdDone, EndOfInput
  <1>2. CASE StartFailed \/ UndoActivation \/ TerminateCommand
    BY <1>0, <1>2, CallElsewhere DEF StartFailed, UndoActivation, TerminateCommand
  <1>3. CASE StartAborted \/ Undone \/ TerminateCommandDone
    BY <1>0, <1>3, ReturnElsewhere DEF StartAborted, Undone, TerminateCommandDone
  <1>4. CASE Fatal
    <2>1. CASE mode = "serve"
      BY <1>4, <2>1 DEF Fatal, Elsewhere
    <2>2. CASE mode # "serve"
      BY <1>0, <1>4, <2>2, CallElsewhere DEF Fatal
    <2>3. QED
      BY <2>1, <2>2
  <1>5. CASE MainReturns
    <2>1. CASE Returned(Main, "clean") \/ Returned(Main, "failed")
      BY <1>0, <1>5, <2>1, ReturnElsewhere DEF MainReturns
    <2>2. CASE UNCHANGED <<state, cleanup, overtaken>>
      BY <1>5, <2>2 DEF MainReturns, Elsewhere
    <2>3. QED
      BY <1>5, <2>1, <2>2 DEF MainReturns
  <1>6. QED
    BY <1>1, <1>2, <1>3, <1>4, <1>5 DEF MainStep

\* Every step is one of the kinds.
LEMMA StepKinds ==
  ASSUME Typed, Aborts, [Next]_vars
  PROVE  \/ \E p \in Procs : AssetExits(p)
         \/ Activate
         \/ Spawn
         \/ \E t \in Threads : CleanupStep(t)
         \/ Elsewhere
  <1> USE DEF history, cleanup
  <1>0. Main \in Threads /\ Sig \in Threads /\ \A g \in Gens : Watch(g) \in Threads
    BY DEF Threads
  <1>1. CASE MainStep
    BY <1>0, <1>1, MainElsewhere
  <1>2. ASSUME NEW g \in Gens, WatchStep(g), ~CleanupStep(Watch(g)) PROVE Elsewhere
    <2>1. CASE WatchFinds(g) \/ WatchRetries(g)
      BY <1>0, <2>1, CallElsewhere DEF WatchFinds, WatchRetries
    <2>2. CASE WatchStops(g)
      BY <2>2 DEF WatchStops, Elsewhere
    <2>3. CASE WatchTerminated(g)
      BY <1>0, <2>3, ReturnElsewhere DEF WatchTerminated
    <2>4. QED
      BY <1>2, <2>1, <2>2, <2>3 DEF WatchStep
  <1>3. CASE Interrupt
    <2>1. CASE NothingToTerminate
      BY <1>3, <2>1 DEF Interrupt, Elsewhere
    <2>2. CASE ~NothingToTerminate
      BY <1>0, <1>3, <2>2, CallElsewhere DEF Interrupt
    <2>3. QED
      BY <2>1, <2>2
  <1>4. CASE InterruptExits
    BY <1>0, <1>4, ReturnElsewhere DEF InterruptExits
  <1>5. CASE UNCHANGED vars
    BY <1>5 DEF vars, Elsewhere
  <1>6. QED
    BY <1>0, <1>1, <1>2, <1>3, <1>4, <1>5 DEF Next, SigStep

LEMMA ElsewhereKeeps ==
  ASSUME IInv, Typed', Elsewhere
  PROVE  IInv'
  <1>1. UNCHANGED <<status, listed, aborted, cleaning, gen, late>> /\ gen \in Nat
    BY DEF Elsewhere, monitors, IInv, Typed, TypeOK, Gens
  <1>2. \A t \in Threads : pc'[t] \in Aborting => pc[t] = pc'[t] /\ mon'[t] = mon[t]
    BY DEF Elsewhere, Aborting, Working
  <1>3. \A g : AliveOf(g)' = AliveOf(g)
    BY <1>1 DEF AliveOf, ListedOf
  <1>4. Flagged' /\ OneCleanup'
    BY <1>1, <1>2 DEF IInv, Flagged, OneCleanup, Aborting, Working
  <1>5. Aborts'
    <2>1. \A t \in Threads : mon'[t] <= gen'
      BY <1>1 DEF IInv, Aborts, Elsewhere
    <2>2. QED
      BY <1>1, <1>2, <1>3, <2>1 DEF IInv, Aborts, Aborting, Working
  <1>6. AliveIsListed' /\ OneActivation'
    BY <1>1 DEF IInv, AliveIsListed, OneActivation, Elsewhere
  <1>7. TerminatedIsClean'
    <2>1. SUFFICES ASSUME state' = "TERMINATED", gen \notin overtaken'
                   PROVE  aborted[gen] /\ AliveOf(gen) \subseteq late
      BY <1>1, <1>3 DEF TerminatedIsClean
    <2>2. CASE state = "TERMINATED"
      BY <2>1, <2>2 DEF IInv, TerminatedIsClean, Elsewhere
    <2>3. CASE \E t \in Threads : pc[t] = "clean" /\ mon[t] = gen
      BY <2>3 DEF IInv, Aborts, Aborting
    <2>4. QED
      BY <2>1, <2>2, <2>3 DEF Elsewhere
  <1>8. QED
    BY <1>4, <1>5, <1>6, <1>7 DEF IInv

LEMMA ExitKeeps ==
  ASSUME IInv, Typed', NEW p \in Procs, AssetExits(p)
  PROVE  IInv'
  <1>1. UNCHANGED <<state, listed, aborted, cleaning, gen, late, overtaken, pc, mon>>
    BY DEF AssetExits, history, cleanup
  <1>2. \A q \in Procs : status'[q] = "alive" => status[q] = "alive"
    BY DEF AssetExits, IInv, Typed, TypeOK
  <1>3. \A g : AliveOf(g)' \subseteq AliveOf(g)
    BY <1>1, <1>2 DEF AliveOf, ListedOf, IInv, Typed, TypeOK
  <1>4. Flagged' /\ OneCleanup'
    BY <1>1 DEF IInv, Flagged, OneCleanup
  <1>5. Aborts' /\ TerminatedIsClean'
    BY <1>1, <1>3 DEF IInv, Aborts, TerminatedIsClean
  <1>6. AliveIsListed' /\ OneActivation'
    BY <1>1, <1>2 DEF IInv, AliveIsListed, OneActivation
  <1>7. QED
    BY <1>4, <1>5, <1>6 DEF IInv

LEMMA ActivateKeeps ==
  ASSUME IInv, Typed', Activate
  PROVE  IInv'
  <1>1. UNCHANGED <<status, listed, aborted, cleaning, late, overtaken, pc, mon>>
    BY DEF Activate, monitors, history, cleanup
  <1>2. gen \in Nat /\ gen' = gen + 1 /\ \A p \in Procs : p[1] \in Nat \ {0}
    BY DEF Activate, IInv, Typed, TypeOK, Gens, Procs
  <1>3. \A g : AliveOf(g)' = AliveOf(g)
    BY <1>1 DEF AliveOf, ListedOf
  <1>4. Flagged' /\ OneCleanup' /\ AliveIsListed'
    BY <1>1 DEF IInv, Flagged, OneCleanup, AliveIsListed
  <1>5. Aborts'
    <2>1. \A t \in Threads : mon[t] \in Nat
      BY DEF IInv, Typed, TypeOK, Gens
    <2>2. \A t \in Threads : mon'[t] <= gen'
      BY <1>1, <1>2, <2>1 DEF IInv, Aborts
    <2>3. QED
      BY <1>1, <1>3, <2>2 DEF IInv, Aborts
  <1>6. TerminatedIsClean'
    BY DEF Activate, TerminatedIsClean
  <1>7. ASSUME NEW p \in Procs, status[p] = "alive", p[1] < gen + 1
        PROVE  p \in late \/ p[1] \in overtaken
    <2>1. CASE p[1] < gen
      BY <1>7, <2>1 DEF IInv, OneActivation
    <2>2. CASE p[1] = gen
      <3>1. gen # 0 /\ p \in AliveOf(gen)
        BY <1>2, <1>7, <2>2 DEF IInv, AliveIsListed, AliveOf, ListedOf
      <3>2. state = "TERMINATED"
        BY <3>1 DEF Activate, IInv, Typed, Fresh
      <3>3. QED
        BY <2>2, <3>1, <3>2 DEF IInv, TerminatedIsClean
    <2>3. QED
      BY <1>2, <1>7, <2>1, <2>2
  <1>8. OneActivation'
    BY <1>1, <1>2, <1>7 DEF OneActivation
  <1>9. QED
    BY <1>4, <1>5, <1>6, <1>8 DEF IInv

LEMMA SpawnKeeps ==
  ASSUME IInv, Typed', Spawn
  PROVE  IInv'
  <1> DEFINE p == <<gen, asset, RunsOf(asset) + 1>>
  <1>1. UNCHANGED <<state, gen, aborted, cleaning, overtaken, pc, mon>>
    BY DEF Spawn, cleanup
  <1>2. p \in Procs /\ p[1] = gen /\ gen \in Nat
    BY SpawnsProc DEF IInv, Typed, TypeOK, Gens, Spawn, MainGoes
  <1>3. /\ status' = [status EXCEPT ![p] = "alive"]
        /\ listed' = listed \cup {p}
        /\ late \subseteq late' /\ (aborted[gen] => p \in late')
    BY DEF Spawn
  <1>4. \A q \in Procs : q # p => status'[q] = status[q]
    BY <1>2, <1>3 DEF IInv, Typed, TypeOK
  <1>5. listed \subseteq Procs
    BY DEF IInv, Typed, TypeOK
  <1>6. \A g : \A q \in AliveOf(g)' : q \in AliveOf(g) \/ (q = p /\ g = gen)
    BY <1>2, <1>3, <1>4, <1>5 DEF AliveOf, ListedOf
  <1>7. Flagged' /\ OneCleanup'
    BY <1>1 DEF IInv, Flagged, OneCleanup
  <1>8. Aborts'
    <2>1. SUFFICES ASSUME NEW t \in Threads, pc[t] = "clean"
                   PROVE  AliveOf(mon[t])' \subseteq late'
      BY <1>1 DEF IInv, Aborts
    <2>2. aborted[mon[t]] /\ AliveOf(mon[t]) \subseteq late
      BY <2>1 DEF IInv, Aborts, Aborting
    <2>3. QED
      BY <1>1, <1>3, <1>6, <2>2
  <1>9. TerminatedIsClean'
    BY <1>1, <1>3, <1>6 DEF IInv, TerminatedIsClean
  <1>10. AliveIsListed'
    BY <1>3, <1>4 DEF IInv, AliveIsListed
  <1>11. OneActivation'
    BY <1>1, <1>2, <1>3, <1>4 DEF IInv, OneActivation
  <1>12. QED
    BY <1>7, <1>8, <1>9, <1>10, <1>11 DEF IInv

LEMMA CleanupKeeps ==
  ASSUME IInv, Typed', NEW t \in Threads, CleanupStep(t)
  PROVE  IInv'
  <1> USE DEF history
  <1>1. UNCHANGED <<state, listed, gen, late, overtaken, mon>>
    BY DEF CleanupStep, AbortFlag, AbortProceed, Pass, AbortFinish
  <1>2. /\ pc \in [Threads -> {"out", "abort", "wait", "terminate", "kill", "finish", "clean", "failed"}]
        /\ aborted \in [Gens -> BOOLEAN] /\ cleaning \in [Gens -> BOOLEAN]
        /\ \A u \in Threads : pc[u] # "out" => mon[u] \in Gens
    BY DEF IInv, Typed, TypeOK
  <1>3. pc[t] # "out" /\ \A u \in Threads : u # t => pc'[u] = pc[u]
    BY <1>2 DEF CleanupStep, AbortFlag, AbortProceed, Pass, AbortFinish, Goes
  <1>4. \A g \in Gens : aborted[g] => aborted'[g]
    BY <1>2, <1>3 DEF CleanupStep, AbortFlag, AbortProceed, Pass, AbortFinish
  <1>5. \A q \in Procs : status'[q] = "alive" => status[q] = "alive"
    BY DEF CleanupStep, AbortFlag, AbortProceed, Pass, AbortFinish
  <1>6. \A g : AliveOf(g)' \subseteq AliveOf(g)
    BY <1>1, <1>5 DEF AliveOf, ListedOf, IInv, Typed, TypeOK
  <1>7. AliveIsListed' /\ OneActivation'
    BY <1>1, <1>5 DEF IInv, AliveIsListed, OneActivation
  <1>8. TerminatedIsClean'
    <2>1. state = "TERMINATED" => gen \in Gens
      BY DEF IInv, Typed, TypeOK, Fresh
    <2>2. QED
      BY <1>1, <1>4, <1>6, <2>1 DEF IInv, TerminatedIsClean
  <1>9. Flagged' /\ OneCleanup'
    <2>1. CASE AbortFlag(t) \/ Pass(t, "terminate", "kill") \/ Pass(t, "kill", "finish")
      BY <1>1, <1>2, <1>3, <2>1
      DEF IInv, Flagged, OneCleanup, Working, AbortFlag, Pass, Goes
    <2>2. CASE AbortProceed(t)
      <3>1. \A u \in Threads : pc[u] \in Working => mon[u] # mon[t]
        BY <2>2 DEF IInv, Flagged, AbortProceed, MayClean
      <3>2. QED
        BY <1>1, <1>2, <1>3, <2>2, <3>1
        DEF IInv, Flagged, OneCleanup, Working, AbortProceed
    <2>3. CASE AbortFinish(t)
      <3>1. \A u \in Threads : u # t /\ pc[u] \in Working => mon[u] # mon[t]
        BY <2>3 DEF IInv, OneCleanup, Working, AbortFinish, Goes
      <3>2. pc'[t] \notin Working
        BY <1>2, <2>3 DEF AbortFinish, Goes, Working
      <3>3. QED
        BY <1>1, <1>2, <1>3, <2>3, <3>1, <3>2
        DEF IInv, Flagged, OneCleanup, Working, AbortFinish, CleaningDone
    <2>4. QED
      BY <2>1, <2>2, <2>3 DEF CleanupStep
  <1>10. Aborts'
    <2>1. aborted'[mon[t]] \/ pc'[t] \notin Aborting
      BY <1>2, <1>3, <1>4
      DEF IInv, Aborts, Aborting, Working, CleanupStep, AbortFlag, AbortProceed, Pass, AbortFinish, Goes
    <2>2. pc'[t] = "clean" => AliveOf(mon[t]) = {}
      BY <1>2 DEF CleanupStep, AbortFlag, AbortProceed, Pass, AbortFinish, Goes, AlreadyClean, Survivors
    <2>3. QED
      BY <1>1, <1>2, <1>3, <1>4, <1>6, <2>1, <2>2 DEF IInv, Aborts, Aborting, Working
  <1>11. QED
    BY <1>7, <1>8, <1>9, <1>10 DEF IInv

LEMMA IInvHolds == Spec => []IInv
  <1>1. ASSUME Init PROVE IInv
    <2>1. gen = 0 /\ \A p \in Procs : status[p] = "none"
      BY <1>1 DEF Init
    <2>2. QED
      BY <1>1, <2>1, TypedInit
      DEF Init, IInv, Flagged, OneCleanup, Working, Aborts, Aborting, AliveIsListed,
          TerminatedIsClean, OneActivation
  <1>2. ASSUME IInv, [Next]_vars PROVE IInv'
    BY <1>2, TypedStep, StepKinds, ElsewhereKeeps, ExitKeeps, ActivateKeeps, SpawnKeeps,
       CleanupKeeps
    DEF IInv
  <1>3. QED
    BY <1>1, <1>2, PTL DEF Spec

\* A monitor is cleaned up by one thread at a time: _cleanup_in_progress excludes
\* the others, and no notification lets two of them out of the wait.
THEOREM CleanupsExclude == Spec => []OneCleanup
  <1>1. IInv => OneCleanup
    BY DEF IInv
  <1>2. QED
    BY <1>1, IInvHolds, PTL

\* Activations do not run side by side, with the exceptions OneActivation names:
\* activate() asks for TERMINATED, and abort() goes over every process listed.
THEOREM ActivationsExclude == Spec => []OneActivation
  <1>1. IInv => OneActivation
    BY DEF IInv
  <1>2. QED
    BY <1>1, IInvHolds, PTL

\* Whoever comes back from a cleanup as clean leaves no process of the monitor
\* alive, but for those spawned behind the back of the abort.
THEOREM ReportedClean == Spec => CleanWhenReported
  <1>1. IInv /\ [Next]_vars =>
           [\A t \in Threads :
               pc[t] = "clean" /\ pc'[t] = "out" => AliveOf(mon[t]) \subseteq late]_vars
    BY DEF IInv, Aborts
  <1>2. QED
    BY <1>1, IInvHolds, PTL DEF Spec, CleanWhenReported
=============================================================================
