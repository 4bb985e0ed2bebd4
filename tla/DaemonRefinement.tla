-------------------------- MODULE DaemonRefinement --------------------------
(***************************************************************************)
(* Daemon implements Generations, for every set of services, every bound   *)
(* MaxGen and every choice of what may fail: the event loop, the main loop *)
(* and the goroutines around them, with their channels, contexts and       *)
(* connections, take no step that Generations does not know.               *)
(***************************************************************************)
EXTENDS DaemonProofs

USE DEF Gen, chanVars, exitVars, cfgVars, connVars, shutVars, mainVars,
        serveVars, genVars, eventVars, runVars, loopVars

(***************************************************************************)
(* What the refinement needs beyond IInv: where connections and            *)
(* recordShutdown can be.                                                  *)
(***************************************************************************)
PhaseInv ==
  /\ \A g \in Gen : g > revision => shut[g] = "none"
  /\ mpc = "top" /\ running \in Gen => shut[running] # "none"
  /\ \A g \in Gen : g > running /\ shut[g] # "none" => exit
  /\ \A g \in Gen : active[g] \cup idle[g] # {} =>
       /\ g <= running
       /\ g = running => mpc # "listen"
       /\ g < running => shut[g] # "none"

\* Every step keeps it, ...
LEMMA StepPhaseInv == IInv /\ PhaseInv /\ [Next]_vars => PhaseInv'
<1> SUFFICES ASSUME IInv, PhaseInv, [Next]_vars PROVE PhaseInv'
  OBVIOUS
<1>0. /\ TypeOK /\ MainLoopInv /\ RetiredInv /\ ExitRequested
      /\ revision \in Nat /\ running \in Nat
      /\ shut \in [Gen -> {"none", "spawned", "waiting", "cleanup", "done"}]
      /\ active \in [Gen -> SUBSET HTTPServers]
      /\ idle \in [Gen -> SUBSET HTTPServers]
  BY MaxGenIsNat DEF IInv, TypeOK, ConfigTypes, MainTypes, ServerTypes
<1>1. CASE Environment
  <2>1. CASE \E g \in Gen, s \in HTTPServers : Accept(g, s)
    <3>1. PICK g \in Gen, s \in HTTPServers : Accept(g, s)
      BY <2>1
    <3>2. g = running /\ mpc = "serve"
      BY <1>0, <3>1 DEF Accept, MainLoopInv
    <3>3. /\ \A h \in Gen : h # g => active'[h] = active[h]
          /\ UNCHANGED <<mpc, running, revision, shut, exit, idle>>
      BY <1>0, <3>1 DEF Accept
    <3>4. QED
      BY <1>0, <3>2, <3>3 DEF PhaseInv
  <2>2. CASE \E g \in Gen, s \in HTTPServers :
               Reuse(g, s) \/ FinishRequest(g, s)
    <3>1. PICK g \in Gen, s \in HTTPServers :
            Reuse(g, s) \/ FinishRequest(g, s)
      BY <2>2
    <3>2. active[g] \cup idle[g] # {}
      BY <3>1 DEF Reuse, FinishRequest
    <3>3. /\ \A h \in Gen :
               h # g => active'[h] = active[h] /\ idle'[h] = idle[h]
          /\ UNCHANGED <<mpc, running, revision, shut, exit>>
      BY <1>0, <3>1 DEF Reuse, FinishRequest
    <3>4. QED
      BY <3>2, <3>3 DEF PhaseInv
  <2>3. ASSUME UNCHANGED <<mpc, running, revision, shut, exit, active, idle>>
        PROVE  PhaseInv'
    BY <2>3 DEF PhaseInv
  <2>4. QED
    BY <1>1, <2>1, <2>2, <2>3 DEF Environment, Reload, Exit,
       ExitGracefulWithTimeout, ServerQuits, ServerFails
<1>2. CASE EventLoop
  <2>1. CASE LoadOk
    <3>1. /\ revision' = revision + 1
          /\ UNCHANGED <<mpc, running, shut, exit, active, idle>>
      BY <2>1 DEF LoadOk
    <3>2. QED
      BY <1>0, <3>1 DEF PhaseInv
  <2>2. CASE TakeTimedStop \/ TakeStop
    <3>1. /\ exit' = TRUE
          /\ UNCHANGED <<mpc, running, revision, shut, active, idle>>
      BY <2>2 DEF TakeTimedStop, TakeStop
    <3>2. QED
      BY <3>1 DEF PhaseInv
  <2>3. CASE CallCancel \/ TakeReload \/ CancelOld \/ LoadFail \/ EventLoopExit
    <3>1. UNCHANGED <<mpc, running, revision, shut, exit, active, idle>>
      BY <2>3 DEF CallCancel, TakeReload, CancelOld, LoadFail, EventLoopExit
    <3>2. QED
      BY <3>1 DEF PhaseInv
  <2>4. QED
    BY <1>2, <2>1, <2>2, <2>3 DEF EventLoop
<1>3. CASE MainLoop
  <2>1. CASE AskFirstConfig \/ AwaitFirstConfig
    <3>1. /\ running = 0
          /\ UNCHANGED <<running, revision, shut, exit, active, idle>>
      BY <1>0, <2>1 DEF AskFirstConfig, AwaitFirstConfig, MainLoopInv
    <3>2. \A g \in Gen : g # 0 /\ g > 0
      BY MaxGenIsNat
    <3>3. QED
      BY <3>1, <3>2 DEF PhaseInv
  <2>2. CASE PickGeneration /\ NoServers
    BY <2>2 DEF PickGeneration, PhaseInv
  <2>3. CASE PickGeneration /\ ~NoServers
    <3>1. /\ mpc = "top" /\ mpc' = "listen" /\ running' = revision
          /\ revision # 0
          /\ UNCHANGED <<revision, shut, exit, active, idle>>
      BY <2>3 DEF PickGeneration, NoServers
    <3>2. running < revision
      BY <1>0, <3>1 DEF MainLoopInv
    <3>3. \A g \in Gen : g > revision => g > running
      BY <1>0, <3>2
    <3>4. ASSUME NEW g \in Gen, active[g] \cup idle[g] # {}
          PROVE  g < revision /\ shut[g] # "none"
      <4>1. g <= running /\ g \in Nat /\ (g < running => shut[g] # "none")
        BY <3>4 DEF PhaseInv
      <4>2. g = running => shut[g] # "none"
        BY <3>1, <3>4 DEF PhaseInv
      <4>3. QED
        BY <1>0, <3>2, <4>1, <4>2
    <3>5. QED
      BY <1>0, <3>1, <3>3, <3>4 DEF PhaseInv
  <2>4. CASE ListenAndServe \/ ListenFails \/ ServeReturns \/ CheckGraceful
               \/ FinalShutdownDone
    <3>1. /\ mpc' # "top" /\ mpc' # "listen"
          /\ UNCHANGED <<running, revision, shut, exit, active, idle>>
      BY <2>4 DEF ListenAndServe, ListenFails, ServeReturns, CheckGraceful,
         FinalShutdownDone
    <3>2. QED
      BY <3>1 DEF PhaseInv
  <2>5. CASE CheckExit
    <3>1. /\ mpc = "check" /\ mpc' # "listen" /\ running \in Gen
          /\ UNCHANGED <<running, revision, exit, active, idle>>
      BY <1>0, <2>5 DEF CheckExit, MainLoopInv
    <3>2. /\ \A h \in Gen : h # running => shut'[h] = shut[h]
          /\ mpc' = "top" => shut'[running] = "spawned"
          /\ shut'[running] = "none" => shut[running] = "none"
      <4>1. CASE MustExit
        BY <2>5, <4>1 DEF CheckExit
      <4>2. CASE ~MustExit
        <5>1. mpc' = "top" /\ shut' = [shut EXCEPT ![running] = "spawned"]
          BY <2>5, <4>2 DEF CheckExit
        <5>2. QED
          BY <1>0, <3>1, <5>1
      <4>3. QED
        BY <4>1, <4>2
    <3>3. running <= revision
      BY <1>0 DEF MainLoopInv
    <3>4. QED
      BY <1>0, <3>1, <3>2, <3>3 DEF PhaseInv
  <2>6. CASE FinalShutdown
    <3>1. /\ mpc' = "drain" /\ exit
          /\ UNCHANGED <<running, revision, exit, active, idle>>
      BY <1>0, <2>6 DEF FinalShutdown, ExitRequested
    <3>2. \A h \in Gen : /\ h # revision => shut'[h] = shut[h]
                         /\ shut'[h] = "none" => shut[h] = "none"
      BY <1>0, <2>6 DEF FinalShutdown
    <3>3. QED
      BY <1>0, <3>1, <3>2 DEF PhaseInv
  <2>7. QED
    BY <1>3, <2>1, <2>2, <2>3, <2>4, <2>5, <2>6 DEF MainLoop
<1>4. ASSUME NEW g \in Gen, recordShutdown(g) PROVE PhaseInv'
  <2>1. /\ shut[g] # "none" /\ shut'[g] # "none"
        /\ \A h \in Gen : h # g => shut'[h] = shut[h]
        /\ \A h \in Gen : active'[h] \cup idle'[h] # {}
                            => active[h] \cup idle[h] # {}
        /\ UNCHANGED <<mpc, running, revision, exit>>
    BY <1>0, <1>4 DEF recordShutdown, ShutdownBegins, IdleOnShutdown,
       ShutdownReturns, ShutdownTimesOut, RunCleanups
  <2>2. QED
    BY <2>1 DEF PhaseInv
<1>5. CASE \E g \in Gen, s \in Servers : ServerStops(g, s)
  BY <1>5 DEF ServerStops, PhaseInv
<1>6. CASE UNCHANGED vars
  BY <1>6 DEF vars, PhaseInv
<1>7. QED
  BY <1>1, <1>2, <1>3, <1>4, <1>5, <1>6 DEF Next, Terminated

\* ... and it holds at the beginning.
LEMMA InitPhaseInv == Init => PhaseInv
  BY MaxGenIsNat DEF Init, PhaseInv

\* Where recordShutdown and connections of a generation are possible.
THEOREM PhaseInvariance == Spec => [](IInv /\ PhaseInv)
<1>1. IInv /\ PhaseInv /\ [Next]_vars => (IInv /\ PhaseInv)'
  BY StepPhaseInv, StepInv
<1>2. QED
  BY <1>1, InitInv, InitPhaseInv, PTL DEF Spec

(***************************************************************************)
(* Phases: a step moves one generation to another phase, or none.          *)
(***************************************************************************)
LEMMA MoveStep ==
  ASSUME NEW g \in Gen, NEW from, NEW to, PhaseOf(g) \in from,
         \A h \in Gen : PhaseOf(h)' = IF h = g THEN to ELSE PhaseOf(h)
  PROVE  Abstract!Move(g, from, to)
<1> DEFINE phases == [h \in Gen |-> PhaseOf(h)]
<1>1. phases' = [h \in Gen |-> PhaseOf(h)']
  OBVIOUS
<1>2. phases' = [phases EXCEPT ![g] = to]
  BY <1>1
<1>3. phases[g] \in from
  OBVIOUS
<1>4. QED
  BY <1>2, <1>3 DEF Abstract!Move

\* A step that touches none of what PhaseOf reads moves no generation, ...
LEMMA SamePhases ==
  ASSUME UNCHANGED <<revision, running, shut, serving>>,
         running \in Gen => (mpc = "listen" <=> mpc' = "listen")
  PROVE  \A h \in Gen : PhaseOf(h)' = PhaseOf(h)
  BY DEF PhaseOf, Retired

\* ... nor the mapping as a whole.
LEMMA NoMove ==
  ASSUME \A h \in Gen : PhaseOf(h)' = PhaseOf(h)
  PROVE  [h \in Gen |-> PhaseOf(h)]' = [h \in Gen |-> PhaseOf(h)]
  OBVIOUS

\* What the phases of a state of the inductive invariant say.
LEMMA StateFacts ==
  ASSUME IInv, PhaseInv
  PROVE  /\ revision \in Nat /\ running \in Nat /\ running <= revision
         /\ shut \in [Gen -> {"none", "spawned", "waiting", "cleanup", "done"}]
         /\ serving \in [Gen -> SUBSET Servers]
         /\ active \in [Gen -> SUBSET HTTPServers]
         /\ idle \in [Gen -> SUBSET HTTPServers]
         /\ \A g \in Gen : serving[g] # {} => mpc = "serve" /\ g = running
         /\ \A g \in Gen : serving[g] # {} => shut[g] = "none"
<1>1. /\ TypeOK /\ MainLoopInv /\ RetiredInv
  BY DEF IInv
<1>2. revision \in Nat /\ running \in Nat
  BY <1>1, MaxGenIsNat DEF TypeOK, ConfigTypes, MainTypes
<1>3. \A g \in Gen : serving[g] # {} => mpc = "serve" /\ g = running
  BY <1>1 DEF MainLoopInv
<1>4. \A g \in Gen : serving[g] # {} => shut[g] = "none"
  BY <1>1, <1>2, <1>3 DEF RetiredInv
<1>5. QED
  BY <1>1, <1>2, <1>3, <1>4 DEF TypeOK, ServerTypes, MainLoopInv

(***************************************************************************)
(* The first state, and the steps.                                         *)
(***************************************************************************)
LEMMA InitRefines == Init => Abstract!Init
<1> SUFFICES ASSUME Init PROVE Abstract!Init
  OBVIOUS
<1>1. \A g \in Gen : PhaseOf(g) = "unborn"
  BY MaxGenIsNat DEF Init, PhaseOf
<1>2. [g \in Gen |-> PhaseOf(g)] = [g \in Gen |-> "unborn"]
  BY <1>1
<1>3. QED
  BY <1>2 DEF Init, Abstract!Init, Abstract!Gen

\* A configuration that loads is the next generation, and nothing else moves.
LEMMA LoadRefines ==
  ASSUME IInv, PhaseInv, LoadOk
  PROVE  Abstract!Load(revision + 1) /\ revision + 1 \in Gen
<1>1. /\ revision \in Nat /\ running \in Nat /\ running <= revision
      /\ \A g \in Gen : serving[g] # {} => g = running
      /\ \A g \in Gen : g > revision => shut[g] = "none"
  BY StateFacts DEF PhaseInv
<1>2. /\ revision' = revision + 1
      /\ UNCHANGED <<mpc, running, serving, shut, active, exit>>
  BY DEF LoadOk
<1>3. revision + 1 \in Gen
  BY <1>1, MaxGenIsNat DEF LoadOk
<1>4. \A h \in Gen : PhaseOf(h) = "unborn" <=> h >= revision + 1
  BY <1>1 DEF PhaseOf
<1>5. \A h \in Gen : PhaseOf(h)' = IF h = revision + 1 THEN "loaded"
                                   ELSE PhaseOf(h)
  BY <1>1, <1>2 DEF PhaseOf, Retired
<1>6. Abstract!Move(revision + 1, {"unborn"}, "loaded")
  BY <1>1, <1>3, <1>4, <1>5, MoveStep
<1>7. QED
  BY <1>2, <1>3, <1>4, <1>6 DEF Abstract!Load, Abstract!Gen

\* The main loop starts the generation it picked, when no other serves.
LEMMA StartRefines ==
  ASSUME IInv, PhaseInv, ListenAndServe
  PROVE  Abstract!Start(running) /\ running \in Gen
<1>1. /\ running \in Gen /\ running \in Nat /\ revision \in Nat
      /\ running <= revision /\ mpc = "listen"
      /\ serving \in [Gen -> SUBSET Servers]
      /\ \A g \in Gen : serving[g] = {}
      /\ \A g \in Gen : g >= running => shut[g] = "none"
  BY StateFacts DEF IInv, MainLoopInv, RetiredInv, ListenAndServe
<1>2. /\ mpc' = "serve" /\ serving' = [serving EXCEPT ![running] = Servers]
      /\ UNCHANGED <<revision, running, shut, active, exit>>
  BY DEF ListenAndServe
<1>3. Servers # {}
  BY DaemonAssumption
<1>4. \A h \in Gen : PhaseOf(h) # "serving"
  BY <1>1 DEF PhaseOf
<1>5. \A h \in Gen : h > running => PhaseOf(h) \in {"unborn", "loaded"}
  BY <1>1 DEF PhaseOf, Retired
<1>6. PhaseOf(running) = "loaded"
  BY <1>1 DEF PhaseOf, Retired
<1>7. \A h \in Gen : PhaseOf(h)' = IF h = running THEN "serving"
                                   ELSE PhaseOf(h)
  BY <1>1, <1>2, <1>3 DEF PhaseOf, Retired
<1>8. Abstract!Move(running, {"loaded"}, "serving")
  BY <1>1, <1>6, <1>7, MoveStep
<1>9. QED
  BY <1>1, <1>2, <1>4, <1>5, <1>8 DEF Abstract!Start, Abstract!Gen

\* Sockets that cannot be opened: the generation is never started.
LEMMA RefuseRefines ==
  ASSUME IInv, PhaseInv, ListenFails
  PROVE  Abstract!Refuse(running) /\ running \in Gen
<1>1. /\ running \in Gen /\ running \in Nat /\ revision \in Nat
      /\ running <= revision /\ mpc = "listen"
      /\ \A g \in Gen : serving[g] = {}
      /\ \A g \in Gen : g >= running => shut[g] = "none"
  BY StateFacts DEF IInv, MainLoopInv, RetiredInv, ListenFails
<1>2. mpc' = "final" /\ UNCHANGED <<revision, running, shut, serving, active,
                                    exit>>
  BY DEF ListenFails
<1>3. PhaseOf(running) = "loaded"
  BY <1>1 DEF PhaseOf, Retired
<1>4. \A h \in Gen : PhaseOf(h)' = IF h = running THEN "stopped"
                                   ELSE PhaseOf(h)
  BY <1>1, <1>2 DEF PhaseOf, Retired
<1>5. Abstract!Move(running, {"loaded"}, "stopped")
  BY <1>1, <1>3, <1>4, MoveStep
<1>6. QED
  BY <1>1, <1>2, <1>5 DEF Abstract!Refuse

\* A service returns from Serve(): the generation stops with the last one.
LEMMA ReturnRefines ==
  ASSUME IInv, PhaseInv, NEW g \in Gen, NEW s \in serving[g],
         serving' = [serving EXCEPT ![g] = @ \ {s}],
         UNCHANGED <<revision, mpc, running, shut, active, exit>>
  PROVE  Abstract!Stop(g) \/ UNCHANGED Abstract!vars
<1>1. /\ mpc = "serve" /\ g = running /\ shut[g] = "none"
      /\ revision \in Nat /\ running \in Nat /\ running <= revision
      /\ serving \in [Gen -> SUBSET Servers]
  BY StateFacts
<1>2. PhaseOf(g) = "serving"
  BY <1>1 DEF PhaseOf
<1>3. \A h \in Gen : h # g => PhaseOf(h)' = PhaseOf(h)
  BY <1>1 DEF PhaseOf, Retired
<1>4. CASE serving[g] = {s}
  <2>1. serving'[g] = {}
    BY <1>1, <1>4
  <2>2. PhaseOf(g)' = "stopped"
    BY <1>1, <2>1 DEF PhaseOf, Retired
  <2>3. Abstract!Move(g, {"serving"}, "stopped")
    BY <1>2, <1>3, <2>2, MoveStep
  <2>4. QED
    BY <2>3 DEF Abstract!Stop
<1>5. CASE serving[g] # {s}
  <2>1. serving'[g] # {}
    BY <1>1, <1>5
  <2>2. PhaseOf(g)' = "serving"
    BY <1>1, <2>1 DEF PhaseOf
  <2>3. \A h \in Gen : PhaseOf(h)' = PhaseOf(h)
    BY <1>2, <1>3, <2>2
  <2>4. QED
    BY <2>3, NoMove DEF Abstract!vars
<1>6. QED
  BY <1>4, <1>5

\* Requests begin on connections of a generation that serves or has stopped,
\* and never on those of one that is being drained.
LEMMA BeginRefines ==
  ASSUME IInv, PhaseInv, NEW g \in Gen, NEW s \in HTTPServers,
         Accept(g, s) \/ Reuse(g, s)
  PROVE  Abstract!Begin(g, s)
<1>1. /\ revision \in Nat /\ running \in Nat /\ running <= revision
      /\ shut \in [Gen -> {"none", "spawned", "waiting", "cleanup", "done"}]
      /\ serving[g] # {} => g = running /\ shut[g] = "none"
  BY StateFacts
<1>2. /\ UNCHANGED <<revision, mpc, running, shut, serving, exit>>
      /\ s \notin active[g]
      /\ active' = [active EXCEPT ![g] = @ \cup {s}]
  BY DEF Accept, Reuse
<1>3. PhaseOf(g) \in {"serving", "stopped"}
  <2>1. CASE serving[g] # {}
    BY <1>1, <2>1 DEF PhaseOf
  <2>2. CASE serving[g] = {}
    <3>1. s \in idle[g]
      BY <2>2 DEF Accept, Reuse
    <3>2. shut[g] \in {"none", "spawned"}
      BY <1>1, <3>1 DEF IInv, RetiredInv, CleanupAfterDrain
    <3>3. /\ g <= running
          /\ g = running => mpc # "listen"
          /\ g < running => shut[g] # "none"
      BY <3>1 DEF PhaseInv
    <3>4. QED
      BY <1>1, <2>2, <3>2, <3>3 DEF PhaseOf, Retired
  <2>3. QED
    BY <2>1, <2>2
<1>4. \A h \in Gen : PhaseOf(h)' = PhaseOf(h)
  BY <1>2, SamePhases
<1>5. QED
  BY <1>2, <1>3, <1>4, NoMove DEF Abstract!Begin

\* A request ends, in both.
LEMMA FinishRefines ==
  ASSUME NEW g \in Gen, NEW s \in HTTPServers, FinishRequest(g, s)
  PROVE  Abstract!Finish(g, s)
<1>1. \A h \in Gen : PhaseOf(h)' = PhaseOf(h)
  BY SamePhases DEF FinishRequest
<1>2. QED
  BY <1>1, NoMove DEF FinishRequest, Abstract!Finish

\* recordShutdown takes a generation that has stopped, or on exit one that
\* was never started.
LEMMA DrainRefines ==
  ASSUME IInv, PhaseInv, NEW g \in Gen, ShutdownBegins(g)
  PROVE  Abstract!Drain(g)
<1>1. /\ revision \in Nat /\ running \in Nat /\ running <= revision
      /\ shut \in [Gen -> {"none", "spawned", "waiting", "cleanup", "done"}]
      /\ shut[g] = "spawned" /\ serving[g] = {}
  BY StateFacts DEF ShutdownBegins
<1>2. /\ shut' = [shut EXCEPT ![g] = "waiting"]
      /\ UNCHANGED <<revision, mpc, running, serving, active, exit>>
  BY DEF ShutdownBegins
<1>3. /\ g <= revision
      /\ g > running => exit
      /\ g = running => mpc # "listen"
  BY <1>1 DEF PhaseInv, IInv, RetiredInv
<1>4. \A h \in Gen : PhaseOf(h)' = IF h = g THEN "draining" ELSE PhaseOf(h)
  BY <1>1, <1>2, <1>3 DEF PhaseOf, Retired
<1>5. PhaseOf(g) = "stopped" \/ (exit /\ PhaseOf(g) = "loaded")
  BY <1>1, <1>3 DEF PhaseOf, Retired
<1>6. CASE PhaseOf(g) = "stopped"
  <2>1. Abstract!Move(g, {"stopped"}, "draining")
    BY <1>4, <1>6, MoveStep
  <2>2. QED
    BY <1>2, <2>1 DEF Abstract!Drain
<1>7. CASE exit /\ PhaseOf(g) = "loaded"
  <2>1. Abstract!Move(g, {"loaded"}, "draining")
    BY <1>4, <1>7, MoveStep
  <2>2. QED
    BY <1>2, <1>7, <2>1 DEF Abstract!Drain
<1>8. QED
  BY <1>5, <1>6, <1>7

\* Only the drain of an exit has a deadline to run into.
LEMMA CutRefines ==
  ASSUME IInv, PhaseInv, NEW g \in Gen, ShutdownTimesOut(g)
  PROVE  Abstract!Cut(g)
<1>1. /\ revision \in Nat
      /\ shut \in [Gen -> {"none", "spawned", "waiting", "cleanup", "done"}]
      /\ shut[g] = "waiting" /\ g <= revision
  BY StateFacts DEF ShutdownTimesOut, PhaseInv
<1>2. exit
  BY DEF ShutdownTimesOut, DeadlineOf, IInv, ExitRequested
<1>3. /\ shut' = [shut EXCEPT ![g] = "cleanup"]
      /\ active' = [active EXCEPT ![g] = {}]
      /\ UNCHANGED <<revision, mpc, running, serving, exit>>
  BY DEF ShutdownTimesOut
<1>4. PhaseOf(g) = "draining"
  BY <1>1 DEF PhaseOf
<1>5. \A h \in Gen : PhaseOf(h)' = PhaseOf(h)
  BY <1>1, <1>3 DEF PhaseOf, Retired
<1>6. QED
  BY <1>2, <1>3, <1>4, <1>5, NoMove DEF Abstract!Cut

\* Cleanups run when no request is left.
LEMMA CleanRefines ==
  ASSUME IInv, PhaseInv, NEW g \in Gen, RunCleanups(g)
  PROVE  Abstract!Clean(g)
<1>1. /\ revision \in Nat
      /\ shut \in [Gen -> {"none", "spawned", "waiting", "cleanup", "done"}]
      /\ shut[g] = "cleanup" /\ g <= revision /\ active[g] = {}
  BY StateFacts DEF RunCleanups, PhaseInv, IInv, CleanupAfterDrain
<1>2. /\ shut' = [shut EXCEPT ![g] = "done"]
      /\ UNCHANGED <<revision, mpc, running, serving, active, exit>>
  BY DEF RunCleanups
<1>3. PhaseOf(g) = "draining"
  BY <1>1 DEF PhaseOf
<1>4. \A h \in Gen : PhaseOf(h)' = IF h = g THEN "clean" ELSE PhaseOf(h)
  BY <1>1, <1>2 DEF PhaseOf, Retired
<1>5. Abstract!Move(g, {"draining"}, "clean")
  BY <1>3, <1>4, MoveStep
<1>6. QED
  BY <1>1, <1>2, <1>5 DEF Abstract!Clean

\* The main loop takes the newest generation: a stutter, since the one it ran
\* is already in the hands of recordShutdown and the new one does not serve
\* before its sockets are open.
LEMMA PickStutters ==
  ASSUME IInv, PhaseInv, PickGeneration
  PROVE  \A h \in Gen : PhaseOf(h)' = PhaseOf(h)
<1>1. CASE NoServers
  <2>1. /\ mpc = "top" /\ mpc' = "return"
        /\ UNCHANGED <<revision, running, shut, serving>>
    BY <1>1 DEF PickGeneration
  <2>2. QED
    BY <2>1, SamePhases
<1>2. CASE ~NoServers
  <2>1. /\ mpc = "top" /\ mpc' = "listen" /\ running' = revision
        /\ UNCHANGED <<revision, shut, serving>>
    BY <1>2 DEF PickGeneration
  <2>2. /\ revision \in Nat /\ running \in Nat /\ running < revision
        /\ shut \in [Gen -> {"none", "spawned", "waiting", "cleanup", "done"}]
        /\ \A h \in Gen : serving[h] = {}
    BY <1>2, <2>1, StateFacts DEF IInv, MainLoopInv, NoServers
  <2>3. \A h \in Gen : h > running => shut[h] = "none"
    BY <2>1, <2>2 DEF IInv, RetiredInv
  <2>4. running \in Gen => shut[running] # "none"
    BY <2>1 DEF PhaseInv
  <2>5. ASSUME NEW h \in Gen PROVE PhaseOf(h)' = PhaseOf(h)
    <3>1. h \in Nat
      OBVIOUS
    <3>2. CASE h > running
      BY <2>1, <2>2, <2>3, <3>1, <3>2 DEF PhaseOf, Retired
    <3>3. CASE h = running
      BY <2>1, <2>2, <2>4, <3>1, <3>3 DEF PhaseOf, Retired
    <3>4. CASE h < running
      BY <2>1, <2>2, <3>1, <3>4 DEF PhaseOf, Retired
    <3>5. QED
      BY <2>2, <3>1, <3>2, <3>3, <3>4
  <2>6. QED
    BY <2>5
<1>3. QED
  BY <1>1, <1>2

\* Spawning recordShutdown moves no generation either: one that stopped stays
\* stopped, and one that was never started stays loaded, until it begins.
LEMMA SpawnStutters ==
  ASSUME IInv, PhaseInv, CheckExit \/ FinalShutdown
  PROVE  \A h \in Gen : PhaseOf(h)' = PhaseOf(h)
<1>1. /\ revision \in Nat /\ running \in Nat /\ running <= revision
      /\ shut \in [Gen -> {"none", "spawned", "waiting", "cleanup", "done"}]
      /\ \A h \in Gen : serving[h] = {}
  BY StateFacts DEF CheckExit, FinalShutdown
<1>2. \A h \in Gen : h >= running => shut[h] = "none"
  BY <1>1 DEF CheckExit, FinalShutdown, IInv, RetiredInv
<1>3. mpc # "listen" /\ mpc' # "listen"
      /\ UNCHANGED <<revision, running, serving>>
  BY DEF CheckExit, FinalShutdown
<1>4. PICK g \in {running, revision} :
        shut' = shut \/ (g \in Gen /\ shut' = [shut EXCEPT ![g] = "spawned"])
  BY <1>1 DEF CheckExit, FinalShutdown, IInv, MainLoopInv, TypeOK, ConfigTypes
<1>5. CASE shut' = shut
  BY <1>3, <1>5, SamePhases
<1>6. CASE g \in Gen /\ shut' = [shut EXCEPT ![g] = "spawned"]
  BY <1>1, <1>2, <1>3, <1>4, <1>6 DEF PhaseOf, Retired
<1>7. QED
  BY <1>4, <1>5, <1>6

\* Every step of the daemon is one of Generations, or changes nothing there.
LEMMA StepRefines ==
  ASSUME IInv, PhaseInv, Next
  PROVE  Abstract!Next \/ UNCHANGED Abstract!vars
<1> USE DEF Abstract!Gen
<1>0. ASSUME \A h \in Gen : PhaseOf(h)' = PhaseOf(h), UNCHANGED <<active, exit>>
      PROVE  UNCHANGED Abstract!vars
  BY <1>0, NoMove DEF Abstract!vars
<1>1. ASSUME UNCHANGED <<revision, mpc, running, serving, shut, active, exit>>
      PROVE  UNCHANGED Abstract!vars
  <2>1. \A h \in Gen : PhaseOf(h)' = PhaseOf(h)
    BY <1>1, SamePhases
  <2>2. QED
    BY <1>0, <1>1, <2>1
<1>2. ASSUME NEW g \in Gen, NEW s \in Servers,
             ServerStops(g, s) \/ ServerQuits(g, s) \/ ServerFails(g, s)
      PROVE  Abstract!Next \/ UNCHANGED Abstract!vars
  <2>1. /\ s \in serving[g] /\ serving' = [serving EXCEPT ![g] = @ \ {s}]
        /\ UNCHANGED <<revision, mpc, running, shut, active, exit>>
    BY <1>2 DEF ServerStops, ServerQuits, ServerFails
  <2>2. Abstract!Stop(g) \/ UNCHANGED Abstract!vars
    BY <2>1, ReturnRefines
  <2>3. QED
    BY <2>2 DEF Abstract!Next
<1>3. CASE Environment
  <2>1. CASE Reload \/ (\E how \in {"graceful", "now"} : Exit(how))
               \/ (\E to \in Timeout : ExitGracefulWithTimeout(to))
    <3>1. UNCHANGED <<revision, mpc, running, serving, shut, active, exit>>
      BY <2>1 DEF Reload, Exit, ExitGracefulWithTimeout
    <3>2. QED
      BY <1>1, <3>1
  <2>2. ASSUME NEW g \in Gen, NEW s \in HTTPServers,
               Accept(g, s) \/ Reuse(g, s) \/ FinishRequest(g, s)
        PROVE  Abstract!Next
    <3>1. Abstract!Begin(g, s) \/ Abstract!Finish(g, s)
      BY <2>2, BeginRefines, FinishRefines
    <3>2. QED
      BY <3>1 DEF Abstract!Next
  <2>3. QED
    BY <1>2, <1>3, <2>1, <2>2 DEF Environment
<1>4. CASE EventLoop
  <2>1. CASE LoadOk
    BY <2>1, LoadRefines DEF Abstract!Next
  <2>2. CASE TakeTimedStop \/ TakeStop
    <3>1. /\ exit' = TRUE
          /\ UNCHANGED <<revision, mpc, running, serving, shut, active>>
      BY <2>2 DEF TakeTimedStop, TakeStop
    <3>2. \A h \in Gen : PhaseOf(h)' = PhaseOf(h)
      BY <3>1, SamePhases
    <3>3. Abstract!RequestExit
      BY <3>1, <3>2, NoMove DEF Abstract!RequestExit
    <3>4. QED
      BY <3>3 DEF Abstract!Next
  <2>3. CASE CallCancel \/ TakeReload \/ CancelOld \/ LoadFail \/ EventLoopExit
    <3>1. UNCHANGED <<revision, mpc, running, serving, shut, active, exit>>
      BY <2>3 DEF CallCancel, TakeReload, CancelOld, LoadFail, EventLoopExit
    <3>2. QED
      BY <1>1, <3>1
  <2>4. QED
    BY <1>4, <2>1, <2>2, <2>3 DEF EventLoop
<1>5. CASE MainLoop
  <2>1. CASE PickGeneration
    <3>1. UNCHANGED <<active, exit>>
      BY <2>1 DEF PickGeneration
    <3>2. QED
      BY <1>0, <2>1, <3>1, PickStutters
  <2>2. CASE CheckExit \/ FinalShutdown
    <3>1. UNCHANGED <<active, exit>>
      BY <2>2 DEF CheckExit, FinalShutdown
    <3>2. QED
      BY <1>0, <2>2, <3>1, SpawnStutters
  <2>3. CASE ListenAndServe
    BY <2>3, StartRefines DEF Abstract!Next
  <2>4. CASE ListenFails
    BY <2>4, RefuseRefines DEF Abstract!Next
  <2>5. CASE AskFirstConfig \/ AwaitFirstConfig \/ ServeReturns
               \/ CheckGraceful \/ FinalShutdownDone
    <3>1. /\ mpc # "listen" /\ mpc' # "listen"
          /\ UNCHANGED <<revision, running, serving, shut, active, exit>>
      BY <2>5 DEF AskFirstConfig, AwaitFirstConfig, ServeReturns,
         CheckGraceful, FinalShutdownDone
    <3>2. \A h \in Gen : PhaseOf(h)' = PhaseOf(h)
      BY <3>1, SamePhases
    <3>3. QED
      BY <1>0, <3>1, <3>2
  <2>6. QED
    BY <1>5, <2>1, <2>2, <2>3, <2>4, <2>5 DEF MainLoop
<1>6. ASSUME NEW g \in Gen, recordShutdown(g)
      PROVE  Abstract!Next \/ UNCHANGED Abstract!vars
  <2>1. CASE ShutdownReturns(g)
    <3>1. shut[g] = "waiting" /\ shut' = [shut EXCEPT ![g] = "cleanup"]
          /\ UNCHANGED <<revision, mpc, running, serving, active, exit>>
      BY <2>1 DEF ShutdownReturns
    <3>2. shut \in [Gen -> {"none", "spawned", "waiting", "cleanup", "done"}]
      BY StateFacts
    <3>3. \A h \in Gen : PhaseOf(h)' = PhaseOf(h)
      BY <3>1, <3>2 DEF PhaseOf, Retired
    <3>4. QED
      BY <1>0, <3>1, <3>3
  <2>2. CASE ~ShutdownReturns(g)
    <3>1. Abstract!Drain(g) \/ Abstract!Cut(g) \/ Abstract!Clean(g)
      BY <1>6, <2>2, DrainRefines, CutRefines, CleanRefines DEF recordShutdown
    <3>2. QED
      BY <3>1 DEF Abstract!Next
  <2>3. QED
    BY <2>1, <2>2
<1>7. CASE UNCHANGED vars
  BY <1>1, <1>7 DEF vars
<1>8. QED
  BY <1>2, <1>3, <1>4, <1>5, <1>6, <1>7 DEF Next, Terminated

\* The daemon keeps the promises of Generations: whatever the goroutines of
\* Run() do, generations are loaded in order, one serves at a time, requests
\* begin only before a drain, and cleanups run after the last of them.
THEOREM RefinesGenerations == Spec => ImplementsGenerations
<1>1. Init => Abstract!Init
  BY InitRefines
<1>2. IInv /\ PhaseInv /\ [Next]_vars
        => (Abstract!Next \/ UNCHANGED Abstract!vars)
  <2> SUFFICES ASSUME IInv, PhaseInv, UNCHANGED vars
               PROVE  UNCHANGED Abstract!vars
    BY StepRefines
  <2>1. UNCHANGED <<revision, mpc, running, serving, shut, active, exit>>
    BY DEF vars
  <2>2. \A h \in Gen : PhaseOf(h)' = PhaseOf(h)
    BY <2>1, SamePhases
  <2>3. QED
    BY <2>1, <2>2, NoMove DEF Abstract!vars
<1>3. QED
  BY <1>1, <1>2, PhaseInvariance, PTL
  DEF Spec, ImplementsGenerations, Abstract!Spec

=============================================================================
