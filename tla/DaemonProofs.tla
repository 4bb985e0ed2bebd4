---------------------------- MODULE DaemonProofs ----------------------------
(***************************************************************************)
(* Proofs about Daemon, for every set of services, every bound MaxGen and  *)
(* every choice of what may fail.                                          *)
(***************************************************************************)
EXTENDS Daemon, TLAPS

USE DEF Gen, Timeout, NilCancel, NoopCancel,
        chanVars, exitVars, cfgVars, connVars, shutVars, mainVars,
        serveVars, genVars, eventVars, runVars, loopVars,
        OldContext, AllReturned, MustExit, Drained, IdleOnShutdown, FirstCancel

\* At least one generation.
LEMMA MaxGenIsNat == MaxGen \in Nat \ {0}
  BY DaemonAssumption

(***************************************************************************)
(* Types are preserved by every step.                                      *)
(***************************************************************************)
LEMMA StepExitTypes == TypeOK /\ [Next]_vars => ExitTypes'
<1> USE DEF TypeOK, ExitTypes
<1> SUFFICES ASSUME TypeOK, [Next]_vars PROVE ExitTypes'
  OBVIOUS
<1>1. CASE Environment
  <2>1. CASE Reload
    BY <2>1 DEF Reload
  <2>2. CASE \E how \in {"graceful", "now"} : Exit(how)
    BY <2>2 DEF Exit
  <2>3. CASE \E to \in Timeout : ExitGracefulWithTimeout(to)
    BY <2>3 DEF ExitGracefulWithTimeout
  <2>4. CASE \E g \in Gen, s \in HTTPServers :
               Accept(g, s) \/ Reuse(g, s) \/ FinishRequest(g, s)
    BY <2>4 DEF Accept, Reuse, FinishRequest
  <2>5. CASE \E g \in Gen, s \in Servers :
               ServerQuits(g, s) \/ ServerFails(g, s)
    BY <2>5 DEF ServerQuits, ServerFails
  <2>6. QED
    BY <1>1, <2>1, <2>2, <2>3, <2>4, <2>5 DEF Environment
<1>2. CASE EventLoop
  BY <1>2 DEF EventLoop, TakeTimedStop, TakeStop, CallCancel, TakeReload,
     LoadOk, CancelOld, LoadFail, EventLoopExit
<1>3. CASE MainLoop
  BY <1>3 DEF MainLoop, AskFirstConfig, AwaitFirstConfig, PickGeneration,
     ListenAndServe, ListenFails, ServeReturns, CheckExit, CheckGraceful,
     FinalShutdown, FinalShutdownDone
<1>4. CASE \E g \in Gen : recordShutdown(g)
  BY <1>4 DEF recordShutdown, ShutdownBegins, ShutdownReturns,
     ShutdownTimesOut, RunCleanups
<1>5. CASE \E g \in Gen, s \in Servers : ServerStops(g, s)
  BY <1>5 DEF ServerStops
<1>6. CASE UNCHANGED vars
  BY <1>6 DEF vars
<1>7. QED
  BY <1>1, <1>2, <1>3, <1>4, <1>5, <1>6 DEF Next, Terminated

\* What the event loop works on keeps its type, ...
LEMMA StepConfigTypes == TypeOK /\ [Next]_vars => ConfigTypes'
<1> USE DEF TypeOK, ConfigTypes
<1> SUFFICES ASSUME TypeOK, [Next]_vars PROVE ConfigTypes'
  OBVIOUS
<1>1. CASE Environment
  <2>1. CASE Reload
    BY <2>1 DEF Reload
  <2>2. CASE \E how \in {"graceful", "now"} : Exit(how)
    BY <2>2 DEF Exit
  <2>3. CASE \E to \in Timeout : ExitGracefulWithTimeout(to)
    BY <2>3 DEF ExitGracefulWithTimeout
  <2>4. CASE \E g \in Gen, s \in HTTPServers :
               Accept(g, s) \/ Reuse(g, s) \/ FinishRequest(g, s)
    BY <2>4 DEF Accept, Reuse, FinishRequest
  <2>5. CASE \E g \in Gen, s \in Servers :
               ServerQuits(g, s) \/ ServerFails(g, s)
    BY <2>5 DEF ServerQuits, ServerFails
  <2>6. QED
    BY <1>1, <2>1, <2>2, <2>3, <2>4, <2>5 DEF Environment
<1>2. CASE EventLoop
  <2>1. CASE TakeTimedStop \/ TakeStop \/ TakeReload
    BY <2>1 DEF TakeTimedStop, TakeStop, TakeReload
  <2>2. CASE CallCancel \/ CancelOld \/ EventLoopExit
    BY <2>2 DEF CallCancel, CancelOld, EventLoopExit
  <2>3. CASE LoadOk
    <3>1. revision + 1 \in Gen
      BY <2>3, MaxGenIsNat DEF LoadOk
    <3>2. elpc' = "replace" /\ configErr' = configErr
          /\ firstConfigLoadDone' = firstConfigLoadDone
          /\ oldCancel' = nextCancel
          /\ nextCancel' = revision + 1 /\ revision' = revision + 1
      BY <2>3 DEF LoadOk
    <3>3. empty' \subseteq Gen
      BY <2>3, <3>1 DEF LoadOk
    <3>4. QED
      BY <3>1, <3>2, <3>3
  <2>4. CASE LoadFail
    BY <2>4 DEF LoadFail
  <2>5. QED
    BY <1>2, <2>1, <2>2, <2>3, <2>4 DEF EventLoop
<1>3. CASE MainLoop
  BY <1>3 DEF MainLoop, AskFirstConfig, AwaitFirstConfig, PickGeneration,
     ListenAndServe, ListenFails, ServeReturns, CheckExit, CheckGraceful,
     FinalShutdown, FinalShutdownDone
<1>4. CASE \E g \in Gen : recordShutdown(g)
  BY <1>4 DEF recordShutdown, ShutdownBegins, ShutdownReturns,
     ShutdownTimesOut, RunCleanups
<1>5. CASE \E g \in Gen, s \in Servers : ServerStops(g, s)
  BY <1>5 DEF ServerStops
<1>6. CASE UNCHANGED vars
  BY <1>6 DEF vars
<1>7. QED
  BY <1>1, <1>2, <1>3, <1>4, <1>5, <1>6 DEF Next, Terminated

\* ... what the main loop works on, ...
LEMMA StepMainTypes == TypeOK /\ [Next]_vars => MainTypes'
<1> USE DEF TypeOK, MainTypes
<1> SUFFICES ASSUME TypeOK, [Next]_vars PROVE MainTypes'
  OBVIOUS
<1>1. CASE Environment
  <2>1. CASE Reload
    BY <2>1 DEF Reload
  <2>2. CASE \E how \in {"graceful", "now"} : Exit(how)
    BY <2>2 DEF Exit
  <2>3. CASE \E to \in Timeout : ExitGracefulWithTimeout(to)
    BY <2>3 DEF ExitGracefulWithTimeout
  <2>4. CASE \E g \in Gen, s \in HTTPServers :
               Accept(g, s) \/ Reuse(g, s) \/ FinishRequest(g, s)
    BY <2>4 DEF Accept, Reuse, FinishRequest
  <2>5. CASE \E g \in Gen, s \in Servers :
               ServerQuits(g, s) \/ ServerFails(g, s)
    BY <2>5 DEF ServerQuits, ServerFails
  <2>6. QED
    BY <1>1, <2>1, <2>2, <2>3, <2>4, <2>5 DEF Environment
<1>2. CASE EventLoop
  BY <1>2 DEF EventLoop, TakeTimedStop, TakeStop, CallCancel, TakeReload,
     LoadOk, CancelOld, LoadFail, EventLoopExit
<1>3. CASE MainLoop
  <2>1. CASE AskFirstConfig \/ AwaitFirstConfig
    BY <2>1 DEF AskFirstConfig, AwaitFirstConfig
  <2>6. CASE PickGeneration
    BY <2>6 DEF PickGeneration, ConfigTypes
  <2>2. CASE ListenAndServe
    BY <2>2 DEF ListenAndServe
  <2>7. CASE ListenFails \/ ServeReturns
    BY <2>7 DEF ListenFails, ServeReturns
  <2>3. CASE CheckExit \/ CheckGraceful
    BY <2>3 DEF CheckExit, CheckGraceful
  <2>4. CASE FinalShutdown \/ FinalShutdownDone
    BY <2>4 DEF FinalShutdown, FinalShutdownDone, ExitTypes
  <2>5. QED
    BY <1>3, <2>1, <2>6, <2>2, <2>7, <2>3, <2>4 DEF MainLoop
<1>4. CASE \E g \in Gen : recordShutdown(g)
  BY <1>4 DEF recordShutdown, ShutdownBegins, ShutdownReturns,
     ShutdownTimesOut, RunCleanups
<1>5. CASE \E g \in Gen, s \in Servers : ServerStops(g, s)
  BY <1>5 DEF ServerStops
<1>6. CASE UNCHANGED vars
  BY <1>6 DEF vars
<1>7. QED
  BY <1>1, <1>2, <1>3, <1>4, <1>5, <1>6 DEF Next, Terminated

\* ... and what the services of a generation are.
LEMMA StepServerTypes == TypeOK /\ [Next]_vars => ServerTypes'
<1> USE DEF TypeOK, ServerTypes
<1> SUFFICES ASSUME TypeOK, [Next]_vars PROVE ServerTypes'
  OBVIOUS
<1>1. CASE Environment
  <2>1. CASE Reload
    BY <2>1 DEF Reload
  <2>2. CASE \E how \in {"graceful", "now"} : Exit(how)
    BY <2>2 DEF Exit
  <2>3. CASE \E to \in Timeout : ExitGracefulWithTimeout(to)
    BY <2>3 DEF ExitGracefulWithTimeout
  <2>4. CASE \E g \in Gen, s \in HTTPServers : Accept(g, s)
    BY <2>4 DEF Accept
  <2>7. CASE \E g \in Gen, s \in HTTPServers : Reuse(g, s)
    BY <2>7 DEF Reuse
  <2>8. CASE \E g \in Gen, s \in HTTPServers : FinishRequest(g, s)
    BY <2>8 DEF FinishRequest
  <2>5. CASE \E g \in Gen, s \in Servers : ServerQuits(g, s)
    BY <2>5 DEF ServerQuits
  <2>9. CASE \E g \in Gen, s \in Servers : ServerFails(g, s)
    BY <2>9 DEF ServerFails
  <2>6. QED
    BY <1>1, <2>1, <2>2, <2>3, <2>4, <2>5, <2>7, <2>8, <2>9 DEF Environment
<1>2. CASE EventLoop
  BY <1>2 DEF EventLoop, TakeTimedStop, TakeStop, CallCancel, TakeReload,
     LoadOk, CancelOld, LoadFail, EventLoopExit
<1>3. CASE MainLoop
  <2>1. CASE AskFirstConfig \/ AwaitFirstConfig
    BY <2>1 DEF AskFirstConfig, AwaitFirstConfig
  <2>6. CASE PickGeneration
    BY <2>6 DEF PickGeneration
  <2>2. CASE ListenAndServe
    BY <2>2 DEF ListenAndServe
  <2>7. CASE ListenFails \/ ServeReturns
    BY <2>7 DEF ListenFails, ServeReturns
  <2>3. CASE CheckExit \/ CheckGraceful
    BY <2>3 DEF CheckExit, CheckGraceful
  <2>4. CASE FinalShutdown \/ FinalShutdownDone
    BY <2>4 DEF FinalShutdown, FinalShutdownDone
  <2>5. QED
    BY <1>3, <2>1, <2>6, <2>2, <2>7, <2>3, <2>4 DEF MainLoop
<1>4. CASE \E g \in Gen : recordShutdown(g)
  <2>1. CASE \E g \in Gen : ShutdownBegins(g)
    BY <2>1 DEF ShutdownBegins
  <2>2. CASE \E g \in Gen : ShutdownReturns(g) \/ RunCleanups(g)
    BY <2>2 DEF ShutdownReturns, RunCleanups
  <2>3. CASE \E g \in Gen : ShutdownTimesOut(g)
    BY <2>3 DEF ShutdownTimesOut
  <2>4. QED
    BY <1>4, <2>1, <2>2, <2>3 DEF recordShutdown
<1>5. CASE \E g \in Gen, s \in Servers : ServerStops(g, s)
  BY <1>5 DEF ServerStops
<1>6. CASE UNCHANGED vars
  BY <1>6 DEF vars
<1>7. QED
  BY <1>1, <1>2, <1>3, <1>4, <1>5, <1>6 DEF Next, Terminated

(***************************************************************************)
(* nextCancel follows the newest generation through every load.            *)
(***************************************************************************)
LEMMA StepCancelNewest == IInv /\ [Next]_vars => CancelNewest'
<1> USE DEF IInv, CancelNewest, TypeOK, ConfigTypes
<1> SUFFICES ASSUME IInv, [Next]_vars PROVE CancelNewest'
  BY DEF CancelNewest
<1>1. CASE Environment
  BY <1>1 DEF Environment, Reload, Exit, ExitGracefulWithTimeout, Accept,
     Reuse, FinishRequest, ServerQuits, ServerFails
<1>2. CASE EventLoop
  BY <1>2 DEF EventLoop, TakeTimedStop, TakeStop, CallCancel, TakeReload,
     LoadOk, CancelOld, LoadFail, EventLoopExit
<1>3. CASE MainLoop
  BY <1>3 DEF MainLoop, AskFirstConfig, AwaitFirstConfig, PickGeneration,
     NoServers, ListenAndServe, ListenFails, ServeReturns, CheckExit,
     CheckGraceful, FinalShutdown, FinalShutdownDone
<1>4. CASE \E g \in Gen : recordShutdown(g)
  BY <1>4 DEF recordShutdown, ShutdownBegins, ShutdownReturns,
     ShutdownTimesOut, DeadlineOf, RunCleanups
<1>5. CASE \E g \in Gen, s \in Servers : ServerStops(g, s)
  BY <1>5 DEF ServerStops
<1>6. CASE UNCHANGED vars
  BY <1>6 DEF vars
<1>7. QED
  BY <1>1, <1>2, <1>3, <1>4, <1>5, <1>6 DEF Next, Terminated

(***************************************************************************)
(* A graceful exit, and a pending cancellation, come from an exit event.   *)
(***************************************************************************)
LEMMA StepExitRequested == IInv /\ [Next]_vars => ExitRequested'
<1> USE DEF IInv, ExitRequested, TypeOK, ExitTypes
<1> SUFFICES ASSUME IInv, [Next]_vars PROVE ExitRequested'
  BY DEF ExitRequested
<1>1. CASE Environment
  BY <1>1 DEF Environment, Reload, Exit, ExitGracefulWithTimeout, Accept,
     Reuse, FinishRequest, ServerQuits, ServerFails
<1>2. CASE EventLoop
  BY <1>2 DEF EventLoop, TakeTimedStop, TakeStop, CallCancel, TakeReload,
     LoadOk, CancelOld, LoadFail, EventLoopExit
<1>3. CASE MainLoop
  BY <1>3 DEF MainLoop, AskFirstConfig, AwaitFirstConfig, PickGeneration,
     NoServers, ListenAndServe, ListenFails, ServeReturns, CheckExit,
     CheckGraceful, FinalShutdown, FinalShutdownDone
<1>4. CASE \E g \in Gen : recordShutdown(g)
  BY <1>4 DEF recordShutdown, ShutdownBegins, ShutdownReturns,
     ShutdownTimesOut, DeadlineOf, RunCleanups
<1>5. CASE \E g \in Gen, s \in Servers : ServerStops(g, s)
  BY <1>5 DEF ServerStops
<1>6. CASE UNCHANGED vars
  BY <1>6 DEF vars
<1>7. QED
  BY <1>1, <1>2, <1>3, <1>4, <1>5, <1>6 DEF Next, Terminated

(***************************************************************************)
(* Only CancelOld, CallCancel and EventLoopExit cancel a context: the first *)
(* one that of a replaced generation, the others after an exit.            *)
(***************************************************************************)
LEMMA StepFailedLoadHarmless == IInv /\ [Next]_vars => FailedLoadHarmless'
<1> USE DEF FailedLoadHarmless
<1> SUFFICES ASSUME IInv, [Next]_vars PROVE FailedLoadHarmless'
  OBVIOUS
<1> FailedLoadHarmless /\ CancelNewest /\ ExitRequested /\ ConfigTypes
    /\ ServerTypes
  BY DEF IInv, TypeOK
<1>1. CASE Environment
  BY <1>1 DEF Environment, Reload, Exit, ExitGracefulWithTimeout, Accept,
     Reuse, FinishRequest, ServerQuits, ServerFails
<1>2. CASE EventLoop
  <2>1. CASE TakeTimedStop
    BY <2>1 DEF TakeTimedStop
  <2>2. CASE TakeStop
    BY <2>2 DEF TakeStop
  <2>3. CASE TakeReload
    BY <2>3 DEF TakeReload
  <2>4. CASE CallCancel
    BY <2>4, MaxGenIsNat
    DEF CallCancel, CancelNewest, ExitRequested, ConfigTypes
  <2>5. CASE LoadOk
    <3>1. revision' = revision + 1 /\ revision \in Nat
      BY <2>5, MaxGenIsNat DEF LoadOk, ConfigTypes
    <3>2. cancelled' = cancelled /\ exit' = exit /\ mpc' = mpc
      BY <2>5 DEF LoadOk
    <3>3. ASSUME NEW g \in cancelled, g < revision PROVE g < revision + 1
      BY <3>1, <3>3, MaxGenIsNat DEF ServerTypes
    <3>4. QED
      BY <3>1, <3>2, <3>3
  <2>6. CASE CancelOld
    BY <2>6, MaxGenIsNat DEF CancelOld, CancelNewest, ConfigTypes
  <2>7. CASE LoadFail
    BY <2>7 DEF LoadFail
  <2>8. CASE EventLoopExit
    BY <2>8 DEF EventLoopExit
  <2>9. QED
    BY <1>2, <2>1, <2>2, <2>3, <2>4, <2>5, <2>6, <2>7, <2>8 DEF EventLoop
<1>3. CASE MainLoop
  BY <1>3 DEF MainLoop, AskFirstConfig, AwaitFirstConfig, PickGeneration,
     NoServers, ListenAndServe, ListenFails, ServeReturns, CheckExit,
     CheckGraceful, FinalShutdown, FinalShutdownDone
<1>4. CASE \E g \in Gen : recordShutdown(g)
  BY <1>4 DEF recordShutdown, ShutdownBegins, ShutdownReturns,
     ShutdownTimesOut, DeadlineOf, RunCleanups
<1>5. CASE \E g \in Gen, s \in Servers : ServerStops(g, s)
  <2>1. UNCHANGED <<cancelled, revision, exit, mpc>>
    BY <1>5 DEF ServerStops
  <2>2. QED
    BY <2>1
<1>6. CASE UNCHANGED vars
  BY <1>6 DEF vars
<1>7. QED
  BY <1>1, <1>2, <1>3, <1>4, <1>5, <1>6 DEF Next, Terminated

(***************************************************************************)
(* LoadOk saves the CancelFunc of the generation it replaces in oldCancel. *)
(***************************************************************************)
LEMMA StepSupersededCancelled == IInv /\ [Next]_vars => SupersededCancelled'
<1> USE DEF IInv, SupersededCancelled, CancelNewest, TypeOK, ConfigTypes
<1> SUFFICES ASSUME IInv, [Next]_vars PROVE SupersededCancelled'
  BY DEF SupersededCancelled
<1>1. CASE Environment
  BY <1>1 DEF Environment, Reload, Exit, ExitGracefulWithTimeout, Accept,
     Reuse, FinishRequest, ServerQuits, ServerFails
<1>2. CASE EventLoop
  BY <1>2 DEF EventLoop, TakeTimedStop, TakeStop, CallCancel, TakeReload,
     LoadOk, CancelOld, LoadFail, EventLoopExit
<1>3. CASE MainLoop
  BY <1>3 DEF MainLoop, AskFirstConfig, AwaitFirstConfig, PickGeneration,
     NoServers, ListenAndServe, ListenFails, ServeReturns, CheckExit,
     CheckGraceful, FinalShutdown, FinalShutdownDone
<1>4. CASE \E g \in Gen : recordShutdown(g)
  BY <1>4 DEF recordShutdown, ShutdownBegins, ShutdownReturns,
     ShutdownTimesOut, DeadlineOf, RunCleanups
<1>5. CASE \E g \in Gen, s \in Servers : ServerStops(g, s)
  BY <1>5 DEF ServerStops
<1>6. CASE UNCHANGED vars
  BY <1>6 DEF vars
<1>7. QED
  BY <1>1, <1>2, <1>3, <1>4, <1>5, <1>6 DEF Next, Terminated

(***************************************************************************)
(* The drain that can time out is the one of a graceful exit.              *)
(***************************************************************************)
LEMMA StepReloadKeepsConnections ==
        IInv /\ [Next]_vars => ReloadKeepsConnections'
<1> USE DEF IInv, ReloadKeepsConnections, ExitRequested
<1> SUFFICES ASSUME IInv, [Next]_vars PROVE ReloadKeepsConnections'
  BY DEF ReloadKeepsConnections
<1>1. CASE Environment
  BY <1>1 DEF Environment, Reload, Exit, ExitGracefulWithTimeout, Accept,
     Reuse, FinishRequest, ServerQuits, ServerFails
<1>2. CASE EventLoop
  BY <1>2 DEF EventLoop, TakeTimedStop, TakeStop, CallCancel, TakeReload,
     LoadOk, CancelOld, LoadFail, EventLoopExit
<1>3. CASE MainLoop
  BY <1>3 DEF MainLoop, AskFirstConfig, AwaitFirstConfig, PickGeneration,
     NoServers, ListenAndServe, ListenFails, ServeReturns, CheckExit,
     CheckGraceful, FinalShutdown, FinalShutdownDone
<1>4. CASE \E g \in Gen : recordShutdown(g)
  BY <1>4 DEF recordShutdown, ShutdownBegins, ShutdownReturns,
     ShutdownTimesOut, DeadlineOf, RunCleanups
<1>5. CASE \E g \in Gen, s \in Servers : ServerStops(g, s)
  BY <1>5 DEF ServerStops
<1>6. CASE UNCHANGED vars
  BY <1>6 DEF vars
<1>7. QED
  BY <1>1, <1>2, <1>3, <1>4, <1>5, <1>6 DEF Next, Terminated

(***************************************************************************)
(* The main loop runs one generation at a time.  It comes back to the top only*)
(* for a newer one: the generation that stopped was cancelled, and without an*)
(* exit only a newer one cancels it.                                       *)
(***************************************************************************)
LEMMA StepMainLoopInv == IInv /\ [Next]_vars => MainLoopInv'
<1> USE DEF IInv, MainLoopInv, StoppedInv, FailedLoadHarmless, TypeOK,
            MainTypes, ConfigTypes, ServerTypes
<1> SUFFICES ASSUME IInv, [Next]_vars PROVE MainLoopInv'
  BY DEF MainLoopInv
<1>1. CASE Environment
  <2>1. CASE Reload
    BY <2>1 DEF Reload
  <2>2. CASE \E how \in {"graceful", "now"} : Exit(how)
    BY <2>2 DEF Exit
  <2>3. CASE \E to \in Timeout : ExitGracefulWithTimeout(to)
    BY <2>3 DEF ExitGracefulWithTimeout
  <2>4. CASE \E g \in Gen, s \in HTTPServers : Accept(g, s)
    BY <2>4 DEF Accept
  <2>5. CASE \E g \in Gen, s \in HTTPServers : Reuse(g, s)
    BY <2>5 DEF Reuse
  <2>6. CASE \E g \in Gen, s \in HTTPServers : FinishRequest(g, s)
    BY <2>6 DEF FinishRequest
  <2>7. CASE \E g \in Gen, s \in Servers : ServerQuits(g, s)
    BY <2>7 DEF ServerQuits
  <2>8. CASE \E g \in Gen, s \in Servers : ServerFails(g, s)
    BY <2>8 DEF ServerFails
  <2>9. QED
    BY <1>1, <2>1, <2>2, <2>3, <2>4, <2>5, <2>6, <2>7, <2>8 DEF Environment
<1>2. CASE EventLoop
  <2>1. CASE TakeTimedStop
    BY <2>1 DEF TakeTimedStop
  <2>2. CASE TakeStop
    BY <2>2 DEF TakeStop
  <2>3. CASE TakeReload
    BY <2>3 DEF TakeReload
  <2>4. CASE CallCancel
    BY <2>4 DEF CallCancel
  <2>5. CASE LoadOk
    BY <2>5 DEF LoadOk
  <2>6. CASE CancelOld
    BY <2>6 DEF CancelOld
  <2>7. CASE LoadFail
    BY <2>7 DEF LoadFail
  <2>8. CASE EventLoopExit
    BY <2>8 DEF EventLoopExit
  <2>9. QED
    BY <1>2, <2>1, <2>2, <2>3, <2>4, <2>5, <2>6, <2>7, <2>8 DEF EventLoop
<1>3. CASE MainLoop
  <2>1. CASE AskFirstConfig
    BY <2>1 DEF AskFirstConfig
  <2>2. CASE AwaitFirstConfig
    BY <2>2 DEF AwaitFirstConfig
  <2>3. CASE PickGeneration
    BY <2>3 DEF PickGeneration, NoServers
  <2>4. CASE ListenAndServe
    BY <2>4 DEF ListenAndServe
  <2>5. CASE ListenFails
    BY <2>5 DEF ListenFails
  <2>6. CASE ServeReturns
    BY <2>6 DEF ServeReturns
  <2>7. CASE CheckExit
    BY <2>7 DEF CheckExit
  <2>8. CASE CheckGraceful \/ FinalShutdown \/ FinalShutdownDone
    BY <2>8 DEF CheckGraceful, FinalShutdown, FinalShutdownDone
  <2>9. QED
    BY <1>3, <2>1, <2>2, <2>3, <2>4, <2>5, <2>6, <2>7, <2>8 DEF MainLoop
<1>4. CASE \E g \in Gen : recordShutdown(g)
  BY <1>4 DEF recordShutdown, ShutdownBegins, ShutdownReturns,
     ShutdownTimesOut, DeadlineOf, RunCleanups
<1>5. CASE \E g \in Gen, s \in Servers : ServerStops(g, s)
  BY <1>5 DEF ServerStops
<1>6. CASE UNCHANGED vars
  BY <1>6 DEF vars
<1>7. QED
  BY <1>1, <1>2, <1>3, <1>4, <1>5, <1>6 DEF Next, Terminated

(***************************************************************************)
(* A service that may not quit returned because of an error or because its *)
(* generation was cancelled.                                               *)
(***************************************************************************)
LEMMA StepStoppedInv == IInv /\ [Next]_vars => StoppedInv'
<1> USE DEF IInv, StoppedInv, MainLoopInv, TypeOK, ServerTypes, MainTypes
<1> SUFFICES ASSUME IInv, [Next]_vars PROVE StoppedInv'
  BY DEF StoppedInv
<1>1. CASE Environment
  <2>1. CASE Reload
    BY <2>1 DEF Reload
  <2>2. CASE \E how \in {"graceful", "now"} : Exit(how)
    BY <2>2 DEF Exit
  <2>3. CASE \E to \in Timeout : ExitGracefulWithTimeout(to)
    BY <2>3 DEF ExitGracefulWithTimeout
  <2>4. CASE \E g \in Gen, s \in HTTPServers : Accept(g, s)
    BY <2>4 DEF Accept
  <2>5. CASE \E g \in Gen, s \in HTTPServers : Reuse(g, s)
    BY <2>5 DEF Reuse
  <2>6. CASE \E g \in Gen, s \in HTTPServers : FinishRequest(g, s)
    BY <2>6 DEF FinishRequest
  <2>7. CASE \E g \in Gen, s \in Servers : ServerQuits(g, s)
    BY <2>7 DEF ServerQuits
  <2>8. CASE \E g \in Gen, s \in Servers : ServerFails(g, s)
    BY <2>8 DEF ServerFails
  <2>9. QED
    BY <1>1, <2>1, <2>2, <2>3, <2>4, <2>5, <2>6, <2>7, <2>8 DEF Environment
<1>2. CASE EventLoop
  BY <1>2 DEF EventLoop, TakeTimedStop, TakeStop, CallCancel, TakeReload,
     LoadOk, CancelOld, LoadFail, EventLoopExit
<1>3. CASE MainLoop
  <2>1. CASE AskFirstConfig
    BY <2>1 DEF AskFirstConfig
  <2>2. CASE AwaitFirstConfig
    BY <2>2 DEF AwaitFirstConfig
  <2>3. CASE PickGeneration
    BY <2>3 DEF PickGeneration, NoServers
  <2>4. CASE ListenAndServe
    BY <2>4 DEF ListenAndServe
  <2>5. CASE ListenFails
    BY <2>5 DEF ListenFails
  <2>6. CASE ServeReturns
    <3>1. CASE err
      BY <2>6, <3>1 DEF ServeReturns
    <3>2. CASE ~err
      <4>1. running \in cancelled
        BY <2>6, <3>2, DaemonAssumption DEF ServeReturns
      <4>2. cancelled' = cancelled /\ running' = running /\ mpc' = "check"
        BY <2>6, <3>2 DEF ServeReturns
      <4>3. QED
        BY <4>1, <4>2
    <3>3. QED
      BY <3>1, <3>2
  <2>7. CASE CheckExit
    BY <2>7 DEF CheckExit
  <2>8. CASE CheckGraceful \/ FinalShutdown \/ FinalShutdownDone
    BY <2>8 DEF CheckGraceful, FinalShutdown, FinalShutdownDone
  <2>9. QED
    BY <1>3, <2>1, <2>2, <2>3, <2>4, <2>5, <2>6, <2>7, <2>8 DEF MainLoop
<1>4. CASE \E g \in Gen : recordShutdown(g)
  <2>1. CASE \E g \in Gen : ShutdownBegins(g)
    BY <2>1 DEF ShutdownBegins
  <2>2. CASE \E g \in Gen : ShutdownReturns(g)
    BY <2>2 DEF ShutdownReturns
  <2>3. CASE \E g \in Gen : ShutdownTimesOut(g)
    BY <2>3 DEF ShutdownTimesOut, DeadlineOf
  <2>4. CASE \E g \in Gen : RunCleanups(g)
    BY <2>4 DEF RunCleanups
  <2>5. QED
    BY <1>4, <2>1, <2>2, <2>3, <2>4 DEF recordShutdown
<1>5. CASE \E g \in Gen, s \in Servers : ServerStops(g, s)
  BY <1>5 DEF ServerStops
<1>6. CASE UNCHANGED vars
  BY <1>6 DEF vars
<1>7. QED
  BY <1>1, <1>2, <1>3, <1>4, <1>5, <1>6 DEF Next, Terminated

(***************************************************************************)
(* A generation is handed to recordShutdown after it served, or by the exit. *)
(***************************************************************************)
LEMMA StepRetiredInv == IInv /\ [Next]_vars => RetiredInv'
<1> USE DEF IInv, RetiredInv, MainLoopInv, TypeOK, MainTypes,
            ConfigTypes, ServerTypes
<1> SUFFICES ASSUME IInv, [Next]_vars PROVE RetiredInv'
  BY DEF RetiredInv
<1>1. CASE Environment
  <2>1. CASE Reload
    BY <2>1 DEF Reload
  <2>2. CASE \E how \in {"graceful", "now"} : Exit(how)
    BY <2>2 DEF Exit
  <2>3. CASE \E to \in Timeout : ExitGracefulWithTimeout(to)
    BY <2>3 DEF ExitGracefulWithTimeout
  <2>4. CASE \E g \in Gen, s \in HTTPServers : Accept(g, s)
    BY <2>4 DEF Accept
  <2>5. CASE \E g \in Gen, s \in HTTPServers : Reuse(g, s)
    BY <2>5 DEF Reuse
  <2>6. CASE \E g \in Gen, s \in HTTPServers : FinishRequest(g, s)
    <3>1. UNCHANGED <<shut, mpc, running>>
      BY <2>6 DEF FinishRequest
    <3>2. ASSUME NEW h \in Gen, shut[h] = "waiting" PROVE idle'[h] = {}
      <4>1. PICK g \in Gen, s \in HTTPServers : FinishRequest(g, s)
        BY <2>6
      <4>2. idle'[h] = {}
        <5>1. CASE UNCHANGED idle
          BY <3>2, <5>1
        <5>2. CASE /\ shut[g] \in {"none", "spawned"}
                   /\ idle' = [idle EXCEPT ![g] = @ \cup {s}]
          <6>1. h # g
            BY <3>2, <5>2
          <6>2. QED
            BY <3>2, <5>2, <6>1
        <5>3. QED
          BY <4>1, <5>1, <5>2 DEF FinishRequest
      <4>3. QED
        BY <4>2
    <3>3. QED
      BY <3>1, <3>2
  <2>7. CASE \E g \in Gen, s \in Servers : ServerQuits(g, s)
    BY <2>7 DEF ServerQuits
  <2>8. CASE \E g \in Gen, s \in Servers : ServerFails(g, s)
    BY <2>8 DEF ServerFails
  <2>9. QED
    BY <1>1, <2>1, <2>2, <2>3, <2>4, <2>5, <2>6, <2>7, <2>8 DEF Environment
<1>2. CASE EventLoop
  BY <1>2 DEF EventLoop, TakeTimedStop, TakeStop, CallCancel, TakeReload,
     LoadOk, CancelOld, LoadFail, EventLoopExit
<1>3. CASE MainLoop
  <2>1. CASE AskFirstConfig
    BY <2>1 DEF AskFirstConfig
  <2>2. CASE AwaitFirstConfig
    BY <2>2 DEF AwaitFirstConfig
  <2>3. CASE PickGeneration
    BY <2>3 DEF PickGeneration, NoServers
  <2>4. CASE ListenAndServe
    BY <2>4 DEF ListenAndServe
  <2>5. CASE ListenFails
    BY <2>5 DEF ListenFails
  <2>6. CASE ServeReturns
    BY <2>6 DEF ServeReturns
  <2>7. CASE CheckExit
    BY <2>7 DEF CheckExit
  <2>8. CASE CheckGraceful \/ FinalShutdown \/ FinalShutdownDone
    BY <2>8 DEF CheckGraceful, FinalShutdown, FinalShutdownDone
  <2>9. QED
    BY <1>3, <2>1, <2>2, <2>3, <2>4, <2>5, <2>6, <2>7, <2>8 DEF MainLoop
<1>4. CASE \E g \in Gen : recordShutdown(g)
  <2>1. CASE \E g \in Gen : ShutdownBegins(g)
    BY <2>1 DEF ShutdownBegins
  <2>2. CASE \E g \in Gen : ShutdownReturns(g)
    BY <2>2 DEF ShutdownReturns
  <2>3. CASE \E g \in Gen : ShutdownTimesOut(g)
    BY <2>3 DEF ShutdownTimesOut, DeadlineOf
  <2>4. CASE \E g \in Gen : RunCleanups(g)
    BY <2>4 DEF RunCleanups
  <2>5. QED
    BY <1>4, <2>1, <2>2, <2>3, <2>4 DEF recordShutdown
<1>5. CASE \E g \in Gen, s \in Servers : ServerStops(g, s)
  BY <1>5 DEF ServerStops
<1>6. CASE UNCHANGED vars
  BY <1>6 DEF vars
<1>7. QED
  BY <1>1, <1>2, <1>3, <1>4, <1>5, <1>6 DEF Next, Terminated

(***************************************************************************)
(* Shutdown() returns when the last connection is gone, and a generation that*)
(* is being shut down gets no new ones.                                    *)
(***************************************************************************)
LEMMA StepCleanupAfterDrain == IInv /\ [Next]_vars => CleanupAfterDrain'
<1> USE DEF IInv, CleanupAfterDrain, RetiredInv, MainLoopInv, TypeOK,
            ServerTypes, MainTypes
<1> SUFFICES ASSUME IInv, [Next]_vars PROVE CleanupAfterDrain'
  BY DEF CleanupAfterDrain
<1>1. CASE Environment
  <2>1. CASE Reload
    BY <2>1 DEF Reload
  <2>2. CASE \E how \in {"graceful", "now"} : Exit(how)
    BY <2>2 DEF Exit
  <2>3. CASE \E to \in Timeout : ExitGracefulWithTimeout(to)
    BY <2>3 DEF ExitGracefulWithTimeout
  <2>4. CASE \E g \in Gen, s \in HTTPServers : Accept(g, s)
    <3>1. UNCHANGED shut
      BY <2>4 DEF Accept
    <3>2. ASSUME NEW h \in Gen, shut[h] \in {"cleanup", "done"}
          PROVE serving'[h] = {} /\ active'[h] = {} /\ idle'[h] = {}
      BY <2>4, <3>2 DEF Accept
    <3>3. QED
      BY <3>1, <3>2
  <2>5. CASE \E g \in Gen, s \in HTTPServers : Reuse(g, s)
    <3>1. UNCHANGED shut
      BY <2>5 DEF Reuse
    <3>2. ASSUME NEW h \in Gen, shut[h] \in {"cleanup", "done"}
          PROVE serving'[h] = {} /\ active'[h] = {} /\ idle'[h] = {}
      BY <2>5, <3>2 DEF Reuse
    <3>3. QED
      BY <3>1, <3>2
  <2>6. CASE \E g \in Gen, s \in HTTPServers : FinishRequest(g, s)
    <3>1. UNCHANGED shut
      BY <2>6 DEF FinishRequest
    <3>2. ASSUME NEW h \in Gen, shut[h] \in {"cleanup", "done"}
          PROVE serving'[h] = {} /\ active'[h] = {} /\ idle'[h] = {}
      <4>1. PICK g \in Gen, s \in HTTPServers : FinishRequest(g, s)
        BY <2>6
      <4>2. idle'[h] = {}
        <5>1. CASE UNCHANGED idle
          BY <3>2, <5>1
        <5>2. CASE /\ shut[g] \in {"none", "spawned"}
                   /\ idle' = [idle EXCEPT ![g] = @ \cup {s}]
          <6>1. h # g
            BY <3>2, <5>2
          <6>2. QED
            BY <3>2, <5>2, <6>1
        <5>3. QED
          BY <4>1, <5>1, <5>2 DEF FinishRequest
      <4>3. serving'[h] = {} /\ active'[h] = {}
        BY <3>2, <4>1 DEF FinishRequest
      <4>4. QED
        BY <4>2, <4>3
    <3>3. QED
      BY <3>1, <3>2
  <2>7. CASE \E g \in Gen, s \in Servers : ServerQuits(g, s)
    <3>1. UNCHANGED shut
      BY <2>7 DEF ServerQuits
    <3>2. ASSUME NEW h \in Gen, shut[h] \in {"cleanup", "done"}
          PROVE serving'[h] = {} /\ active'[h] = {} /\ idle'[h] = {}
      BY <2>7, <3>2 DEF ServerQuits
    <3>3. QED
      BY <3>1, <3>2
  <2>8. CASE \E g \in Gen, s \in Servers : ServerFails(g, s)
    <3>1. UNCHANGED shut
      BY <2>8 DEF ServerFails
    <3>2. ASSUME NEW h \in Gen, shut[h] \in {"cleanup", "done"}
          PROVE serving'[h] = {} /\ active'[h] = {} /\ idle'[h] = {}
      BY <2>8, <3>2 DEF ServerFails
    <3>3. QED
      BY <3>1, <3>2
  <2>9. QED
    BY <1>1, <2>1, <2>2, <2>3, <2>4, <2>5, <2>6, <2>7, <2>8 DEF Environment
<1>2. CASE EventLoop
  BY <1>2 DEF EventLoop, TakeTimedStop, TakeStop, CallCancel, TakeReload,
     LoadOk, CancelOld, LoadFail, EventLoopExit
<1>3. CASE MainLoop
  <2>1. CASE AskFirstConfig
    BY <2>1 DEF AskFirstConfig
  <2>2. CASE AwaitFirstConfig
    BY <2>2 DEF AwaitFirstConfig
  <2>3. CASE PickGeneration
    BY <2>3 DEF PickGeneration, NoServers
  <2>4. CASE ListenAndServe
    BY <2>4 DEF ListenAndServe
  <2>5. CASE ListenFails
    BY <2>5 DEF ListenFails
  <2>6. CASE ServeReturns
    BY <2>6 DEF ServeReturns
  <2>7. CASE CheckExit
    BY <2>7 DEF CheckExit
  <2>8. CASE CheckGraceful \/ FinalShutdown \/ FinalShutdownDone
    BY <2>8 DEF CheckGraceful, FinalShutdown, FinalShutdownDone
  <2>9. QED
    BY <1>3, <2>1, <2>2, <2>3, <2>4, <2>5, <2>6, <2>7, <2>8 DEF MainLoop
<1>4. CASE \E g \in Gen : recordShutdown(g)
  <2>1. CASE \E g \in Gen : ShutdownBegins(g)
    BY <2>1 DEF ShutdownBegins
  <2>2. CASE \E g \in Gen : ShutdownReturns(g)
    BY <2>2 DEF ShutdownReturns
  <2>3. CASE \E g \in Gen : ShutdownTimesOut(g)
    BY <2>3 DEF ShutdownTimesOut, DeadlineOf
  <2>4. CASE \E g \in Gen : RunCleanups(g)
    BY <2>4 DEF RunCleanups
  <2>5. QED
    BY <1>4, <2>1, <2>2, <2>3, <2>4 DEF recordShutdown
<1>5. CASE \E g \in Gen, s \in Servers : ServerStops(g, s)
  BY <1>5 DEF ServerStops
<1>6. CASE UNCHANGED vars
  BY <1>6 DEF vars
<1>7. QED
  BY <1>1, <1>2, <1>3, <1>4, <1>5, <1>6 DEF Next, Terminated

(***************************************************************************)
(* Every load, also one that fails, installs something to call.            *)
(***************************************************************************)
LEMMA StepFirstCancelInv == IInv /\ [Next]_vars => FirstCancelInv'
<1> USE DEF IInv, FirstCancelInv, CancelNewest, TypeOK, ConfigTypes
<1> SUFFICES ASSUME IInv, [Next]_vars PROVE FirstCancelInv'
  BY DEF FirstCancelInv
<1>1. CASE Environment
  BY <1>1 DEF Environment, Reload, Exit, ExitGracefulWithTimeout, Accept,
     Reuse, FinishRequest, ServerQuits, ServerFails
<1>2. CASE EventLoop
  BY <1>2, MaxGenIsNat DEF EventLoop, TakeTimedStop, TakeStop, CallCancel,
     TakeReload, LoadOk, CancelOld, LoadFail, EventLoopExit
<1>3. CASE MainLoop
  BY <1>3 DEF MainLoop, AskFirstConfig, AwaitFirstConfig, PickGeneration,
     NoServers, ListenAndServe, ListenFails, ServeReturns, CheckExit,
     CheckGraceful, FinalShutdown, FinalShutdownDone
<1>4. CASE \E g \in Gen : recordShutdown(g)
  BY <1>4 DEF recordShutdown, ShutdownBegins, ShutdownReturns,
     ShutdownTimesOut, DeadlineOf, RunCleanups
<1>5. CASE \E g \in Gen, s \in Servers : ServerStops(g, s)
  BY <1>5 DEF ServerStops
<1>6. CASE UNCHANGED vars
  BY <1>6 DEF vars
<1>7. QED
  BY <1>1, <1>2, <1>3, <1>4, <1>5, <1>6 DEF Next, Terminated

\* After the first load there is a CancelFunc to call.
LEMMA StepPanicOnlyAtStart == IInv /\ [Next]_vars => PanicOnlyAtStart'
<1> USE DEF IInv, PanicOnlyAtStart, FirstCancelInv, MainLoopInv
<1> SUFFICES ASSUME IInv, [Next]_vars PROVE PanicOnlyAtStart'
  BY DEF PanicOnlyAtStart
<1>1. CASE Environment
  BY <1>1 DEF Environment, Reload, Exit, ExitGracefulWithTimeout, Accept,
     Reuse, FinishRequest, ServerQuits, ServerFails
<1>2. CASE EventLoop
  BY <1>2 DEF EventLoop, TakeTimedStop, TakeStop, CallCancel,
     TakeReload, LoadOk, CancelOld, LoadFail, EventLoopExit
<1>3. CASE MainLoop
  BY <1>3 DEF MainLoop, AskFirstConfig, AwaitFirstConfig, PickGeneration,
     NoServers, ListenAndServe, ListenFails, ServeReturns, CheckExit,
     CheckGraceful, FinalShutdown, FinalShutdownDone
<1>4. CASE \E g \in Gen : recordShutdown(g)
  BY <1>4 DEF recordShutdown, ShutdownBegins, ShutdownReturns,
     ShutdownTimesOut, DeadlineOf, RunCleanups
<1>5. CASE \E g \in Gen, s \in Servers : ServerStops(g, s)
  BY <1>5 DEF ServerStops
<1>6. CASE UNCHANGED vars
  BY <1>6 DEF vars
<1>7. QED
  BY <1>1, <1>2, <1>3, <1>4, <1>5, <1>6 DEF Next, Terminated

(***************************************************************************)
(* The process starts in a state of the inductive invariant, and every     *)
(* step keeps it.                                                          *)
(***************************************************************************)
LEMMA InitInv == Init => IInv
<1> SUFFICES ASSUME Init PROVE IInv
  OBVIOUS
<1>1. TypeOK
  BY DaemonAssumption
  DEF Init, TypeOK, ExitTypes, ConfigTypes, MainTypes, ServerTypes
<1>2. CancelNewest /\ ExitRequested /\ MainLoopInv /\ StoppedInv /\ RetiredInv
  BY DEF Init, CancelNewest, ExitRequested, MainLoopInv, StoppedInv, RetiredInv
<1>3. CleanupAfterDrain /\ ReloadKeepsConnections /\ FailedLoadHarmless
  BY DEF Init, CleanupAfterDrain, ReloadKeepsConnections, FailedLoadHarmless
<1>4. SupersededCancelled /\ FirstCancelInv /\ PanicOnlyAtStart
  BY MaxGenIsNat
  DEF Init, SupersededCancelled, FirstCancelInv, PanicOnlyAtStart
<1>5. QED
  BY <1>1, <1>2, <1>3, <1>4 DEF IInv

\* All the parts together.
LEMMA StepInv == IInv /\ [Next]_vars => IInv'
  BY StepExitTypes, StepConfigTypes, StepMainTypes, StepServerTypes,
     StepCancelNewest, StepExitRequested, StepFailedLoadHarmless,
     StepSupersededCancelled, StepReloadKeepsConnections, StepMainLoopInv,
     StepStoppedInv, StepRetiredInv, StepCleanupAfterDrain,
     StepFirstCancelInv, StepPanicOnlyAtStart
  DEF IInv, TypeOK

\* Every reachable state satisfies the inductive invariant the results follow
\* from: the types of Run()'s variables, which generation each goroutine is
\* busy with, and who may have cancelled what.
THEOREM Invariance == Spec => []IInv
  BY InitInv, StepInv, PTL DEF Spec

(***************************************************************************)
(* The results.                                                            *)
(***************************************************************************)

\* The variables of Run(), its channels and its generations keep their types.
THEOREM TypeCorrect == Spec => []TypeOK
<1>1. IInv => TypeOK
  BY DEF IInv
<1>2. QED
  BY <1>1, Invariance, PTL

\* Services of two generations are never inside Serve() together.
THEOREM OneGenerationServes == Spec => []NoOverlap
<1>1. IInv => NoOverlap
  BY DEF IInv, MainLoopInv, NoOverlap
<1>2. QED
  BY <1>1, Invariance, PTL

\* Cleanups never run under a service or a connection of their generation.
THEOREM CleanupsRunLast == Spec => []CleanupAfterDrain
<1>1. IInv => CleanupAfterDrain
  BY DEF IInv
<1>2. QED
  BY <1>1, Invariance, PTL

\* A reload never cuts a request of the generation it replaces.
THEOREM ReloadsAreGraceful == Spec => []ReloadKeepsConnections
<1>1. IInv => ReloadKeepsConnections
  BY DEF IInv
<1>2. QED
  BY <1>1, Invariance, PTL

\* A configuration that fails to load leaves the running servers alone.
THEOREM FailedLoadsAreHarmless == Spec => []FailedLoadHarmless
<1>1. IInv => FailedLoadHarmless
  BY DEF IInv
<1>2. QED
  BY <1>1, Invariance, PTL

\* A replaced generation is always told to stop.
THEOREM ReplacedAreCancelled == Spec => []SupersededCancelled
<1>1. IInv => SupersededCancelled
  BY DEF IInv
<1>2. QED
  BY <1>1, Invariance, PTL

\* The panic of a nil CancelFunc needs an exit before the first load is over.
THEOREM PanicsOnlyAtStart == Spec => []PanicOnlyAtStart
<1>1. IInv => PanicOnlyAtStart
  BY DEF IInv
<1>2. QED
  BY <1>1, Invariance, PTL

\* recordShutdown is started at most once for a generation: CheckExit starts
\* it for the one that just served, which is not retired yet, and the exit for
\* the newest, which no reload has retired.
THEOREM ShutdownsStartOnce == Spec => DrainedOnce
<1> DEFINE Once == \A g \in Gen :
              shut[g] \notin {"none", "spawned"} => shut'[g] # "spawned"
<1>1. IInv /\ [Next]_vars => [Once]_shut
  <2> SUFFICES ASSUME IInv, Next PROVE Once \/ UNCHANGED shut
    BY DEF vars
  <2> USE DEF IInv, TypeOK, ServerTypes
  <2>1. CASE CheckExit
    BY <2>1, MaxGenIsNat DEF CheckExit, RetiredInv, MainLoopInv, MainTypes
  <2>2. CASE FinalShutdown
    BY <2>2, MaxGenIsNat
    DEF FinalShutdown, RetiredInv, MainLoopInv, MainTypes, ConfigTypes
  <2>3. CASE \E g \in Gen : recordShutdown(g)
    BY <2>3 DEF recordShutdown, ShutdownBegins, ShutdownReturns,
       ShutdownTimesOut, RunCleanups
  <2>4. CASE Environment
    BY <2>4 DEF Environment, Reload, Exit, ExitGracefulWithTimeout, Accept,
       Reuse, FinishRequest, ServerQuits, ServerFails
  <2>5. CASE EventLoop
    BY <2>5 DEF EventLoop, TakeTimedStop, TakeStop, CallCancel, TakeReload,
       LoadOk, CancelOld, LoadFail, EventLoopExit
  <2>6. CASE MainLoop /\ ~CheckExit /\ ~FinalShutdown
    BY <2>6 DEF MainLoop, AskFirstConfig, AwaitFirstConfig, PickGeneration,
       ListenAndServe, ListenFails, ServeReturns, CheckGraceful,
       FinalShutdownDone
  <2>7. CASE \E g \in Gen, s \in Servers : ServerStops(g, s)
    BY <2>7 DEF ServerStops
  <2>8. QED
    BY <2>1, <2>2, <2>3, <2>4, <2>5, <2>6, <2>7 DEF Next, Terminated, vars
<1>2. QED
  BY <1>1, Invariance, PTL DEF Spec, DrainedOnce

=============================================================================
