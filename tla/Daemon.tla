------------------------------- MODULE Daemon -------------------------------
(***************************************************************************)
(* The life of an ozone process: the signal handlers and control-socket    *)
(* commands of main.go and proccmd.go, and the daemon.Run() loop they      *)
(* drive (gone/daemon/run.go and server.go).                               *)
(*                                                                         *)
(* Two goroutines share the variables of Run():                            *)
(*   - the event loop (elpc) takes events from three 1-buffered channels,  *)
(*     loads configurations and cancels the context of the generation      *)
(*     they replace;                                                       *)
(*   - the main loop (mpc) serves one generation of servers after the      *)
(*     other, and hands each one that stopped to recordShutdown.           *)
(* Around them run the servers' Serve() goroutines, one recordShutdown     *)
(* goroutine per replaced generation, and the clients.                     *)
(*                                                                         *)
(* Generation g is the servers and cleanups of the g-th configuration      *)
(* that loaded, so "revision" also names the current value of the Go       *)
(* variables servers, cleanups and nextContext.                            *)
(***************************************************************************)
EXTENDS Integers

CONSTANTS
  Servers,        \* the services of a configuration
  HTTPServers,    \* those of them that keep connections after Serve()
  KeepAlive,      \* do clients keep idle connections open?
  MayQuit,        \* services whose Serve() may return nil uncancelled
  MayFail,        \* services whose Serve() may return an error
  ListenMayFail,  \* may a socket be unavailable in Listen()?
  EmptyMayLoad,   \* may a configuration with no service at all be loaded?
  DefaultTimeout, \* the ShutdownTimeout option: "forever" stands for 0
  MaxGen          \* bound: how many configurations load successfully

Timeout == {"forever", "finite"}

ASSUME DaemonAssumption ==
  /\ HTTPServers \subseteq Servers
  /\ KeepAlive \in BOOLEAN
  /\ MayQuit \subseteq Servers \ HTTPServers
  /\ MayFail \subseteq Servers
  /\ MayQuit # Servers       \* some service runs until it is cancelled
  /\ ListenMayFail \in BOOLEAN
  /\ EmptyMayLoad \in BOOLEAN
  /\ DefaultTimeout \in Timeout
  /\ MaxGen \in Nat \ {0}

Gen == 1 .. MaxGen

NilCancel  == -1    \* the CancelFunc variable is nil
NoopCancel == 0     \* func() {}; any other value is the generation it cancels

VARIABLES
  \* the channels, each with a buffer of one
  reload, stopch, tostopch,
  \* the event loop, and its local oldCancel
  elpc, oldCancel,
  \* the variables of Run() both goroutines use
  revision, empty, nextCancel, configErr, firstConfigLoadDone,
  exit, gracefulExit, shutdownTimeout,
  \* the main loop: its pc, the generation it runs, the error serve() returned
  mpc, running, err,
  \* contexts that are cancelled
  cancelled,
  \* per generation: services inside Serve(), HTTP servers with a request in
  \* progress, HTTP servers with only an idle connection
  serving, active, idle,
  \* per generation: the progress of recordShutdown; and the generations
  \* recordShutdown had to Close()
  shut, forced,
  \* the timeout of the recordShutdown the main loop itself runs
  drainTimeout

chanVars == <<reload, stopch, tostopch>>
exitVars == <<exit, gracefulExit, shutdownTimeout>>
cfgVars  == <<revision, empty, nextCancel, configErr, firstConfigLoadDone>>
connVars == <<active, idle>>
shutVars == <<shut, forced, drainTimeout>>
mainVars == <<mpc, running, err>>
serveVars == <<serving, connVars, shutVars>>
genVars   == <<cancelled, serving, connVars, shutVars>>
eventVars == <<chanVars, elpc, oldCancel, cfgVars>>
runVars   == <<elpc, oldCancel, cfgVars, exitVars, mainVars>>
loopVars  == <<eventVars, exitVars, mainVars>>
vars      == <<loopVars, genVars>>

\* Channels, and what the exit events set.
ExitTypes ==
  /\ reload \in BOOLEAN
  /\ stopch \in {"none", "graceful", "now"}
  /\ tostopch \in {"none"} \cup Timeout
  /\ exit \in BOOLEAN
  /\ gracefulExit \in BOOLEAN
  /\ shutdownTimeout \in Timeout

\* The event loop and the configurations it publishes.
ConfigTypes ==
  /\ elpc \in {"select", "cancel", "load", "replace", "done", "crashed"}
  /\ oldCancel \in {NilCancel, NoopCancel} \cup Gen
  /\ revision \in {0} \cup Gen
  /\ empty \subseteq Gen
  /\ nextCancel \in {NilCancel, NoopCancel} \cup Gen
  /\ configErr \in BOOLEAN
  /\ firstConfigLoadDone \in BOOLEAN

\* The main loop.
MainTypes ==
  /\ mpc \in {"start", "wait", "top", "listen", "serve", "check", "final",
              "lock", "drain", "return"}
  /\ running \in {0} \cup Gen
  /\ err \in BOOLEAN
  /\ drainTimeout \in Timeout

\* The generations.
ServerTypes ==
  /\ cancelled \subseteq Gen
  /\ serving \in [Gen -> SUBSET Servers]
  /\ active \in [Gen -> SUBSET HTTPServers]
  /\ idle \in [Gen -> SUBSET HTTPServers]
  /\ shut \in [Gen -> {"none", "spawned", "waiting", "cleanup", "done"}]
  /\ forced \subseteq Gen

TypeOK == ExitTypes /\ ConfigTypes /\ MainTypes /\ ServerTypes

Init ==
  /\ reload = FALSE /\ stopch = "none" /\ tostopch = "none"
  /\ elpc = "select" /\ oldCancel = NilCancel
  /\ revision = 0 /\ empty = {} /\ nextCancel = NilCancel
  /\ configErr = FALSE /\ firstConfigLoadDone = FALSE
  /\ exit = FALSE /\ gracefulExit = FALSE /\ shutdownTimeout = DefaultTimeout
  /\ mpc = "start" /\ running = 0 /\ err = FALSE
  /\ cancelled = {}
  /\ serving = [g \in Gen |-> {}]
  /\ active = [g \in Gen |-> {}] /\ idle = [g \in Gen |-> {}]
  /\ shut = [g \in Gen |-> "none"] /\ forced = {}
  /\ drainTimeout = "forever"

-----------------------------------------------------------------------------
(***************************************************************************)
(* Plausible mistakes in this code.  None is part of Next: each is put in  *)
(* the place of the definition it names, to see a property fail.           *)
(***************************************************************************)

\* OldContext: calling oldCancel although it is nil; calling nextCancel after
\* it was replaced; not calling anything
OldContextUnchecked == {oldCancel}
OldContextSwapped   == {nextCancel}
OldContextForgotten == {}

\* AllReturned: waiting for one service only (no dwg.Wait)
OneReturned == serving[running] # Servers

\* MustExit: the test of exit left out
NeverExit == FALSE

\* Drained: Shutdown() does not wait for requests; idle connections kept
DrainedAtOnce(g) == TRUE
IdleKept(g) == idle[g]

\* FirstCancel: no CancelFunc is installed when the first load fails
FirstCancelMissing == nextCancel

\* DeadlineOf: the exit's timeout is used after a reload too, or never
DeadlineAlways(g) == shutdownTimeout
DeadlineNever(g)  == "forever"

-----------------------------------------------------------------------------
(***************************************************************************)
(* Signals and control-socket commands.  Each is a non-blocking send: when *)
(* the channel is full the event is dropped.                               *)
(***************************************************************************)

\* SIGHUP, "daemon reload"
Reload ==
  /\ ~reload
  /\ reload' = TRUE
  /\ UNCHANGED <<stopch, tostopch, runVars, genVars>>

\* SIGTERM (graceful), SIGINT and "daemon kill" (now)
Exit(how) ==
  /\ stopch = "none"
  /\ stopch' = how
  /\ UNCHANGED <<reload, tostopch, runVars, genVars>>

\* "daemon stop [seconds]"
ExitGracefulWithTimeout(to) ==
  /\ tostopch = "none"
  /\ tostopch' = to
  /\ UNCHANGED <<reload, stopch, runVars, genVars>>

-----------------------------------------------------------------------------
(***************************************************************************)
(* The event loop.                                                         *)
(***************************************************************************)

TakeTimedStop ==
  /\ elpc = "select" /\ tostopch # "none"
  /\ shutdownTimeout' = tostopch
  /\ tostopch' = "none"
  /\ gracefulExit' = TRUE
  /\ exit' = TRUE
  /\ elpc' = "cancel"
  /\ UNCHANGED <<reload, stopch, oldCancel, cfgVars, mainVars, genVars>>

TakeStop ==
  /\ elpc = "select" /\ stopch # "none"
  /\ gracefulExit' = (stopch = "graceful")
  /\ stopch' = "none"
  /\ exit' = TRUE
  /\ elpc' = "cancel"
  /\ UNCHANGED <<reload, tostopch, oldCancel, cfgVars, shutdownTimeout,
                 mainVars, genVars>>

\* nextCancel(): calling the nil function panics, and the panic of a
\* goroutine ends the process.
CallCancel ==
  /\ elpc = "cancel"
  /\ IF nextCancel = NilCancel
       THEN elpc' = "crashed" /\ UNCHANGED cancelled
       ELSE /\ elpc' = "select"
            /\ cancelled' = cancelled \cup ({nextCancel} \cap Gen)
  /\ UNCHANGED <<chanVars, oldCancel, cfgVars, exitVars, mainVars, serveVars>>

TakeReload ==
  /\ elpc = "select" /\ reload
  /\ reload' = FALSE
  /\ elpc' = "load"
  /\ UNCHANGED <<stopch, tostopch, oldCancel, cfgVars, exitVars, mainVars,
                 genVars>>

\* srvmu is free: the main loop keeps it only while it drains on exit.
SrvmuFree == mpc # "drain"

\* cfgfunc() succeeded: the new generation is published under srvmu.
LoadOk ==
  /\ elpc = "load" /\ SrvmuFree
  /\ revision < MaxGen
  /\ revision' = revision + 1
  /\ \/ UNCHANGED empty
     \/ EmptyMayLoad /\ empty' = empty \cup {revision + 1}
  /\ oldCancel' = nextCancel
  /\ nextCancel' = revision + 1
  /\ elpc' = "replace"
  /\ UNCHANGED <<chanVars, configErr, firstConfigLoadDone, exitVars, mainVars,
                 genVars>>

OldContext == {oldCancel} \cap Gen

\* ... and then, outside srvmu, the replaced context is cancelled.
CancelOld ==
  /\ elpc = "replace"
  /\ cancelled' = cancelled \cup OldContext
  /\ firstConfigLoadDone' = TRUE
  /\ elpc' = "select"
  /\ UNCHANGED <<chanVars, oldCancel, revision, empty, nextCancel, configErr,
                 exitVars, mainVars, serveVars>>

FirstCancel == IF nextCancel = NilCancel THEN NoopCancel ELSE nextCancel

\* cfgfunc() failed: only the error is recorded.
LoadFail ==
  /\ elpc = "load" /\ SrvmuFree
  /\ nextCancel' = FirstCancel
  /\ configErr' = TRUE
  /\ firstConfigLoadDone' = TRUE
  /\ elpc' = "select"
  /\ UNCHANGED <<chanVars, oldCancel, revision, empty, exitVars, mainVars,
                 genVars>>

\* eventch is closed: cancel what is current and leave.
EventLoopExit ==
  /\ elpc = "select" /\ mpc = "return"
  /\ cancelled' = cancelled \cup ({nextCancel} \cap Gen)
  /\ elpc' = "done"
  /\ UNCHANGED <<chanVars, oldCancel, cfgVars, exitVars, mainVars, serveVars>>

-----------------------------------------------------------------------------
(***************************************************************************)
(* The main loop of Run().                                                 *)
(***************************************************************************)

\* reload <- struct{}{} blocks while a reload is already pending.
AskFirstConfig ==
  /\ mpc = "start" /\ ~reload
  /\ reload' = TRUE
  /\ mpc' = "wait"
  /\ UNCHANGED <<stopch, tostopch, elpc, oldCancel, cfgVars, exitVars, running,
                 err, genVars>>

AwaitFirstConfig ==
  /\ mpc = "wait" /\ firstConfigLoadDone
  /\ mpc' = "top"
  /\ UNCHANGED <<eventVars, exitVars, running, err, genVars>>

\* servers == nil: no configuration was ever loaded, or the newest is empty.
NoServers == revision = 0 \/ revision \in empty

\* Take the newest generation, under srvmu.
PickGeneration ==
  /\ mpc = "top"
  /\ IF NoServers
       THEN mpc' = "return" /\ err' = TRUE /\ UNCHANGED running
       ELSE mpc' = "listen" /\ running' = revision /\ UNCHANGED err
  /\ UNCHANGED <<eventVars, exitVars, genVars>>

\* serverEnsemble.Listen(), then one Serve() goroutine per service.
ListenAndServe ==
  /\ mpc = "listen"
  /\ serving' = [serving EXCEPT ![running] = Servers]
  /\ err' = FALSE
  /\ mpc' = "serve"
  /\ UNCHANGED <<eventVars, exitVars, running, cancelled, connVars, shutVars>>

ListenFails ==
  /\ mpc = "listen" /\ ListenMayFail
  /\ err' = TRUE
  /\ gracefulExit' = FALSE
  /\ mpc' = "final"
  /\ UNCHANGED <<eventVars, exit, shutdownTimeout, running, genVars>>

AllReturned == serving[running] = {}

\* dwg.Wait(): every service of the ensemble has returned.
ServeReturns ==
  /\ mpc = "serve" /\ AllReturned
  /\ IF err
       THEN mpc' = "final" /\ gracefulExit' = FALSE
       ELSE mpc' = "check" /\ UNCHANGED gracefulExit
  /\ UNCHANGED <<eventVars, exit, shutdownTimeout, running, err, genVars>>

MustExit == exit

\* Exit, or leave the stopped generation to a recordShutdown goroutine.
CheckExit ==
  /\ mpc = "check"
  /\ IF MustExit
       THEN mpc' = "final" /\ UNCHANGED shut
       ELSE mpc' = "top" /\ shut' = [shut EXCEPT ![running] = "spawned"]
  /\ UNCHANGED <<eventVars, exitVars, running, err, cancelled, serving,
                 connVars, forced, drainTimeout>>

CheckGraceful ==
  /\ mpc = "final"
  /\ mpc' = IF gracefulExit THEN "lock" ELSE "return"
  /\ UNCHANGED <<eventVars, exitVars, running, err, genVars>>

\* recordShutdown of the newest generation, holding srvmu.
FinalShutdown ==
  /\ mpc = "lock"
  /\ drainTimeout' = shutdownTimeout
  /\ shut' = IF revision = 0 THEN shut
             ELSE [shut EXCEPT ![revision] = "spawned"]
  /\ mpc' = "drain"
  /\ UNCHANGED <<eventVars, exitVars, running, err, cancelled, serving,
                 connVars, forced>>

FinalShutdownDone ==
  /\ mpc = "drain"
  /\ revision \in Gen => shut[revision] = "done"
  /\ mpc' = "return"
  /\ UNCHANGED <<eventVars, exitVars, running, err, genVars>>

-----------------------------------------------------------------------------
(***************************************************************************)
(* The Serve() goroutines, and the connections of the HTTP servers.        *)
(***************************************************************************)

\* Serve() returns because its context was cancelled.
ServerStops(g, s) ==
  /\ s \in serving[g] /\ g \in cancelled
  /\ serving' = [serving EXCEPT ![g] = @ \ {s}]
  /\ UNCHANGED <<loopVars, cancelled, connVars, shutVars>>

\* Serve() returns on its own accord, without and with an error.
ServerQuits(g, s) ==
  /\ s \in serving[g] /\ s \in MayQuit
  /\ serving' = [serving EXCEPT ![g] = @ \ {s}]
  /\ UNCHANGED <<loopVars, cancelled, connVars, shutVars>>

ServerFails(g, s) ==
  /\ s \in serving[g] /\ s \in MayFail
  /\ serving' = [serving EXCEPT ![g] = @ \ {s}]
  /\ err' = TRUE
  /\ UNCHANGED <<eventVars, exitVars, mpc, running, cancelled, connVars,
                 shutVars>>

\* A client connects, and sends its first request.
Accept(g, s) ==
  /\ s \in serving[g] \cap HTTPServers
  /\ s \notin active[g]
  /\ active' = [active EXCEPT ![g] = @ \cup {s}]
  /\ UNCHANGED <<loopVars, cancelled, serving, idle, shutVars>>

\* A kept-alive connection is used again: also after the listener closed.
Reuse(g, s) ==
  /\ s \in idle[g] \ active[g]
  /\ active' = [active EXCEPT ![g] = @ \cup {s}]
  /\ idle' = [idle EXCEPT ![g] = @ \ {s}]
  /\ UNCHANGED <<loopVars, cancelled, serving, shutVars>>

\* A request ends; its connection is kept unless the server is shutting down.
FinishRequest(g, s) ==
  /\ s \in active[g]
  /\ active' = [active EXCEPT ![g] = @ \ {s}]
  /\ \/ UNCHANGED idle
     \/ /\ KeepAlive
        /\ shut[g] \in {"none", "spawned"}
        /\ idle' = [idle EXCEPT ![g] = @ \cup {s}]
  /\ UNCHANGED <<loopVars, cancelled, serving, shutVars>>

-----------------------------------------------------------------------------
(***************************************************************************)
(* recordShutdown(rev, server, cleanups, timeout).                         *)
(***************************************************************************)

IdleOnShutdown(g) == {}

\* Shutdown() closes the idle connections and waits for the others.
ShutdownBegins(g) ==
  /\ shut[g] = "spawned"
  /\ shut' = [shut EXCEPT ![g] = "waiting"]
  /\ idle' = [idle EXCEPT ![g] = IdleOnShutdown(g)]
  /\ UNCHANGED <<loopVars, cancelled, serving, active, forced, drainTimeout>>

Drained(g) == active[g] = {}

ShutdownReturns(g) ==
  /\ shut[g] = "waiting" /\ Drained(g)
  /\ shut' = [shut EXCEPT ![g] = "cleanup"]
  /\ UNCHANGED <<loopVars, cancelled, serving, connVars, forced, drainTimeout>>

\* The deadline of recordShutdown: 0 (forever) after a reload.
DeadlineOf(g) ==
  IF mpc = "drain" /\ g = revision THEN drainTimeout ELSE "forever"

\* Shutdown() ran into its deadline, so Close() cuts what is left.
ShutdownTimesOut(g) ==
  /\ shut[g] = "waiting" /\ active[g] # {}
  /\ DeadlineOf(g) = "finite"
  /\ shut' = [shut EXCEPT ![g] = "cleanup"]
  /\ active' = [active EXCEPT ![g] = {}]
  /\ forced' = forced \cup {g}
  /\ UNCHANGED <<loopVars, cancelled, serving, idle, drainTimeout>>

RunCleanups(g) ==
  /\ shut[g] = "cleanup"
  /\ shut' = [shut EXCEPT ![g] = "done"]
  /\ UNCHANGED <<loopVars, cancelled, serving, connVars, forced, drainTimeout>>

-----------------------------------------------------------------------------
\* Run() returned, or the process panicked: nothing runs any more.
Halted == elpc = "crashed" \/ (mpc = "return" /\ elpc = "done")

Environment ==
  \/ Reload
  \/ \E how \in {"graceful", "now"} : Exit(how)
  \/ \E to \in Timeout : ExitGracefulWithTimeout(to)
  \/ \E g \in Gen, s \in HTTPServers :
       Accept(g, s) \/ Reuse(g, s) \/ FinishRequest(g, s)
  \/ \E g \in Gen, s \in Servers : ServerQuits(g, s) \/ ServerFails(g, s)

EventLoop ==
  \/ TakeTimedStop \/ TakeStop \/ CallCancel \/ TakeReload
  \/ LoadOk \/ CancelOld \/ LoadFail \/ EventLoopExit

MainLoop ==
  \/ AskFirstConfig \/ AwaitFirstConfig \/ PickGeneration
  \/ ListenAndServe \/ ListenFails \/ ServeReturns \/ CheckExit
  \/ CheckGraceful \/ FinalShutdown \/ FinalShutdownDone

recordShutdown(g) ==
  \/ ShutdownBegins(g) \/ ShutdownReturns(g)
  \/ ShutdownTimesOut(g) \/ RunCleanups(g)

Terminated == Halted /\ UNCHANGED vars

Next ==
  \/ /\ ~Halted
     /\ \/ Environment \/ EventLoop \/ MainLoop
        \/ \E g \in Gen : recordShutdown(g)
        \/ \E g \in Gen, s \in Servers : ServerStops(g, s)
  \/ Terminated

(***************************************************************************)
(* Goroutines that can run do run.  A select statement picks among its     *)
(* ready cases at random, so a case that is ready again and again is       *)
(* eventually taken (SF); and a blocked sender is first in line when a full *)
(* channel is read, so Run() gets its own reload in.  Nothing is assumed   *)
(* of clients and operators, of whether a configuration loads, or of        *)
(* services that give up.                                                  *)
(***************************************************************************)
Live(A) == ~Halted /\ A

Fairness ==
  /\ SF_vars(Live(TakeTimedStop)) /\ SF_vars(Live(TakeStop))
  /\ SF_vars(Live(TakeReload))    /\ SF_vars(Live(EventLoopExit))
  /\ SF_vars(Live(AskFirstConfig))
  /\ WF_vars(Live(CallCancel \/ LoadOk \/ LoadFail \/ CancelOld))
  /\ WF_vars(Live(MainLoop))
  /\ \A g \in Gen : WF_vars(Live(recordShutdown(g)))
  /\ \A g \in Gen, s \in Servers : WF_vars(Live(ServerStops(g, s)))

Spec == Init /\ [][Next]_vars

FairSpec == Spec /\ Fairness

-----------------------------------------------------------------------------
(***************************************************************************)
(* Properties.                                                             *)
(***************************************************************************)

\* Services of two generations are never inside Serve() together: the main
\* loop waits for every Serve() of an ensemble (dwg.Wait) before the next.
NoOverlap ==
  \A g, h \in Gen : serving[g] # {} /\ serving[h] # {} => g = h

\* Cleanups (closing access logs, handlers, the control socket) never run
\* under a service or a connection that still uses what they close.
CleanupAfterDrain ==
  \A g \in Gen : shut[g] \in {"cleanup", "done"} =>
    serving[g] = {} /\ active[g] = {} /\ idle[g] = {}

\* Close() cuts requests short only when an exit asked for it: a reload lets
\* the replaced generation finish, however long that takes.
ReloadKeepsConnections ==
  forced # {} => exit

\* Nothing but a newer generation or an exit stops what is running: a
\* configuration that fails to load leaves the running servers alone.
FailedLoadHarmless ==
  \A g \in cancelled : g < revision \/ exit \/ mpc = "return"

\* A generation that was replaced has been told to stop, or the event loop is
\* just about to: oldCancel is never lost between two reloads.
SupersededCancelled ==
  \A g \in Gen : g < revision =>
    g \in cancelled \/ (elpc = "replace" /\ oldCancel = g)

\* The event loop calls a nil CancelFunc, and so ends the process with a panic,
\* only for an exit requested before the first configuration was tried: one
\* that failed to load leaves something to call as well.
PanicOnlyAtStart ==
  elpc = "crashed" => ~firstConfigLoadDone /\ running = 0

\* recordShutdown is started at most once for a generation: the one the exit
\* drains is not one a reload already handed to a goroutine.
DrainedOnce ==
  [][\A g \in Gen :
       shut[g] \notin {"none", "spawned"} => shut'[g] # "spawned"]_shut

\* A configuration that loads is eventually served, or a newer one is, unless
\* the daemon is asked to exit or stops.
ReloadTakesEffect ==
  (running < revision) ~> (running = revision \/ exit \/ Halted)

\* An exit that reached the newest generation ends the main loop, unless
\* another configuration is loaded behind it.
ExitTakesEffect ==
  (exit /\ revision \in cancelled) ~>
    (mpc \in {"drain", "return"} \/ Halted \/ revision \notin cancelled)

\* "daemon stop <seconds>": the last drain ends with the process.
TimedExitTerminates ==
  (mpc = "drain" /\ drainTimeout = "finite") ~> Halted

(***************************************************************************)
(* The inductive invariant behind the safety properties.                   *)
(***************************************************************************)

\* nextCancel cancels the newest generation.
CancelNewest ==
  /\ revision = 0 => nextCancel \in {NilCancel, NoopCancel}
  /\ revision > 0 => nextCancel = revision
  /\ elpc = "replace" =>
       /\ revision > 0
       /\ revision > 1 => oldCancel = revision - 1
       /\ revision = 1 => oldCancel \in {NilCancel, NoopCancel}

\* An exit in progress was requested.
ExitRequested ==
  /\ gracefulExit => exit
  /\ elpc = "cancel" => exit
  /\ mpc \in {"lock", "drain"} => exit

\* Only the generation the main loop runs serves; it never is newer than the
\* newest, and the main loop comes back for a strictly newer one.
MainLoopInv ==
  /\ \A g \in Gen : serving[g] # {} => mpc = "serve" /\ g = running
  /\ mpc \in {"listen", "serve", "check"} => running \in Gen
  /\ running <= revision
  /\ mpc \in {"start", "wait"} => running = 0
  /\ mpc = "top" => running < revision \/ revision = 0

\* Without an error the services that returned were cancelled, except for
\* those that may quit: so a generation that stopped cleanly was cancelled.
StoppedInv ==
  /\ mpc = "serve" =>
       \/ err
       \/ Servers \ serving[running] \subseteq MayQuit
       \/ running \in cancelled
  /\ mpc = "check" => running \in cancelled

\* recordShutdown only ever works on generations the main loop is done with.
RetiredInv ==
  /\ \A g \in Gen : shut[g] # "none" =>
       \/ g < running
       \/ g = running /\ mpc = "top"
       \/ mpc \in {"drain", "return"}
  /\ \A g \in Gen : shut[g] = "waiting" => idle[g] = {}

\* There is no CancelFunc to call only until the first load is over.
FirstCancelInv ==
  /\ nextCancel = NilCancel => ~firstConfigLoadDone
  /\ mpc \notin {"start", "wait"} => firstConfigLoadDone

IInv ==
  /\ TypeOK
  /\ CancelNewest
  /\ ExitRequested
  /\ MainLoopInv
  /\ StoppedInv
  /\ RetiredInv
  /\ CleanupAfterDrain
  /\ ReloadKeepsConnections
  /\ FailedLoadHarmless
  /\ SupersededCancelled
  /\ FirstCancelInv
  /\ PanicOnlyAtStart

(***************************************************************************)
(* Statements of the code's comments that the code does not keep.          *)
(***************************************************************************)

\* An exit event is not lost to a reload: once taken, the main loop ends.
ExitNotLost ==
  exit ~> (mpc \in {"drain", "return"} \/ Halted)

\* A successful reload replaces the running servers.
ReloadReplaces ==
  \A g \in Gen :
    (mpc = "serve" /\ running < g /\ revision = g) ~> (running >= g \/ exit)

(***************************************************************************)
(* Refinement: the daemon implements Generations.                          *)
(***************************************************************************)
Retired(g) ==
  \/ g = running /\ mpc # "listen"
  \/ g < running /\ shut[g] = "spawned"

PhaseOf(g) ==
  IF g > revision THEN "unborn"
  ELSE IF shut[g] = "done" THEN "clean"
  ELSE IF shut[g] \in {"waiting", "cleanup"} THEN "draining"
  ELSE IF serving[g] # {} THEN "serving"
  ELSE IF Retired(g) THEN "stopped"
  ELSE "loaded"

Abstract == INSTANCE Generations
              WITH phase <- [g \in Gen |-> PhaseOf(g)],
                   busy <- active,
                   exiting <- exit

\* Every step of the daemon is a step of Generations or leaves it unchanged.
ImplementsGenerations == Abstract!Spec

=============================================================================
