------------------------------- MODULE Ozone -------------------------------
(***************************************************************************)
(* The process (main.go): the application's calls of Init, DisableInit and *)
(* Main with their options, signals and control commands (proccmd.go), and *)
(* the configurations the daemon asks for.  A configuration is loaded step *)
(* by step as module Setup says; what becomes of it is what Generations    *)
(* says the daemon promises (module Daemon implements that).               *)
(***************************************************************************)
EXTENDS Setup

CONSTANTS OptionSets,  \* sequences of options, given to Init or to Main
          MaxGen       \* bound: loads

\* DumpConfig, ControlSocket, ShutdownTimeout: each sets one field.
Options == [field : {"dryrun", "controlsocket"}, value : BOOLEAN]
             \cup [field : {"shutdowntimeout"}, value : Nat]

ASSUME OzoneAssumption ==
  /\ MaxGen \in Nat \ {0}
  /\ \A opts \in OptionSets : opts \in Seq(Options)

VARIABLES initOnce, \* Init, DisableInit or Main was called
          opt,      \* the package's cfg: options in effect
          handled,  \* the signal handler and the control command are there
          mainpc,   \* code, dryrun, run; exited, killed, crashed
          reload,   \* the daemon's reload channel
          stage,    \* per generation: as in Generations
          exiting,
          loaded,   \* per generation: what the load returned
          metric    \* the generation whose metrics are sent, or 0

appVars  == <<initOnce, opt, handled>>
genVars  == <<stage, exiting, loaded, metric>>
ozoneVars == <<appVars, mainpc, reload, genVars>>
vars     == <<setupVars, ozoneVars>>

Daemon == INSTANCE Generations WITH
  HTTPServers <- {}, phase <- stage, busy <- [g \in 1 .. MaxGen |-> {}]
Gen == Daemon!Gen

NoLoad == [services |-> {}, cleanups |-> {}]

-----------------------------------------------------------------------------
(***************************************************************************)
(* Options, Init and Main.                                                 *)
(***************************************************************************)

DefaultOptions == [dryrun |-> FALSE, controlsocket |-> TRUE,
                   shutdowntimeout |-> 0]

\* One after the other: the last option that sets a field counts.
Apply(opts, to) ==
  LET sets(f) == {i \in DOMAIN opts : opts[i].field = f}
  IN  [f \in DOMAIN to |->
         IF sets(f) = {} THEN to[f] ELSE opts[Max(sets(f))].value]

\* The options count in every call, the rest is done once.
internalInit(doinit, opts) ==
  /\ initOnce' = TRUE
  /\ opt' = Apply(opts, opt)
  /\ handled' = IF ~initOnce THEN doinit ELSE handled

CallInit ==
  /\ mainpc = "code"
  /\ \/ \E opts \in OptionSets : internalInit(TRUE, opts)
     \/ internalInit(FALSE, <<>>)
  /\ UNCHANGED <<setupVars, mainpc, reload, genVars>>

\* ozonemain: a dry run loads the configuration, the daemon asks itself to.
Main ==
  /\ mainpc = "code"
  /\ \E opts \in OptionSets : internalInit(TRUE, opts)
  /\ IF opt'.dryrun
     THEN mainpc' = "dryrun" /\ Begin /\ UNCHANGED reload
     ELSE mainpc' = "run" /\ reload' = TRUE /\ UNCHANGED setupVars
  /\ UNCHANGED genVars

-----------------------------------------------------------------------------
(***************************************************************************)
(* Signals and control commands.                                           *)
(***************************************************************************)
onSignalReload == reload' = TRUE /\ UNCHANGED exiting
onSignalExit == exiting' = TRUE /\ UNCHANGED reload

HandledSignals ==
  /\ mainpc = "run" /\ handled
  /\ onSignalReload \/ onSignalExit
  /\ UNCHANGED <<setupVars, appVars, mainpc, stage, loaded, metric>>

\* The command "daemon": a stop with a timeout that is no number does
\* nothing, and without an action there is no args[0].
Invoke ==
  /\ mainpc = "run" /\ handled /\ opt.controlsocket
  /\ \E g \in Gen : stage[g] = "serving"
  /\ \/ onSignalReload /\ UNCHANGED mainpc  \* reload
     \/ onSignalExit /\ UNCHANGED mainpc    \* kill, stop
     \/ mainpc' = "crashed" /\ UNCHANGED <<reload, exiting>>
  /\ UNCHANGED <<setupVars, appVars, stage, loaded, metric>>

-----------------------------------------------------------------------------
(***************************************************************************)
(* Loading.                                                                *)
(***************************************************************************)
BeginLoad ==
  /\ mainpc = "run" /\ reload /\ gen < MaxGen
  /\ Begin
  /\ reload' = FALSE
  /\ UNCHANGED <<appVars, mainpc, genVars>>

Load ==
  /\ mainpc \in {"dryrun", "run"}
  /\ instantiateServersFromConfig
  /\ UNCHANGED ozoneVars

Loaded == {g \in Gen : stage[g] # "unborn"}
NextGen == Cardinality(Loaded) + 1

\* The daemon keeps what it runs when the load failed, and ends when it has
\* nothing to run; what a failed load returned is dropped.
loadConfig ==
  /\ mainpc \in {"dryrun", "run"}
  /\ End
  /\ CASE result \in {"exit", "panic"} ->
            mainpc' = "killed" /\ UNCHANGED <<stage, loaded>>
       [] result \in {"ok", "error"} /\ mainpc = "dryrun" ->
            mainpc' = "exited" /\ UNCHANGED <<stage, loaded>>
       [] result = "error" /\ mainpc = "run" ->
            /\ mainpc' = IF Loaded = {} THEN "exited" ELSE mainpc
            /\ UNCHANGED <<stage, loaded>>
       [] result = "ok" /\ mainpc = "run" ->
            /\ Daemon!Load(NextGen)
            /\ loaded' = [loaded EXCEPT ![NextGen] =
                            [services |-> services, cleanups |-> cleanups]]
            /\ UNCHANGED mainpc
  /\ UNCHANGED <<appVars, reload, exiting, metric>>

-----------------------------------------------------------------------------
(***************************************************************************)
(* The generations, and the metrics service: it starts the flushing of the *)
(* metrics, unless the sink fails, and stops it when its context ends.     *)
(***************************************************************************)
HasMetrics(g) == \E s \in loaded[g].services : s.what = "metrics"

MetricsStart(g) == IF HasMetrics(g) THEN metric' \in {metric, g}
                   ELSE UNCHANGED metric

\* Fault: the flushing goes on when a reload ends the context.
MetricsStopKept(g) ==
  metric' = IF HasMetrics(g) /\ exiting THEN 0 ELSE metric

MetricsStop(g) == metric' = IF HasMetrics(g) THEN 0 ELSE metric

Newest(g) == \A h \in Loaded : h <= g

Serve(g) ==
  /\ Newest(g) /\ loaded[g].services # {}
  /\ Daemon!Start(g)
  /\ MetricsStart(g)

Stop(g) ==
  /\ ~Newest(g) \/ exiting
  /\ Daemon!Stop(g)
  /\ MetricsStop(g)

Drain(g) == Daemon!Drain(g) /\ UNCHANGED metric

\* The cleanup functions, when the last request is gone.
Clean(g) ==
  /\ Daemon!Clean(g)
  /\ held' = held \ loaded[g].cleanups
  /\ UNCHANGED metric

Run(g) ==
  /\ mainpc = "run"
  /\ \/ (Serve(g) \/ Stop(g) \/ Drain(g)) /\ UNCHANGED held
     \/ Clean(g)
  /\ UNCHANGED <<loadVars, phase, result, serverVars, registryVars, services,
                 cleanups, appVars, mainpc, reload, loaded>>

\* "No Servers", or an exit.
Halt ==
  /\ mainpc = "run"
  /\ \A g \in Gen : stage[g] # "serving"
  /\ exiting \/ \E g \in Loaded : Newest(g) /\ loaded[g].services = {}
  /\ mainpc' = "exited"
  /\ UNCHANGED <<setupVars, appVars, reload, genVars>>

Gone == mainpc \in {"exited", "killed", "crashed"} /\ UNCHANGED vars

Init ==
  /\ SetupInit
  /\ initOnce = FALSE /\ opt = DefaultOptions /\ handled = FALSE
  /\ mainpc = "code" /\ reload = FALSE
  /\ stage = [g \in Gen |-> "unborn"] /\ exiting = FALSE
  /\ loaded = [g \in Gen |-> NoLoad] /\ metric = 0

Next == \/ CallInit \/ Main \/ HandledSignals \/ Invoke
        \/ BeginLoad \/ Load \/ loadConfig \/ Halt \/ Gone
        \/ \E g \in Gen : Run(g)

\* The goroutine that loads runs on; what runs may take any time.
Spec == Init /\ [][Next]_vars /\ WF_vars(Load) /\ WF_vars(loadConfig)

-----------------------------------------------------------------------------
(***************************************************************************)
(* Properties.                                                             *)
(***************************************************************************)

\* Nested lookups end: a handler is never configured inside itself.
TypeOK ==
  /\ gen \in 0 .. MaxGen /\ conf \in Configs
  /\ phase \in {"idle", "parse", "servers", "lookup", "listen", "done"}
  /\ result \in {"none", "ok", "error", "panic", "exit"}
  /\ ret \in {"none"} \cup Answers \cup Errors
  /\ phase = "lookup" => Len(stack) <= Cardinality(DOMAIN conf.handlers)
  /\ \A s \in services :
       s.gen = gen /\ s.what \in {"http", "metrics", "proxy", "tls"}
  /\ mainpc \in {"code", "dryrun", "run", "exited", "killed", "crashed"}
  /\ {initOnce, handled, reload, exiting} \subseteq BOOLEAN
  /\ opt.dryrun \in BOOLEAN /\ metric \in 0 .. MaxGen
  /\ \A g \in Gen : stage[g] \in Daemon!Phases

(***************************************************************************)
(* What a configuration means, whatever order it is read in: the handlers  *)
(* that can be configured are the least set in which everyone finds the    *)
(* handlers it cannot do without, there or in the code.                    *)
(***************************************************************************)
CanInit(c, S) == c.out # "failed" /\ (c.strict => Range(c.needs) \subseteq S)

CanBuild(h, S) ==
  \/ h.type = "ReverseProxy" /\ NewProxy(h.config).out = "handler"
  \/ h.type = "Redirect" /\ h.config.parses
  \/ h.type \in registeredTypes /\ CanInit(h.config, S)

CanConfigure(h, S) ==
  \/ h.plugin \in {"none", "nomap"} /\ CanBuild(h, S)
  \/ /\ h.plugin = "map" /\ CanInit(h.fromPlugin, S)
     /\ h.fromPlugin.out = "nil" => CanBuild(h, S)

\* A handler of the configuration hides one of the code.
OfCode(handlers) == staticHandlers \ DOMAIN handlers

Usable(handlers) ==
  LET closed(S) == \A n \in DOMAIN handlers :
        CanConfigure(handlers[n], S \cup OfCode(handlers)) => n \in S
  IN  {n \in DOMAIN handlers :
         \A S \in SUBSET DOMAIN handlers : closed(S) => n \in S}
        \cup OfCode(handlers)

TLSUsable(t) == t.tls => GetTLSServerConfig(t).ciphers # {}

ServerOK(s) ==
  /\ s.kind \in {"string", "mux"}
  /\ Range(s.paths) \subseteq Usable(conf.handlers)
  /\ \A l \in DOMAIN s.listeners : LET t == s.listeners[l] IN
       t.tls => /\ TLSUsable(t)
                /\ UsesPlugin(t) => getTLSPlugin(t.plugin) = "ok"

ConfigOK ==
  conf.read = "ok" => \A s \in DOMAIN conf.http : ServerOK(conf.http[s])

\* A load succeeds exactly when its configuration makes sense, in whatever
\* order Go's maps give the servers, paths and listeners: a cycle is found
\* when there is one, and only then, and no error is lost on the way out.
OutcomeFixed ==
  phase = "done" =>
    /\ result = "ok" => ConfigOK /\ conf.read # "bad"
    /\ result = "error" => conf.read = "bad" \/ ~ConfigOK
    /\ result = "exit" => ~ConfigOK

\* A handler that several servers and handlers use is configured once: what
\* it acquired, it acquired once.
ConfiguredOnce ==
  \A r \in held : r.gen = gen =>
    LET h == conf.handlers[r.by] IN
    /\ r.what = "hinit" /\ h.config.out = "handler" => r.n = 0
    /\ r.what = "plugin" /\ h.fromPlugin.out = "handler" => r.n = 0
    /\ r.what = "module" /\ NewProxy(h.config).out = "handler" =>
         r.n <= Len(h.config.modules)

\* What the handlers, access logs and TLS plugins of a load acquired is what
\* the cleanups of the load release, also when it failed; lost is only what
\* a plugin acquired that left its handler to the built-in type.
CleanupsComplete ==
  phase = "done" => \A r \in held :
    /\ r.gen = gen /\ (r.by \in resolutionMap \/ r.what \in {"log", "tls"})
    /\ r.what = "plugin" => conf.handlers[r.by].fromPlugin.out = "handler"
    => r \in cleanups

IsVirtualProxy(h) ==
  /\ h.type = "ReverseProxy"
  /\ h.plugin \in {"none", "nomap"} \/ h.fromPlugin.out = "nil"
  /\ h.config.transport.given /\ h.config.transport.type = "Virtual"

\* A load without an error has every server, behind TLS where that is asked
\* for, with the services its handlers need, and no other.
ServersComplete ==
  phase = "done" /\ result = "ok" /\ conf.read = "ok" =>
    /\ {s.by : s \in {x \in services : x.what = "http"}} = DOMAIN conf.http
    /\ \A s \in DOMAIN conf.http : \A l \in DOMAIN conf.http[s].listeners :
         TLSUsable(conf.http[s].listeners[l])
    /\ \A n \in DOMAIN conf.handlers :
         Service("proxy", n) \in services <=>
           n \in resolutionMap /\ IsVirtualProxy(conf.handlers[n])

\* Metrics are sent for the generation that serves, and for no other.
MetricsFollow ==
  metric # 0 => stage[metric] = "serving" /\ HasMetrics(metric)

\* Every load ends, however its handlers refer to each other, unless the
\* process does.
LoadEnds == phase = "parse" ~> phase = "idle" \/ mainpc \notin {"dryrun", "run"}

=============================================================================
