---------------------------- MODULE OzoneProofs ----------------------------
(***************************************************************************)
(* The process, for every set of configurations, handlers and options and  *)
(* every number of loads: LoadProofs says what a step of a load keeps, and *)
(* the rest of the process only begins loads, ends them, and releases what *)
(* they acquired.                                                          *)
(***************************************************************************)
EXTENDS LoadProofs

\* What the process knows, and the metrics.
AppInv ==
  /\ mainpc \in {"code", "dryrun", "run", "exited", "killed", "crashed"}
  /\ initOnce \in BOOLEAN /\ handled \in BOOLEAN
  /\ reload \in BOOLEAN /\ exiting \in BOOLEAN
  /\ "dryrun" \in DOMAIN opt /\ opt["dryrun"] \in BOOLEAN
  /\ gen \in 0 .. MaxGen /\ (mainpc = "code" => gen = 0)
  /\ ret \in {"none"} \cup Answers \cup Errors
  /\ stage \in [Gen -> Daemon!Phases]
  /\ DOMAIN loaded = Gen /\ metric \in 0 .. MaxGen
  /\ MetricsFollow

Inv == LoadInv /\ AppInv

-----------------------------------------------------------------------------
(***************************************************************************)
(* Loads begin and end.                                                    *)
(***************************************************************************)

\* A load begins with nothing.
LEMMA LoadBegins ==
  ASSUME LoadInv, Begin
  PROVE  LoadInv'
<1>1. /\ phase = "idle" /\ phase' = "parse" /\ gen' = gen + 1
      /\ conf' \in Configs /\ result = "none"
      /\ resolutionMap = {} /\ services = {} /\ cleanups = {} /\ pending = {}
      /\ stack = <<>> /\ ret = "none" /\ gen \in Nat
      /\ UNCHANGED <<result, pending, srv, paths, listeners, stack, ret,
                     resolutionMap, services, cleanups, held>>
  BY DEF Begin, LoadInv, PlaceInv, serverVars, registryVars, outVars
<1>2. PlaceInv'
  BY <1>1 DEF PlaceInv
<1>3. RegistryInv'
  BY <1>1 DEF RegistryInv
<1>4. ServersInv' /\ OutcomeFixed'
  BY <1>1 DEF ServersInv, OutcomeFixed
<1>5. ServicesInv'
  BY <1>1 DEF ServicesInv
<1>6. HeldInv'
  <2>1. \A r \in held' : r.gen <= gen' /\ r.gen # gen'
    BY <1>1 DEF LoadInv, HeldInv, Resources
  <2>2. QED
    BY <1>1, <2>1 DEF LoadInv, HeldInv, ConfiguredOnce
<1>7. QED
  BY <1>2, <1>3, <1>4, <1>5, <1>6 DEF LoadInv

\* It leaves nothing behind but what it holds.
LEMMA LoadReturns ==
  ASSUME LoadInv, End
  PROVE  LoadInv'
<1>1. /\ phase = "done" /\ phase' = "idle" /\ result' = "none"
      /\ pending' = {} /\ stack' = <<>> /\ ret' = "none"
      /\ resolutionMap' = {} /\ services' = {} /\ cleanups' = {}
      /\ UNCHANGED <<gen, conf, held>>
  BY DEF End, loadVars
<1>2. PlaceInv'
  BY <1>1 DEF LoadInv, PlaceInv
<1>3. RegistryInv'
  BY <1>1 DEF RegistryInv
<1>4. ServersInv' /\ OutcomeFixed'
  BY <1>1 DEF ServersInv, OutcomeFixed
<1>5. ServicesInv'
  BY <1>1 DEF ServicesInv
<1>6. ConfiguredOnce'
  BY <1>1 DEF LoadInv, HeldInv, ConfiguredOnce
<1>7. HeldInv'
  BY <1>1, <1>6 DEF LoadInv, HeldInv
<1>8. QED
  BY <1>2, <1>3, <1>4, <1>5, <1>7 DEF LoadInv

\* What the cleanups of a generation release is no longer held.
LEMMA LoadElsewhere ==
  ASSUME LoadInv, held' \subseteq held,
         UNCHANGED <<loadVars, phase, result, serverVars, registryVars,
                     services, cleanups>>
  PROVE  LoadInv'
<1>1. UNCHANGED <<gen, conf, phase, result, pending, srv, paths, listeners,
                  stack, ret, resolutionMap, services, cleanups>>
  BY DEF loadVars, serverVars, registryVars
<1>2. PlaceInv'
  BY <1>1 DEF LoadInv, PlaceInv
<1>3. RegistryInv'
  BY <1>1, Zenon DEF LoadInv, RegistryInv
<1>4. ServersInv'
  BY <1>1, SameMeaning DEF LoadInv, ServersInv, Current
<1>5. OutcomeFixed'
  BY <1>1, SameMeaning DEF LoadInv, OutcomeFixed
<1>6. ServicesInv'
  BY <1>1 DEF LoadInv, ServicesInv, By, Current, Service
<1>7. HeldInv'
  <2>1. held' \subseteq Resources /\ IsFiniteSet(held')
    BY FS_Subset DEF LoadInv, HeldInv
  <2>2. \A r : HeldOK(r)' <=> HeldOK(r)
    BY <1>1 DEF HeldOK
  <2>3. ConfiguredOnce'
    BY <1>1 DEF LoadInv, HeldInv, ConfiguredOnce
  <2>4. QED
    BY <1>1, <2>1, <2>2, <2>3 DEF LoadInv, HeldInv
<1>8. QED
  BY <1>2, <1>3, <1>4, <1>5, <1>6, <1>7 DEF LoadInv

\* A step of the load.
LEMMA LoadGoesOn ==
  ASSUME LoadInv, instantiateServersFromConfig
  PROVE  LoadInv'
BY LoadPlace, LoadRegistry, LoadServers, LoadServices, LoadHeld DEF LoadInv

\* Whatever the process does, the load keeps its invariant.
LEMMA LoadInvariance ==
  ASSUME LoadInv, [Next]_vars
  PROVE  LoadInv'
<1>1. ASSUME UNCHANGED setupVars
      PROVE  LoadInv'
  <2>1. /\ held' = held
        /\ UNCHANGED <<loadVars, phase, result, serverVars, registryVars,
                       services, cleanups>>
    BY <1>1 DEF setupVars, outVars
  <2>2. QED
    BY <2>1, LoadElsewhere
<1>2. CASE CallInit \/ HandledSignals \/ Invoke \/ Halt \/ Gone
           \/ UNCHANGED vars
  BY <1>1, <1>2 DEF CallInit, HandledSignals, Invoke, Halt, Gone, vars
<1>3. CASE Main
  BY <1>1, <1>3, LoadBegins DEF Main
<1>4. CASE BeginLoad
  BY <1>4, LoadBegins DEF BeginLoad
<1>5. CASE Load
  BY <1>5, LoadGoesOn DEF Load
<1>6. CASE loadConfig
  BY <1>6, LoadReturns DEF loadConfig
<1>7. CASE \E g \in Gen : Run(g)
  <2>1. PICK g \in Gen : Run(g)
    BY <1>7
  <2>2. held' \subseteq held
    BY <2>1 DEF Run, Clean
  <2>3. UNCHANGED <<loadVars, phase, result, serverVars, registryVars,
                    services, cleanups>>
    BY <2>1 DEF Run
  <2>4. QED
    BY <2>2, <2>3, LoadElsewhere
<1>8. QED
  BY <1>2, <1>3, <1>4, <1>5, <1>6, <1>7 DEF Next

-----------------------------------------------------------------------------
(***************************************************************************)
(* The process around the loads.                                           *)
(***************************************************************************)

\* A set of positions has a last one.
LEMMA LastPosition ==
  ASSUME NEW n \in Nat, NEW S \in SUBSET (1 .. n), S # {}
  PROVE  Max(S) \in S
<1> DEFINE T == {m \in Nat : m <= n /\ n - m \in S}
<1>1. PICK i \in S : TRUE
  OBVIOUS
<1>2. n - i \in T
  BY <1>1
<1>3. PICK m \in T : \A k \in T : m <= k
  BY <1>2, SmallestNumber
<1>4. \A j \in S : n - j \in T /\ m <= n - j
  BY <1>3
<1>5. n - m \in S /\ \A j \in S : n - m >= j
  BY <1>3, <1>4
<1>6. QED
  BY <1>5, Zenon DEF Max

\* Options of the right type are applied to options of the right type.
LEMMA OptionsKeepType ==
  ASSUME NEW opts \in OptionSets \cup {<<>>}, NEW to, "dryrun" \in DOMAIN to,
         to["dryrun"] \in BOOLEAN
  PROVE  /\ "dryrun" \in DOMAIN Apply(opts, to)
         /\ Apply(opts, to)["dryrun"] \in BOOLEAN
<1>1. opts \in Seq(Options)
  BY OzoneAssumption, EmptySeq
<1>2. Len(opts) \in Nat /\ DOMAIN opts = 1 .. Len(opts)
  BY <1>1, LenProperties
<1> DEFINE S == {i \in DOMAIN opts : opts[i].field = "dryrun"}
<1>3. /\ "dryrun" \in DOMAIN Apply(opts, to)
      /\ Apply(opts, to)["dryrun"] =
           IF S = {} THEN to["dryrun"] ELSE opts[Max(S)].value
  BY DEF Apply
<1>4. CASE S = {}
  BY <1>3, <1>4
<1>5. CASE S # {}
  <2>1. Max(S) \in S
    BY <1>2, <1>5, LastPosition
  <2>2. opts[Max(S)] \in Options /\ opts[Max(S)].field = "dryrun"
    BY <1>1, <1>2, <2>1, ElementOfSeq
  <2>3. opts[Max(S)].value \in BOOLEAN
    BY <2>2 DEF Options
  <2>4. QED
    BY <1>3, <1>5, <2>3, Zenon
<1>6. QED
  BY <1>4, <1>5

\* The options are kept in order by each call of Init and Main.
LEMMA InitKeepsTypes ==
  ASSUME AppInv, NEW doinit \in BOOLEAN, NEW opts \in OptionSets \cup {<<>>},
         internalInit(doinit, opts)
  PROVE  /\ initOnce' \in BOOLEAN /\ handled' \in BOOLEAN
         /\ "dryrun" \in DOMAIN opt' /\ opt'["dryrun"] \in BOOLEAN
<1>1. "dryrun" \in DOMAIN opt' /\ opt'["dryrun"] \in BOOLEAN
  BY OptionsKeepType DEF AppInv, internalInit
<1>2. initOnce' \in BOOLEAN /\ handled' \in BOOLEAN
  BY Zenon DEF AppInv, internalInit
<1>3. QED
  BY <1>1, <1>2

\* The last answer is one of handlerByName's, or none, also after the load.
LEMMA AnswersStay ==
  ASSUME LoadInv, AppInv, instantiateServersFromConfig
  PROVE  ret' \in {"none"} \cup Answers \cup Errors
<1>1. CASE phase' # "done"
  <2>1. PlaceInv' /\ RegistryInv'
    BY LoadGoesOn DEF LoadInv
  <2>2. QED
    BY <1>1, <2>1 DEF PlaceInv, RegistryInv, Registry
<1>2. CASE phase' = "done"
  <2>1. phase # "done"
    BY DEF instantiateServersFromConfig, ParseConfig, NextServer, AllServers,
       HandlerForSpec, UseHandler, handlerFromPlugin, LookupHandler,
       HandlerFound, HinitReturns, handlerForConfig, wrapAuditHandler,
       getTLSServerConfigWithPlugin, newHTTPServer, AtServer, HinitRuns, InFrame
  <2>2. ret' \in {ret, "none"}
    <3>1. CASE \/ ParseConfig \/ NextServer \/ AllServers
               \/ getTLSServerConfigWithPlugin \/ newHTTPServer
               \/ wrapAuditHandler
      BY <3>1 DEF ParseConfig, NextServer, AllServers, wrapAuditHandler,
         getTLSServerConfigWithPlugin, newHTTPServer, registryVars
    <3>2. CASE HandlerForSpec \/ handlerFromPlugin \/ UseHandler
      BY <1>2, <2>1, <3>2 DEF HandlerForSpec, handlerFromPlugin, UseHandler
    <3>3. CASE LookupHandler \/ HandlerFound \/ HinitReturns
      BY <1>2, <2>1, <3>3 DEF LookupHandler, HandlerFound, HinitReturns
    <3>4. CASE handlerForConfig
      BY <1>2, <2>1, <3>4 DEF handlerForConfig, ConfigureProxy,
         makeRedirectHandler, UseHandlerType, NoSuchType, registryVars
    <3>5. QED
      BY <3>1, <3>2, <3>3, <3>4 DEF instantiateServersFromConfig
  <2>3. QED
    BY <2>2 DEF AppInv
<1>3. QED
  BY <1>1, <1>2

\* Outside of the load, and with what runs left alone, a step keeps what the
\* process knows.
LEMMA GenerationsStay ==
  ASSUME AppInv, UNCHANGED <<stage, loaded, metric>>
  PROVE  /\ stage' \in [Gen -> Daemon!Phases]
         /\ DOMAIN loaded' = Gen /\ metric' \in 0 .. MaxGen
         /\ MetricsFollow'
BY DEF AppInv, MetricsFollow, HasMetrics

\* A load that succeeds makes the next generation; what serves, serves on.
LEMMA loadConfigApp ==
  ASSUME LoadInv, AppInv, loadConfig
  PROVE  AppInv'
<1>1. /\ mainpc \in {"dryrun", "run"} /\ phase = "done"
      /\ result \in {"ok", "error", "panic", "exit"} /\ ret' = "none"
      /\ UNCHANGED <<gen, initOnce, opt, handled, reload, exiting, metric>>
  BY DEF loadConfig, End, loadVars, appVars, LoadInv, PlaceInv
<1>2. CASE ~(result = "ok" /\ mainpc = "run")
  <2>1. /\ mainpc' \in {mainpc, "killed", "exited"}
        /\ UNCHANGED <<stage, loaded>>
    <3>1. CASE result \in {"exit", "panic"}
      <4>1. result # "ok" /\ result # "error"
        BY <3>1
      <4>2. QED
        BY <3>1, <4>1, Zenon DEF loadConfig
    <3>2. CASE result \in {"ok", "error"} /\ mainpc = "dryrun"
      <4>1. mainpc # "run" /\ result \notin {"exit", "panic"}
        BY <3>2
      <4>2. QED
        BY <3>2, <4>1, Zenon DEF loadConfig
    <3>3. CASE result = "error" /\ mainpc = "run"
      <4>1. /\ mainpc # "dryrun" /\ result \notin {"exit", "panic"}
            /\ result # "ok"
        BY <3>3
      <4>2. /\ mainpc' = IF Loaded = {} THEN "exited" ELSE mainpc
            /\ UNCHANGED <<stage, loaded>>
        BY <3>3, <4>1, Zenon DEF loadConfig
      <4>3. QED
        BY <4>2
    <3>4. QED
      BY <1>1, <1>2, <3>1, <3>2, <3>3
  <2>2. /\ stage' \in [Gen -> Daemon!Phases]
        /\ DOMAIN loaded' = Gen /\ metric' \in 0 .. MaxGen
        /\ MetricsFollow'
    BY <1>1, <2>1, GenerationsStay
  <2>3. mainpc' \in {"dryrun", "run", "killed", "exited"}
    BY <1>1, <2>1
  <2>4. QED
    BY <1>1, <2>2, <2>3 DEF AppInv
<1>3. CASE result = "ok" /\ mainpc = "run"
  <2>1. /\ Daemon!Load(NextGen) /\ UNCHANGED mainpc
        /\ loaded' = [loaded EXCEPT ![NextGen] =
                        [services |-> services, cleanups |-> cleanups]]
    <3>1. /\ result \notin {"exit", "panic"} /\ result # "error"
          /\ mainpc # "dryrun"
      BY <1>3
    <3>2. QED
      BY <1>3, <3>1, Zenon DEF loadConfig
  <2>2. /\ stage[NextGen] = "unborn"
        /\ stage' = [stage EXCEPT ![NextGen] = "loaded"]
    BY <2>1 DEF Daemon!Load, Daemon!Move
  <2> HIDE DEF NextGen
  <2>3. stage' \in [Gen -> Daemon!Phases] /\ DOMAIN loaded' = Gen
    BY <2>1, <2>2 DEF AppInv, Daemon!Phases
  <2>4. MetricsFollow'
    <3>1. ASSUME metric # 0
          PROVE  stage'[metric] = "serving" /\ HasMetrics(metric)'
      <4>1. /\ metric \in Gen /\ stage[metric] = "serving"
            /\ HasMetrics(metric)
        BY <3>1 DEF AppInv, MetricsFollow, Gen, Daemon!Gen
      <4>2. metric # NextGen
        BY <2>2, <4>1
      <4>3. stage'[metric] = "serving" /\ loaded'[metric] = loaded[metric]
        BY <2>1, <2>2, <4>1, <4>2 DEF AppInv
      <4>4. QED
        BY <1>1, <4>1, <4>3 DEF HasMetrics
    <3>2. QED
      BY <1>1, <3>1 DEF MetricsFollow
  <2>5. QED
    BY <1>1, <1>3, <2>1, <2>3, <2>4 DEF AppInv
<1>4. QED
  BY <1>2, <1>3

\* The metrics start with the generation that serves, and stop with it.
LEMMA RunApp ==
  ASSUME AppInv, NEW g \in Gen, Run(g)
  PROVE  AppInv'
<1>1. /\ mainpc = "run"
      /\ UNCHANGED <<mainpc, gen, ret, initOnce, opt, handled, reload, loaded>>
  BY DEF Run, loadVars, registryVars, appVars
<1>2. exiting' = exiting
  BY DEF Run, Serve, Stop, Drain, Clean, Daemon!Start, Daemon!Stop,
     Daemon!Drain, Daemon!Clean
<1>3. Gen \subseteq 0 .. MaxGen /\ 0 \in 0 .. MaxGen /\ 0 \notin Gen
  BY OzoneAssumption DEF Gen, Daemon!Gen
<1>4. /\ stage \in [Gen -> Daemon!Phases] /\ metric \in {0} \cup Gen
      /\ metric # 0 => stage[metric] = "serving" /\ HasMetrics(metric)
  BY DEF AppInv, MetricsFollow, Gen, Daemon!Gen
<1>5. CASE Serve(g)
  <2>1. /\ \A h \in Gen : stage[h] # "serving"
        /\ stage' = [stage EXCEPT ![g] = "serving"]
        /\ IF HasMetrics(g) THEN metric' \in {metric, g} ELSE metric' = metric
    BY <1>5 DEF Serve, MetricsStart, Daemon!Start, Daemon!Move, Daemon!Gen, Gen
  <2>2. metric = 0
    BY <1>4, <2>1
  <2>3. /\ stage' \in [Gen -> Daemon!Phases]
        /\ metric' = 0 \/ (metric' = g /\ HasMetrics(g))
    <3>1. stage' \in [Gen -> Daemon!Phases]
      BY <1>4, <2>1 DEF Daemon!Phases
    <3>2. metric' = 0 \/ (metric' = g /\ HasMetrics(g))
      <4>1. CASE HasMetrics(g)
        BY <2>1, <2>2, <4>1
      <4>2. CASE ~HasMetrics(g)
        BY <2>1, <2>2, <4>2
      <4>3. QED
        BY <4>1, <4>2
    <3>3. QED
      BY <3>1, <3>2
  <2>4. stage'[g] = "serving"
    BY <1>4, <2>1
  <2>5. MetricsFollow' /\ metric' \in 0 .. MaxGen
    BY <1>1, <1>3, <2>3, <2>4 DEF MetricsFollow, HasMetrics
  <2>6. QED
    BY <1>1, <1>2, <2>3, <2>5 DEF AppInv
<1>6. CASE Stop(g)
  <2>1. /\ stage[g] = "serving" /\ stage' = [stage EXCEPT ![g] = "stopped"]
        /\ metric' = 0 \/ (metric' = metric /\ ~HasMetrics(g))
    <3>1. /\ stage[g] = "serving" /\ stage' = [stage EXCEPT ![g] = "stopped"]
          /\ metric' = IF HasMetrics(g) THEN 0 ELSE metric
      BY <1>6 DEF Stop, MetricsStop, Daemon!Stop, Daemon!Move
    <3>2. CASE HasMetrics(g)
      BY <3>1, <3>2
    <3>3. CASE ~HasMetrics(g)
      BY <3>1, <3>3
    <3>4. QED
      BY <3>2, <3>3
  <2>2. stage' \in [Gen -> Daemon!Phases] /\ metric' \in 0 .. MaxGen
    BY <1>3, <1>4, <2>1 DEF Daemon!Phases
  <2>3. MetricsFollow'
    <3>1. CASE metric' = 0
      BY <3>1 DEF MetricsFollow
    <3>2. CASE metric' = metric /\ ~HasMetrics(g) /\ metric # 0
      <4>1. metric # g /\ stage'[metric] = "serving"
        BY <1>3, <1>4, <2>1, <3>2
      <4>2. QED
        BY <1>1, <1>4, <3>2, <4>1 DEF MetricsFollow, HasMetrics
    <3>3. QED
      BY <2>1, <3>1, <3>2
  <2>4. QED
    BY <1>1, <1>2, <2>2, <2>3 DEF AppInv
<1>7. CASE Drain(g) \/ Clean(g)
  <2>1. /\ UNCHANGED metric /\ stage[g] # "serving"
        /\ \E to \in {"draining", "clean"} : stage' = [stage EXCEPT ![g] = to]
    BY <1>7 DEF Drain, Clean, Daemon!Drain, Daemon!Clean, Daemon!Move
  <2>2. stage' \in [Gen -> Daemon!Phases] /\ metric' \in 0 .. MaxGen
    BY <1>3, <1>4, <2>1 DEF Daemon!Phases
  <2>3. MetricsFollow'
    BY <1>1, <1>3, <1>4, <2>1 DEF MetricsFollow, HasMetrics
  <2>4. QED
    BY <1>1, <1>2, <2>2, <2>3 DEF AppInv
<1>8. QED
  BY <1>5, <1>6, <1>7 DEF Run

\* Whatever the process does, it keeps what it knows in order.
LEMMA AppInvariance ==
  ASSUME LoadInv, AppInv, [Next]_vars
  PROVE  AppInv'
<1>1. CASE CallInit
  <2>1. PICK doinit \in BOOLEAN, opts \in OptionSets \cup {<<>>} :
          internalInit(doinit, opts)
    BY <1>1, Zenon DEF CallInit
  <2>2. UNCHANGED <<gen, ret, mainpc, reload, exiting, stage, loaded, metric>>
    BY <1>1 DEF CallInit, setupVars, loadVars, registryVars, genVars
  <2>3. QED
    BY <2>1, <2>2, InitKeepsTypes, GenerationsStay DEF AppInv
<1>2. CASE Main
  <2>1. PICK opts \in OptionSets : internalInit(TRUE, opts)
    BY <1>2 DEF Main
  <2>2. /\ mainpc = "code" /\ UNCHANGED <<exiting, stage, loaded, metric>>
        /\ \/ /\ mainpc' = "dryrun" /\ gen' = gen + 1
              /\ ret' = ret /\ reload' = reload
           \/ mainpc' = "run" /\ reload' = TRUE /\ gen' = gen /\ ret' = ret
    BY <1>2 DEF Main, Begin, setupVars, loadVars, registryVars, genVars
  <2>3. gen = 0 /\ 1 \in 0 .. MaxGen /\ gen' \in 0 .. MaxGen
    BY <2>2, OzoneAssumption DEF AppInv
  <2>4. /\ initOnce' \in BOOLEAN /\ handled' \in BOOLEAN
        /\ "dryrun" \in DOMAIN opt' /\ opt'["dryrun"] \in BOOLEAN
    BY <2>1, InitKeepsTypes
  <2>5. reload' \in BOOLEAN /\ ret' = ret
    BY <2>2, Zenon DEF AppInv
  <2>6. mainpc' \in {"dryrun", "run"}
    BY <2>2
  <2>7. QED
    BY <2>2, <2>3, <2>4, <2>5, <2>6, GenerationsStay DEF AppInv
<1>3. CASE HandledSignals \/ Invoke \/ Halt
  <2>1. /\ UNCHANGED <<gen, ret, initOnce, opt, handled, stage, loaded, metric>>
        /\ mainpc = "run" /\ mainpc' \in {"run", "crashed", "exited"}
    BY <1>3 DEF HandledSignals, Invoke, Halt, setupVars, loadVars,
       registryVars, genVars, appVars
  <2>2. reload' \in {reload, TRUE} /\ exiting' \in {exiting, TRUE}
    BY <1>3, Zenon DEF HandledSignals, Invoke, Halt, onSignalReload,
       onSignalExit, genVars
  <2>3. reload' \in BOOLEAN /\ exiting' \in BOOLEAN
    BY <2>2, Zenon DEF AppInv
  <2>4. QED
    BY <2>1, <2>3, GenerationsStay DEF AppInv
<1>4. CASE BeginLoad
  <2>1. /\ mainpc = "run" /\ gen < MaxGen /\ gen' = gen + 1 /\ reload' = FALSE
        /\ UNCHANGED <<ret, mainpc, initOnce, opt, handled, exiting, stage,
                       loaded, metric>>
    BY <1>4 DEF BeginLoad, Begin, registryVars, genVars, appVars
  <2>2. gen' \in 0 .. MaxGen
    BY <2>1, OzoneAssumption DEF AppInv
  <2>3. QED
    BY <2>1, <2>2, GenerationsStay DEF AppInv
<1>5. CASE Load
  <2>1. /\ UNCHANGED <<gen, mainpc, initOnce, opt, handled, reload, exiting,
                       stage, loaded, metric>>
        /\ mainpc # "code" /\ instantiateServersFromConfig
    <3>1. gen' = gen
      BY <1>5 DEF Load, instantiateServersFromConfig, ParseConfig, NextServer,
         AllServers, HandlerForSpec, UseHandler, handlerFromPlugin,
         LookupHandler, HandlerFound, HinitReturns, handlerForConfig,
         wrapAuditHandler, getTLSServerConfigWithPlugin, newHTTPServer, loadVars
    <3>2. QED
      BY <1>5, <3>1 DEF Load, ozoneVars, appVars, genVars
  <2>2. ret' \in {"none"} \cup Answers \cup Errors
    BY <2>1, AnswersStay
  <2>3. QED
    BY <2>1, <2>2, GenerationsStay DEF AppInv
<1>6. CASE loadConfig
  BY <1>6, loadConfigApp
<1>7. CASE \E g \in Gen : Run(g)
  BY <1>7, RunApp
<1>8. CASE Gone \/ UNCHANGED vars
  <2>1. UNCHANGED <<gen, ret, mainpc, initOnce, opt, handled, reload, exiting,
                    stage, loaded, metric>>
    BY <1>8 DEF Gone, vars, setupVars, loadVars, registryVars, ozoneVars,
       appVars, genVars
  <2>2. QED
    BY <2>1, GenerationsStay DEF AppInv
<1>9. QED
  BY <1>1, <1>2, <1>3, <1>4, <1>5, <1>6, <1>7, <1>8 DEF Next

\* It begins in order.
LEMMA InitInv == Init => Inv
<1> SUFFICES ASSUME Init PROVE Inv
  OBVIOUS
<1>1. /\ gen = 0 /\ conf \in Configs /\ phase = "idle" /\ result = "none"
      /\ pending = {} /\ stack = <<>> /\ ret = "none" /\ resolutionMap = {}
      /\ services = {} /\ cleanups = {} /\ held = {}
  BY SetupAssumption DEF Init, SetupInit
<1>2. PlaceInv
  BY <1>1 DEF PlaceInv
<1>3. RegistryInv
  BY <1>1 DEF RegistryInv
<1>4. ServersInv /\ OutcomeFixed
  BY <1>1 DEF ServersInv, OutcomeFixed
<1>5. ServicesInv
  BY <1>1 DEF ServicesInv
<1>6. HeldInv
  BY <1>1, FS_EmptySet DEF HeldInv, ConfiguredOnce
<1>7. AppInv
  <2>1. /\ mainpc = "code" /\ initOnce = FALSE /\ handled = FALSE
        /\ reload = FALSE /\ exiting = FALSE /\ metric = 0
        /\ opt = DefaultOptions
        /\ stage = [g \in Gen |-> "unborn"] /\ loaded = [g \in Gen |-> NoLoad]
    BY DEF Init
  <2>2. "dryrun" \in DOMAIN opt /\ opt["dryrun"] \in BOOLEAN
    BY <2>1 DEF DefaultOptions
  <2>3. 0 \in 0 .. MaxGen
    BY OzoneAssumption
  <2>4. stage \in [Gen -> Daemon!Phases] /\ DOMAIN loaded = Gen
    BY <2>1 DEF Daemon!Phases
  <2>5. MetricsFollow
    BY <2>1 DEF MetricsFollow
  <2>6. QED
    BY <1>1, <2>1, <2>2, <2>3, <2>4, <2>5 DEF AppInv
<1>8. QED
  BY <1>2, <1>3, <1>4, <1>5, <1>6, <1>7 DEF Inv, LoadInv

\* The invariant of the load and of the process around it is one.
THEOREM Invariance == Spec => []Inv
<1>1. Inv /\ [Next]_vars => Inv'
  BY LoadInvariance, AppInvariance DEF Inv
<1>2. QED
  BY <1>1, InitInv, PTL DEF Spec

-----------------------------------------------------------------------------
(***************************************************************************)
(* The properties.                                                         *)
(***************************************************************************)

\* Nested calls configure different handlers: there are no more of them.
LEMMA StackIsBounded ==
  ASSUME LoadInv, phase = "lookup"
  PROVE  Len(stack) <= Cardinality(DOMAIN conf.handlers)
<1>1. /\ Chain(conf, srv, paths, stack)
      /\ IsFiniteSet(DOMAIN conf.handlers)
  BY ConfigParts DEF LoadInv, PlaceInv, RegistryInv, Registry
<1>2. /\ stack \in Seq(Calls(conf.handlers))
      /\ \A i, j \in 1 .. Len(stack) : stack[i].name = stack[j].name => i = j
  BY <1>1, Zenon DEF Chain
<1>3. /\ Len(stack) \in Nat
      /\ \A i \in 1 .. Len(stack) : stack[i].name \in DOMAIN conf.handlers
  <2>1. \A i \in 1 .. Len(stack) : stack[i] \in Calls(conf.handlers)
    BY <1>2, ElementOfSeq
  <2>2. QED
    BY <1>2, <2>1, LenProperties DEF Calls
<1> DEFINE f == [i \in 1 .. Len(stack) |-> stack[i].name]
<1>4. f \in Injection(1 .. Len(stack), DOMAIN conf.handlers)
  BY <1>2, <1>3 DEF Injection, IsInjective
<1>5. Cardinality(1 .. Len(stack)) <= Cardinality(DOMAIN conf.handlers)
  BY <1>1, <1>4, FS_Injection
<1>6. Cardinality(1 .. Len(stack)) = Len(stack)
  <2>1. \A n \in Nat : Cardinality(1 .. n) = IF 1 > n THEN 0 ELSE n - 1 + 1
    BY FS_Interval
  <2>2. \A n \in Nat : (IF 1 > n THEN 0 ELSE n - 1 + 1) = n
    OBVIOUS
  <2>3. QED
    BY <1>3, <2>1, <2>2, Zenon
<1>7. QED
  BY <1>5, <1>6

\* The state has the types of the variables, and nested lookups end: a
\* handler is never configured inside itself.
THEOREM TypeCorrectness == Spec => []TypeOK
<1>1. ASSUME Inv PROVE TypeOK
  <2>1. /\ gen \in 0 .. MaxGen /\ conf \in Configs
        /\ phase \in {"idle", "parse", "servers", "lookup", "listen", "done"}
        /\ result \in {"none", "ok", "error", "panic", "exit"}
        /\ ret \in {"none"} \cup Answers \cup Errors
        /\ mainpc \in {"code", "dryrun", "run", "exited", "killed", "crashed"}
        /\ metric \in 0 .. MaxGen
    BY <1>1 DEF Inv, LoadInv, PlaceInv, AppInv
  <2>2. {initOnce, handled, reload, exiting} \subseteq BOOLEAN
    BY <1>1, Zenon DEF Inv, AppInv
  <2>3. opt.dryrun \in BOOLEAN
    BY <1>1 DEF Inv, AppInv
  <2>4. phase = "lookup" => Len(stack) <= Cardinality(DOMAIN conf.handlers)
    BY <1>1, StackIsBounded DEF Inv
  <2>5. \A s \in services :
          s.gen = gen /\ s.what \in {"http", "metrics", "proxy", "tls"}
    BY <1>1 DEF Inv, LoadInv, ServicesInv
  <2>6. \A g \in Gen : stage[g] \in Daemon!Phases
    BY <1>1 DEF Inv, AppInv
  <2>7. QED
    BY <2>1, <2>2, <2>3, <2>4, <2>5, <2>6 DEF TypeOK
<1>2. QED
  BY <1>1, Invariance, PTL

\* A load succeeds exactly when its configuration makes sense, whatever the
\* order of servers, paths and listeners.
THEOREM OutcomeIsFixed == Spec => []OutcomeFixed
<1>1. Inv => OutcomeFixed
  BY DEF Inv, LoadInv
<1>2. QED
  BY <1>1, Invariance, PTL

\* A handler that several servers and handlers use is configured once.
THEOREM HandlersAreConfiguredOnce == Spec => []ConfiguredOnce
<1>1. Inv => ConfiguredOnce
  BY DEF Inv, LoadInv, HeldInv
<1>2. QED
  BY <1>1, Invariance, PTL

\* What a load acquired, its cleanups release, also when it failed.
THEOREM CleanupsAreComplete == Spec => []CleanupsComplete
<1>1. ASSUME Inv PROVE CleanupsComplete
  <2>1. SUFFICES ASSUME phase = "done", NEW r \in held, r.gen = gen,
                        r.by \in resolutionMap \/ r.what \in {"log", "tls"},
                        r.what = "plugin" =>
                          conf.handlers[r.by].fromPlugin.out = "handler"
                 PROVE  r \in cleanups
    BY DEF CleanupsComplete
  <2>2. HeldOK(r) /\ r \in Resources
    BY <1>1, <2>1 DEF Inv, LoadInv, HeldInv
  <2>3. r.what \in {"module", "plugin", "hinit", "log", "tls"}
    BY <2>2 DEF Resources
  <2>4. CASE r.what = "module"
    <3>1. NewProxy(conf.handlers[r.by].config).out = "handler"
      BY <1>1, <2>1, <2>2, <2>4 DEF Inv, LoadInv, HeldInv, HeldOK
    <3>2. QED
      BY <2>2, <2>4, <3>1 DEF HeldOK
  <2>5. CASE r.what # "module"
    BY <2>1, <2>2, <2>3, <2>5 DEF HeldOK
  <2>6. QED
    BY <2>4, <2>5
<1>2. QED
  BY <1>1, Invariance, PTL

\* A load without an error has every server, behind TLS where that is asked
\* for, with the services its handlers need, and no other.
THEOREM ServersAreComplete == Spec => []ServersComplete
<1>1. ASSUME Inv PROVE ServersComplete
  <2>1. SUFFICES ASSUME phase = "done", result = "ok", conf.read = "ok"
                 PROVE  /\ By("http") = DOMAIN conf.http
                        /\ \A s \in DOMAIN conf.http :
                             \A l \in DOMAIN conf.http[s].listeners :
                               TLSUsable(conf.http[s].listeners[l])
                        /\ \A n \in DOMAIN conf.handlers :
                             Service("proxy", n) \in services <=>
                               /\ n \in resolutionMap
                               /\ IsVirtualProxy(conf.handlers[n])
    BY DEF ServersComplete, By
  <2>2. ServicesInv /\ OutcomeFixed
    BY <1>1 DEF Inv, LoadInv
  <2>3. ConfigOK
    BY <2>1, <2>2 DEF OutcomeFixed
  <2>4. \A s \in DOMAIN conf.http : \A l \in DOMAIN conf.http[s].listeners :
          TLSUsable(conf.http[s].listeners[l])
    BY <2>1, <2>3, Zenon DEF ConfigOK, ServerOK, TLSUsable
  <2>5. QED
    BY <2>1, <2>2, <2>4 DEF ServicesInv
<1>2. QED
  BY <1>1, Invariance, PTL

\* Metrics are sent for the generation that serves, and for no other.
THEOREM MetricsAreFollowing == Spec => []MetricsFollow
<1>1. Inv => MetricsFollow
  BY DEF Inv, AppInv
<1>2. QED
  BY <1>1, Invariance, PTL

=============================================================================
