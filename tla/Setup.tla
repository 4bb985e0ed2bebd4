------------------------------- MODULE Setup -------------------------------
(***************************************************************************)
(* One load of the configuration: instantiateServersFromConfig (server.go),*)
(* the handler registry (handler.go), NewProxy and its parts               *)
(* (handlers/rproxy), the HTTP servers (http.go) and the TLS plugins.      *)
(*                                                                         *)
(* A load runs in one goroutine, but its order is not fixed: servers, the  *)
(* paths of a mux and listeners come out of Go maps.  handlerByName calls  *)
(* itself through the handlers it configures; `stack` holds these calls,   *)
(* and their names are the resolutionPath.                                 *)
(*                                                                         *)
(* Configurations are records of what the code can tell apart: a part that *)
(* does not parse, a file that is not there, a type nobody registered.     *)
(***************************************************************************)
EXTENDS TLSConf, Sequences, FiniteSets, SequencesExt, Functions

CONSTANTS Configs,         \* what the configuration file may hold
          staticHandlers,  \* names of handlers registered in code
          handlerTypes,    \* handler types registered in code
          tlsPluginTypes   \* TLS plugin types registered in code

(***************************************************************************)
(* The configuration file (config/config.go, handlers/rproxy).             *)
(***************************************************************************)

\* A TransportConfig or a TLSClientConfig that is left out is not given.
NotGiven == [given |-> FALSE]

VirtualTransportConfig(v) ==
  /\ {v.parses, v.rr, v.rrParses} \subseteq BOOLEAN /\ v.type \in STRING
  /\ v.uri \in {"none", "good", "bad"}  \* of the health check
  /\ \A u \in DOMAIN v.upstreams : v.upstreams[u] \subseteq {"url", "bad"}

TransportConfig(t) ==
  t = NotGiven \/ /\ t.given /\ t.type \in STRING
                  /\ t.tls \in {NotGiven} \cup TLSClientConfig
                  /\ t.type = "Virtual" => VirtualTransportConfig(t.virtual)

\* What becomes of a module: its init succeeds, fails or panics (a target
\* without a scheme), its type is unknown, or it is not configured at all.
Modules == {"ok", "fails", "panics", "unknown", "missing"}

ProxyConfig(c) ==
  /\ {c.given, c.parses, c.dir} \subseteq BOOLEAN
  /\ TransportConfig(c.transport) /\ c.modules \in Seq(Modules)

RedirectHandlerConfig == [parses : BOOLEAN]

\* A function that makes a handler: what it looks up, whether it insists on
\* it, and what it returns.
HandlerFunction ==
  [needs : Seq(STRING), strict : BOOLEAN,
   out : {"handler", "nil", "failed"}, cleanup : BOOLEAN]

\* The switch on the type knows two types before it asks the registered ones.
registeredTypes == handlerTypes \ {"ReverseProxy", "Redirect"}

HandlerConfig(h) ==
  /\ h.plugin \in {"none", "nomap", "bad", "nilmap", "nofunc", "map"}
  /\ h.plugin = "map" => h.fromPlugin \in HandlerFunction
  /\ h.type \in STRING
  /\ h.type = "ReverseProxy" => ProxyConfig(h.config)
  /\ h.type = "Redirect" => h.config \in RedirectHandlerConfig
  /\ h.type \in registeredTypes => h.config \in HandlerFunction

ListenerConfig == [tls : {FALSE}] \cup TLSServerConfig

\* A handler is named by a string, or by one for each path; "#" is no name.
HTTPServerConfig(s) ==
  /\ s.kind \in {"string", "mux", "invalid"} /\ s.log \in BOOLEAN
  /\ \A p \in DOMAIN s.paths : s.paths[p] \in STRING
  /\ \A l \in DOMAIN s.listeners : s.listeners[l] \in ListenerConfig

TLSPluginConfig ==
  [type : STRING, so : {"none", "nomap", "bad", "map"}, absolute : BOOLEAN,
   init : {"ok", "cberror", "nocb", "error"}]

\* The fields of a MetricsConfig that are not empty.
MetricsConfig == SUBSET {"Address", "Ident"}

\* Servers, handlers and plugins are maps with strings for keys.
Config(c) ==
  /\ DOMAIN c.http \cup DOMAIN c.handlers \cup DOMAIN c.tlsPlugins
       \subseteq STRING
  /\ IsFiniteSet(DOMAIN c.handlers) /\ "#" \notin DOMAIN c.handlers
  /\ c.read \in {"ok", "bad", "null"} /\ c.metrics \in MetricsConfig
  /\ {c.log, c.pluginDir} \subseteq BOOLEAN
  /\ \A s \in DOMAIN c.http : HTTPServerConfig(c.http[s])
  /\ \A h \in DOMAIN c.handlers : HandlerConfig(c.handlers[h])
  /\ \A p \in DOMAIN c.tlsPlugins : c.tlsPlugins[p] \in TLSPluginConfig
  /\ c.defaultSNI \in {"none", "nomap", "bad", "map"}

ASSUME SetupAssumption ==
  /\ Configs # {} /\ \A c \in Configs : Config(c)
  /\ "#" \notin staticHandlers

VARIABLES gen,        \* loads begun
          conf,       \* the configuration being loaded
          phase,      \* where the load is
          result,     \* how it ended
          pending, srv, paths, listeners,  \* servers; what is left of one
          stack, ret, \* calls of handlerByName; what the last one returned
          resolutionMap,  \* the handlers that are there
          services,   \* daemon servers
          cleanups,   \* resources the cleanup functions release
          held        \* resources acquired and not released, of all loads

loadVars     == <<gen, conf>>
serverVars   == <<pending, srv, paths, listeners>>
registryVars == <<stack, ret, resolutionMap>>
outVars      == <<services, cleanups, held>>
setupVars    == <<loadVars, phase, result, serverVars, registryVars, outVars>>

Resource(by, what) ==
  [gen |-> gen, by |-> by, what |-> what, n |-> Cardinality(
     {r \in held : r.gen = gen /\ r.by = by /\ r.what = what})]
Service(what, by) == [gen |-> gen, what |-> what, by |-> by]

Finish(how) == phase' = "done" /\ result' = how

-----------------------------------------------------------------------------
(***************************************************************************)
(* NewProxy: what it returns, how many modules it initialised, and whether *)
(* there is a service.  A missing configuration is a nil pointer.          *)
(***************************************************************************)

\* A health check, if there is one, needs a URI.
HealthOK(v) == v.rr => v.uri \in {"none", "good"}

\* Every upstream needs targets, and each must be a URL.
initVirtualTransport(v) ==
  /\ v.parses /\ v.type = "RoundRobin" /\ v.rrParses /\ HealthOK(v)
  /\ \A u \in DOMAIN v.upstreams :
       v.upstreams[u] # {} /\ v.upstreams[u] \subseteq {"url"}

\* Type "" is the default transport; an unknown type is a nil transport.
TransportOK(t) ==
  t.given => /\ t.tls.given => ~GetTLSClientConfig(t.tls).err
             /\ t.type = "Virtual" => initVirtualTransport(t.virtual)

\* The modules that are initialised before the first that fails.
InitModules(order) ==
  LET bad == {i \in DOMAIN order : order[i] # "ok"}
  IN  IF bad = {} THEN Len(order) ELSE (CHOOSE i \in bad :
                                          \A k \in bad : i <= k) - 1

NewProxy(c) ==
  LET modules == InitModules(c.modules)
      fails(n) == [out |-> "failed", modules |-> n, service |-> FALSE] IN
  CASE ~c.given -> [fails(0) EXCEPT !.out = "panic"]
    [] c.given /\ ~(c.parses /\ c.dir /\ TransportOK(c.transport)) -> fails(0)
    [] OTHER ->
         IF modules < Len(c.modules)
         THEN [fails(modules) EXCEPT !.out =
                 IF c.modules[modules + 1] = "panics" THEN "panic" ELSE @]
         ELSE [out |-> "handler", modules |-> modules,
               service |-> c.transport.given
                           /\ c.transport.type = "Virtual"]

-----------------------------------------------------------------------------
(***************************************************************************)
(* handlerByName, and handlerForConfig in steps.  A frame is a call that   *)
(* configures its handler; its stages: "plugin" and "hinit" run a function *)
(* that may look other handlers up, "builtin" is the switch on the type.   *)
(***************************************************************************)

Answers == {"handler", "nil"}
Errors  == {"unknown", "cycle", "failed"}
Top     == Last(stack)
Below   == Front(stack)
Handler == conf.handlers[Top.name]
resolutionPath(frames) == {frames[i].name : i \in DOMAIN frames}

\* Fault: only a handler that asks for itself is a cycle.
handlerByNameSelf(n, frames) ==
  LET known  == n \in DOMAIN conf.handlers
      cyclic == frames # <<>> /\ n = Last(frames).name
      call   == [name |-> n, stage |-> "enter", todo |-> <<>>, cf |-> {}] IN
  /\ stack' = IF n \notin resolutionMap /\ known /\ ~cyclic
              THEN Append(frames, call) ELSE frames
  /\ ret' = CASE n \in resolutionMap -> "handler"
              [] n \notin resolutionMap /\ ~known ->
                   IF n \in staticHandlers THEN "handler" ELSE "unknown"
              [] n \notin resolutionMap /\ known ->
                   IF cyclic THEN "cycle" ELSE "none"

\* Look n up, from the calls `frames`: answer at once, or configure it.
handlerByName(n, frames) ==
  LET known  == n \in DOMAIN conf.handlers
      cyclic == n \in resolutionPath(frames)
      call   == [name |-> n, stage |-> "enter", todo |-> <<>>, cf |-> {}] IN
  /\ stack' = IF n \notin resolutionMap /\ known /\ ~cyclic
              THEN Append(frames, call) ELSE frames
  /\ ret' = CASE n \in resolutionMap -> "handler"
              [] n \notin resolutionMap /\ ~known ->
                   IF n \in staticHandlers THEN "handler" ELSE "unknown"
              [] n \notin resolutionMap /\ known ->
                   IF cyclic THEN "cycle" ELSE "none"

InFrame(stage) == phase = "lookup" /\ stack # <<>> /\ Top.stage = stage
SetTop(frame) == stack' = Append(Below, frame)
Leave(answer) == stack' = Below /\ ret' = answer

\* Faults: a handler without a service is not stored; what a nested lookup
\* has to clean up is lost.
ConfiguredForgotten(answer, service, cf) ==
  /\ Leave(answer)
  /\ resolutionMap' = IF answer = "handler" /\ service # {}
                      THEN resolutionMap \cup {Top.name} ELSE resolutionMap
  /\ services' = services \cup service
  /\ cleanups' = cleanups \cup cf
ConfiguredTop(answer, service, cf) ==
  /\ Leave(answer)
  /\ resolutionMap' = IF answer = "handler"
                      THEN resolutionMap \cup {Top.name} ELSE resolutionMap
  /\ services' = services \cup service
  /\ cleanups' = IF Below = <<>> THEN cleanups \cup cf ELSE cleanups

\* The handler is there, or nil: store it, keep its service and cleanup.
Configured(answer, service, cf) ==
  /\ Leave(answer)
  /\ resolutionMap' = IF answer = "handler"
                      THEN resolutionMap \cup {Top.name} ELSE resolutionMap
  /\ services' = services \cup service
  /\ cleanups' = cleanups \cup cf

\* handlerFromPlugin: no plugin, or one without a map, leaves it to the type.
handlerFromPlugin ==
  /\ InFrame("enter")
  /\ \/ /\ Handler.plugin \in {"none", "nomap"}
        /\ SetTop([Top EXCEPT !.stage = "builtin"])
        /\ UNCHANGED <<phase, result, ret>>
     \/ Handler.plugin = "bad" /\ Leave("failed") /\ UNCHANGED <<phase, result>>
     \/ /\ Handler.plugin \in {"nilmap", "nofunc"}
        /\ Finish("panic") /\ UNCHANGED <<stack, ret>>
     \/ /\ Handler.plugin = "map"
        /\ SetTop([Top EXCEPT !.stage = "plugin",
                              !.todo = Handler.fromPlugin.needs])
        /\ UNCHANGED <<phase, result, ret>>
  /\ UNCHANGED <<loadVars, serverVars, resolutionMap, outVars>>

\* What the running function of a registered type, or of a plugin, does.
Hinit == IF Top.stage = "plugin" THEN Handler.fromPlugin ELSE Handler.config
HinitRuns == InFrame("plugin") \/ InFrame("hinit")

\* Fault: the list advances for the handlers of the configuration only.
LookupHandlerAgain ==
  LET n == Head(Top.todo) IN
  /\ HinitRuns /\ ret = "none" /\ Top.todo # <<>>
  /\ handlerByName(n, Append(Below, [Top EXCEPT !.todo =
       IF n \in DOMAIN conf.handlers THEN Tail(@) ELSE @]))
  /\ UNCHANGED <<loadVars, phase, result, serverVars, resolutionMap, outVars>>

LookupHandler ==
  /\ HinitRuns /\ ret = "none" /\ Top.todo # <<>>
  /\ handlerByName(Head(Top.todo),
                   Append(Below, [Top EXCEPT !.todo = Tail(@)]))
  /\ UNCHANGED <<loadVars, phase, result, serverVars, resolutionMap, outVars>>

\* It hands the error on, or does without that handler.
HandlerFound ==
  /\ HinitRuns /\ ret # "none"
  /\ IF ret \in Errors /\ Hinit.strict THEN Leave(ret)
     ELSE ret' = "none" /\ UNCHANGED stack
  /\ UNCHANGED <<loadVars, phase, result, serverVars, resolutionMap, outVars>>

\* A plugin that returns no handler leaves it to the type too, but its
\* cleanup stays.
HinitReturns ==
  LET res == IF Hinit.cleanup THEN {Resource(Top.name, Top.stage)} ELSE {} IN
  /\ HinitRuns /\ ret = "none" /\ Top.todo = <<>>
  /\ IF Hinit.out = "failed"
     THEN Leave("failed") /\ UNCHANGED <<resolutionMap, outVars>>
     ELSE /\ held' = held \cup res
          /\ IF Hinit.out = "nil" /\ Top.stage = "plugin"
             THEN /\ SetTop([Top EXCEPT !.stage = "builtin", !.cf = res])
                  /\ UNCHANGED <<ret, resolutionMap, services, cleanups>>
             ELSE Configured(Hinit.out, {}, res)
  /\ UNCHANGED <<loadVars, phase, result, serverVars>>

\* The switch on the type.  The proxy's and the function's cleanup replace
\* the one of the plugin.
ConfigureProxy ==
  LET proxy == NewProxy(Handler.config)
      modules == {[Resource(Top.name, "module") EXCEPT !.n = @ + i] :
                    i \in 1 .. proxy.modules}
      service == IF proxy.service THEN {Service("proxy", Top.name)} ELSE {} IN
  /\ Handler.type = "ReverseProxy"
  /\ held' = held \cup modules
  /\ \/ /\ proxy.out = "handler" /\ Configured("handler", service, modules)
        /\ UNCHANGED <<phase, result>>
     \/ /\ proxy.out = "failed" /\ Leave("failed")
        /\ UNCHANGED <<phase, result, resolutionMap, services, cleanups>>
     \/ /\ proxy.out = "panic" /\ Finish("panic")
        /\ UNCHANGED <<registryVars, services, cleanups>>

makeRedirectHandler ==
  /\ Handler.type = "Redirect"
  /\ \/ Handler.config.parses /\ Configured("handler", {}, Top.cf)
     \/ /\ ~Handler.config.parses /\ Leave("failed")
        /\ UNCHANGED <<resolutionMap, services, cleanups>>
  /\ UNCHANGED <<phase, result, held>>

UseHandlerType ==
  /\ Handler.type \in registeredTypes
  /\ SetTop([Top EXCEPT !.stage = "hinit", !.cf = {},
                        !.todo = Handler.config.needs])
  /\ UNCHANGED <<phase, result, ret, resolutionMap, outVars>>

NoSuchType ==
  /\ Handler.type \notin {"ReverseProxy", "Redirect"} \cup registeredTypes
  /\ Leave("failed")
  /\ UNCHANGED <<phase, result, resolutionMap, outVars>>

handlerForConfig ==
  /\ InFrame("builtin")
  /\ ConfigureProxy \/ makeRedirectHandler \/ UseHandlerType \/ NoSuchType
  /\ UNCHANGED <<loadVars, serverVars>>

-----------------------------------------------------------------------------
(***************************************************************************)
(* The servers.                                                            *)
(***************************************************************************)

loadMetricsConfig == {"Address", "Ident"} \subseteq conf.metrics

\* A file that holds "null" has no configuration, and no error either.
ParseConfig ==
  /\ phase = "parse"
  /\ IF conf.read # "ok"
     THEN /\ Finish(IF conf.read = "bad" THEN "error" ELSE "ok")
          /\ UNCHANGED <<pending, services>>
     ELSE /\ phase' = "servers" /\ pending' = DOMAIN conf.http
          /\ services' = IF loadMetricsConfig THEN {Service("metrics", "")}
                         ELSE {}
          /\ UNCHANGED result
  /\ UNCHANGED <<loadVars, srv, paths, listeners, registryVars, cleanups, held>>

\* The next server, in no particular order.
NextServer ==
  /\ phase = "servers" /\ pending # {}
  /\ \E s \in pending :
       /\ srv' = s /\ pending' = pending \ {s}
       /\ paths' = DOMAIN conf.http[s].paths
       /\ IF conf.http[s].kind \in {"string", "mux"}
          THEN phase' = "lookup" /\ UNCHANGED result ELSE Finish("error")
  /\ UNCHANGED <<loadVars, listeners, registryVars, outVars>>

AllServers ==
  /\ phase = "servers" /\ pending = {} /\ Finish("ok")
  /\ UNCHANGED <<loadVars, serverVars, registryVars, outVars>>

AtServer == phase = "lookup" /\ stack = <<>>

\* HandlerForSpec looks its paths up one by one.
HandlerForSpec ==
  /\ AtServer /\ ret = "none"
  /\ \E p \in paths : LET n == conf.http[srv].paths[p] IN
       /\ paths' = paths \ {p}
       /\ IF n = "#"  \* not a string
          THEN Finish("error") /\ UNCHANGED <<stack, ret>>
          ELSE handlerByName(n, <<>>) /\ UNCHANGED <<phase, result>>
  /\ UNCHANGED <<loadVars, pending, srv, listeners, resolutionMap, outVars>>

\* Fault: the error of a path of a mux is lost in a nested scope.
UseHandlerShadowed ==
  /\ AtServer /\ ret # "none"
  /\ ret' = "none"
  /\ CASE ret \in Errors /\ conf.http[srv].kind = "string" -> Finish("error")
       [] ret = "nil" /\ conf.http[srv].kind = "mux" -> Finish("panic")
       [] OTHER -> UNCHANGED <<phase, result>>
  /\ UNCHANGED <<loadVars, serverVars, stack, resolutionMap, outVars>>

\* A mux panics when it is given a nil handler.
UseHandler ==
  /\ AtServer /\ ret # "none"
  /\ ret' = "none"
  /\ CASE ret \in Errors -> Finish("error")
       [] ret = "nil" /\ conf.http[srv].kind = "mux" -> Finish("panic")
       [] OTHER -> UNCHANGED <<phase, result>>
  /\ UNCHANGED <<loadVars, serverVars, stack, resolutionMap, outVars>>

\* The audit handler around it, and its access log: a file that cannot be
\* opened is no error.
wrapAuditHandler ==
  LET res == {Resource(srv, "log")} IN
  /\ AtServer /\ ret = "none" /\ paths = {}
  /\ phase' = "listen" /\ listeners' = DOMAIN conf.http[srv].listeners
  /\ IF conf.http[srv].log \/ conf.log
     THEN /\ cleanups' = cleanups \cup res
          /\ held' \in {held, held \cup res}
     ELSE UNCHANGED <<cleanups, held>>
  /\ UNCHANGED <<loadVars, result, pending, srv, paths, registryVars, services>>

-----------------------------------------------------------------------------
(***************************************************************************)
(* Listeners with TLS, and TLS plugins.                                    *)
(***************************************************************************)

\* The plugin named "" is always there.
newTLSPluginRegistry ==
  [name \in {""} \cup DOMAIN conf.tlsPlugins |->
     IF name # "" THEN conf.tlsPlugins[name]
     ELSE [type |-> "", so |-> conf.defaultSNI, absolute |-> FALSE,
           init |-> "ok"]]

\* The function of the plugin, or an error: from a file when one is named,
\* unless the type is known and "".
PluginFunc(p) ==
  LET known == p.type \in tlsPluginTypes
      load  == p.so # "none" /\ (p.type # "" \/ ~known) IN
  IF load THEN (p.absolute \/ conf.pluginDir)
               /\ (p.so = "map" \/ (p.so = "nomap" /\ known))
  ELSE known

\* A callback, an error, or neither: for a name without configuration.
getTLSPlugin(name) ==
  LET p == newTLSPluginRegistry[name] IN
  IF name \notin DOMAIN newTLSPluginRegistry THEN "nil"
  ELSE IF ~PluginFunc(p) THEN "error" ELSE p.init

UsesPlugin(t) == t.sni \/ t.plugin # ""

\* newHTTPServer: the next listener.  A plugin is called for each listener
\* anew; it may add services and cleanups.
getTLSServerConfigWithPlugin ==
  /\ phase = "listen"
  /\ \E l \in listeners :
       LET t == conf.http[srv].listeners[l]
           cb == getTLSPlugin(t.plugin)
           called == ~GetTLSServerConfig(t).err /\ UsesPlugin(t)
           ran == called /\ cb \in {"ok", "cberror", "nocb"} IN
       /\ listeners' = listeners \ {l}
       /\ IF t.tls /\ ran
          THEN LET res == {Resource(t.plugin, "tls")} IN
               /\ held' = held \cup res /\ cleanups' = cleanups \cup res
               /\ services' = services \cup {Service("tls", t.plugin)}
          ELSE UNCHANGED outVars
       /\ CASE t.tls /\ GetTLSServerConfig(t).err -> Finish("error")
            [] t.tls /\ called /\ cb \in {"error", "cberror"} -> Finish("error")
            [] t.tls /\ called /\ cb \in {"nil", "nocb"} -> Finish("exit")
            [] OTHER -> UNCHANGED <<phase, result>>
  /\ UNCHANGED <<loadVars, pending, srv, paths, registryVars>>

newHTTPServer ==
  /\ phase = "listen" /\ listeners = {}
  /\ phase' = "servers"
  /\ services' = services \cup {Service("http", srv)}
  /\ UNCHANGED <<loadVars, result, serverVars, registryVars, cleanups, held>>

-----------------------------------------------------------------------------
SetupInit ==
  /\ gen = 0 /\ conf = (CHOOSE c \in Configs : TRUE)
  /\ phase = "idle" /\ result = "none"
  /\ pending = {} /\ srv = "" /\ paths = {} /\ listeners = {}
  /\ stack = <<>> /\ ret = "none" /\ resolutionMap = {}
  /\ services = {} /\ cleanups = {} /\ held = {}

\* The next call of the configuration function.
Begin ==
  /\ phase = "idle"
  /\ gen' = gen + 1 /\ conf' \in Configs /\ phase' = "parse"
  /\ UNCHANGED <<result, serverVars, registryVars, outVars>>

\* It returns: its variables and the registry are gone.
End ==
  /\ phase = "done"
  /\ phase' = "idle" /\ result' = "none"
  /\ pending' = {} /\ srv' = "" /\ paths' = {} /\ listeners' = {}
  /\ stack' = <<>> /\ ret' = "none" /\ resolutionMap' = {}
  /\ services' = {} /\ cleanups' = {}
  /\ UNCHANGED <<loadVars, held>>

instantiateServersFromConfig ==
  \/ ParseConfig \/ NextServer \/ AllServers \/ HandlerForSpec \/ UseHandler
  \/ handlerFromPlugin \/ LookupHandler \/ HandlerFound \/ HinitReturns
  \/ handlerForConfig \/ wrapAuditHandler \/ getTLSServerConfigWithPlugin
  \/ newHTTPServer

=============================================================================
