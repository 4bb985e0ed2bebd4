----------------------------- MODULE LoadProofs -----------------------------
(***************************************************************************)
(* One load of the configuration, for every set of configurations: what    *)
(* the registry of handlers answers, in whatever order servers and paths   *)
(* are taken and however handlers refer to each other, is what the         *)
(* configuration means; and what it acquires is in its cleanups.           *)
(***************************************************************************)
EXTENDS Ozone, TLAPS, FiniteSetTheorems, SequenceTheorems,
        WellFoundedInduction

\* The provers do not know that "" is a string.
Names == STRING \cup {""}

Resources ==
  [gen : Nat, by : STRING, n : Nat,
   what : {"module", "plugin", "hinit", "log", "tls"}]
Calls(hs) ==
  [name : DOMAIN hs, stage : {"enter", "plugin", "builtin", "hinit"},
   todo : Seq(STRING), cf : SUBSET Resources]

-----------------------------------------------------------------------------
(***************************************************************************)
(* Calls of handlerByName, with the handlers hs of the configuration.      *)
(***************************************************************************)

\* The plugin, if there is one, leaves the handler to the type.
ReachesType(h) ==
  \/ h.plugin \in {"none", "nomap"}
  \/ h.plugin = "map" /\ h.fromPlugin.out = "nil"

\* The function that the call f runs.
Runs(hs, f) == IF f.stage = "plugin" THEN hs[f.name].fromPlugin
               ELSE hs[f.name].config
IsRunning(f) == f.stage \in {"plugin", "hinit"}

CallOK(hs, f) ==
  LET h == hs[f.name] IN
  /\ f.stage = "plugin" => h.plugin = "map"
  /\ f.stage \in {"builtin", "hinit"} =>
       /\ ReachesType(h)
       /\ h.plugin = "map" => CanInit(h.fromPlugin, Usable(hs))
  /\ f.stage = "hinit" => h.type \in registeredTypes
  /\ IsRunning(f) => Range(f.todo) \subseteq Range(Runs(hs, f).needs)

\* What the call f insisted on is usable, but for what it still has to look
\* up, and for m.
Found(hs, f, m) ==
  IsRunning(f) /\ Runs(hs, f).strict =>
    Range(Runs(hs, f).needs) \subseteq Usable(hs) \cup Range(f.todo) \cup m

\* The server s has looked its paths up, but for those in ps.
Looked(c, s, ps) ==
  {c.http[s].paths[p] : p \in DOMAIN c.http[s].paths \ ps}

\* What the i-th of the calls st may look up, or the server if i is 0 has.
MayAsk(c, s, ps, st, i) ==
  IF i = 0 THEN Looked(c, s, ps)
  ELSE IF IsRunning(st[i]) THEN Range(Runs(c.handlers, st[i]).needs) ELSE {}

\* It waits for m.
Waits(c, s, ps, st, i, m) ==
  /\ m \in MayAsk(c, s, ps, st, i)
  /\ IF i = 0 THEN Looked(c, s, ps) \subseteq Usable(c.handlers) \cup {m}
     ELSE Found(c.handlers, st[i], {m})

\* It waits for nothing.
Settled(c, s, ps, st) ==
  IF st = <<>> THEN Looked(c, s, ps) \subseteq Usable(c.handlers)
  ELSE Found(c.handlers, st[Len(st)], {})

Chain(c, s, ps, st) ==
  /\ st \in Seq(Calls(c.handlers))
  /\ \A i, j \in 1 .. Len(st) : st[i].name = st[j].name => i = j
  /\ \A i \in 1 .. Len(st) :
       /\ CallOK(c.handlers, st[i])
       /\ Waits(c, s, ps, st, i - 1, st[i].name)

\* Without the handlers P there is a way to do without S's complement.
Closed(hs, P, S) ==
  /\ S \subseteq DOMAIN hs \ P
  /\ \A n \in DOMAIN hs \ P :
       CanConfigure(hs[n], S \cup OfCode(hs)) => n \in S

\* The handler n cannot be had while those of P are being configured.
Fails(hs, P, n) ==
  \E S \in SUBSET DOMAIN hs : Closed(hs, P, S) /\ n \notin S \cup OfCode(hs)

Answered(hs, st, answer, m) ==
  /\ answer \in Answers => m \in Usable(hs)
  /\ answer \in Errors => Fails(hs, resolutionPath(st), m)

Registry(c, s, ps, st, answer, known) ==
  /\ Chain(c, s, ps, st)
  /\ known \subseteq DOMAIN c.handlers \cap Usable(c.handlers)
  /\ resolutionPath(st) \cap known = {}
  /\ answer \in {"none"} \cup Answers \cup Errors
  /\ IF answer = "none" THEN Settled(c, s, ps, st)
     ELSE \E m \in MayAsk(c, s, ps, st, Len(st)) :
            /\ Waits(c, s, ps, st, Len(st), m)
            /\ Answered(c.handlers, st, answer, m)

-----------------------------------------------------------------------------
(***************************************************************************)
(* The invariant of a load.                                                *)
(***************************************************************************)

\* Where the load is, and what it has not got to yet.
PlaceInv ==
  /\ conf \in Configs /\ gen \in Nat
  /\ phase \in {"idle", "parse", "servers", "lookup", "listen", "done"}
  /\ result \in {"none", "ok", "error", "panic", "exit"}
  /\ phase = "done" <=> result # "none"
  /\ phase \in {"servers", "lookup", "listen"} => conf.read = "ok"
  /\ pending \subseteq DOMAIN conf.http
  /\ phase \in {"lookup", "listen"} =>
       /\ srv \in DOMAIN conf.http \ pending
       /\ conf.http[srv].kind \in {"string", "mux"}
  /\ phase = "lookup" => paths \subseteq DOMAIN conf.http[srv].paths
  /\ phase \in {"idle", "parse"} =>
       resolutionMap = {} /\ services = {} /\ cleanups = {} /\ pending = {}
  /\ phase \in {"idle", "parse", "servers", "listen"} =>
       stack = <<>> /\ ret = "none"

\* The registry answers what the configuration means.
RegistryInv ==
  /\ resolutionMap \subseteq DOMAIN conf.handlers \cap Usable(conf.handlers)
  /\ phase = "lookup" =>
       Registry(conf, srv, paths, stack, ret, resolutionMap)

Current == IF phase \in {"lookup", "listen"} THEN {srv} ELSE {}
ListenerOK(t) ==
  t.tls => TLSUsable(t) /\ (UsesPlugin(t) => getTLSPlugin(t.plugin) = "ok")

\* The servers that are done make sense, and so does the current one as far
\* as it has come.
ServersInv ==
  /\ phase \in {"servers", "lookup", "listen"} =>
       \A s \in DOMAIN conf.http \ (pending \cup Current) :
         ServerOK(conf.http[s])
  /\ phase = "listen" =>
       /\ Range(conf.http[srv].paths) \subseteq Usable(conf.handlers)
       /\ listeners \subseteq DOMAIN conf.http[srv].listeners
       /\ \A l \in DOMAIN conf.http[srv].listeners \ listeners :
            ListenerOK(conf.http[srv].listeners[l])

By(what) == {s.by : s \in {x \in services : x.what = what}}

\* The services are those of the servers that are done and of the handlers
\* that are there.
ServicesInv ==
  /\ services \subseteq
       [gen : {gen}, what : {"http", "metrics", "proxy", "tls"}, by : Names]
  /\ phase \in {"servers", "lookup", "listen"} =>
       By("http") = DOMAIN conf.http \ (pending \cup Current)
  /\ phase = "done" /\ result = "ok" /\ conf.read = "ok" =>
       By("http") = DOMAIN conf.http
  /\ \A n \in DOMAIN conf.handlers :
       Service("proxy", n) \in services <=>
         n \in resolutionMap /\ IsVirtualProxy(conf.handlers[n])

\* What a load holds is in its cleanups, when the handler it was acquired
\* for is there.
HeldOK(r) ==
  LET h == conf.handlers[r.by] IN
  /\ r.what \in {"hinit", "log", "tls"} => r \in cleanups
  /\ r.what \in {"hinit", "plugin", "module"} => r.by \in DOMAIN conf.handlers
  /\ r.what = "hinit" /\ h.config.out = "handler" => r.by \in resolutionMap
  /\ r.what = "plugin" /\ h.fromPlugin.out = "handler" =>
       r.by \in resolutionMap /\ r \in cleanups
  /\ r.what = "module" =>
       /\ h.type = "ReverseProxy" /\ ReachesType(h)
       /\ NewProxy(h.config).out = "handler" =>
            r.by \in resolutionMap /\ r \in cleanups

HeldInv ==
  /\ held \subseteq Resources /\ IsFiniteSet(held)
  /\ cleanups \subseteq Resources
  /\ \A r \in held : r.gen <= gen
  /\ phase # "idle" => \A r \in held : r.gen = gen => HeldOK(r)
  /\ \A n \in resolutionMap : LET h == conf.handlers[n] IN
       h.type = "ReverseProxy" /\ ReachesType(h) =>
         NewProxy(h.config).out = "handler"
  /\ ConfiguredOnce

LoadInv ==
  /\ PlaceInv /\ RegistryInv /\ ServersInv /\ ServicesInv /\ HeldInv
  /\ OutcomeFixed

-----------------------------------------------------------------------------
(***************************************************************************)
(* What a configuration means.                                             *)
(***************************************************************************)

\* A sequence without its last element.
LEMMA FrontProperties ==
  ASSUME NEW S, NEW s \in Seq(S), Len(s) # 0
  PROVE  /\ Len(s) \in Nat \ {0}
         /\ Front(s) \in Seq(S)
         /\ Len(Front(s)) = Len(s) - 1
         /\ \A i \in 1 .. Len(s) - 1 : Front(s)[i] = s[i]
         /\ Last(s) = s[Len(s)] /\ Last(s) \in S
<1>1. Len(s) \in Nat \ {0}
  BY LenProperties
<1>2. \A i \in 1 .. Len(s) : s[i] \in S
  BY ElementOfSeq
<1> DEFINE n == Len(s) - 1
<1>3. /\ n \in Int /\ n - 1 + 1 = n /\ (~(1 <= n) => n = 0)
      /\ \A i \in 1 .. n : s[i] \in S
      /\ \A i \in 1 .. n : 1 + i - 1 = i
  <2>1. \A k \in Nat \ {0} : ~(1 <= k - 1) => k - 1 = 0
    OBVIOUS
  <2>2. \A i \in 1 .. n : 1 + i - 1 = i
    OBVIOUS
  <2>3. n \in Int /\ n - 1 + 1 = n
    BY <1>1
  <2>4. \A i \in 1 .. n : s[i] \in S
    BY <1>1, <1>2
  <2>5. QED
    BY <1>1, <2>1, <2>2, <2>3, <2>4, Zenon
<1>4. Last(s) = s[Len(s)] /\ Last(s) \in S
  BY <1>1, <1>2 DEF Last
<1>5. Front(s) = SubSeq(s, 1, n)
  BY Zenon DEF Front
<1> HIDE DEF n
<1>6. /\ SubSeq(s, 1, n) \in Seq(S)
      /\ Len(SubSeq(s, 1, n)) = IF 1 <= n THEN n - 1 + 1 ELSE 0
      /\ \A i \in 1 .. n - 1 + 1 : SubSeq(s, 1, n)[i] = s[1 + i - 1]
  <2>1. 1 \in Int
    OBVIOUS
  <2>2. QED
    BY <1>3, <2>1, SubSeqProperties
<1>7. /\ Front(s) \in Seq(S) /\ Len(Front(s)) = n
      /\ \A i \in 1 .. n : Front(s)[i] = s[i]
  <2>1. \A i \in 1 .. n : Front(s)[i] = s[1 + i - 1]
    BY <1>3, <1>5, <1>6, Zenon
  <2>2. QED
    BY <1>3, <1>5, <1>6, <2>1, Zenon
<1>8. QED
  BY <1>1, <1>4, <1>7, Zenon DEF n

\* What a sequence holds is its head and what its tail holds.
LEMMA HeadAndTail ==
  ASSUME NEW S, NEW s \in Seq(S), s # <<>>
  PROVE  Range(s) = {Head(s)} \cup Range(Tail(s))
<1>1. /\ Len(s) \in Nat \ {0} /\ Tail(s) \in Seq(S)
      /\ Len(Tail(s)) = Len(s) - 1
      /\ \A i \in 1 .. Len(Tail(s)) : Tail(s)[i] = s[i + 1]
      /\ Head(s) = s[1]
  BY EmptySeq, HeadTailProperties
<1>2. DOMAIN s = 1 .. Len(s) /\ DOMAIN Tail(s) = 1 .. Len(s) - 1
  BY <1>1, LenProperties
<1>3. ASSUME NEW i \in 2 .. Len(s)
      PROVE  i - 1 \in 1 .. Len(s) - 1 /\ Tail(s)[i - 1] = s[i]
  BY <1>1
<1>4. \A i \in 1 .. Len(s) - 1 : i + 1 \in 1 .. Len(s)
  BY <1>1
<1>5. 1 .. Len(s) = {1} \cup (2 .. Len(s))
  BY <1>1
<1>6. ASSUME NEW x \in Range(s)
      PROVE  x = Head(s) \/ x \in Range(Tail(s))
  <2>1. PICK i \in 1 .. Len(s) : x = s[i]
    BY <1>2 DEF Range
  <2>2. i = 1 \/ i \in 2 .. Len(s)
    BY <1>5
  <2>3. CASE i = 1
    BY <1>1, <2>1, <2>3
  <2>4. CASE i \in 2 .. Len(s)
    BY <1>2, <1>3, <2>1, <2>4, Zenon DEF Range
  <2>5. QED
    BY <2>2, <2>3, <2>4
<1>7. ASSUME NEW x \in Range(Tail(s))
      PROVE  x \in Range(s)
  <2>1. PICK i \in 1 .. Len(s) - 1 : x = Tail(s)[i]
    BY <1>2 DEF Range
  <2>2. x = s[i + 1] /\ i + 1 \in 1 .. Len(s)
    BY <1>1, <1>4, <2>1
  <2>3. QED
    BY <1>2, <2>2 DEF Range
<1>8. Head(s) \in Range(s)
  BY <1>1, <1>2, <1>5, Zenon DEF Range
<1>9. QED
  BY <1>6, <1>7, <1>8

\* Every handler has the parts that its plugin and its type ask for.
LEMMA HandlerParts ==
  ASSUME NEW h, HandlerConfig(h)
  PROVE  /\ h.plugin \in {"none", "nomap", "bad", "nilmap", "nofunc", "map"}
         /\ h.plugin = "map" => h.fromPlugin \in HandlerFunction
         /\ h.type \in registeredTypes => h.config \in HandlerFunction
         /\ h.type = "ReverseProxy" => ProxyConfig(h.config)
         /\ h.type = "Redirect" => h.config \in RedirectHandlerConfig
  BY DEF HandlerConfig, registeredTypes

\* A configuration the program may read is one.
LEMMA ConfigParts ==
  ASSUME NEW c \in Configs
  PROVE  /\ DOMAIN c.handlers \subseteq STRING
         /\ DOMAIN c.http \subseteq STRING
         /\ DOMAIN c.tlsPlugins \subseteq STRING
         /\ IsFiniteSet(DOMAIN c.handlers) /\ "#" \notin DOMAIN c.handlers
         /\ c.read \in {"ok", "bad", "null"}
         /\ \A n \in DOMAIN c.handlers : HandlerConfig(c.handlers[n])
         /\ \A s \in DOMAIN c.http : HTTPServerConfig(c.http[s])
         /\ \A p \in DOMAIN c.tlsPlugins : c.tlsPlugins[p] \in TLSPluginConfig
<1>1. Config(c)
  BY SetupAssumption
<1>2. QED
  BY <1>1 DEF Config

\* What helps to configure a handler still helps when there is more.
LEMMA CanConfigureIsMonotonic ==
  ASSUME NEW h, NEW S, NEW T, S \subseteq T, CanConfigure(h, S)
  PROVE  CanConfigure(h, T)
<1>1. \A c : CanInit(c, S) => CanInit(c, T)
  BY DEF CanInit
<1>2. CanBuild(h, S) => CanBuild(h, T)
  BY <1>1 DEF CanBuild
<1>3. QED
  BY <1>1, <1>2 DEF CanConfigure

\* A handler that has enough of the usable handlers is usable.
LEMMA UsableIsClosed ==
  ASSUME NEW hs, NEW n \in DOMAIN hs, CanConfigure(hs[n], Usable(hs))
  PROVE  n \in Usable(hs)
<1>1. SUFFICES ASSUME NEW S \in SUBSET DOMAIN hs,
                      \A k \in DOMAIN hs :
                        CanConfigure(hs[k], S \cup OfCode(hs)) => k \in S
               PROVE  n \in S
  BY DEF Usable
<1>2. Usable(hs) \subseteq S \cup OfCode(hs)
  BY <1>1 DEF Usable
<1>3. CanConfigure(hs[n], S \cup OfCode(hs))
  BY <1>2, CanConfigureIsMonotonic
<1>4. QED
  BY <1>1, <1>3

\* What fails when nothing is being configured is not usable.
LEMMA FailsIsNotUsable ==
  ASSUME NEW hs, NEW n, Fails(hs, {}, n)
  PROVE  n \notin Usable(hs)
  BY DEF Fails, Closed, Usable

\* A handler that the others cannot help fails with them.
LEMMA FailsWithout ==
  ASSUME NEW hs, NEW P, NEW n \in DOMAIN hs, NEW S \in SUBSET DOMAIN hs,
         Closed(hs, P \cup {n}, S), ~CanConfigure(hs[n], S \cup OfCode(hs))
  PROVE  Fails(hs, P, n)
<1>1. n \notin S \cup OfCode(hs)
  BY DEF Closed, OfCode
<1>2. Closed(hs, P, S)
  BY DEF Closed
<1>3. QED
  BY <1>1, <1>2 DEF Fails

\* A handler that nothing can help fails.
LEMMA FailsAlone ==
  ASSUME NEW hs, NEW P, NEW n \in DOMAIN hs, \A S : ~CanConfigure(hs[n], S)
  PROVE  Fails(hs, P, n)
<1>1. Closed(hs, P \cup {n}, DOMAIN hs \ (P \cup {n}))
  BY DEF Closed
<1>2. QED
  BY <1>1, FailsWithout

\* A handler that insists on one that fails with it, fails.
LEMMA FailsWithNeed ==
  ASSUME NEW hs, NEW P, NEW n \in DOMAIN hs, NEW m,
         Fails(hs, P \cup {n}, m),
         \A S : m \notin S => ~CanConfigure(hs[n], S)
  PROVE  Fails(hs, P, n)
<1>1. PICK S \in SUBSET DOMAIN hs :
        Closed(hs, P \cup {n}, S) /\ m \notin S \cup OfCode(hs)
  BY DEF Fails
<1>2. QED
  BY <1>1, FailsWithout

-----------------------------------------------------------------------------
(***************************************************************************)
(* The calls of handlerByName grow and shrink at the end.                  *)
(***************************************************************************)

\* Who waits for what depends on one call only.
LEMMA WaitsIsLocal ==
  ASSUME NEW c, NEW s, NEW ps, NEW st, NEW tt, NEW i, NEW m,
         i = 0 \/ st[i] = tt[i], Waits(c, s, ps, st, i, m)
  PROVE  Waits(c, s, ps, tt, i, m)
<1>1. CASE i = 0
  BY <1>1 DEF Waits, MayAsk
<1>2. CASE i # 0
  BY <1>2 DEF Waits, MayAsk
<1>3. QED
  BY <1>1, <1>2

\* Without its last call a chain of calls is one, and waits for that call.
LEMMA FrontOfChain ==
  ASSUME NEW c, NEW s, NEW ps, NEW st, Chain(c, s, ps, st), Len(st) # 0
  PROVE  /\ Chain(c, s, ps, Front(st))
         /\ Last(st) \in Calls(c.handlers) /\ CallOK(c.handlers, Last(st))
         /\ Last(st) = st[Len(st)]
         /\ Waits(c, s, ps, Front(st), Len(Front(st)), Last(st).name)
         /\ resolutionPath(st) = resolutionPath(Front(st)) \cup {Last(st).name}
         /\ Last(st).name \notin resolutionPath(Front(st))
<1> DEFINE b == Front(st)
           k == Len(st) - 1
           f == Last(st)
<1>0. /\ st \in Seq(Calls(c.handlers))
      /\ \A i, j \in 1 .. Len(st) : st[i].name = st[j].name => i = j
      /\ \A i \in 1 .. Len(st) : /\ CallOK(c.handlers, st[i])
                                /\ Waits(c, s, ps, st, i - 1, st[i].name)
  BY Zenon DEF Chain
<1>1. /\ Len(st) \in Nat \ {0} /\ b \in Seq(Calls(c.handlers))
      /\ Len(b) = k /\ \A i \in 1 .. k : b[i] = st[i]
      /\ f = st[Len(st)] /\ f \in Calls(c.handlers)
  BY <1>0, FrontProperties
<1>2. /\ k \in Nat /\ k + 1 = Len(st) /\ 1 .. Len(st) = (1 .. k) \cup {k + 1}
      /\ k + 1 \notin 1 .. k
      /\ \A i \in 1 .. k : i - 1 = 0 \/ i - 1 \in 1 .. k
      /\ k + 1 - 1 = k /\ (k = 0 \/ k \in 1 .. k)
  BY <1>1
<1> HIDE DEF b, k, f
<1>3. \A i \in 1 .. k : /\ CallOK(c.handlers, b[i])
                       /\ Waits(c, s, ps, b, i - 1, b[i].name)
  <2> TAKE i \in 1 .. k
  <2>1. CallOK(c.handlers, st[i]) /\ Waits(c, s, ps, st, i - 1, st[i].name)
    BY <1>0, <1>2
  <2>2. b[i] = st[i] /\ (i - 1 = 0 \/ st[i - 1] = b[i - 1])
    BY <1>1, <1>2
  <2>3. Waits(c, s, ps, b, i - 1, st[i].name)
    BY <2>1, <2>2, WaitsIsLocal
  <2>4. QED
    BY <2>1, <2>2, <2>3
<1>4. \A i, j \in 1 .. k : b[i].name = b[j].name => i = j
  <2> TAKE i, j \in 1 .. k
  <2>1. b[i] = st[i] /\ b[j] = st[j] /\ i \in 1 .. Len(st) /\ j \in 1 .. Len(st)
    BY <1>1, <1>2
  <2>2. QED
    BY <1>0, <2>1
<1>5. Chain(c, s, ps, b)
  BY <1>1, <1>3, <1>4, Zenon DEF Chain
<1>6. CallOK(c.handlers, f) /\ Waits(c, s, ps, b, k, f.name)
  <2>1. CallOK(c.handlers, f) /\ Waits(c, s, ps, st, k, f.name)
    BY <1>0, <1>1, <1>2
  <2>2. k = 0 \/ st[k] = b[k]
    BY <1>1, <1>2, Zenon
  <2>3. QED
    BY <2>1, <2>2, WaitsIsLocal
<1>7. DOMAIN b = 1 .. k /\ DOMAIN st = 1 .. Len(st)
  BY <1>0, <1>1, LenProperties
<1>8. resolutionPath(st) = resolutionPath(b) \cup {f.name}
  BY <1>1, <1>2, <1>7 DEF resolutionPath
<1>9. f.name \notin resolutionPath(b)
  <2>1. \A i \in 1 .. k : st[i].name # st[k + 1].name
    BY <1>0, <1>2
  <2>2. QED
    BY <1>1, <1>2, <1>7, <2>1 DEF resolutionPath
<1>10. QED
  BY <1>1, <1>5, <1>6, <1>8, <1>9, Zenon DEF b, f

\* A call at the end of others.
LEMMA AppendCall ==
  ASSUME NEW S, NEW st \in Seq(S), NEW f \in S
  PROVE  /\ Append(st, f) # <<>> /\ Append(st, f)[Len(Append(st, f))] = f
         /\ resolutionPath(Append(st, f)) = resolutionPath(st) \cup {f.name}
<1> DEFINE a == Append(st, f)
           k == Len(st)
<1>1. /\ k \in Nat /\ a \in Seq(S) /\ Len(a) = k + 1
      /\ \A i \in 1 .. k : a[i] = st[i]
      /\ a[k + 1] = f /\ a # <<>>
  BY AppendProperties, LenProperties
<1>2. 1 .. k + 1 = (1 .. k) \cup {k + 1}
  BY <1>1
<1>3. DOMAIN a = 1 .. k + 1 /\ DOMAIN st = 1 .. k
  BY <1>1, LenProperties
<1> HIDE DEF a, k
<1>4. resolutionPath(a) = resolutionPath(st) \cup {f.name}
  BY <1>1, <1>2, <1>3 DEF resolutionPath
<1>5. QED
  BY <1>1, <1>4, Zenon DEF a, k

\* A chain of calls can be called on by a handler that is waited for.
LEMMA PushOnChain ==
  ASSUME NEW c, NEW s, NEW ps, NEW st, NEW f \in Calls(c.handlers),
         Chain(c, s, ps, st), CallOK(c.handlers, f),
         Waits(c, s, ps, st, Len(st), f.name),
         f.name \notin resolutionPath(st)
  PROVE  Chain(c, s, ps, Append(st, f))
<1> DEFINE a == Append(st, f)
           k == Len(st)
<1>0. st \in Seq(Calls(c.handlers))
  BY DEF Chain
<1>1. /\ k \in Nat /\ a \in Seq(Calls(c.handlers)) /\ Len(a) = k + 1
      /\ \A i \in 1 .. k : a[i] = st[i]
      /\ a[k + 1] = f /\ a # <<>>
  BY <1>0, AppendProperties, LenProperties
<1>2. /\ 1 .. k + 1 = (1 .. k) \cup {k + 1} /\ k + 1 # 0
      /\ k + 1 \notin 1 .. k
      /\ \A i \in 1 .. k : i - 1 = 0 \/ i - 1 \in 1 .. k
      /\ k + 1 - 1 = k /\ (k = 0 \/ k \in 1 .. k)
  BY <1>1
<1>7. DOMAIN a = 1 .. k + 1 /\ DOMAIN st = 1 .. k
  BY <1>0, <1>1, LenProperties
<1> HIDE DEF a, k
<1>3. \A i \in 1 .. k : /\ CallOK(c.handlers, a[i])
                       /\ Waits(c, s, ps, a, i - 1, a[i].name)
  <2> TAKE i \in 1 .. k
  <2>1. CallOK(c.handlers, st[i]) /\ Waits(c, s, ps, st, i - 1, st[i].name)
    BY Zenon DEF Chain, k
  <2>2. a[i] = st[i] /\ (i - 1 = 0 \/ st[i - 1] = a[i - 1])
    BY <1>1, <1>2
  <2>3. Waits(c, s, ps, a, i - 1, st[i].name)
    BY <2>1, <2>2, WaitsIsLocal
  <2>4. QED
    BY <2>1, <2>2, <2>3
<1>4. CallOK(c.handlers, a[k + 1]) /\ Waits(c, s, ps, a, k, a[k + 1].name)
  <2>1. k = 0 \/ st[k] = a[k]
    BY <1>1, <1>2, Zenon
  <2>2. Waits(c, s, ps, st, k, f.name)
    BY Zenon DEF k
  <2>3. Waits(c, s, ps, a, k, f.name)
    BY <2>1, <2>2, WaitsIsLocal
  <2>4. QED
    BY <1>1, <2>3
<1>5. \A i \in 1 .. k : st[i].name # f.name
  BY <1>7, Zenon DEF resolutionPath
<1>6. \A i, j \in 1 .. k + 1 : a[i].name = a[j].name => i = j
  <2>1. \A i, j \in 1 .. k : st[i].name = st[j].name => i = j
    BY Zenon DEF Chain, k
  <2>2. QED
    BY <1>1, <1>2, <1>5, <2>1, Zenon
<1>8. Chain(c, s, ps, a)
  <2>1. \A i \in 1 .. k + 1 : /\ CallOK(c.handlers, a[i])
                             /\ Waits(c, s, ps, a, i - 1, a[i].name)
    BY <1>2, <1>3, <1>4
  <2>2. QED
    BY <1>1, <1>6, <2>1, Zenon DEF Chain
<1>9. QED
  BY <1>8, Zenon DEF a

\* A handler that is not configured is not looked for: it fails, with all
\* that are being configured, when no code has it.
LEMMA FailsUnknown ==
  ASSUME NEW hs, NEW P, NEW n, n \notin DOMAIN hs \ P, n \notin OfCode(hs)
  PROVE  Fails(hs, P, n)
<1>1. Closed(hs, P, DOMAIN hs \ P)
  BY DEF Closed
<1>2. QED
  BY <1>1 DEF Fails

\* handlerByName answers what the configuration means, or configures the
\* handler in a call of its own.
LEMMA HandlerByName ==
  ASSUME NEW n, NEW frames, NEW s, NEW ps, conf \in Configs,
         resolutionMap
           \subseteq DOMAIN conf.handlers \cap Usable(conf.handlers),
         Chain(conf, s, ps, frames),
         Waits(conf, s, ps, frames, Len(frames), n),
         resolutionPath(frames) \cap resolutionMap = {},
         handlerByName(n, frames)
  PROVE  Registry(conf, s, ps, stack', ret', resolutionMap)
<1> DEFINE H == DOMAIN conf.handlers
           P == resolutionPath(frames)
<1>0. n \in MayAsk(conf, s, ps, frames, Len(frames))
  BY DEF Waits
<1>1. ASSUME stack' = frames, ret' \in Answers \cup Errors,
             Answered(conf.handlers, frames, ret', n)
      PROVE  Registry(conf, s, ps, stack', ret', resolutionMap)
  <2>1. ret' # "none"
    BY <1>1 DEF Answers, Errors
  <2>2. QED
    BY <1>0, <1>1, <2>1, Zenon DEF Registry
<1>2. CASE n \in resolutionMap
  <2>1. stack' = frames /\ ret' = "handler"
    BY <1>2 DEF handlerByName
  <2>2. Answered(conf.handlers, frames, "handler", n)
    BY <1>2 DEF Answered, Errors
  <2>3. QED
    BY <1>1, <2>1, <2>2 DEF Answers
<1>3. CASE n \notin resolutionMap /\ n \notin H /\ n \in staticHandlers
  <2>1. stack' = frames /\ ret' = "handler"
    BY <1>3 DEF handlerByName
  <2>2. Answered(conf.handlers, frames, "handler", n)
    BY <1>3 DEF Answered, Errors, Usable, OfCode
  <2>3. QED
    BY <1>1, <2>1, <2>2 DEF Answers
<1>4. CASE n \notin resolutionMap /\ n \notin H /\ n \notin staticHandlers
  <2>1. stack' = frames /\ ret' = "unknown"
    BY <1>4 DEF handlerByName
  <2>2. Fails(conf.handlers, P, n)
    BY <1>4, FailsUnknown DEF OfCode
  <2>3. Answered(conf.handlers, frames, "unknown", n)
    BY <2>2 DEF Answered, Answers
  <2>4. QED
    BY <1>1, <2>1, <2>3 DEF Errors
<1>5. CASE n \notin resolutionMap /\ n \in H /\ n \in P
  <2>1. stack' = frames /\ ret' = "cycle"
    BY <1>5 DEF handlerByName
  <2>2. Fails(conf.handlers, P, n)
    BY <1>5, FailsUnknown DEF OfCode
  <2>3. Answered(conf.handlers, frames, "cycle", n)
    BY <2>2 DEF Answered, Answers
  <2>4. QED
    BY <1>1, <2>1, <2>3 DEF Errors
<1>6. CASE n \notin resolutionMap /\ n \in H /\ n \notin P
  <2> DEFINE call == [name |-> n, stage |-> "enter", todo |-> <<>>, cf |-> {}]
             a == Append(frames, call)
  <2>1. stack' = a /\ ret' = "none"
    BY <1>6 DEF handlerByName
  <2>2. call \in Calls(conf.handlers) /\ CallOK(conf.handlers, call)
    BY <1>6 DEF Calls, CallOK, IsRunning
  <2>3. /\ Chain(conf, s, ps, a) /\ a # <<>> /\ a[Len(a)] = call
        /\ resolutionPath(a) = P \cup {n}
    <3>1. call.name = n
      OBVIOUS
    <3> HIDE DEF call
    <3>2. QED
      <4>1. Chain(conf, s, ps, a)
        BY <1>6, <2>2, <3>1, PushOnChain, Zenon
      <4>2. frames \in Seq(Calls(conf.handlers))
        BY Zenon DEF Chain
      <4>3. QED
        BY <2>2, <3>1, <4>1, <4>2, AppendCall
  <2>4. Settled(conf, s, ps, a)
    BY <2>3 DEF Settled, Found, IsRunning
  <2>5. resolutionPath(a) \cap resolutionMap = {}
    BY <1>6, <2>3
  <2>6. QED
    BY <2>1, <2>3, <2>4, <2>5 DEF Registry
<1>7. QED
  BY <1>2, <1>3, <1>4, <1>5, <1>6

\* When the last call of a chain returns, its caller has the answer.
LEMMA LeaveChain ==
  ASSUME NEW c, NEW s, NEW ps, NEW st, NEW known, NEW more,
         NEW answer \in Answers \cup Errors,
         Chain(c, s, ps, st), Len(st) # 0,
         resolutionPath(st) \cap known = {},
         known \subseteq DOMAIN c.handlers \cap Usable(c.handlers),
         Answered(c.handlers, Front(st), answer, Last(st).name),
         more = known \/ /\ answer = "handler"
                         /\ more = known \cup {Last(st).name}
  PROVE  Registry(c, s, ps, Front(st), answer, more)
<1> DEFINE b == Front(st)
           f == Last(st)
<1>1. /\ Chain(c, s, ps, b) /\ f \in Calls(c.handlers)
      /\ Waits(c, s, ps, b, Len(b), f.name)
      /\ resolutionPath(st) = resolutionPath(b) \cup {f.name}
      /\ f.name \notin resolutionPath(b)
  BY FrontOfChain
<1>2. f.name \in DOMAIN c.handlers
  BY <1>1 DEF Calls
<1>3. answer = "handler" => f.name \in Usable(c.handlers)
  BY DEF Answered, Answers
<1>4. /\ more \subseteq DOMAIN c.handlers \cap Usable(c.handlers)
      /\ resolutionPath(b) \cap more = {}
  BY <1>1, <1>2, <1>3
<1>5. answer # "none" /\ answer \in {"none"} \cup Answers \cup Errors
  BY DEF Answers, Errors
<1>6. f.name \in MayAsk(c, s, ps, b, Len(b))
  BY <1>1 DEF Waits
<1>7. QED
  BY <1>1, <1>4, <1>5, <1>6, Zenon DEF Registry

\* The last call of a chain may change, if its handler stays.
LEMMA ChangeLast ==
  ASSUME NEW c, NEW s, NEW ps, NEW st, NEW f \in Calls(c.handlers),
         Chain(c, s, ps, st), Len(st) # 0,
         f.name = Last(st).name, CallOK(c.handlers, f)
  PROVE  /\ Chain(c, s, ps, Append(Front(st), f))
         /\ Append(Front(st), f) # <<>>
         /\ Len(Append(Front(st), f)) # 0
         /\ Append(Front(st), f)[Len(Append(Front(st), f))] = f
         /\ resolutionPath(Append(Front(st), f)) = resolutionPath(st)
<1> DEFINE b == Front(st)
<1>1. /\ Chain(c, s, ps, b)
      /\ Waits(c, s, ps, b, Len(b), Last(st).name)
      /\ resolutionPath(st) = resolutionPath(b) \cup {Last(st).name}
      /\ Last(st).name \notin resolutionPath(b)
  BY FrontOfChain, Zenon
<1>2. /\ Waits(c, s, ps, b, Len(b), f.name)
      /\ resolutionPath(st) = resolutionPath(b) \cup {f.name}
      /\ f.name \notin resolutionPath(b)
  BY <1>1, Zenon
<1> HIDE DEF b
<1>3. Chain(c, s, ps, Append(b, f))
  BY <1>1, <1>2, PushOnChain, Zenon
<1>4. b \in Seq(Calls(c.handlers))
  BY <1>1, Zenon DEF Chain
<1>5. /\ Append(b, f) # <<>> /\ Append(b, f)[Len(Append(b, f))] = f
      /\ resolutionPath(Append(b, f)) = resolutionPath(b) \cup {f.name}
  BY <1>4, AppendCall
<1>6. Len(Append(b, f)) # 0
  BY <1>4, AppendProperties, LenProperties
<1>7. QED
  BY <1>2, <1>3, <1>5, <1>6, Zenon DEF b

\* The last call of a chain goes on to its next stage.
LEMMA NextStage ==
  ASSUME NEW c, NEW s, NEW ps, NEW st, NEW known, NEW f \in Calls(c.handlers),
         Chain(c, s, ps, st), Len(st) # 0,
         resolutionPath(st) \cap known = {},
         known \subseteq DOMAIN c.handlers \cap Usable(c.handlers),
         f.name = Last(st).name, CallOK(c.handlers, f),
         Found(c.handlers, f, {})
  PROVE  Registry(c, s, ps, Append(Front(st), f), "none", known)
<1> DEFINE a == Append(Front(st), f)
<1>1. /\ Chain(c, s, ps, a) /\ a # <<>> /\ a[Len(a)] = f
      /\ resolutionPath(a) = resolutionPath(st)
  <2> HIDE DEF a
  <2>1. a = Append(Front(st), f)
    BY Zenon DEF a
  <2>2. QED
    BY <2>1, ChangeLast
<1> HIDE DEF a
<1>2. Settled(c, s, ps, a)
  BY <1>1, Zenon DEF Settled
<1>3. QED
  BY <1>1, <1>2, Zenon DEF Registry, a

-----------------------------------------------------------------------------
(***************************************************************************)
(* The steps of the registry.                                              *)
(***************************************************************************)

\* A function that runs is one of the configuration or of a plugin.
LEMMA RunsFunction ==
  ASSUME NEW c \in Configs, NEW f \in Calls(c.handlers),
         CallOK(c.handlers, f), IsRunning(f)
  PROVE  Runs(c.handlers, f) \in HandlerFunction
<1>1. HandlerConfig(c.handlers[f.name])
  BY ConfigParts DEF Calls
<1>2. QED
  BY <1>1, HandlerParts DEF CallOK, IsRunning, Runs

\* To configure a handler whose function runs, the function must succeed.
LEMMA FunctionIsNeeded ==
  ASSUME NEW hs, NEW f, NEW S, CallOK(hs, f), IsRunning(f),
         CanConfigure(hs[f.name], S)
  PROVE  CanInit(Runs(hs, f), S)
<1>1. CASE f.stage = "plugin"
  BY <1>1 DEF CallOK, CanConfigure, Runs
<1>2. CASE f.stage = "hinit"
  <2>1. /\ Runs(hs, f) = hs[f.name].config /\ ReachesType(hs[f.name])
        /\ hs[f.name].type \in registeredTypes
    BY <1>2 DEF CallOK, Runs
  <2>2. CanBuild(hs[f.name], S)
    BY <2>1 DEF CanConfigure, ReachesType
  <2>3. QED
    BY <2>1, <2>2 DEF CanBuild, registeredTypes
<1>3. QED
  BY <1>1, <1>2 DEF IsRunning

\* A handler that is left to its type needs that type, and no more.
LEMMA TypeIsNeeded ==
  ASSUME NEW hs, NEW f, CallOK(hs, f), f.stage \in {"builtin", "hinit"}
  PROVE  /\ \A S : CanConfigure(hs[f.name], S) => CanBuild(hs[f.name], S)
         /\ CanBuild(hs[f.name], Usable(hs)) =>
              CanConfigure(hs[f.name], Usable(hs))
  BY DEF CallOK, CanConfigure, ReachesType

\* What is known of the last call.
LEMMA TopCall ==
  ASSUME PlaceInv, RegistryInv, phase = "lookup", stack # <<>>
  PROVE  /\ Chain(conf, srv, paths, stack) /\ Len(stack) # 0
         /\ resolutionPath(stack) \cap resolutionMap = {}
         /\ Top \in Calls(conf.handlers) /\ CallOK(conf.handlers, Top)
         /\ Top = stack[Len(stack)]
         /\ Top.name \in DOMAIN conf.handlers /\ HandlerConfig(Handler)
         /\ Top.name \notin resolutionMap
         /\ resolutionPath(stack) = resolutionPath(Front(stack)) \cup {Top.name}
         /\ IsRunning(Top) => Hinit \in HandlerFunction
         /\ Hinit = Runs(conf.handlers, Top)
         /\ ret \in {"none"} \cup Answers \cup Errors
         /\ ret = "none" => Found(conf.handlers, Top, {})
         /\ ret # "none" =>
              /\ IsRunning(Top)
              /\ \E m \in Range(Hinit.needs) :
                   /\ Found(conf.handlers, Top, {m})
                   /\ Answered(conf.handlers, stack, ret, m)
<1>1. Registry(conf, srv, paths, stack, ret, resolutionMap) /\ conf \in Configs
  BY DEF PlaceInv, RegistryInv
<1>2. /\ Chain(conf, srv, paths, stack)
      /\ resolutionPath(stack) \cap resolutionMap = {}
      /\ ret \in {"none"} \cup Answers \cup Errors
  BY <1>1 DEF Registry
<1>3. stack \in Seq(Calls(conf.handlers))
  BY <1>2 DEF Chain
<1>4. Len(stack) # 0
  BY <1>3, EmptySeq
<1>5. /\ Top \in Calls(conf.handlers) /\ CallOK(conf.handlers, Top)
      /\ Top = stack[Len(stack)]
      /\ resolutionPath(stack) = resolutionPath(Front(stack)) \cup {Top.name}
  BY <1>2, <1>4, FrontOfChain, Zenon DEF Top
<1>6. Top.name \in DOMAIN conf.handlers
  BY <1>5 DEF Calls
<1>7. HandlerConfig(Handler)
  BY <1>1, <1>6, ConfigParts DEF Handler
<1>8. Hinit = Runs(conf.handlers, Top)
  BY Zenon DEF Hinit, Runs, Handler
<1>9. IsRunning(Top) => Hinit \in HandlerFunction
  BY <1>1, <1>5, <1>8, RunsFunction
<1>10. ret = "none" => Found(conf.handlers, Top, {})
  BY <1>1, <1>5, Zenon DEF Registry, Settled
<1>11. ASSUME ret # "none"
       PROVE  /\ IsRunning(Top)
              /\ \E m \in Range(Hinit.needs) :
                   /\ Found(conf.handlers, Top, {m})
                   /\ Answered(conf.handlers, stack, ret, m)
  <2>1. PICK m \in MayAsk(conf, srv, paths, stack, Len(stack)) :
          /\ Waits(conf, srv, paths, stack, Len(stack), m)
          /\ Answered(conf.handlers, stack, ret, m)
    BY <1>1, <1>11, Zenon DEF Registry
  <2>2. /\ m \in IF IsRunning(Top)
                 THEN Range(Runs(conf.handlers, Top).needs) ELSE {}
        /\ Found(conf.handlers, Top, {m})
    BY <1>4, <1>5, <2>1, Zenon DEF Waits, MayAsk
  <2>3. QED
    BY <1>8, <2>1, <2>2, Zenon
<1>12. Top.name \notin resolutionMap
  BY <1>2, <1>5
<1>13. QED
  BY <1>2, <1>4, <1>5, <1>6, <1>7, <1>8, <1>9, <1>10, <1>11, <1>12, Zenon

\* The last call returns.
LEMMA LeaveStep ==
  ASSUME PlaceInv, RegistryInv, phase = "lookup", stack # <<>>,
         NEW answer \in Answers \cup Errors, Leave(answer),
         UNCHANGED <<conf, srv, paths>>,
         answer \in Answers => Top.name \in Usable(conf.handlers),
         answer \in Errors =>
           Fails(conf.handlers, resolutionPath(Front(stack)), Top.name),
         \/ UNCHANGED resolutionMap
         \/ /\ answer = "handler"
            /\ resolutionMap' = resolutionMap \cup {Top.name}
  PROVE  RegistryInv'
<1>1. /\ Chain(conf, srv, paths, stack) /\ Len(stack) # 0
      /\ resolutionPath(stack) \cap resolutionMap = {}
      /\ resolutionMap
           \subseteq DOMAIN conf.handlers \cap Usable(conf.handlers)
  BY TopCall DEF RegistryInv
<1>2. Answered(conf.handlers, Front(stack), answer, Last(stack).name)
  BY DEF Answered, Top
<1>3. Registry(conf, srv, paths, Front(stack), answer, resolutionMap')
  <2>1. \/ resolutionMap' = resolutionMap
        \/ /\ answer = "handler"
           /\ resolutionMap' = resolutionMap \cup {Last(stack).name}
    BY Zenon DEF Top
  <2>2. QED
    BY <1>1, <1>2, <2>1, LeaveChain
<1>4. Registry(conf, srv, paths, stack, ret, resolutionMap)'
  BY <1>3, Zenon DEF Leave, Below
<1>5. QED
  BY <1>4, Zenon DEF RegistryInv, Registry

\* The last call goes on.
LEMMA GoOnStep ==
  ASSUME PlaceInv, RegistryInv, phase = "lookup", stack # <<>>,
         ret = "none", NEW f \in Calls(conf.handlers), SetTop(f),
         UNCHANGED <<conf, srv, paths, ret, resolutionMap>>,
         f.name = Top.name, CallOK(conf.handlers, f),
         Found(conf.handlers, f, {})
  PROVE  RegistryInv'
<1>1. /\ Chain(conf, srv, paths, stack) /\ Len(stack) # 0
      /\ resolutionPath(stack) \cap resolutionMap = {}
      /\ resolutionMap
           \subseteq DOMAIN conf.handlers \cap Usable(conf.handlers)
  BY TopCall DEF RegistryInv
<1>2. f.name = Last(stack).name
  BY DEF Top
<1>3. Registry(conf, srv, paths, Append(Front(stack), f), "none", resolutionMap)
  BY <1>1, <1>2, NextStage
<1>4. Registry(conf, srv, paths, stack, ret, resolutionMap)'
  BY <1>3, Zenon DEF SetTop, Below
<1>5. QED
  BY <1>4, Zenon DEF RegistryInv, Registry

\* Outside of the lookups the registry is left alone.
LEMMA NoLookupStep ==
  ASSUME RegistryInv, UNCHANGED <<conf, resolutionMap>>, phase' # "lookup"
  PROVE  RegistryInv'
  BY DEF RegistryInv

\* RegistryInv, action by action: a server's first lookup, ...
LEMMA NextServerRegistry ==
  ASSUME PlaceInv, RegistryInv, NextServer
  PROVE  RegistryInv'
<1>1. CASE phase' # "lookup"
  BY <1>1, NoLookupStep DEF NextServer, registryVars, loadVars
<1>2. CASE phase' = "lookup"
  <2>1. /\ stack' = <<>> /\ ret' = "none" /\ conf' = conf
        /\ resolutionMap' = resolutionMap
        /\ paths' = DOMAIN conf.http[srv'].paths
    BY DEF NextServer, PlaceInv, registryVars, loadVars
  <2>2. Len(<<>>) = 0 /\ <<>> \in Seq(Calls(conf.handlers))
    BY EmptySeq
  <2>3. Chain(conf, srv', paths', <<>>)
    BY <2>2 DEF Chain
  <2>4. Settled(conf, srv', paths', <<>>)
    BY <2>1 DEF Settled, Looked
  <2>5. resolutionPath(<<>>) \cap resolutionMap = {}
    BY <2>2 DEF resolutionPath
  <2>6. Registry(conf, srv', paths', <<>>, "none", resolutionMap)
    BY <2>3, <2>4, <2>5 DEF Registry, RegistryInv
  <2>7. QED
    BY <2>1, <2>6, Zenon DEF RegistryInv
<1>3. QED
  BY <1>1, <1>2

\* ... the lookup for one of its paths, ...
LEMMA HandlerForSpecRegistry ==
  ASSUME PlaceInv, RegistryInv, HandlerForSpec
  PROVE  RegistryInv'
<1>1. PICK p \in paths : LET n == conf.http[srv].paths[p] IN
        /\ paths' = paths \ {p}
        /\ IF n = "#" THEN Finish("error") /\ UNCHANGED <<stack, ret>>
           ELSE handlerByName(n, <<>>) /\ UNCHANGED <<phase, result>>
  BY DEF HandlerForSpec
<1> DEFINE n == conf.http[srv].paths[p]
<1>2. /\ phase = "lookup" /\ stack = <<>> /\ ret = "none" /\ conf \in Configs
      /\ UNCHANGED <<conf, srv, resolutionMap>>
      /\ paths \subseteq DOMAIN conf.http[srv].paths
  BY DEF HandlerForSpec, AtServer, loadVars, PlaceInv
<1>3. CASE n = "#"
  <2>1. phase' # "lookup"
    BY <1>1, <1>3 DEF Finish
  <2>2. QED
    BY <1>2, <2>1, NoLookupStep
<1>4. CASE n # "#"
  <2>1. /\ Registry(conf, srv, paths, <<>>, "none", resolutionMap)
        /\ resolutionMap
             \subseteq DOMAIN conf.handlers \cap Usable(conf.handlers)
    BY <1>2 DEF RegistryInv
  <2>2. Len(<<>>) = 0 /\ <<>> \in Seq(Calls(conf.handlers))
    BY EmptySeq
  <2>3. Chain(conf, srv, paths', <<>>)
    BY <2>2 DEF Chain
  <2>4. resolutionPath(<<>>) \cap resolutionMap = {}
    BY <2>1 DEF Registry
  <2>5. Looked(conf, srv, paths) \subseteq Usable(conf.handlers)
    BY <2>1 DEF Registry, Settled
  <2>6. Looked(conf, srv, paths') = Looked(conf, srv, paths) \cup {n}
    BY <1>1, <1>2 DEF Looked
  <2>7. Waits(conf, srv, paths', <<>>, 0, n)
    BY <2>5, <2>6 DEF Waits, MayAsk
  <2>8. handlerByName(n, <<>>)
    BY <1>1, <1>4
  <2> HIDE DEF n
  <2>9. Registry(conf, srv, paths', stack', ret', resolutionMap)
    BY <1>2, <2>1, <2>2, <2>3, <2>4, <2>7, <2>8, HandlerByName
  <2>10. QED
    BY <1>2, <2>1, <2>9, Zenon DEF RegistryInv
<1>5. QED
  BY <1>3, <1>4

\* ... what is made of the handler that was found, ...
LEMMA UseHandlerRegistry ==
  ASSUME PlaceInv, RegistryInv, UseHandler
  PROVE  RegistryInv'
<1>1. /\ phase = "lookup" /\ stack = <<>> /\ ret # "none" /\ ret' = "none"
      /\ UNCHANGED <<conf, srv, paths, stack, resolutionMap>>
  BY DEF UseHandler, AtServer, loadVars, serverVars
<1>2. CASE ret \in Errors
  <2>1. phase' # "lookup"
    BY <1>2, Zenon DEF UseHandler, Finish
  <2>2. QED
    BY <1>1, <2>1, NoLookupStep
<1>3. CASE ret \notin Errors
  <2>1. Registry(conf, srv, paths, <<>>, ret, resolutionMap)
    BY <1>1 DEF RegistryInv
  <2>2. ret \in Answers
    BY <1>1, <1>3, <2>1 DEF Registry
  <2>3. Len(<<>>) = 0
    BY EmptySeq
  <2>4. PICK m \in MayAsk(conf, srv, paths, <<>>, 0) :
          /\ Waits(conf, srv, paths, <<>>, 0, m)
          /\ Answered(conf.handlers, <<>>, ret, m)
    BY <1>1, <2>1, <2>3 DEF Registry
  <2>5. Looked(conf, srv, paths) \subseteq Usable(conf.handlers)
    BY <2>2, <2>4 DEF Waits, Answered
  <2>6. Registry(conf, srv, paths, <<>>, "none", resolutionMap)
    BY <2>1, <2>5 DEF Registry, Settled
  <2>7. QED
    BY <1>1, <2>6, Zenon DEF RegistryInv, Registry
<1>4. QED
  BY <1>2, <1>3

\* ... a plugin that is asked first, ...
LEMMA handlerFromPluginRegistry ==
  ASSUME PlaceInv, RegistryInv, handlerFromPlugin
  PROVE  RegistryInv'
<1>1. /\ phase = "lookup" /\ stack # <<>> /\ Top.stage = "enter"
      /\ UNCHANGED <<conf, srv, paths, resolutionMap>>
  BY DEF handlerFromPlugin, InFrame, loadVars, serverVars
<1>2. /\ Top \in Calls(conf.handlers) /\ CallOK(conf.handlers, Top)
      /\ Top.name \in DOMAIN conf.handlers /\ HandlerConfig(Handler)
  BY <1>1, TopCall
<1>3. ret = "none"
  BY <1>1, TopCall DEF IsRunning
<1>4. CASE Handler.plugin \in {"none", "nomap"}
  <2> DEFINE f == [Top EXCEPT !.stage = "builtin"]
  <2>1. SetTop(f) /\ UNCHANGED ret
    BY <1>4 DEF handlerFromPlugin
  <2>2. f \in Calls(conf.handlers) /\ f.name = Top.name /\ f.stage = "builtin"
    BY <1>2 DEF Calls
  <2> HIDE DEF f
  <2>3. CallOK(conf.handlers, f) /\ Found(conf.handlers, f, {})
    BY <1>4, <2>2 DEF CallOK, Found, IsRunning, ReachesType, Handler
  <2>4. QED
    BY <1>1, <1>3, <2>1, <2>2, <2>3, GoOnStep
<1>5. CASE Handler.plugin = "bad"
  <2>1. Leave("failed")
    BY <1>5 DEF handlerFromPlugin
  <2>2. \A S : ~CanConfigure(conf.handlers[Top.name], S)
    BY <1>5 DEF CanConfigure, Handler
  <2>3. Fails(conf.handlers, resolutionPath(Front(stack)), Top.name)
    BY <1>2, <2>2, FailsAlone
  <2>4. QED
    BY <1>1, <2>1, <2>3, LeaveStep DEF Answers, Errors
<1>6. CASE Handler.plugin \in {"nilmap", "nofunc"}
  <2>1. phase' # "lookup"
    BY <1>6 DEF handlerFromPlugin, Finish
  <2>2. QED
    BY <1>1, <2>1, NoLookupStep
<1>7. CASE Handler.plugin = "map"
  <2> DEFINE f == [Top EXCEPT !.stage = "plugin",
                              !.todo = Handler.fromPlugin.needs]
  <2>1. SetTop(f) /\ UNCHANGED ret
    BY <1>7 DEF handlerFromPlugin
  <2>2. Handler.fromPlugin \in HandlerFunction
    BY <1>2, <1>7, HandlerParts
  <2>3. Handler.fromPlugin.needs \in Seq(STRING)
    BY <2>2 DEF HandlerFunction
  <2>4. /\ f \in Calls(conf.handlers) /\ f.name = Top.name
        /\ f.stage = "plugin" /\ f.todo = Handler.fromPlugin.needs
    BY <1>2, <2>3 DEF Calls
  <2> HIDE DEF f
  <2>6. Runs(conf.handlers, f) = Handler.fromPlugin
    BY <2>4 DEF Runs, Handler
  <2>5. CallOK(conf.handlers, f)
    BY <1>7, <2>4, <2>6 DEF CallOK, Handler
  <2>7. Found(conf.handlers, f, {})
    BY <2>4, <2>6 DEF Found
  <2>8. QED
    BY <1>1, <1>3, <2>1, <2>4, <2>5, <2>7, GoOnStep
<1>8. QED
  BY <1>2, <1>4, <1>5, <1>6, <1>7, HandlerParts

\* ... a lookup inside a handler's function, ...
LEMMA LookupHandlerRegistry ==
  ASSUME PlaceInv, RegistryInv, LookupHandler
  PROVE  RegistryInv'
<1> DEFINE n == Head(Top.todo)
           f == [Top EXCEPT !.todo = Tail(@)]
           a == Append(Below, f)
<1>1. /\ phase = "lookup" /\ stack # <<>> /\ IsRunning(Top)
      /\ ret = "none" /\ Top.todo # <<>>
      /\ UNCHANGED <<conf, srv, paths, resolutionMap>>
      /\ handlerByName(n, a)
  BY DEF LookupHandler, HinitRuns, InFrame, IsRunning, loadVars, serverVars
<1>2. /\ Top \in Calls(conf.handlers) /\ CallOK(conf.handlers, Top)
      /\ Chain(conf, srv, paths, stack) /\ Len(stack) # 0
      /\ resolutionPath(stack) \cap resolutionMap = {}
      /\ Found(conf.handlers, Top, {})
  BY <1>1, TopCall
<1>3. Top.todo \in Seq(STRING)
  BY <1>2 DEF Calls
<1>4. Tail(Top.todo) \in Seq(STRING)
  BY <1>1, <1>3, HeadTailProperties
<1>5. Range(Top.todo) = {n} \cup Range(Tail(Top.todo))
  BY <1>1, <1>3, HeadAndTail
<1>6. /\ f \in Calls(conf.handlers) /\ f.name = Top.name
      /\ f.stage = Top.stage /\ f.todo = Tail(Top.todo)
  BY <1>2, <1>4 DEF Calls
<1> HIDE DEF f, n
<1>7. /\ IsRunning(f) /\ Runs(conf.handlers, f) = Runs(conf.handlers, Top)
  BY <1>1, <1>6 DEF IsRunning, Runs
<1>8. CallOK(conf.handlers, f)
  BY <1>2, <1>5, <1>6, <1>7, <1>1 DEF CallOK
<1>9. Found(conf.handlers, f, {n}) /\ n \in Range(Runs(conf.handlers, f).needs)
  BY <1>1, <1>2, <1>5, <1>6, <1>7 DEF Found, CallOK
<1>10. /\ Chain(conf, srv, paths, a) /\ Len(a) # 0 /\ a[Len(a)] = f
       /\ resolutionPath(a) = resolutionPath(stack)
  <2>1. f.name = Last(stack).name
    BY <1>6 DEF Top
  <2>2. QED
    BY <1>2, <1>6, <1>8, <2>1, ChangeLast DEF Below
<1> HIDE DEF a
<1>11. Waits(conf, srv, paths, a, Len(a), n)
  BY <1>7, <1>9, <1>10, Zenon DEF Waits, MayAsk
<1>12. /\ conf \in Configs
       /\ resolutionMap
            \subseteq DOMAIN conf.handlers \cap Usable(conf.handlers)
  BY DEF PlaceInv, RegistryInv
<1>13. Registry(conf, srv, paths, stack', ret', resolutionMap)
  BY <1>1, <1>2, <1>10, <1>11, <1>12, HandlerByName
<1>14. QED
  BY <1>1, <1>12, <1>13, Zenon DEF RegistryInv

\* ... the answer to it, which the function may swallow, ...
LEMMA HandlerFoundRegistry ==
  ASSUME PlaceInv, RegistryInv, HandlerFound
  PROVE  RegistryInv'
<1>1. /\ phase = "lookup" /\ stack # <<>> /\ ret # "none"
      /\ UNCHANGED <<conf, srv, paths, resolutionMap>>
  BY DEF HandlerFound, HinitRuns, InFrame, loadVars, serverVars
<1>2. /\ Chain(conf, srv, paths, stack)
      /\ Top \in Calls(conf.handlers) /\ CallOK(conf.handlers, Top)
      /\ Top.name \in DOMAIN conf.handlers /\ Top = stack[Len(stack)]
      /\ IsRunning(Top) /\ Hinit \in HandlerFunction
      /\ Hinit = Runs(conf.handlers, Top)
      /\ ret \in {"none"} \cup Answers \cup Errors
      /\ resolutionPath(stack) \cap resolutionMap = {}
      /\ resolutionPath(stack) = resolutionPath(Front(stack)) \cup {Top.name}
  BY <1>1, TopCall
<1>3. PICK m \in Range(Hinit.needs) :
        /\ Found(conf.handlers, Top, {m})
        /\ Answered(conf.handlers, stack, ret, m)
  BY <1>1, TopCall
<1>4. CASE ret \in Errors /\ Hinit.strict
  <2>1. Leave(ret)
    BY <1>4 DEF HandlerFound
  <2>2. Fails(conf.handlers, resolutionPath(Front(stack)) \cup {Top.name}, m)
    BY <1>2, <1>3, <1>4 DEF Answered
  <2>3. \A S : m \notin S => ~CanInit(Hinit, S)
    BY <1>3, <1>4 DEF CanInit
  <2>4. \A S : m \notin S => ~CanConfigure(Handler, S)
    BY <1>2, <2>3, FunctionIsNeeded, Zenon DEF Handler
  <2>5. Fails(conf.handlers, resolutionPath(Front(stack)), Top.name)
    BY <1>2, <2>2, <2>4, FailsWithNeed DEF Handler
  <2>6. ret \notin Answers
    BY <1>4 DEF Answers, Errors
  <2>7. QED
    BY <1>1, <1>4, <2>1, <2>5, <2>6, LeaveStep
<1>5. CASE ~(ret \in Errors /\ Hinit.strict)
  <2>1. ret' = "none" /\ UNCHANGED stack
    BY <1>5, Zenon DEF HandlerFound
  <2>2. ret \in Answers => m \in Usable(conf.handlers)
    BY <1>3 DEF Answered
  <2>3. Found(conf.handlers, Top, {})
    BY <1>1, <1>2, <1>3, <1>5, <2>2 DEF Found
  <2>4. Settled(conf, srv, paths, stack)
    BY <1>1, <1>2, <2>3, Zenon DEF Settled
  <2>5. resolutionMap \subseteq DOMAIN conf.handlers \cap Usable(conf.handlers)
    BY DEF RegistryInv
  <2>6. Registry(conf, srv, paths, stack, "none", resolutionMap)
    BY <1>2, <2>4, <2>5, Zenon DEF Registry
  <2>7. QED
    BY <1>1, <2>1, <2>5, <2>6, Zenon DEF RegistryInv
<1>6. QED
  BY <1>4, <1>5

\* What is acquired is a resource.
LEMMA ResourceIsResource ==
  ASSUME gen \in Nat, IsFiniteSet(held), NEW by \in STRING,
         NEW what \in {"module", "plugin", "hinit", "log", "tls"}
  PROVE  Resource(by, what) \in Resources
<1> DEFINE same == {r \in held : r.gen = gen /\ r.by = by /\ r.what = what}
<1>1. same \subseteq held
  OBVIOUS
<1>2. IsFiniteSet(same)
  BY <1>1, FS_Subset
<1>3. Cardinality(same) \in Nat
  BY <1>2, FS_CardinalityType
<1>4. Resource(by, what) =
        [gen |-> gen, by |-> by, what |-> what, n |-> Cardinality(same)]
  BY DEF Resource
<1> HIDE DEF same
<1>5. QED
  BY <1>3, <1>4 DEF Resources

\* ... the return of such a function, ...
LEMMA HinitReturnsRegistry ==
  ASSUME PlaceInv, RegistryInv, HeldInv, HinitReturns
  PROVE  RegistryInv'
<1>1. /\ phase = "lookup" /\ stack # <<>> /\ IsRunning(Top)
      /\ ret = "none" /\ Top.todo = <<>>
      /\ UNCHANGED <<conf, srv, paths>>
  BY DEF HinitReturns, HinitRuns, InFrame, IsRunning, loadVars, serverVars
<1>2. /\ Top \in Calls(conf.handlers) /\ CallOK(conf.handlers, Top)
      /\ Top.name \in DOMAIN conf.handlers
      /\ Hinit \in HandlerFunction /\ Hinit = Runs(conf.handlers, Top)
      /\ Found(conf.handlers, Top, {})
      /\ conf \in Configs
  BY <1>1, TopCall DEF PlaceInv
<1>3. CASE Hinit.out = "failed"
  <2>1. Leave("failed") /\ UNCHANGED resolutionMap
    BY <1>3 DEF HinitReturns
  <2>2. \A S : ~CanConfigure(conf.handlers[Top.name], S)
    BY <1>1, <1>2, <1>3, FunctionIsNeeded DEF CanInit
  <2>3. Fails(conf.handlers, resolutionPath(Front(stack)), Top.name)
    BY <1>2, <2>2, FailsAlone
  <2>4. QED
    BY <1>1, <2>1, <2>3, LeaveStep DEF Answers, Errors
<1>4. ASSUME Hinit.out # "failed" PROVE CanInit(Hinit, Usable(conf.handlers))
  <2>1. Range(Top.todo) = {}
    BY <1>1, EmptySeq DEF Range
  <2>2. QED
    BY <1>1, <1>2, <1>4, <2>1 DEF Found, CanInit
<1>5. CASE Hinit.out = "nil" /\ Top.stage = "plugin"
  <2> DEFINE res == IF Hinit.cleanup THEN {Resource(Top.name, Top.stage)}
                    ELSE {}
             f == [Top EXCEPT !.stage = "builtin", !.cf = res]
  <2>1. SetTop(f) /\ UNCHANGED <<ret, resolutionMap>>
    BY <1>5 DEF HinitReturns
  <2>2. res \subseteq Resources
    <3>1. Top.name \in STRING
      BY <1>2, ConfigParts
    <3>2. QED
      BY <1>5, <3>1, ResourceIsResource DEF PlaceInv, HeldInv
  <2> HIDE DEF res
  <2>3. f \in Calls(conf.handlers) /\ f.name = Top.name /\ f.stage = "builtin"
    BY <1>2, <2>2 DEF Calls
  <2> HIDE DEF f
  <2>4. Hinit = Handler.fromPlugin /\ Handler.plugin = "map"
    BY <1>2, <1>5 DEF Hinit, CallOK, Handler
  <2>5. CallOK(conf.handlers, f)
    BY <1>4, <1>5, <2>3, <2>4 DEF CallOK, ReachesType, Handler, IsRunning
  <2>6. Found(conf.handlers, f, {})
    BY <2>3 DEF Found, IsRunning
  <2>7. QED
    BY <1>1, <2>1, <2>3, <2>5, <2>6, GoOnStep
<1>6. CASE Hinit.out # "failed" /\ ~(Hinit.out = "nil" /\ Top.stage = "plugin")
  <2>1. /\ Leave(Hinit.out)
        /\ resolutionMap' = IF Hinit.out = "handler"
                            THEN resolutionMap \cup {Top.name}
                            ELSE resolutionMap
    BY <1>6 DEF HinitReturns, Configured
  <2>2. Hinit.out \in Answers
    BY <1>2, <1>6 DEF HandlerFunction, Answers
  <2>3. CanConfigure(conf.handlers[Top.name], Usable(conf.handlers))
    <3>1. CASE Top.stage = "plugin"
      <4>1. Hinit = Handler.fromPlugin /\ Handler.plugin = "map"
        BY <1>2, <3>1 DEF Hinit, CallOK, Handler
      <4>2. QED
        BY <1>4, <1>6, <3>1, <4>1 DEF CanConfigure, Handler
    <3>2. CASE Top.stage = "hinit"
      <4>1. Hinit = Handler.config /\ Handler.type \in registeredTypes
        BY <1>2, <3>2 DEF Hinit, CallOK, Handler
      <4>2. CanBuild(Handler, Usable(conf.handlers))
        BY <1>4, <1>6, <4>1 DEF CanBuild
      <4>3. QED
        BY <1>2, <3>2, <4>2, TypeIsNeeded DEF Handler
    <3>3. QED
      BY <1>1, <3>1, <3>2 DEF IsRunning
  <2>4. Top.name \in Usable(conf.handlers)
    BY <1>2, <2>3, UsableIsClosed
  <2>5. Hinit.out \notin Errors
    BY <2>2 DEF Answers, Errors
  <2>6. \/ UNCHANGED resolutionMap
        \/ /\ Hinit.out = "handler"
           /\ resolutionMap' = resolutionMap \cup {Top.name}
    BY <2>1
  <2>7. QED
    BY <1>1, <2>1, <2>2, <2>4, <2>5, <2>6, LeaveStep
<1>7. QED
  BY <1>3, <1>5, <1>6

\* The type decides: the handler is there, or it cannot be.
LEMMA TypeDecides ==
  ASSUME PlaceInv, RegistryInv, InFrame("builtin"),
         UNCHANGED <<conf, srv, paths>>
  PROVE  /\ /\ CanBuild(Handler, Usable(conf.handlers)) /\ Leave("handler")
            /\ resolutionMap' = resolutionMap \cup {Top.name}
            => RegistryInv'
         /\ /\ \A S : ~CanBuild(Handler, S)
            /\ Leave("failed") /\ UNCHANGED resolutionMap
            => RegistryInv'
<1>1. phase = "lookup" /\ stack # <<>> /\ Top.stage = "builtin"
  BY DEF InFrame
<1>2. CallOK(conf.handlers, Top) /\ Top.name \in DOMAIN conf.handlers
  BY <1>1, TopCall
<1>3. ASSUME CanBuild(Handler, Usable(conf.handlers)), Leave("handler"),
             resolutionMap' = resolutionMap \cup {Top.name}
      PROVE  RegistryInv'
  <2>1. CanConfigure(conf.handlers[Top.name], Usable(conf.handlers))
    BY <1>1, <1>2, <1>3, TypeIsNeeded DEF Handler
  <2>2. Top.name \in Usable(conf.handlers)
    BY <1>2, <2>1, UsableIsClosed
  <2>3. QED
    BY <1>1, <1>3, <2>2, LeaveStep DEF Answers, Errors
<1>4. ASSUME \A S : ~CanBuild(Handler, S), Leave("failed"),
             UNCHANGED resolutionMap
      PROVE  RegistryInv'
  <2>1. \A S : ~CanConfigure(conf.handlers[Top.name], S)
    BY <1>1, <1>2, <1>4, TypeIsNeeded DEF Handler
  <2>2. Fails(conf.handlers, resolutionPath(Front(stack)), Top.name)
    BY <1>2, <2>1, FailsAlone
  <2>3. QED
    BY <1>1, <1>4, <2>2, LeaveStep DEF Answers, Errors
<1>5. QED
  BY <1>3, <1>4

\* ... and the built-in types.
LEMMA handlerForConfigRegistry ==
  ASSUME PlaceInv, RegistryInv, handlerForConfig
  PROVE  RegistryInv'
<1>1. /\ phase = "lookup" /\ stack # <<>> /\ Top.stage = "builtin"
      /\ InFrame("builtin") /\ UNCHANGED <<conf, srv, paths>>
  BY DEF handlerForConfig, InFrame, loadVars, serverVars
<1>2. /\ Top \in Calls(conf.handlers) /\ CallOK(conf.handlers, Top)
      /\ Top.name \in DOMAIN conf.handlers /\ HandlerConfig(Handler)
  BY <1>1, TopCall
<1>3. ret = "none"
  BY <1>1, TopCall DEF IsRunning
<1>4. CASE ConfigureProxy
  <2> DEFINE out == NewProxy(Handler.config).out
  <2>1. /\ Handler.type = "ReverseProxy"
        /\ \/ /\ out = "handler" /\ Leave("handler")
              /\ resolutionMap' = resolutionMap \cup {Top.name}
           \/ out = "failed" /\ Leave("failed") /\ UNCHANGED resolutionMap
           \/ out = "panic" /\ Finish("panic") /\ UNCHANGED registryVars
    BY <1>4 DEF ConfigureProxy, Configured
  <2>2. CASE out = "handler"
    <3>1. CanBuild(Handler, Usable(conf.handlers))
      BY <2>1, <2>2 DEF CanBuild
    <3>2. QED
      BY <1>1, <2>1, <2>2, <3>1, TypeDecides
  <2>3. CASE out = "failed"
    <3>1. \A S : ~CanBuild(Handler, S)
      BY <2>1, <2>3 DEF CanBuild, registeredTypes
    <3>2. QED
      BY <1>1, <2>1, <2>3, <3>1, TypeDecides
  <2>4. CASE out = "panic"
    <3>1. phase' # "lookup" /\ UNCHANGED resolutionMap
      BY <2>1, <2>4 DEF Finish, registryVars
    <3>2. QED
      BY <1>1, <3>1, NoLookupStep
  <2>5. QED
    BY <2>1, <2>2, <2>3, <2>4
<1>5. CASE makeRedirectHandler
  <2>1. CASE Handler.config.parses
    <3>1. /\ Leave("handler") /\ resolutionMap' = resolutionMap \cup {Top.name}
          /\ CanBuild(Handler, Usable(conf.handlers))
      BY <1>5, <2>1 DEF makeRedirectHandler, Configured, CanBuild
    <3>2. QED
      BY <1>1, <3>1, TypeDecides
  <2>2. CASE ~Handler.config.parses
    <3>1. /\ Leave("failed") /\ UNCHANGED resolutionMap
          /\ \A S : ~CanBuild(Handler, S)
      BY <1>5, <2>2 DEF makeRedirectHandler, CanBuild, registeredTypes
    <3>2. QED
      BY <1>1, <3>1, TypeDecides
  <2>3. QED
    BY <2>1, <2>2
<1>6. CASE UseHandlerType
  <2> DEFINE f == [Top EXCEPT !.stage = "hinit", !.cf = {},
                              !.todo = Handler.config.needs]
  <2>1. /\ Handler.type \in registeredTypes
        /\ SetTop(f) /\ UNCHANGED <<ret, resolutionMap>>
    BY <1>6 DEF UseHandlerType, outVars
  <2>2. Handler.config.needs \in Seq(STRING)
    BY <1>2, <2>1, HandlerParts DEF HandlerFunction
  <2>3. /\ f \in Calls(conf.handlers) /\ f.name = Top.name
        /\ f.stage = "hinit" /\ f.todo = Handler.config.needs
    BY <1>2, <2>2 DEF Calls
  <2> HIDE DEF f
  <2>4. Runs(conf.handlers, f) = Handler.config
    BY <2>3 DEF Runs, Handler
  <2>5. CallOK(conf.handlers, f)
    BY <1>1, <1>2, <2>1, <2>3, <2>4 DEF CallOK, Handler
  <2>6. Found(conf.handlers, f, {})
    BY <2>3, <2>4 DEF Found
  <2>7. QED
    BY <1>1, <1>3, <2>1, <2>3, <2>5, <2>6, GoOnStep
<1>7. CASE NoSuchType
  <2>1. /\ Leave("failed") /\ UNCHANGED resolutionMap
        /\ \A S : ~CanBuild(Handler, S)
    BY <1>7 DEF NoSuchType, CanBuild
  <2>2. QED
    BY <1>1, <2>1, TypeDecides
<1>8. QED
  BY <1>4, <1>5, <1>6, <1>7 DEF handlerForConfig

-----------------------------------------------------------------------------
(***************************************************************************)
(* Where the load is.                                                      *)
(***************************************************************************)

\* A step within a lookup, or one that ends the load.
LEMMA StaysOrEnds ==
  ASSUME PlaceInv, phase \in {"lookup", "listen"},
         UNCHANGED <<loadVars, pending>>,
         \/ UNCHANGED <<phase, result, srv>> /\ paths' \subseteq paths
            /\ (phase = "listen" => UNCHANGED <<stack, ret>>)
         \/ \E how \in {"ok", "error", "panic", "exit"} : Finish(how)
  PROVE  PlaceInv'
<1>1. CASE \E how \in {"ok", "error", "panic", "exit"} : Finish(how)
  BY <1>1 DEF PlaceInv, Finish, loadVars
<1>2. CASE UNCHANGED <<phase, result, srv>> /\ paths' \subseteq paths
           /\ (phase = "listen" => UNCHANGED <<stack, ret>>)
  BY <1>2 DEF PlaceInv, loadVars
<1>3. QED
  BY <1>1, <1>2

\* How UseHandler may end a load.
LEMMA UseHandlerEnds ==
  ASSUME UseHandler
  PROVE  UNCHANGED <<phase, result>> \/ Finish("error") \/ Finish("panic")
  BY Zenon DEF UseHandler

\* How a listener may end a load.
LEMMA ListenerEnds ==
  ASSUME getTLSServerConfigWithPlugin
  PROVE  UNCHANGED <<phase, result>> \/ Finish("error") \/ Finish("exit")
  BY Zenon DEF getTLSServerConfigWithPlugin

\* Every step of a load keeps PlaceInv, ...
LEMMA LoadPlace ==
  ASSUME PlaceInv, instantiateServersFromConfig
  PROVE  PlaceInv'
<1>1. CASE ParseConfig
  <2>1. CASE conf.read # "ok"
    <3>1. /\ phase' = "done" /\ result' \in {"ok", "error"}
          /\ UNCHANGED <<conf, gen, pending>>
      BY <1>1, <2>1 DEF ParseConfig, Finish, loadVars
    <3>2. QED
      BY <3>1 DEF PlaceInv
  <2>2. CASE conf.read = "ok"
    <3>1. /\ phase = "parse" /\ phase' = "servers"
          /\ pending' = DOMAIN conf.http
          /\ UNCHANGED <<conf, gen, result, stack, ret>>
      BY <1>1, <2>2 DEF ParseConfig, loadVars, registryVars
    <3>2. QED
      BY <2>2, <3>1 DEF PlaceInv
  <2>3. QED
    BY <2>1, <2>2
<1>2. CASE NextServer
  <2>1. PICK s \in pending :
          /\ srv' = s /\ pending' = pending \ {s}
          /\ paths' = DOMAIN conf.http[s].paths
          /\ IF conf.http[s].kind \in {"string", "mux"}
             THEN phase' = "lookup" /\ UNCHANGED result ELSE Finish("error")
    BY <1>2 DEF NextServer
  <2>2. phase = "servers" /\ UNCHANGED <<conf, gen>>
    BY <1>2 DEF NextServer, loadVars
  <2>3. CASE conf.http[s].kind \in {"string", "mux"}
    BY <2>1, <2>2, <2>3 DEF PlaceInv
  <2>4. CASE conf.http[s].kind \notin {"string", "mux"}
    BY <2>1, <2>2, <2>4 DEF PlaceInv, Finish
  <2>5. QED
    BY <2>3, <2>4
<1>3. CASE AllServers
  BY <1>3 DEF PlaceInv, AllServers, Finish, loadVars, serverVars
<1>4. CASE HandlerForSpec
  <2>1. /\ phase = "lookup" /\ UNCHANGED <<loadVars, pending, srv>>
        /\ paths' \subseteq paths
        /\ UNCHANGED <<phase, result>> \/ Finish("error")
    BY <1>4 DEF HandlerForSpec, AtServer
  <2>2. QED
    BY <2>1, StaysOrEnds
<1>5. CASE UseHandler
  <2>1. phase = "lookup" /\ UNCHANGED <<loadVars, serverVars>>
    BY <1>5 DEF UseHandler, AtServer
  <2>2. QED
    BY <1>5, <2>1, UseHandlerEnds, StaysOrEnds DEF serverVars
<1>6. CASE \/ handlerFromPlugin \/ LookupHandler \/ HandlerFound
           \/ HinitReturns \/ handlerForConfig
  <2>1. phase = "lookup" /\ UNCHANGED <<loadVars, serverVars>>
    BY <1>6 DEF handlerFromPlugin, LookupHandler, HandlerFound, HinitReturns,
       handlerForConfig, HinitRuns, InFrame
  <2>2. UNCHANGED <<phase, result>> \/ Finish("panic")
    <3>1. CASE \/ handlerFromPlugin \/ LookupHandler \/ HandlerFound
               \/ HinitReturns
      BY <3>1, Zenon DEF handlerFromPlugin, LookupHandler, HandlerFound,
         HinitReturns
    <3>2. CASE handlerForConfig
      BY <3>2, Zenon DEF handlerForConfig, ConfigureProxy,
         makeRedirectHandler, UseHandlerType, NoSuchType
    <3>3. QED
      BY <1>6, <3>1, <3>2
  <2>3. QED
    BY <2>1, <2>2, StaysOrEnds DEF serverVars
<1>7. CASE wrapAuditHandler
  <2>1. /\ phase = "lookup" /\ phase' = "listen" /\ stack = <<>> /\ ret = "none"
        /\ UNCHANGED <<conf, gen, result, pending, srv, stack, ret>>
    BY <1>7 DEF wrapAuditHandler, AtServer, loadVars, registryVars
  <2>2. QED
    BY <2>1 DEF PlaceInv
<1>8. CASE getTLSServerConfigWithPlugin
  <2>1. /\ phase = "listen"
        /\ UNCHANGED <<loadVars, pending, srv, paths, stack, ret>>
    BY <1>8 DEF getTLSServerConfigWithPlugin, registryVars
  <2>2. QED
    BY <1>8, <2>1, ListenerEnds, StaysOrEnds
<1>9. CASE newHTTPServer
  BY <1>9 DEF newHTTPServer, PlaceInv, loadVars, serverVars, registryVars
<1>10. QED
  BY <1>1, <1>2, <1>3, <1>4, <1>5, <1>6, <1>7, <1>8, <1>9
     DEF instantiateServersFromConfig

\* ... RegistryInv, ...
LEMMA LoadRegistry ==
  ASSUME PlaceInv, RegistryInv, HeldInv, instantiateServersFromConfig
  PROVE  RegistryInv'
<1>1. CASE ParseConfig \/ AllServers \/ wrapAuditHandler \/ newHTTPServer
  <2>1. UNCHANGED <<conf, resolutionMap>> /\ phase' # "lookup"
    BY <1>1 DEF ParseConfig, AllServers, wrapAuditHandler, newHTTPServer,
       Finish, loadVars, registryVars
  <2>2. QED
    BY <2>1, NoLookupStep
<1>2. CASE getTLSServerConfigWithPlugin
  <2>1. UNCHANGED <<conf, resolutionMap>> /\ phase = "listen"
    BY <1>2 DEF getTLSServerConfigWithPlugin, loadVars, registryVars
  <2>2. phase' # "lookup"
    BY <1>2, <2>1, ListenerEnds DEF Finish
  <2>3. QED
    BY <2>1, <2>2, NoLookupStep
<1>3. QED
  BY <1>1, <1>2, NextServerRegistry, HandlerForSpecRegistry,
     UseHandlerRegistry, handlerFromPluginRegistry, LookupHandlerRegistry,
     HandlerFoundRegistry, HinitReturnsRegistry, handlerForConfigRegistry
     DEF instantiateServersFromConfig

-----------------------------------------------------------------------------
(***************************************************************************)
(* How the load ends.                                                      *)
(***************************************************************************)

\* What a configuration means depends on nothing else.
LEMMA SamePlugins ==
  ASSUME UNCHANGED conf
  PROVE  \A n : getTLSPlugin(n)' = getTLSPlugin(n)
<1>1. newTLSPluginRegistry' = newTLSPluginRegistry
  BY DEF newTLSPluginRegistry
<1>2. \A p : PluginFunc(p)' <=> PluginFunc(p)
  BY DEF PluginFunc
<1> QED
  BY <1>1, <1>2, Zenon DEF getTLSPlugin

\* What is right of a configuration does not change while it is loaded.
LEMMA SameMeaning ==
  ASSUME UNCHANGED conf
  PROVE  /\ \A s : ServerOK(s)' <=> ServerOK(s)
         /\ \A t : ListenerOK(t)' <=> ListenerOK(t)
         /\ ConfigOK' <=> ConfigOK
<1>1. \A s : ServerOK(s)' <=> ServerOK(s)
  BY SamePlugins, Zenon DEF ServerOK
<1>2. \A t : ListenerOK(t)' <=> ListenerOK(t)
  BY SamePlugins, Zenon DEF ListenerOK
<1>3. ConfigOK' <=> ConfigOK
  BY <1>1, Zenon DEF ConfigOK
<1>4. QED
  BY <1>1, <1>2, <1>3

\* A server has ciphers, or an error.
LEMMA ServerHasCiphers ==
  ASSUME NEW t
  PROVE  GetTLSServerConfig(t).err <=> GetTLSServerConfig(t).ciphers = {}
<1> DEFINE ciphers == getCiphers(t.ciphers)
<1>1. ~ciphers.err => ciphers.ciphers # {}
  BY DEF getCiphers
<1>2. CASE TLSError(t, ciphers, t.clientCAs) \/ t.auth \notin ClientAuthTypes
  BY <1>2 DEF GetTLSServerConfig, TLSFail
<1>3. CASE ~(TLSError(t, ciphers, t.clientCAs) \/ t.auth \notin ClientAuthTypes)
  <2>1. ~ciphers.err
    BY <1>3 DEF TLSError
  <2> HIDE DEF ciphers
  <2>2. GetTLSServerConfig(t) = TLSConfig(t, ciphers)
    BY <1>3, Zenon DEF GetTLSServerConfig, ciphers
  <2>3. QED
    BY <1>1, <2>1, <2>2 DEF TLSConfig
<1>4. QED
  BY <1>2, <1>3

\* A TLS plugin gives a callback, an error, or neither.
LEMMA PluginGives ==
  ASSUME conf \in Configs, NEW n
  PROVE  getTLSPlugin(n) \in {"nil", "error", "ok", "cberror", "nocb"}
<1> DEFINE p == newTLSPluginRegistry[n]
<1>1. CASE n \notin DOMAIN newTLSPluginRegistry
  BY <1>1 DEF getTLSPlugin
<1>2. CASE n \in DOMAIN newTLSPluginRegistry
  <2>1. p.init \in {"ok", "cberror", "nocb", "error"}
    <3>1. n = "" \/ n \in DOMAIN conf.tlsPlugins
      BY <1>2 DEF newTLSPluginRegistry
    <3>2. CASE n = ""
      BY <3>2 DEF newTLSPluginRegistry
    <3>3. CASE n # "" /\ n \in DOMAIN conf.tlsPlugins
      <4>1. p = conf.tlsPlugins[n]
        BY <3>3 DEF newTLSPluginRegistry
      <4>2. conf.tlsPlugins[n] \in TLSPluginConfig
        BY <3>3, ConfigParts
      <4>3. QED
        BY <4>1, <4>2 DEF TLSPluginConfig
    <3>4. QED
      BY <3>1, <3>2, <3>3
  <2> HIDE DEF p
  <2>2. getTLSPlugin(n) = IF ~PluginFunc(p) THEN "error" ELSE p.init
    BY <1>2, Zenon DEF getTLSPlugin, p
  <2>3. QED
    BY <2>1, <2>2
<1>3. QED
  BY <1>1, <1>2

\* A listener ends the load exactly when it makes no sense.
LEMMA ListenerStep ==
  ASSUME conf \in Configs, getTLSServerConfigWithPlugin
  PROVE  \E l \in listeners :
           /\ listeners' = listeners \ {l}
           /\ \/ /\ UNCHANGED <<phase, result>>
                 /\ ListenerOK(conf.http[srv].listeners[l])
              \/ /\ Finish("error") \/ Finish("exit")
                 /\ ~ListenerOK(conf.http[srv].listeners[l])
<1>1. PICK l \in listeners :
        LET t == conf.http[srv].listeners[l]
            cb == getTLSPlugin(t.plugin)
            called == ~GetTLSServerConfig(t).err /\ UsesPlugin(t) IN
        /\ listeners' = listeners \ {l}
        /\ CASE t.tls /\ GetTLSServerConfig(t).err -> Finish("error")
             [] t.tls /\ called /\ cb \in {"error", "cberror"} ->
                  Finish("error")
             [] t.tls /\ called /\ cb \in {"nil", "nocb"} -> Finish("exit")
             [] OTHER -> UNCHANGED <<phase, result>>
  BY Zenon DEF getTLSServerConfigWithPlugin
<1> DEFINE t == conf.http[srv].listeners[l]
           cb == getTLSPlugin(t.plugin)
<1>2. GetTLSServerConfig(t).err <=> GetTLSServerConfig(t).ciphers = {}
  BY ServerHasCiphers
<1>3. cb \in {"nil", "error", "ok", "cberror", "nocb"}
  BY PluginGives
<1>4. CASE t.tls /\ GetTLSServerConfig(t).err
  <2>1. ~ListenerOK(t)
    BY <1>2, <1>4 DEF ListenerOK, TLSUsable
  <2>2. Finish("error")
    BY <1>1, <1>4, Zenon
  <2>3. QED
    BY <1>1, <2>1, <2>2
<1>5. CASE t.tls /\ ~GetTLSServerConfig(t).err /\ UsesPlugin(t) /\ cb # "ok"
  <2>1. ~ListenerOK(t)
    BY <1>5 DEF ListenerOK
  <2>2. CASE cb \in {"error", "cberror"}
    <3>1. Finish("error")
      BY <1>1, <1>5, <2>2, Zenon
    <3>2. QED
      BY <1>1, <2>1, <3>1
  <2>3. CASE cb \in {"nil", "nocb"}
    <3>1. cb \notin {"error", "cberror"}
      BY <2>3
    <3>2. Finish("exit")
      BY <1>1, <1>5, <2>3, <3>1, Zenon
    <3>3. QED
      BY <1>1, <2>1, <3>2
  <2>4. QED
    BY <1>3, <1>5, <2>2, <2>3
<1>6. CASE ~(t.tls /\ GetTLSServerConfig(t).err)
           /\ ~(t.tls /\ UsesPlugin(t) /\ cb # "ok")
  <2>1. ListenerOK(t)
    BY <1>2, <1>6 DEF ListenerOK, TLSUsable
  <2>2. cb = "ok" => cb \notin {"error", "cberror"} /\ cb \notin {"nil", "nocb"}
    OBVIOUS
  <2>3. UNCHANGED <<phase, result>>
    BY <1>1, <1>6, <2>2, Zenon
  <2>4. QED
    BY <1>1, <2>1, <2>3
<1>7. QED
  BY <1>4, <1>5, <1>6

\* A server that looks up a handler that cannot be had makes no sense.
LEMMA NotUsableServer ==
  ASSUME conf.read = "ok", srv \in DOMAIN conf.http,
         NEW m \in Looked(conf, srv, paths), m \notin Usable(conf.handlers)
  PROVE  ~ConfigOK
<1>1. m \in Range(conf.http[srv].paths)
  BY DEF Looked, Range
<1>2. ~ServerOK(conf.http[srv])
  BY <1>1 DEF ServerOK
<1>3. QED
  BY <1>2 DEF ConfigOK

\* A load that ends without success has a reason.
LEMMA EndsWrong ==
  ASSUME UNCHANGED conf,
         Finish("panic") \/ ((Finish("error") \/ Finish("exit")) /\ ~ConfigOK)
  PROVE  ServersInv' /\ OutcomeFixed'
<1>1. ServersInv'
  BY DEF ServersInv, Finish
<1>2. OutcomeFixed'
  BY SameMeaning DEF OutcomeFixed, Finish
<1>3. QED
  BY <1>1, <1>2

\* Nothing is new about the servers during a lookup.
LEMMA ServersStay ==
  ASSUME ServersInv, phase = "lookup", UNCHANGED <<conf, phase, pending, srv>>
  PROVE  ServersInv' /\ OutcomeFixed'
<1>1. OutcomeFixed'
  BY DEF OutcomeFixed
<1>2. ServersInv'
  BY SameMeaning DEF ServersInv, Current
<1>3. QED
  BY <1>1, <1>2

\* ServersInv, action by action: the handler of a path, ...
LEMMA UseHandlerServers ==
  ASSUME PlaceInv, RegistryInv, ServersInv, UseHandler
  PROVE  ServersInv' /\ OutcomeFixed'
<1>1. /\ phase = "lookup" /\ stack = <<>> /\ ret # "none"
      /\ UNCHANGED <<conf, pending, srv>>
  BY DEF UseHandler, AtServer, loadVars, serverVars
<1>2. CASE ret \in Errors
  <2>0. ret # "nil"
    BY <1>2 DEF Errors
  <2>1. Finish("error")
    BY <1>2, <2>0, Zenon DEF UseHandler
  <2>2. Registry(conf, srv, paths, <<>>, ret, resolutionMap)
    BY <1>1 DEF RegistryInv
  <2>3. Len(<<>>) = 0
    BY EmptySeq
  <2>4. PICK m \in Looked(conf, srv, paths) :
          Answered(conf.handlers, <<>>, ret, m)
    BY <1>1, <2>2, <2>3 DEF Registry, MayAsk
  <2>5. resolutionPath(<<>>) = {}
    BY EmptySeq DEF resolutionPath
  <2>6. m \notin Usable(conf.handlers)
    BY <1>2, <2>4, <2>5, FailsIsNotUsable DEF Answered
  <2>7. ~ConfigOK
    BY <1>1, <2>6, NotUsableServer DEF PlaceInv
  <2>8. QED
    BY <1>1, <2>1, <2>7, EndsWrong
<1>3. CASE ret \notin Errors
  <2>1. CASE ret = "nil" /\ conf.http[srv].kind = "mux"
    <3>1. Finish("panic")
      BY <1>3, <2>1, Zenon DEF UseHandler
    <3>2. QED
      BY <1>1, <3>1, EndsWrong
  <2>2. CASE ~(ret = "nil" /\ conf.http[srv].kind = "mux")
    <3>1. UNCHANGED <<phase, result>>
      BY <1>3, <2>2, Zenon DEF UseHandler
    <3>2. QED
      BY <1>1, <3>1, ServersStay
  <2>3. QED
    BY <2>1, <2>2
<1>4. QED
  BY <1>2, <1>3

\* ... the next path, ...
LEMMA HandlerForSpecServers ==
  ASSUME PlaceInv, RegistryInv, ServersInv, HandlerForSpec
  PROVE  ServersInv' /\ OutcomeFixed'
<1>1. PICK p \in paths :
        IF conf.http[srv].paths[p] = "#" THEN Finish("error")
        ELSE UNCHANGED <<phase, result>>
  BY Zenon DEF HandlerForSpec
<1>2. /\ phase = "lookup" /\ UNCHANGED <<conf, pending, srv>>
      /\ srv \in DOMAIN conf.http /\ conf.read = "ok" /\ conf \in Configs
      /\ p \in DOMAIN conf.http[srv].paths
  BY DEF HandlerForSpec, AtServer, loadVars, PlaceInv
<1>3. CASE conf.http[srv].paths[p] = "#"
  <2>1. "#" \notin Usable(conf.handlers)
    BY <1>2, ConfigParts, SetupAssumption DEF Usable, OfCode
  <2>2. ~ServerOK(conf.http[srv])
    BY <1>2, <1>3, <2>1 DEF ServerOK, Range
  <2>3. ~ConfigOK
    BY <1>2, <2>2 DEF ConfigOK
  <2>4. QED
    BY <1>1, <1>2, <1>3, <2>3, EndsWrong
<1>4. CASE conf.http[srv].paths[p] # "#"
  BY <1>1, <1>2, <1>4, ServersStay
<1>5. QED
  BY <1>3, <1>4

\* ... a listener; ...
LEMMA ListenerServers ==
  ASSUME PlaceInv, ServersInv, getTLSServerConfigWithPlugin
  PROVE  ServersInv' /\ OutcomeFixed'
<1>1. /\ phase = "listen" /\ UNCHANGED <<conf, pending, srv>>
      /\ conf \in Configs /\ conf.read = "ok" /\ srv \in DOMAIN conf.http
      /\ listeners \subseteq DOMAIN conf.http[srv].listeners
  BY DEF getTLSServerConfigWithPlugin, loadVars, PlaceInv, ServersInv
<1>2. PICK l \in listeners :
        /\ listeners' = listeners \ {l}
        /\ \/ /\ UNCHANGED <<phase, result>>
              /\ ListenerOK(conf.http[srv].listeners[l])
           \/ /\ Finish("error") \/ Finish("exit")
              /\ ~ListenerOK(conf.http[srv].listeners[l])
  BY <1>1, ListenerStep
<1>3. CASE /\ UNCHANGED <<phase, result>>
           /\ ListenerOK(conf.http[srv].listeners[l])
  <2>1. OutcomeFixed'
    BY <1>1, <1>3 DEF OutcomeFixed
  <2>2. /\ \A k \in DOMAIN conf.http[srv].listeners \ listeners' :
             ListenerOK(conf.http[srv].listeners[k])
        /\ listeners' \subseteq DOMAIN conf.http[srv].listeners
    BY <1>1, <1>2, <1>3 DEF ServersInv
  <2>3. ServersInv'
    BY <1>1, <1>3, <2>2, SameMeaning DEF ServersInv, Current
  <2>4. QED
    BY <2>1, <2>3
<1>4. CASE /\ Finish("error") \/ Finish("exit")
           /\ ~ListenerOK(conf.http[srv].listeners[l])
  <2>1. ~ServerOK(conf.http[srv])
    BY <1>1, <1>4 DEF ServerOK, ListenerOK
  <2>2. ~ConfigOK
    BY <1>1, <2>1 DEF ConfigOK
  <2>3. QED
    BY <1>1, <1>4, <2>2, EndsWrong
<1>5. QED
  BY <1>2, <1>3, <1>4

\* ... every step keeps it, and ends a load as OutcomeFixed says.
LEMMA LoadServers ==
  ASSUME PlaceInv, RegistryInv, ServersInv, instantiateServersFromConfig
  PROVE  ServersInv' /\ OutcomeFixed'
<1>1. CASE ParseConfig
  <2>1. phase = "parse" /\ UNCHANGED conf
    BY <1>1 DEF ParseConfig, loadVars
  <2>2. CASE conf.read # "ok"
    <3>1. Finish(IF conf.read = "bad" THEN "error" ELSE "ok")
      BY <1>1, <2>2 DEF ParseConfig
    <3>2. ConfigOK
      BY <2>2 DEF ConfigOK
    <3>3. ServersInv'
      BY <3>1 DEF ServersInv, Finish
    <3>4. OutcomeFixed'
      BY <2>1, <3>1, <3>2, SameMeaning DEF OutcomeFixed, Finish
    <3>5. QED
      BY <3>3, <3>4
  <2>3. CASE conf.read = "ok"
    <3>1. phase' = "servers" /\ pending' = DOMAIN conf.http
      BY <1>1, <2>3 DEF ParseConfig
    <3>2. QED
      BY <2>1, <3>1 DEF ServersInv, OutcomeFixed
  <2>4. QED
    BY <2>2, <2>3
<1>2. CASE NextServer
  <2>1. PICK s \in pending :
          /\ srv' = s /\ pending' = pending \ {s}
          /\ IF conf.http[s].kind \in {"string", "mux"}
             THEN phase' = "lookup" /\ UNCHANGED result ELSE Finish("error")
    BY <1>2 DEF NextServer
  <2>2. /\ phase = "servers" /\ UNCHANGED conf /\ conf.read = "ok"
        /\ pending \subseteq DOMAIN conf.http
    BY <1>2 DEF NextServer, loadVars, PlaceInv
  <2>3. CASE conf.http[s].kind \in {"string", "mux"}
    <3>1. phase' = "lookup"
      BY <2>1, <2>3
    <3>2. pending' \cup Current' = pending \cup Current
      BY <2>1, <2>2, <3>1 DEF Current
    <3>3. ServersInv'
      BY <2>2, <3>1, <3>2, SameMeaning DEF ServersInv
    <3>4. QED
      BY <3>1, <3>3 DEF OutcomeFixed
  <2>4. CASE conf.http[s].kind \notin {"string", "mux"}
    <3>1. Finish("error")
      BY <2>1, <2>4
    <3>2. ~ServerOK(conf.http[s])
      BY <2>4 DEF ServerOK
    <3>3. ~ConfigOK
      BY <2>2, <3>2 DEF ConfigOK
    <3>4. QED
      BY <2>2, <3>1, <3>3, EndsWrong
  <2>5. QED
    BY <2>3, <2>4
<1>3. CASE AllServers
  <2>1. /\ phase = "servers" /\ pending = {} /\ Finish("ok") /\ UNCHANGED conf
        /\ conf.read = "ok"
    BY <1>3 DEF AllServers, loadVars, PlaceInv
  <2>2. ConfigOK
    BY <2>1 DEF ServersInv, Current, ConfigOK
  <2>3. ServersInv'
    BY <2>1 DEF ServersInv, Finish
  <2>4. OutcomeFixed'
    BY <2>1, <2>2, SameMeaning DEF OutcomeFixed, Finish
  <2>5. QED
    BY <2>3, <2>4
<1>4. CASE \/ handlerFromPlugin \/ LookupHandler \/ HandlerFound
           \/ HinitReturns \/ handlerForConfig
  <2>1. phase = "lookup" /\ UNCHANGED <<conf, pending, srv>>
    BY <1>4 DEF handlerFromPlugin, LookupHandler, HandlerFound, HinitReturns,
       handlerForConfig, HinitRuns, InFrame, loadVars, serverVars
  <2>2. UNCHANGED <<phase, result>> \/ Finish("panic")
    <3>1. CASE \/ handlerFromPlugin \/ LookupHandler \/ HandlerFound
               \/ HinitReturns
      BY <3>1, Zenon DEF handlerFromPlugin, LookupHandler, HandlerFound,
         HinitReturns
    <3>2. CASE handlerForConfig
      BY <3>2, Zenon DEF handlerForConfig, ConfigureProxy,
         makeRedirectHandler, UseHandlerType, NoSuchType
    <3>3. QED
      BY <1>4, <3>1, <3>2
  <2>3. QED
    BY <2>1, <2>2, ServersStay, EndsWrong
<1>5. CASE wrapAuditHandler
  <2>1. /\ phase = "lookup" /\ stack = <<>> /\ ret = "none" /\ paths = {}
        /\ phase' = "listen" /\ UNCHANGED <<conf, pending, srv>>
        /\ listeners' = DOMAIN conf.http[srv].listeners
    BY <1>5 DEF wrapAuditHandler, AtServer, loadVars
  <2>2. Looked(conf, srv, paths) \subseteq Usable(conf.handlers)
    BY <2>1 DEF RegistryInv, Registry, Settled
  <2>3. Range(conf.http[srv].paths) \subseteq Usable(conf.handlers)
    BY <2>1, <2>2 DEF Looked, Range
  <2>4. Current' = Current
    BY <2>1 DEF Current
  <2>5. ServersInv'
    BY <2>1, <2>3, <2>4, SameMeaning DEF ServersInv
  <2>6. QED
    BY <2>1, <2>5 DEF OutcomeFixed
<1>6. CASE newHTTPServer
  <2>1. /\ phase = "listen" /\ listeners = {} /\ phase' = "servers"
        /\ UNCHANGED <<conf, pending, srv>>
        /\ conf.http[srv].kind \in {"string", "mux"}
    BY <1>6 DEF newHTTPServer, loadVars, serverVars, PlaceInv
  <2>2. ServerOK(conf.http[srv])
    BY <2>1 DEF ServersInv, ServerOK, ListenerOK
  <2>3. \A s \in DOMAIN conf.http \ pending : ServerOK(conf.http[s])
    BY <2>1, <2>2 DEF ServersInv, Current
  <2>4. ServersInv'
    BY <2>1, <2>3, SameMeaning DEF ServersInv
  <2>5. QED
    BY <2>1, <2>4 DEF OutcomeFixed
<1>7. QED
  BY <1>1, <1>2, <1>3, <1>4, <1>5, <1>6, UseHandlerServers,
     HandlerForSpecServers, ListenerServers DEF instantiateServersFromConfig

-----------------------------------------------------------------------------
(***************************************************************************)
(* The services.                                                           *)
(***************************************************************************)

\* A step that adds at most the services of TLS plugins, and no handler.
LEMMA ServicesStay ==
  ASSUME ServicesInv, NEW more,
         more \subseteq [gen : {gen}, what : {"tls"}, by : Names],
         services' = services \cup more,
         UNCHANGED <<gen, conf, resolutionMap>>,
         \/ /\ {phase, phase'} \subseteq {"lookup", "listen"}
            /\ UNCHANGED <<pending, srv>>
         \/ phase' = "done" /\ result' # "ok"
  PROVE  ServicesInv'
<1>1. services' \subseteq
        [gen : {gen}, what : {"http", "metrics", "proxy", "tls"}, by : Names]
  BY DEF ServicesInv
<1>2. By("http")' = By("http")
  BY DEF By
<1>3. \A n : Service("proxy", n)' = Service("proxy", n)
             /\ Service("proxy", n) \notin more
  BY DEF Service
<1>4. phase' # "done" => Current' = Current /\ UNCHANGED pending
  BY DEF Current
<1>5. \A n \in DOMAIN conf.handlers :
        Service("proxy", n)' \in services' <=>
          n \in resolutionMap' /\ IsVirtualProxy(conf.handlers[n])
  BY <1>3 DEF ServicesInv
<1>6. QED
  BY <1>1, <1>2, <1>4, <1>5 DEF ServicesInv

\* A step of the lookup that leaves the services and the handlers alone.
LEMMA NoServices ==
  ASSUME ServicesInv, UNCHANGED <<gen, conf, resolutionMap, services>>,
         \/ /\ {phase, phase'} \subseteq {"lookup", "listen"}
            /\ UNCHANGED <<pending, srv>>
         \/ phase' = "done" /\ result' # "ok"
  PROVE  ServicesInv'
<1>1. services' = services \cup {}
  OBVIOUS
<1>2. QED
  BY <1>1, ServicesStay

\* A handler is there, with its service if it has one.
LEMMA HandlerServices ==
  ASSUME ServicesInv, conf \in Configs, phase = "lookup",
         UNCHANGED <<gen, conf, phase, pending, srv>>,
         NEW n \in DOMAIN conf.handlers,
         resolutionMap' = resolutionMap \cup {n}, n \notin resolutionMap,
         services' = services \cup IF IsVirtualProxy(conf.handlers[n])
                                   THEN {Service("proxy", n)} ELSE {}
  PROVE  ServicesInv'
<1> DEFINE more == IF IsVirtualProxy(conf.handlers[n])
                   THEN {Service("proxy", n)} ELSE {}
<1>1. more \subseteq [gen : {gen}, what : {"proxy"}, by : Names]
  <2>1. n \in Names
    BY ConfigParts, Zenon DEF Names
  <2>2. QED
    BY <2>1 DEF Service
<1>2. \A k : /\ Service("proxy", k)' = Service("proxy", k)
             /\ Service("proxy", k) \in more <=>
                  k = n /\ IsVirtualProxy(conf.handlers[n])
  BY DEF Service
<1>3. services' = services \cup more
  OBVIOUS
<1> HIDE DEF more
<1>4. services' \subseteq
        [gen : {gen}, what : {"http", "metrics", "proxy", "tls"}, by : Names]
  BY <1>1, <1>3 DEF ServicesInv
<1>5. By("http")' = By("http") /\ Current' = Current
  BY <1>1, <1>3 DEF By, Current
<1>6. \A k \in DOMAIN conf.handlers :
        Service("proxy", k)' \in services' <=>
          k \in resolutionMap' /\ IsVirtualProxy(conf.handlers[k])
  BY <1>2, <1>3 DEF ServicesInv
<1>7. QED
  BY <1>4, <1>5, <1>6 DEF ServicesInv

\* What NewProxy returns.
LEMMA NewProxyReturns ==
  ASSUME NEW c
  PROVE  /\ NewProxy(c).out \in {"handler", "failed", "panic"}
         /\ NewProxy(c).out = "handler" =>
              /\ NewProxy(c).modules = InitModules(c.modules)
              /\ ~(InitModules(c.modules) < Len(c.modules))
              /\ NewProxy(c).service <=>
                   c.transport.given /\ c.transport.type = "Virtual"
         /\ NewProxy(c).modules \in {0, InitModules(c.modules)}
<1> DEFINE modules == InitModules(c.modules)
           fails(n) == [out |-> "failed", modules |-> n, service |-> FALSE]
<1>1. CASE ~c.given
  <2>1. NewProxy(c) = [fails(0) EXCEPT !.out = "panic"]
    BY <1>1, Zenon DEF NewProxy
  <2>2. QED
    BY <2>1
<1>2. CASE c.given /\ ~(c.parses /\ c.dir /\ TransportOK(c.transport))
  <2>1. NewProxy(c) = fails(0)
    BY <1>2, Zenon DEF NewProxy
  <2>2. QED
    BY <2>1
<1>3. CASE c.given /\ c.parses /\ c.dir /\ TransportOK(c.transport)
  <2>1. NewProxy(c) =
          IF modules < Len(c.modules)
          THEN [fails(modules) EXCEPT !.out =
                  IF c.modules[modules + 1] = "panics" THEN "panic" ELSE @]
          ELSE [out |-> "handler", modules |-> modules,
                service |-> c.transport.given
                            /\ c.transport.type = "Virtual"]
    BY <1>3, Zenon DEF NewProxy
  <2> HIDE DEF modules
  <2>2. CASE modules < Len(c.modules)
    BY <2>1, <2>2 DEF modules
  <2>3. CASE ~(modules < Len(c.modules))
    <3> DEFINE service == c.transport.given /\ c.transport.type = "Virtual"
    <3>1. NewProxy(c) = [out |-> "handler", modules |-> modules,
                         service |-> service]
      BY <2>1, <2>3, Zenon
    <3> HIDE DEF service
    <3>2. /\ NewProxy(c).out = "handler" /\ NewProxy(c).modules = modules
          /\ NewProxy(c).service = service
      BY <3>1
    <3>3. NewProxy(c).service <=> service
      BY <3>2, Zenon
    <3>4. QED
      BY <2>3, <3>2, <3>3, Zenon DEF modules, service
  <2>4. QED
    BY <2>2, <2>3
<1>4. QED
  BY <1>1, <1>2, <1>3

\* The function's handler, or none.
LEMMA HinitReturnsServices ==
  ASSUME PlaceInv, RegistryInv, ServicesInv, HinitReturns
  PROVE  ServicesInv'
<1>1. /\ phase = "lookup" /\ stack # <<>> /\ IsRunning(Top)
      /\ UNCHANGED <<gen, conf, phase, pending, srv>> /\ conf \in Configs
  BY DEF HinitReturns, HinitRuns, InFrame, IsRunning, loadVars, serverVars,
     PlaceInv
<1>2. /\ Top.name \in DOMAIN conf.handlers /\ CallOK(conf.handlers, Top)
      /\ Top.name \notin resolutionMap
  BY <1>1, TopCall
<1>3. CASE Hinit.out # "handler"
  <2>1. UNCHANGED <<services, resolutionMap>>
    <3>1. CASE Hinit.out = "failed"
      BY <3>1 DEF HinitReturns, outVars
    <3>2. CASE Hinit.out # "failed" /\ Hinit.out = "nil" /\ Top.stage = "plugin"
      BY <3>2 DEF HinitReturns
    <3>3. CASE /\ Hinit.out # "failed"
               /\ ~(Hinit.out = "nil" /\ Top.stage = "plugin")
      BY <1>3, <3>3 DEF HinitReturns, Configured
    <3>4. QED
      BY <3>1, <3>2, <3>3
  <2>2. QED
    BY <1>1, <2>1, NoServices
<1>4. CASE Hinit.out = "handler"
  <2>1. services' = services /\ resolutionMap' = resolutionMap \cup {Top.name}
    BY <1>4 DEF HinitReturns, Configured
  <2>2. ~IsVirtualProxy(conf.handlers[Top.name])
    BY <1>1, <1>2, <1>4 DEF IsVirtualProxy, CallOK, IsRunning, Hinit, Handler,
       registeredTypes
  <2>3. QED
    BY <1>1, <1>2, <2>1, <2>2, HandlerServices
<1>5. QED
  BY <1>3, <1>4

\* The handler of a type.
LEMMA handlerForConfigServices ==
  ASSUME PlaceInv, RegistryInv, ServicesInv, handlerForConfig
  PROVE  ServicesInv'
<1>1. /\ phase = "lookup" /\ stack # <<>> /\ Top.stage = "builtin"
      /\ UNCHANGED <<gen, conf, pending, srv>> /\ conf \in Configs
  BY DEF handlerForConfig, InFrame, loadVars, serverVars, PlaceInv
<1>2. /\ Top.name \in DOMAIN conf.handlers /\ ReachesType(Handler)
      /\ Top.name \notin resolutionMap
  BY <1>1, TopCall DEF CallOK, Handler
<1>3. CASE ConfigureProxy
  <2> DEFINE proxy == NewProxy(Handler.config)
  <2>1. /\ Handler.type = "ReverseProxy"
        /\ \/ /\ proxy.out = "handler" /\ UNCHANGED phase
              /\ resolutionMap' = resolutionMap \cup {Top.name}
              /\ services' = services \cup
                   IF proxy.service THEN {Service("proxy", Top.name)} ELSE {}
           \/ UNCHANGED <<phase, services, resolutionMap>>
           \/ Finish("panic") /\ UNCHANGED <<services, resolutionMap>>
    BY <1>3 DEF ConfigureProxy, Configured, registryVars
  <2>2. CASE UNCHANGED <<phase, services, resolutionMap>>
    BY <1>1, <2>2, NoServices
  <2>3. CASE Finish("panic") /\ UNCHANGED <<services, resolutionMap>>
    BY <1>1, <2>3, NoServices DEF Finish
  <2>4. CASE /\ proxy.out = "handler" /\ UNCHANGED phase
             /\ resolutionMap' = resolutionMap \cup {Top.name}
             /\ services' = services \cup
                  IF proxy.service THEN {Service("proxy", Top.name)} ELSE {}
    <3>1. proxy.service <=> IsVirtualProxy(conf.handlers[Top.name])
      BY <1>2, <2>1, <2>4, NewProxyReturns DEF IsVirtualProxy, ReachesType,
         Handler
    <3>2. QED
      BY <1>1, <1>2, <2>4, <3>1, HandlerServices
  <2>5. QED
    BY <2>1, <2>2, <2>3, <2>4
<1>4. CASE makeRedirectHandler
  <2>1. /\ Handler.type = "Redirect" /\ UNCHANGED <<phase, services>>
        /\ \/ resolutionMap' = resolutionMap \cup {Top.name}
           \/ UNCHANGED resolutionMap
    BY <1>4 DEF makeRedirectHandler, Configured
  <2>2. ~IsVirtualProxy(conf.handlers[Top.name])
    BY <2>1 DEF IsVirtualProxy, Handler
  <2>3. QED
    BY <1>1, <1>2, <2>1, <2>2, HandlerServices, NoServices
<1>5. CASE UseHandlerType \/ NoSuchType
  <2>1. UNCHANGED <<phase, services, resolutionMap>>
    BY <1>5 DEF UseHandlerType, NoSuchType, outVars
  <2>2. QED
    BY <1>1, <2>1, NoServices
<1>6. QED
  BY <1>3, <1>4, <1>5 DEF handlerForConfig

\* The services are those of the servers and handlers that are there.
LEMMA LoadServices ==
  ASSUME PlaceInv, RegistryInv, ServersInv, ServicesInv,
         instantiateServersFromConfig
  PROVE  ServicesInv'
<1>1. CASE ParseConfig
  <2>1. /\ phase = "parse" /\ services = {} /\ resolutionMap = {}
        /\ UNCHANGED <<gen, conf, resolutionMap>>
    BY <1>1 DEF ParseConfig, loadVars, registryVars, PlaceInv
  <2>2. CASE conf.read # "ok"
    BY <1>1, <2>1, <2>2 DEF ParseConfig, ServicesInv, Finish, Service
  <2>3. CASE conf.read = "ok"
    <3>1. /\ phase' = "servers" /\ pending' = DOMAIN conf.http
          /\ services' \subseteq {Service("metrics", "")}
      BY <1>1, <2>3 DEF ParseConfig
    <3>2. services' \subseteq [gen : {gen}, what : {"metrics"}, by : Names]
      <4>1. Service("metrics", "") \in
              [gen : {gen}, what : {"metrics"}, by : Names]
        BY DEF Service, Names
      <4>2. QED
        BY <3>1, <4>1
    <3>3. By("http")' = {}
      BY <3>2 DEF By
    <3>4. \A n : Service("proxy", n)' \notin services'
      BY <3>2 DEF Service
    <3>5. QED
      BY <2>1, <3>1, <3>2, <3>3, <3>4 DEF ServicesInv
  <2>4. QED
    BY <2>2, <2>3
<1>2. CASE NextServer
  <2>1. PICK s \in pending :
          /\ srv' = s /\ pending' = pending \ {s}
          /\ phase' = "lookup" \/ Finish("error")
    BY <1>2 DEF NextServer
  <2>2. /\ phase = "servers"
        /\ UNCHANGED <<gen, conf, services, resolutionMap>>
    BY <1>2 DEF NextServer, loadVars, registryVars, outVars
  <2>3. /\ By("http")' = By("http")
        /\ \A n : Service("proxy", n)' = Service("proxy", n)
    BY <2>2 DEF By, Service
  <2>4. CASE phase' = "lookup"
    <3>1. pending' \cup Current' = pending \cup Current
      BY <2>1, <2>2, <2>4 DEF Current
    <3>2. QED
      BY <2>2, <2>3, <2>4, <3>1 DEF ServicesInv
  <2>5. CASE Finish("error")
    BY <2>2, <2>5, NoServices DEF Finish
  <2>6. QED
    BY <2>1, <2>4, <2>5
<1>3. CASE AllServers
  <2>1. /\ phase = "servers" /\ pending = {} /\ phase' = "done"
        /\ UNCHANGED <<gen, conf, services, resolutionMap>>
    BY <1>3 DEF AllServers, Finish, loadVars, registryVars, outVars
  <2>2. /\ By("http")' = By("http")
        /\ \A n : Service("proxy", n)' = Service("proxy", n)
    BY <2>1 DEF By, Service
  <2>3. By("http") = DOMAIN conf.http
    BY <2>1 DEF ServicesInv, Current
  <2>4. QED
    BY <2>1, <2>2, <2>3 DEF ServicesInv
<1>4. CASE HandlerForSpec
  <2>1. /\ phase = "lookup"
        /\ UNCHANGED <<gen, conf, pending, srv, services, resolutionMap>>
        /\ UNCHANGED <<phase, result>> \/ Finish("error")
    BY <1>4 DEF HandlerForSpec, AtServer, loadVars, outVars
  <2>2. QED
    BY <2>1, NoServices DEF Finish
<1>5. CASE UseHandler
  <2>1. /\ phase = "lookup"
        /\ UNCHANGED <<gen, conf, pending, srv, services, resolutionMap>>
    BY <1>5 DEF UseHandler, AtServer, loadVars, serverVars, outVars
  <2>2. QED
    BY <1>5, <2>1, UseHandlerEnds, NoServices DEF Finish
<1>6. CASE handlerFromPlugin \/ LookupHandler \/ HandlerFound
  <2>1. /\ phase = "lookup"
        /\ UNCHANGED <<gen, conf, pending, srv, services, resolutionMap>>
    BY <1>6 DEF handlerFromPlugin, LookupHandler, HandlerFound, HinitRuns,
       InFrame, loadVars, serverVars, outVars
  <2>2. UNCHANGED <<phase, result>> \/ Finish("panic")
    BY <1>6, Zenon DEF handlerFromPlugin, LookupHandler, HandlerFound
  <2>3. QED
    BY <2>1, <2>2, NoServices DEF Finish
<1>7. CASE wrapAuditHandler
  <2>1. /\ phase = "lookup" /\ phase' = "listen"
        /\ UNCHANGED <<gen, conf, pending, srv, services, resolutionMap>>
    BY <1>7 DEF wrapAuditHandler, AtServer, loadVars, registryVars
  <2>2. QED
    BY <2>1, NoServices
<1>8. CASE getTLSServerConfigWithPlugin
  <2>1. /\ phase = "listen"
        /\ UNCHANGED <<gen, conf, pending, srv, resolutionMap>>
        /\ srv \in DOMAIN conf.http /\ conf \in Configs
        /\ listeners \subseteq DOMAIN conf.http[srv].listeners
    BY <1>8 DEF getTLSServerConfigWithPlugin, loadVars, registryVars, PlaceInv,
       ServersInv
  <2>2. PICK l \in listeners : LET t == conf.http[srv].listeners[l] IN
          \/ t.tls /\ services' = services \cup {Service("tls", t.plugin)}
          \/ UNCHANGED services
    BY <1>8, Zenon DEF getTLSServerConfigWithPlugin, outVars
  <2> DEFINE t == conf.http[srv].listeners[l]
  <2>3. CASE t.tls /\ services' = services \cup {Service("tls", t.plugin)}
    <3>1. t \in ListenerConfig
      BY <2>1, ConfigParts DEF HTTPServerConfig
    <3>2. t.plugin \in Names
      <4>1. t.plugin \in STRING
        BY <2>3, <3>1 DEF ListenerConfig, TLSServerConfig
      <4>2. QED
        BY <4>1, Zenon DEF Names
    <3>3. {Service("tls", t.plugin)} \subseteq
            [gen : {gen}, what : {"tls"}, by : Names]
      BY <3>2 DEF Service
    <3>4. QED
      BY <1>8, <2>1, <2>3, <3>3, ListenerEnds, ServicesStay DEF Finish
  <2>4. CASE UNCHANGED services
    BY <1>8, <2>1, <2>4, ListenerEnds, NoServices DEF Finish
  <2>5. QED
    BY <2>2, <2>3, <2>4
<1>9. CASE newHTTPServer
  <2>1. /\ phase = "listen" /\ phase' = "servers"
        /\ UNCHANGED <<gen, conf, pending, srv, resolutionMap>>
        /\ services' = services \cup {Service("http", srv)}
        /\ srv \in DOMAIN conf.http \ pending /\ conf \in Configs
    BY <1>9 DEF newHTTPServer, loadVars, serverVars, registryVars, PlaceInv
  <2>2. Service("http", srv) \in [gen : {gen}, what : {"http"}, by : Names]
    BY <2>1, ConfigParts DEF Service, Names
  <2>3. By("http")' = By("http") \cup {srv}
    <3>1. Service("http", srv).what = "http" /\ Service("http", srv).by = srv
      BY DEF Service
    <3>2. QED
      BY <2>1, <3>1 DEF By
  <2>4. \A n : /\ Service("proxy", n)' = Service("proxy", n)
               /\ Service("proxy", n) # Service("http", srv)
    BY <2>1 DEF Service
  <2>5. By("http")' = DOMAIN conf.http \ pending
    BY <2>1, <2>3 DEF ServicesInv, Current
  <2>6. services' \subseteq
          [gen : {gen}, what : {"http", "metrics", "proxy", "tls"}, by : Names]
    BY <2>1, <2>2 DEF ServicesInv
  <2>7. \A n \in DOMAIN conf.handlers :
          Service("proxy", n)' \in services' <=>
            n \in resolutionMap' /\ IsVirtualProxy(conf.handlers[n])
    BY <2>1, <2>4 DEF ServicesInv
  <2>8. QED
    BY <2>1, <2>5, <2>6, <2>7 DEF ServicesInv, Current
<1>10. QED
  BY <1>1, <1>2, <1>3, <1>4, <1>5, <1>6, <1>7, <1>8, <1>9,
     HinitReturnsServices, handlerForConfigServices
     DEF instantiateServersFromConfig

-----------------------------------------------------------------------------
(***************************************************************************)
(* What is acquired and what is released.                                  *)
(***************************************************************************)

OnceOK(r) ==
  LET h == conf.handlers[r.by] IN
  /\ r.what = "hinit" /\ h.config.out = "handler" => r.n = 0
  /\ r.what = "plugin" /\ h.fromPlugin.out = "handler" => r.n = 0
  /\ r.what = "module" /\ NewProxy(h.config).out = "handler" =>
       r.n <= Len(h.config.modules)

\* Every nonempty set of naturals has a smallest element.
LEMMA SmallestNumber ==
  ASSUME NEW T \in SUBSET Nat, T # {}
  PROVE  \E n \in T : \A m \in T : n <= m
<1>1. PICK n \in T : \A m \in T : ~ (<<m, n>> \in OpToRel(<, Nat))
  BY NatLessThanWellFounded, WFMin
<1>2. \A m \in T : ~ (m < n)
  BY <1>1 DEF OpToRel
<1>3. QED
  BY <1>2

\* No more modules are initialised than there are.
LEMMA InitModulesBound ==
  ASSUME NEW order \in Seq(Modules)
  PROVE  InitModules(order) \in 0 .. Len(order)
<1> DEFINE bad == {i \in DOMAIN order : order[i] # "ok"}
<1>1. Len(order) \in Nat /\ DOMAIN order = 1 .. Len(order)
  BY LenProperties
<1>2. CASE bad = {}
  BY <1>1, <1>2 DEF InitModules
<1>3. CASE bad # {}
  <2> DEFINE first == CHOOSE i \in bad : \A k \in bad : i <= k
  <2>1. bad \in SUBSET Nat
    BY <1>1
  <2>2. \E i \in bad : \A k \in bad : i <= k
    BY <1>3, <2>1, SmallestNumber
  <2>3. first \in bad
    BY <2>2
  <2>4. InitModules(order) = first - 1
    BY <1>3, Zenon DEF InitModules
  <2> HIDE DEF first
  <2>5. first \in 1 .. Len(order)
    BY <1>1, <2>3
  <2>6. QED
    BY <1>1, <2>4, <2>5
<1>4. QED
  BY <1>2, <1>3

\* A step that acquires some resources and releases others later, and adds
\* some handlers.
LEMMA Acquire ==
  ASSUME HeldInv, phase # "idle", UNCHANGED <<gen, conf>>,
         NEW more \in SUBSET Resources, IsFiniteSet(more),
         held' = held \cup more, gen \in Nat,
         cleanups \subseteq cleanups', cleanups' \subseteq Resources,
         NEW news, resolutionMap' = resolutionMap \cup news,
         \A n \in news : LET h == conf.handlers[n] IN
           h.type = "ReverseProxy" /\ ReachesType(h) =>
             NewProxy(h.config).out = "handler",
         \A r \in more : r.gen = gen /\ HeldOK(r)' /\ OnceOK(r)
  PROVE  HeldInv'
<1>1. held' \subseteq Resources /\ IsFiniteSet(held')
  BY FS_Union DEF HeldInv
<1>2. \A r \in held' : r.gen <= gen'
  BY DEF HeldInv
<1>3. \A r : HeldOK(r) => HeldOK(r)'
  BY DEF HeldOK
<1>4. \A r \in held' : r.gen = gen' => HeldOK(r)'
  BY <1>3 DEF HeldInv
<1>5. \A r : OnceOK(r)' <=> OnceOK(r)
  BY DEF OnceOK
<1>6. ConfiguredOnce <=> \A r \in held : r.gen = gen => OnceOK(r)
  BY Zenon DEF ConfiguredOnce, OnceOK
<1>7. ConfiguredOnce' <=> \A r \in held' : r.gen = gen' => OnceOK(r)'
  BY Zenon DEF ConfiguredOnce, OnceOK
<1>8. ConfiguredOnce'
  BY <1>5, <1>6, <1>7 DEF HeldInv
<1>9. \A n \in resolutionMap' : LET h == conf.handlers[n] IN
        h.type = "ReverseProxy" /\ ReachesType(h) =>
          NewProxy(h.config).out = "handler"
  BY DEF HeldInv
<1>10. QED
  BY <1>1, <1>2, <1>4, <1>8, <1>9 DEF HeldInv

\* A step that acquires nothing.
LEMMA NothingAcquired ==
  ASSUME HeldInv, phase # "idle", gen \in Nat,
         UNCHANGED <<gen, conf, held, cleanups, resolutionMap>>
  PROVE  HeldInv'
<1>1. held' = held \cup {} /\ resolutionMap' = resolutionMap \cup {}
  OBVIOUS
<1>2. cleanups' \subseteq Resources
  BY DEF HeldInv
<1>3. QED
  BY <1>1, <1>2, FS_EmptySet, Acquire

\* What is acquired for the first time has the number 0.
LEMMA FirstResource ==
  ASSUME NEW by, NEW what
  PROVE  LET r == Resource(by, what) IN
         /\ r.gen = gen /\ r.by = by /\ r.what = what
         /\ (\A x \in held : ~(x.gen = gen /\ x.by = by /\ x.what = what))
              => r.n = 0
<1> DEFINE same == {x \in held : x.gen = gen /\ x.by = by /\ x.what = what}
<1>1. Resource(by, what) =
        [gen |-> gen, by |-> by, what |-> what, n |-> Cardinality(same)]
  BY DEF Resource
<1>2. (\A x \in held : ~(x.gen = gen /\ x.by = by /\ x.what = what))
        => Cardinality(same) = 0
  BY FS_EmptySet
<1> HIDE DEF same
<1>3. QED
  BY <1>1, <1>2

\* A resource that is acquired alone.
LEMMA AcquireOne ==
  ASSUME HeldInv, phase # "idle", UNCHANGED <<gen, conf>>, gen \in Nat,
         NEW by \in STRING,
         NEW what \in {"module", "plugin", "hinit", "log", "tls"},
         NEW r, r = Resource(by, what),
         held' \in {held, held \cup {r}},
         cleanups \subseteq cleanups', cleanups' \subseteq cleanups \cup {r},
         NEW news, resolutionMap' = resolutionMap \cup news,
         \A n \in news : LET h == conf.handlers[n] IN
           h.type = "ReverseProxy" /\ ReachesType(h) =>
             NewProxy(h.config).out = "handler",
         HeldOK(r)', OnceOK(r)
  PROVE  HeldInv'
<1>1. r \in Resources /\ r.gen = gen
  BY ResourceIsResource, FirstResource DEF HeldInv
<1>2. cleanups' \subseteq Resources
  BY <1>1 DEF HeldInv
<1>3. IsFiniteSet({}) /\ IsFiniteSet({r})
  BY FS_EmptySet, FS_Singleton
<1>4. CASE held' = held
  <2> DEFINE more == {}
  <2>1. /\ held' = held \cup more /\ more \in SUBSET Resources
        /\ IsFiniteSet(more) /\ \A x : x \notin more
    BY <1>3, <1>4
  <2> HIDE DEF more
  <2>2. QED
    BY <1>2, <2>1, Acquire
<1>5. CASE held' = held \cup {r}
  BY <1>1, <1>2, <1>3, <1>5, Acquire
<1>6. QED
  BY <1>4, <1>5

\* The function's resource, and its handler.
LEMMA HinitReturnsHeld ==
  ASSUME PlaceInv, RegistryInv, HeldInv, HinitReturns
  PROVE  HeldInv'
<1>1. /\ phase = "lookup" /\ stack # <<>> /\ Top.stage \in {"plugin", "hinit"}
      /\ UNCHANGED <<gen, conf>> /\ conf \in Configs /\ gen \in Nat
  BY DEF HinitReturns, HinitRuns, InFrame, loadVars, PlaceInv
<1>2. /\ Top.name \in DOMAIN conf.handlers /\ CallOK(conf.handlers, Top)
      /\ Top.name \notin resolutionMap
  BY <1>1, TopCall
<1>3. Top.name \in STRING
  BY <1>1, <1>2, ConfigParts
<1>4. CASE Hinit.out = "failed"
  <2>1. UNCHANGED <<held, cleanups, resolutionMap>>
    BY <1>4 DEF HinitReturns, outVars
  <2>2. QED
    BY <1>1, <2>1, NothingAcquired
<1>5. CASE Hinit.out # "failed"
  <2> DEFINE leaves == Hinit.out = "nil" /\ Top.stage = "plugin"
             news == IF Hinit.out = "handler" THEN {Top.name} ELSE {}
  <2>1. PICK r : r = Resource(Top.name, Top.stage)
    OBVIOUS
  <2>2. /\ r.by = Top.name /\ r.what = Top.stage
        /\ (\A x \in held :
              ~(x.gen = gen /\ x.by = Top.name /\ x.what = Top.stage))
             => r.n = 0
    BY <2>1, FirstResource
  <2>3. PICK res \in {{}, {r}} :
          /\ held' = held \cup res
          /\ IF leaves THEN UNCHANGED <<resolutionMap, cleanups>>
             ELSE /\ cleanups' = cleanups \cup res
                  /\ resolutionMap' = resolutionMap \cup news
    <3> DEFINE res == IF Hinit.cleanup THEN {Resource(Top.name, Top.stage)}
                      ELSE {}
    <3>1. /\ held' = held \cup res
          /\ IF leaves THEN UNCHANGED <<resolutionMap, cleanups>>
             ELSE /\ cleanups' = cleanups \cup res
                  /\ resolutionMap' = resolutionMap \cup news
      BY <1>5 DEF HinitReturns, Configured
    <3>2. res \in {{}, {r}}
      BY <2>1
    <3> HIDE DEF res, news, leaves
    <3>3. QED
      BY <3>1, <3>2
  <2>4. OnceOK(r)
    <3>1. CASE Hinit.out = "handler"
      <4>1. \A x \in held : ~(/\ x.gen = gen /\ x.by = Top.name
                             /\ x.what = Top.stage)
        BY <1>1, <1>2, <3>1 DEF HeldInv, HeldOK, Hinit, Handler
      <4>2. QED
        BY <1>1, <2>2, <4>1 DEF OnceOK
    <3>2. CASE Hinit.out # "handler"
      BY <1>1, <2>2, <3>2 DEF OnceOK, Hinit, Handler
    <3>3. QED
      BY <3>1, <3>2
  <2>5. CASE leaves
    <3>1. HeldOK(r)'
      BY <1>1, <1>2, <2>2, <2>5 DEF HeldOK, Hinit, Handler
    <3> DEFINE none == {}
    <3>2. /\ held' \in {held, held \cup {r}} /\ cleanups' = cleanups
          /\ resolutionMap' = resolutionMap \cup none /\ \A n : n \notin none
      BY <2>3, <2>5
    <3> HIDE DEF none
    <3>3. QED
      BY <1>1, <1>3, <2>1, <2>4, <3>1, <3>2, AcquireOne
  <2>6. CASE ~leaves
    <3>1. resolutionMap' = resolutionMap \cup news
      BY <2>3, <2>6
    <3>2. \A n \in news : ~(conf.handlers[n].type = "ReverseProxy"
                           /\ ReachesType(conf.handlers[n]))
      BY <1>1, <1>2 DEF CallOK, ReachesType, Hinit, Handler, registeredTypes
    <3>3. CASE res = {}
      <4>1. held' = held \cup {} /\ cleanups' = cleanups
        BY <2>3, <2>6, <3>3
      <4>2. cleanups' \subseteq Resources
        BY <4>1 DEF HeldInv
      <4> HIDE DEF news
      <4>3. QED
        BY <1>1, <3>1, <3>2, <4>1, <4>2, FS_EmptySet, Acquire
    <3>4. CASE res = {r}
      <4>1. held' = held \cup {r} /\ cleanups' = cleanups \cup {r}
        BY <2>3, <2>6, <3>4
      <4>2. HeldOK(r)'
        BY <1>1, <1>2, <2>2, <3>1, <4>1 DEF HeldOK, Hinit, Handler
      <4> HIDE DEF news
      <4>3. QED
        BY <1>1, <1>3, <2>1, <2>4, <3>1, <3>2, <4>1, <4>2, AcquireOne
    <3>5. QED
      BY <2>3, <3>3, <3>4
  <2>7. QED
    BY <2>5, <2>6
<1>6. QED
  BY <1>4, <1>5

\* The modules of a proxy.
LEMMA ConfigureProxyHeld ==
  ASSUME PlaceInv, RegistryInv, HeldInv, handlerForConfig, ConfigureProxy
  PROVE  HeldInv'
<1>1. /\ phase = "lookup" /\ stack # <<>> /\ Top.stage = "builtin"
      /\ UNCHANGED <<gen, conf>> /\ conf \in Configs /\ gen \in Nat
  BY DEF handlerForConfig, InFrame, loadVars, PlaceInv
<1>2. /\ Top.name \in DOMAIN conf.handlers /\ ReachesType(Handler)
      /\ Top.name \notin resolutionMap /\ HandlerConfig(Handler)
      /\ Handler.type = "ReverseProxy"
  BY <1>1, TopCall DEF CallOK, Handler, ConfigureProxy
<1> DEFINE c == Handler.config
           out == NewProxy(c).out
           k == NewProxy(c).modules
<1>3. c.modules \in Seq(Modules)
  BY <1>2 DEF HandlerConfig, ProxyConfig
<1>4. Len(c.modules) \in Nat /\ k \in 0 .. Len(c.modules)
  BY <1>3, InitModulesBound, NewProxyReturns, LenProperties
<1>5. PICK first : first = Resource(Top.name, "module")
  OBVIOUS
<1>6. first \in Resources
  BY <1>1, <1>2, <1>5, ConfigParts, ResourceIsResource DEF HeldInv
<1>7. /\ first.gen = gen /\ first.by = Top.name /\ first.what = "module"
      /\ (\A x \in held :
            ~(x.gen = gen /\ x.by = Top.name /\ x.what = "module"))
           => first.n = 0
  BY <1>5, FirstResource
<1>8. PICK more : /\ more = {[first EXCEPT !.n = @ + i] : i \in 1 .. k}
                  /\ held' = held \cup more
                  /\ \/ /\ out = "handler"
                        /\ resolutionMap' = resolutionMap \cup {Top.name}
                        /\ cleanups' = cleanups \cup more
                     \/ out # "handler" /\ UNCHANGED <<resolutionMap, cleanups>>
  BY <1>5 DEF ConfigureProxy, Configured, registryVars
<1> HIDE DEF k
<1>9. \A r \in more : /\ r \in Resources /\ r.gen = gen /\ r.by = Top.name
                      /\ r.what = "module"
                      /\ \E i \in 1 .. k : r.n = first.n + i
  BY <1>4, <1>6, <1>7, <1>8 DEF Resources
<1>10. IsFiniteSet(more)
  <2> DEFINE f == [i \in 1 .. k |-> [first EXCEPT !.n = @ + i]]
  <2>1. IsFiniteSet(1 .. k)
    BY <1>4, FS_Interval
  <2>2. f \in Surjection(1 .. k, more)
    BY <1>8 DEF Surjection
  <2>3. QED
    BY <2>1, <2>2, FS_Surjection
<1>11. \A r \in more : OnceOK(r)
  <2>1. CASE out = "handler"
    <3>1. \A x \in held : ~(x.gen = gen /\ x.by = Top.name /\ x.what = "module")
      BY <1>1, <1>2, <2>1 DEF HeldInv, HeldOK, Handler
    <3>2. first.n = 0
      BY <1>7, <3>1
    <3>3. \A r \in more : r.n <= Len(c.modules)
      BY <1>4, <1>9, <3>2
    <3>4. QED
      BY <1>9, <3>3 DEF OnceOK, Handler
  <2>2. CASE out # "handler"
    BY <1>9, <2>2 DEF OnceOK, Handler
  <2>3. QED
    BY <2>1, <2>2
<1>12. CASE out = "handler"
  <2>1. /\ resolutionMap' = resolutionMap \cup {Top.name}
        /\ cleanups' = cleanups \cup more
    BY <1>8, <1>12
  <2>2. \A r \in more : HeldOK(r)'
    BY <1>1, <1>2, <1>9, <2>1 DEF HeldOK, Handler
  <2>3. cleanups' \subseteq Resources
    BY <1>9, <2>1 DEF HeldInv
  <2> DEFINE news == {Top.name}
  <2>4. /\ \A n \in news : NewProxy(conf.handlers[n].config).out = "handler"
        /\ resolutionMap' = resolutionMap \cup news
    BY <1>12, <2>1 DEF Handler
  <2>5. more \in SUBSET Resources /\ held' = held \cup more
    BY <1>8, <1>9
  <2>6. phase # "idle" /\ cleanups \subseteq cleanups'
    BY <1>1, <2>1
  <2>7. \A r \in more : r.gen = gen /\ HeldOK(r)' /\ OnceOK(r)
    BY <1>9, <1>11, <2>2
  <2> HIDE DEF news
  <2>8. QED
    BY <1>1, <1>10, <2>3, <2>4, <2>5, <2>6, <2>7, Acquire
<1>13. CASE out # "handler"
  <2>1. UNCHANGED <<resolutionMap, cleanups>>
    BY <1>8, <1>13
  <2>2. \A r \in more : HeldOK(r)'
    BY <1>1, <1>2, <1>9, <1>13 DEF HeldOK, Handler
  <2> DEFINE none == {}
  <2>3. /\ cleanups' \subseteq Resources /\ cleanups \subseteq cleanups'
        /\ resolutionMap' = resolutionMap \cup none /\ \A n : n \notin none
    BY <2>1 DEF HeldInv
  <2>4. more \in SUBSET Resources /\ held' = held \cup more
    BY <1>8, <1>9
  <2>5. \A r \in more : r.gen = gen /\ HeldOK(r)' /\ OnceOK(r)
    BY <1>9, <1>11, <2>2
  <2>6. phase # "idle"
    BY <1>1
  <2> HIDE DEF none
  <2>7. QED
    BY <1>1, <1>10, <2>3, <2>4, <2>5, <2>6, Acquire
<1>14. QED
  BY <1>12, <1>13

\* The other types hold nothing of their own.
LEMMA handlerForConfigHeld ==
  ASSUME PlaceInv, RegistryInv, HeldInv, handlerForConfig
  PROVE  HeldInv'
<1>1. /\ phase = "lookup" /\ stack # <<>> /\ Top.stage = "builtin"
      /\ UNCHANGED <<gen, conf>> /\ gen \in Nat
  BY DEF handlerForConfig, InFrame, loadVars, PlaceInv
<1>2. CASE makeRedirectHandler
  <2>1. CASE Handler.config.parses
    <3>1. /\ Handler.type = "Redirect" /\ held' = held
          /\ cleanups' = cleanups \cup Top.cf
          /\ resolutionMap' = resolutionMap \cup {Top.name}
      BY <1>2, <2>1 DEF makeRedirectHandler, Configured
    <3>2. Top.cf \subseteq Resources
      BY <1>1, TopCall DEF Calls
    <3> DEFINE none == {}
               news == {Top.name}
    <3>3. /\ cleanups' \subseteq Resources /\ cleanups \subseteq cleanups'
          /\ held' = held \cup none /\ none \in SUBSET Resources
          /\ IsFiniteSet(none) /\ \A r : r \notin none
      BY <3>1, <3>2, FS_EmptySet DEF HeldInv
    <3>4. /\ \A n \in news : conf.handlers[n].type # "ReverseProxy"
          /\ resolutionMap' = resolutionMap \cup news
      BY <3>1 DEF Handler
    <3>5. phase # "idle"
      BY <1>1
    <3> HIDE DEF none, news
    <3>6. QED
      BY <1>1, <3>3, <3>4, <3>5, Acquire
  <2>2. CASE ~Handler.config.parses
    <3>1. UNCHANGED <<held, cleanups, resolutionMap>>
      BY <1>2, <2>2 DEF makeRedirectHandler
    <3>2. QED
      BY <1>1, <3>1, NothingAcquired
  <2>3. QED
    BY <2>1, <2>2
<1>3. CASE UseHandlerType \/ NoSuchType
  <2>1. UNCHANGED <<held, cleanups, resolutionMap>>
    BY <1>3 DEF UseHandlerType, NoSuchType, outVars
  <2>2. QED
    BY <1>1, <2>1, NothingAcquired
<1>4. QED
  BY <1>2, <1>3, ConfigureProxyHeld DEF handlerForConfig

\* What a load holds is released with it.
LEMMA LoadHeld ==
  ASSUME PlaceInv, RegistryInv, ServersInv, HeldInv,
         instantiateServersFromConfig
  PROVE  HeldInv'
<1>1. CASE \/ ParseConfig \/ NextServer \/ AllServers \/ HandlerForSpec
           \/ UseHandler \/ handlerFromPlugin \/ LookupHandler \/ HandlerFound
           \/ newHTTPServer
  <2>1. /\ UNCHANGED <<gen, conf, held, cleanups, resolutionMap>>
        /\ phase # "idle" /\ gen \in Nat
    BY <1>1 DEF ParseConfig, NextServer, AllServers, HandlerForSpec, UseHandler,
       handlerFromPlugin, LookupHandler, HandlerFound, newHTTPServer, AtServer,
       HinitRuns, InFrame, loadVars, registryVars, outVars, PlaceInv
  <2>2. QED
    BY <2>1, NothingAcquired
<1>2. CASE wrapAuditHandler
  <2>1. PICK r : r = Resource(srv, "log")
    OBVIOUS
  <2>2. /\ phase = "lookup" /\ UNCHANGED <<gen, conf>> /\ gen \in Nat
        /\ srv \in STRING /\ resolutionMap' = resolutionMap \cup {}
        /\ \/ cleanups' = cleanups \cup {r} /\ held' \in {held, held \cup {r}}
           \/ UNCHANGED <<cleanups, held>>
    BY <1>2, <2>1, ConfigParts DEF wrapAuditHandler, AtServer, loadVars,
       registryVars, PlaceInv
  <2>3. r.what = "log" /\ r.by = srv
    BY <2>1, FirstResource
  <2>4. OnceOK(r)
    BY <2>3 DEF OnceOK
  <2>5. CASE cleanups' = cleanups \cup {r} /\ held' \in {held, held \cup {r}}
    <3>1. HeldOK(r)'
      BY <2>3, <2>5 DEF HeldOK
    <3> DEFINE none == {}
    <3>2. /\ resolutionMap' = resolutionMap \cup none /\ \A n : n \notin none
          /\ phase # "idle" /\ cleanups \subseteq cleanups'
      BY <2>2, <2>5
    <3> HIDE DEF none
    <3>3. QED
      BY <2>1, <2>2, <2>4, <2>5, <3>1, <3>2, AcquireOne
  <2>6. CASE UNCHANGED <<cleanups, held>>
    BY <2>2, <2>6, NothingAcquired
  <2>7. QED
    BY <2>2, <2>5, <2>6
<1>3. CASE getTLSServerConfigWithPlugin
  <2>1. /\ phase = "listen" /\ UNCHANGED <<gen, conf, resolutionMap>>
        /\ srv \in DOMAIN conf.http /\ conf \in Configs /\ gen \in Nat
        /\ listeners \subseteq DOMAIN conf.http[srv].listeners
    BY <1>3 DEF getTLSServerConfigWithPlugin, loadVars, registryVars, PlaceInv,
       ServersInv
  <2>2. PICK l \in listeners : LET t == conf.http[srv].listeners[l] IN
          \/ /\ t.tls /\ held' = held \cup {Resource(t.plugin, "tls")}
             /\ cleanups' = cleanups \cup {Resource(t.plugin, "tls")}
          \/ UNCHANGED <<held, cleanups>>
    BY <1>3, Zenon DEF getTLSServerConfigWithPlugin, outVars
  <2> DEFINE t == conf.http[srv].listeners[l]
  <2>3. CASE /\ t.tls /\ held' = held \cup {Resource(t.plugin, "tls")}
             /\ cleanups' = cleanups \cup {Resource(t.plugin, "tls")}
    <3>1. t \in ListenerConfig
      BY <2>1, ConfigParts DEF HTTPServerConfig
    <3>2. t.plugin \in STRING
      BY <2>3, <3>1 DEF ListenerConfig, TLSServerConfig
    <3>3. PICK r : r = Resource(t.plugin, "tls")
      OBVIOUS
    <3>4. r.what = "tls" /\ r.by = t.plugin
      BY <3>3, FirstResource
    <3>5. OnceOK(r) /\ HeldOK(r)'
      BY <2>3, <3>3, <3>4 DEF OnceOK, HeldOK
    <3> DEFINE none == {}
    <3>6. /\ resolutionMap' = resolutionMap \cup none /\ \A n : n \notin none
          /\ phase # "idle" /\ held' \in {held, held \cup {r}}
          /\ cleanups' = cleanups \cup {r}
      BY <2>1, <2>3, <3>3
    <3> HIDE DEF t, none
    <3>7. QED
      BY <2>1, <3>2, <3>3, <3>5, <3>6, AcquireOne
  <2>4. CASE UNCHANGED <<held, cleanups>>
    BY <2>1, <2>4, NothingAcquired
  <2>5. QED
    BY <2>2, <2>3, <2>4
<1>4. QED
  BY <1>1, <1>2, <1>3, HinitReturnsHeld, handlerForConfigHeld
     DEF instantiateServersFromConfig

=============================================================================
