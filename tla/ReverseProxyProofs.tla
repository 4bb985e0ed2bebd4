------------------------- MODULE ReverseProxyProofs -------------------------
(***************************************************************************)
(* Proofs about ReverseProxy, for every set of module chains, of requests  *)
(* and of metrics specs, and every number of reads of the body.            *)
(***************************************************************************)
EXTENDS ReverseProxy, TLAPS

(***************************************************************************)
(* The inductive invariant.  TypeOK speaks of the variables a step         *)
(* changes; what ServeHTTP is given never changes.                         *)
(***************************************************************************)
ConfigTypes ==
  /\ chain \in Seq(Module) /\ req \in Request /\ spec \in MetricsSpec
  /\ notifier \in BOOLEAN /\ flushing \in BOOLEAN

\* The stages of the handler: before a module answered or the headers were
\* made ready, before anything of a response is known, and while one is sent.
Choosing == {"start", "context", "chain", "alternate"}
Asking   == {"start", "context", "chain", "roundtrip"}
Copying  == {"read", "write", "writing", "stop"}
Over     == {"return", "end"}

\* The incoming and the outgoing request share a header map until it is
\* copied; what is not the client's by the end of the chain is a module's.
HeaderInv ==
  /\ ~hdr.copied => hdr.out = hdr.in
  /\ pc \in Choosing =>
       /\ hdr.in = req.header
       /\ \A k \in Headers : hdr.out[k] \in {req.header[k], "module"}

\* Where the response comes from, and which modules have seen it.
ResponseInv ==
  /\ pc \in Choosing => j > 0
  /\ pc \in Asking => res = NoResponse /\ modified = <<>>
  /\ pc = "alternate" =>
       res.from = "module" /\ res.status = 404 /\ modified = <<>>
  /\ pc = "response" => res.from = "backend" /\ modified = <<>>
  /\ pc = "modify" => /\ res.from = "backend"
                      /\ j <= Len(chain) /\ Len(modified) = Len(chain) - j
  /\ pc \in {"send", "close"} \cup Copying /\ res.from = "backend" =>
       Len(modified) = Len(chain)
  /\ pc = "send" => res.status \in {200, 404}
  /\ res.from = "backend" => res.status = 200
  /\ res.from = "backend" /\ pc # "response" => res.hop # "backend"

\* One status, given when the head is sent or something fails.
AnswerInv ==
  /\ wrote = <<>> \/ \E s \in {200, 404, 499, 500, 502} : wrote = <<s>>
  /\ pc \in Asking \cup {"alternate", "response", "modify", "send", "panic",
                        "recovered"} => wrote = <<>>
  /\ pc \in {"close"} \cup Copying => wrote # <<>>
  /\ pc \in Over /\ wrote = <<>> => gone /\ res.from = "module"
  /\ pc \in Over /\ res.from = "backend" =>
       wrote = <<500>> \/ Len(modified) = Len(chain)

\* The client's end of the connection.
ClientInv ==
  /\ notify # "no" => gone
  /\ cancelled /\ ~Ended => gone

\* The mutex of the maxLatencyWriter, and the body of the backend.
LatencyInv ==
  /\ mu = "flusher" <=> flusher = "flush"
  /\ mu = "writer" <=> pc = "writing" /\ flushing
  /\ ~flushing => flusher = "off"
  /\ flusher \in {"select", "locking", "flush"} => pc \in Copying
  /\ body = "open" =>
       \/ pc \in {"response", "modify", "send", "close"} \cup Copying
       \/ pc \in {"panic", "recovered"}
       \/ pc \in Over /\ wrote = <<500>>

IInv ==
  /\ TypeOK
  /\ ConfigTypes
  /\ HeaderInv
  /\ ResponseInv
  /\ AnswerInv
  /\ ClientInv
  /\ LatencyInv
  /\ InRequestPreserved
  /\ HopByHopRemoved
  /\ ChainSymmetry
  /\ AnsweredOnce

USE DEF config, conn, latency, request, answer, meters

(***************************************************************************)
(* Header maps.                                                            *)
(***************************************************************************)
Shared(h) == ~h.copied => h.out = h.in

\* What is written goes to the outgoing request, and to the incoming one as
\* long as they share a map.
LEMMA Writes ==
  ASSUME NEW h \in HeaderMaps, NEW K, NEW v \in Values
  PROVE  /\ Write(h, K, v) \in HeaderMaps
         /\ Write(h, K, v).copied = h.copied
         /\ \A k \in Headers : Write(h, K, v).out[k] =
              IF k \in K THEN v ELSE h.out[k]
         /\ h.copied => Write(h, K, v).in = h.in
         /\ ~h.copied => Write(h, K, v).in = Write(h, K, v).out
<1> DEFINE m == [k \in Headers |-> IF k \in K THEN v ELSE h.out[k]]
<1>1. m \in [Headers -> Values]
  BY DEF HeaderMaps
<1>2. CASE h.copied
  <2>1. Write(h, K, v) = [h EXCEPT !.out = m]
    BY <1>2 DEF Write
  <2>2. QED
    BY <1>1, <1>2, <2>1 DEF HeaderMaps
<1>3. CASE ~h.copied
  <2>1. Write(h, K, v) = [h EXCEPT !.out = m, !.in = m]
    BY <1>3 DEF Write
  <2>2. QED
    BY <1>1, <1>3, <2>1 DEF HeaderMaps
<1>4. QED
  BY <1>2, <1>3

\* After EnsureWritableHeader() the incoming request is out of reach.
LEMMA WritesCopy ==
  ASSUME NEW h \in HeaderMaps, NEW K, NEW v \in Values, Shared(h)
  PROVE  /\ WriteCopy(h, K, v) \in HeaderMaps
         /\ Shared(WriteCopy(h, K, v))
         /\ WriteCopy(h, K, v).in = h.in
         /\ \A k \in Headers : WriteCopy(h, K, v).out[k] =
              IF k \in K THEN v ELSE h.out[k]
<1> DEFINE e == EnsureWritableHeader(h)
<1>1. e \in HeaderMaps /\ e.copied /\ e.in = h.in /\ e.out = h.out
  BY DEF EnsureWritableHeader, HeaderMaps, Shared
<1>2. CASE K = {}
  BY <1>2 DEF WriteCopy
<1>3. CASE K # {}
  <2>1. WriteCopy(h, K, v) = Write(e, K, v)
    BY <1>3 DEF WriteCopy
  <2>2. QED
    <3> HIDE DEF e
    <3> QED BY <1>1, <2>1, Writes DEF Shared
<1>4. QED
  BY <1>2, <1>3

\* Nothing of the client is left of a hop-by-hop header, or of one its
\* Connection header names.
LEMMA HopHeadersGo ==
  ASSUME NEW h \in HeaderMaps, Shared(h), req \in Request,
         \A k \in Headers : h.out[k] \in {req.header[k], "module"}
  PROVE  LET g == RemoveHopHeaders(h) IN
         /\ g \in HeaderMaps /\ Shared(g) /\ g.in = h.in
         /\ \A k \in Hop \cup req.named : g.out[k] # "client"
<1> DEFINE named == IF Has(h.out, "Connection") THEN req.named ELSE {}
           a == WriteCopy(h, named, "none")
           K == {k \in Hop : Has(a.out, k)}
           g == WriteCopy(a, K, "none")
<1>1. /\ req.named \subseteq Headers
      /\ req.named # {} => Has(req.header, "Connection")
  BY DEF Request
<1>2. /\ a \in HeaderMaps /\ Shared(a) /\ a.in = h.in
      /\ \A k \in Headers : a.out[k] = IF k \in named THEN "none" ELSE h.out[k]
  BY WritesCopy DEF Values
<1>3. /\ g \in HeaderMaps /\ Shared(g) /\ g.in = h.in
      /\ \A k \in Headers : g.out[k] = IF k \in K THEN "none" ELSE a.out[k]
  <2> HIDE DEF a, K
  <2> QED BY <1>2, WritesCopy DEF Values
<1>4. RemoveHopHeaders(h) = g
  BY DEF RemoveHopHeaders
<1>5. req.named \subseteq named
  <2>1. req.named # {} => Has(h.out, "Connection")
    BY <1>1 DEF Has, Headers, Hop
  <2>2. QED
    BY <2>1
<1>6. ASSUME NEW k \in req.named PROVE g.out[k] # "client"
  <2>1. k \in Headers /\ a.out[k] = "none"
    BY <1>1, <1>2, <1>5
  <2>2. g.out[k] = "none"
    <3> HIDE DEF a, g, K
    <3> QED BY <1>3, <2>1
  <2>3. QED
    BY <2>2
<1>7. ASSUME NEW k \in Hop PROVE g.out[k] # "client"
  <2>1. k \in Headers
    BY DEF Headers
  <2>2. k \notin K => a.out[k] \in {"none", "empty"}
    BY DEF Has
  <2>3. QED
    <3> HIDE DEF a, g, K
    <3> QED BY <1>3, <2>1, <2>2
<1>8. QED
  <2> HIDE DEF a, g, K, named
  <2> QED BY <1>3, <1>4, <1>6, <1>7

\* The User-Agent and the request id of the proxy do not replace the client's.
LEMMA OwnHeaders ==
  ASSUME NEW h \in HeaderMaps, Shared(h)
  PROVE  LET g == SetOwnHeaders(h) IN
         /\ g \in HeaderMaps /\ Shared(g)
         /\ \A k \in Headers \ {"User-Agent", "X-Request-ID"} :
              g.in[k] = h.in[k]
         /\ \A k \in {"User-Agent", "X-Request-ID"} :
              Has(h.in, k) => g.in[k] = h.in[k]
         /\ \A k \in Headers : g.out[k] \in {h.out[k], "empty", "session"}
<1> DEFINE a == IF h.out["User-Agent"] = "none"
                THEN Write(h, {"User-Agent"}, "empty") ELSE h
           g == IF Has(a.in, "X-Request-ID") THEN a
                ELSE Write(a, {"X-Request-ID"}, "session")
<1>0. {"User-Agent", "X-Request-ID"} \subseteq Headers
  BY DEF Headers
<1>1. /\ a \in HeaderMaps /\ Shared(a)
      /\ \A k \in Headers \ {"User-Agent"} : a.in[k] = h.in[k]
      /\ Has(h.in, "User-Agent") => a.in["User-Agent"] = h.in["User-Agent"]
      /\ \A k \in Headers : a.out[k] \in {h.out[k], "empty"}
  <2>1. CASE h.out["User-Agent"] # "none"
    BY <2>1
  <2>2. CASE h.out["User-Agent"] = "none"
    <3> DEFINE w == Write(h, {"User-Agent"}, "empty")
    <3>1. /\ w \in HeaderMaps /\ w.copied = h.copied
          /\ \A k \in Headers : w.out[k] =
               IF k \in {"User-Agent"} THEN "empty" ELSE h.out[k]
          /\ h.copied => w.in = h.in
          /\ ~h.copied => w.in = w.out
      BY Writes DEF Values
    <3>2. a = w
      BY <2>2
    <3>3. Shared(w)
      BY <3>1 DEF Shared
    <3>4. ~h.copied => ~Has(h.in, "User-Agent")
      BY <2>2 DEF Has, Shared
    <3>5. QED
      <4> HIDE DEF w, a
      <4> QED BY <1>0, <3>1, <3>2, <3>3, <3>4 DEF Shared
  <2>3. QED
    BY <2>1, <2>2
<1>2. /\ g \in HeaderMaps /\ Shared(g)
      /\ \A k \in Headers \ {"X-Request-ID"} : g.in[k] = a.in[k]
      /\ Has(a.in, "X-Request-ID") => g.in = a.in
      /\ \A k \in Headers : g.out[k] \in {a.out[k], "session"}
  <2> HIDE DEF a
  <2>1. CASE Has(a.in, "X-Request-ID")
    BY <1>1, <2>1
  <2>2. CASE ~Has(a.in, "X-Request-ID")
    <3> DEFINE w == Write(a, {"X-Request-ID"}, "session")
    <3>1. /\ w \in HeaderMaps /\ w.copied = a.copied
          /\ \A k \in Headers : w.out[k] =
               IF k \in {"X-Request-ID"} THEN "session" ELSE a.out[k]
          /\ a.copied => w.in = a.in
          /\ ~a.copied => w.in = w.out
      BY <1>1, Writes DEF Values
    <3>2. g = w
      BY <2>2
    <3>3. QED
      <4> HIDE DEF w, g
      <4> QED BY <1>1, <2>2, <3>1, <3>2 DEF Shared
  <2>3. QED
    BY <2>1, <2>2
<1>3. SetOwnHeaders(h) = g
  BY DEF SetOwnHeaders
<1>4. a.in["X-Request-ID"] = h.in["X-Request-ID"]
  BY <1>0, <1>1
<1>5. QED
  <2> HIDE DEF a, g
  <2> QED BY <1>0, <1>1, <1>2, <1>3, <1>4 DEF Has

(***************************************************************************)
(* The modules of a chain: what any of them may have done to the request   *)
(* when it returns.                                                        *)
(***************************************************************************)
Destinations == [scheme : Schemes, url : Hosts, host : Hosts]

\* ProcessRequest of any module leaves the incoming headers alone and answers
\* with one of the statuses the modules know.
LEMMA ModuleReturns ==
  ASSUME hdr \in HeaderMaps, Shared(hdr), dest \in Destinations,
         req \in Request, NEW m \in Module, NEW r \in ProcessRequest(m)
  PROVE  /\ r.hdr \in HeaderMaps /\ Shared(r.hdr) /\ r.hdr.in = hdr.in
         /\ \A k \in Headers : r.hdr.out[k] \in {hdr.out[k], "module"}
         /\ r.dest \in Destinations
         /\ r.status \in {0, 404, 502} /\ r.err \in BOOLEAN
         /\ r.status = 502 => r.err
<1> USE DEF Destinations
<1>0. dest.url \in Hosts /\ dest.host \in Hosts /\ InScheme \in Schemes
  BY DEF InScheme, Schemes
<1> DEFINE Goal ==
      /\ r.hdr \in HeaderMaps /\ Shared(r.hdr) /\ r.hdr.in = hdr.in
      /\ \A k \in Headers : r.hdr.out[k] \in {hdr.out[k], "module"}
      /\ r.dest \in Destinations
      /\ r.status \in {0, 404, 502} /\ r.err \in BOOLEAN
      /\ r.status = 502 => r.err
<1>A. ASSUME NEW d \in Destinations, r = Done(hdr, d) PROVE Goal
  BY <1>A DEF Done
<1>B. ASSUME r = CreateResponse(404) PROVE Goal
  BY <1>B DEF CreateResponse
<1>1. CASE m.type = "proxypass"
  <2> DEFINE K == IF m.forwarded THEN {"X-Forwarded-For"} ELSE {}
             h == WriteCopy(hdr, K, "module")
             d == IF m.rewriteHost THEN [dest EXCEPT !.host = dest.url]
                  ELSE dest
             L == IF m.rewriteForward /\ Has(h.out, "Destination")
                     /\ ~req.badDestination
                  THEN {"Destination"} ELSE {}
             g == WriteCopy(h, L, "module")
  <2>1. r = Done(g, d)
    BY <1>1 DEF ProcessRequest, ProxyPass
  <2>2. d \in Destinations
    BY <1>0
  <2>3. /\ h \in HeaderMaps /\ Shared(h) /\ h.in = hdr.in
        /\ \A k \in Headers : h.out[k] = IF k \in K THEN "module"
                                         ELSE hdr.out[k]
    BY WritesCopy DEF Values
  <2>4. /\ g \in HeaderMaps /\ Shared(g) /\ g.in = h.in
        /\ \A k \in Headers : g.out[k] = IF k \in L THEN "module"
                                         ELSE h.out[k]
    <3> HIDE DEF h, L
    <3> QED BY <2>3, WritesCopy DEF Values
  <2>5. QED
    <3> HIDE DEF g, h, d, K, L
    <3> QED BY <2>1, <2>2, <2>3, <2>4 DEF Done
<1>2. CASE m.type = "set_header"
  <2> DEFINE g == WriteCopy(hdr, m.request, "module")
  <2>1. r = Done(g, dest)
    BY <1>2 DEF ProcessRequest, SetHeader
  <2>2. /\ g \in HeaderMaps /\ Shared(g) /\ g.in = hdr.in
        /\ \A k \in Headers : g.out[k] = IF k \in m.request THEN "module"
                                         ELSE hdr.out[k]
    BY WritesCopy DEF Values
  <2>3. QED
    <3> HIDE DEF g
    <3> QED BY <2>1, <2>2 DEF Done
<1>3. CASE m.type = "forward_map_director"
  <2> DEFINE d == [dest EXCEPT !.scheme = "target", !.url = "target"]
  <2>1. r = Done(hdr, d) \/ r = CreateResponse(404)
    BY <1>3 DEF ProcessRequest, ForwardMap
  <2>2. d \in Destinations
    BY DEF Hosts, Schemes
  <2>3. QED
    <3> HIDE DEF d, Destinations
    <3> QED BY <1>A, <1>B, <2>1, <2>2
<1>4. CASE m.type = "host_suffix_director"
  <2> DEFINE d == [dest EXCEPT !.scheme = InScheme]
             e == [d EXCEPT !.url = "suffix"]
             f == [hdr |-> hdr, dest |-> d, status |-> 502, err |-> TRUE]
  <2>1. r = Done(hdr, e) \/ r = f
    BY <1>4 DEF ProcessRequest, HostSuffix
  <2>2. d \in Destinations /\ e \in Destinations
    BY <1>0 DEF Hosts
  <2>3. CASE r = f
    <3> HIDE DEF d
    <3> QED BY <2>2, <2>3
  <2>4. QED
    <3> HIDE DEF d, e, f, Destinations
    <3> QED BY <1>A, <2>1, <2>2, <2>3
<1>5. CASE m.type = "backendsettings"
  <2> DEFINE d == IF m.port THEN [dest EXCEPT !.url = dest.host] ELSE dest
             e == IF m.forceTLS THEN [d EXCEPT !.scheme = "https"] ELSE d
  <2>1. r = Done(hdr, e)
    BY <1>5 DEF ProcessRequest, BackendSettings
  <2>2. d \in Destinations
    BY <1>0
  <2>3. e \in Destinations
    <3> HIDE DEF d
    <3> QED BY <2>2 DEF Schemes
  <2>4. QED
    <3> HIDE DEF d, e, Destinations
    <3> QED BY <1>A, <2>1, <2>3
<1>6. CASE m.type = "plugin"
  <2> DEFINE f == [hdr |-> hdr, dest |-> dest, status |-> 0, err |-> TRUE]
  <2>1. r \in {Done(hdr, dest), CreateResponse(404), f}
    BY <1>6 DEF ProcessRequest, Plugin
  <2>2. CASE r = f
    BY <2>2
  <2>3. QED
    <3> HIDE DEF f, Destinations
    <3> QED BY <1>A, <1>B, <2>1, <2>2
<1>7. m.type \in {"proxypass", "set_header", "forward_map_director",
                  "host_suffix_director", "backendsettings", "plugin"}
  BY DEF Module, ProxyPassConfig, SetHeaderConfig, ForwardMapConfig,
     HostSuffixConfig, BackendSettingsConfig
<1>8. QED
  BY <1>1, <1>2, <1>3, <1>4, <1>5, <1>6, <1>7

(***************************************************************************)
(* What the steps leave alone.                                             *)
(***************************************************************************)
Others ==
  \/ Start \/ NewRequestContext \/ AlternateResponse \/ AllModified
  \/ SendHead \/ WriteBody \/ CloseBody \/ Return \/ LockForWrite \/ Stop
  \/ RoundTripFails \/ ReadBody \/ FlushLoop \/ Client \/ Watch
  \/ UNCHANGED vars

\* The steps that need a proof of their own, and the others.
LEMMA Steps ==
  ASSUME [Next]_vars
  PROVE  \/ CallModule \/ PrepareRequest \/ RemoveResponseHopHeaders
         \/ ModifyResponse \/ RoundTrip \/ Others
  BY DEF Next, Handler, Backend, Terminated, Others

\* What follows the modules leaves the request as they made it.
LEMMA HeadersStay ==
  ASSUME TypeOK,
         \/ Others \/ RemoveResponseHopHeaders \/ ModifyResponse \/ RoundTrip
  PROVE  /\ UNCHANGED <<config, hdr, dest>>
         /\ pc' \in Choosing => pc \in Choosing
         /\ pc' = "roundtrip" => pc = "roundtrip"
<1>1. CASE Start \/ NewRequestContext \/ AlternateResponse \/ AllModified
             \/ RoundTrip \/ RoundTripFails \/ RemoveResponseHopHeaders
  BY <1>1 DEF Choosing, Start, NewRequestContext, AlternateResponse,
     AllModified, RoundTrip, RoundTripFails, RemoveResponseHopHeaders, Fail
<1>2. CASE ModifyResponse \/ SendHead \/ ReadBody \/ LockForWrite \/ WriteBody
             \/ Stop \/ CloseBody \/ Return
  BY <1>2 DEF Choosing, ModifyResponse, SendHead, ReadBody, LockForWrite,
     WriteBody, Stop, CloseBody, Return, Fail
<1>3. CASE FlushLoop \/ Client \/ Watch \/ UNCHANGED vars
  BY <1>3 DEF FlushLoop, FlushTick, LockForFlush, Flush, Client, ClientLeaves,
     CloseNotify, Watch, vars
<1>4. QED
  BY <1>1, <1>2, <1>3 DEF Others

\* Few steps touch the response.
LEMMA ResponseStays ==
  ASSUME Others
  PROVE  UNCHANGED <<res, modified, config>>
<1>1. CASE Start \/ NewRequestContext \/ AlternateResponse \/ AllModified
             \/ RoundTripFails \/ SendHead \/ ReadBody \/ LockForWrite
             \/ WriteBody \/ Stop \/ CloseBody \/ Return
  BY <1>1 DEF Start, NewRequestContext, AlternateResponse, AllModified,
     RoundTripFails, SendHead, ReadBody, LockForWrite, WriteBody, Stop,
     CloseBody, Return
<1>2. CASE FlushLoop \/ Client \/ Watch \/ UNCHANGED vars
  BY <1>2 DEF FlushLoop, FlushTick, LockForFlush, Flush, Client, ClientLeaves,
     CloseNotify, Watch, vars
<1>3. QED
  BY <1>1, <1>2 DEF Others

\* The chain and the client's request are chosen once.
LEMMA ConfigStays ==
  ASSUME ConfigTypes, [Next]_vars
  PROVE  ConfigTypes'
<1>1. UNCHANGED config
  BY Steps, ResponseStays DEF CallModule, PrepareRequest,
     RemoveResponseHopHeaders, ModifyResponse, RoundTrip
<1>2. QED
  BY <1>1 DEF ConfigTypes

(***************************************************************************)
(* The request: the chain, and the headers it sends.                       *)
(***************************************************************************)

\* What the call of a module does to the request.
LEMMA Calls ==
  ASSUME IInv, CallModule
  PROVE  /\ pc = "chain" /\ pc' \in {"chain", "alternate", "return"}
         /\ hdr' \in HeaderMaps /\ Shared(hdr') /\ hdr'.in = hdr.in
         /\ \A k \in Headers : hdr'.out[k] \in {hdr.out[k], "module"}
         /\ dest' \in Destinations
         /\ j' \in 0 .. Len(chain) + 1
         /\ res' \in {ResponseOf(s) : s \in {0, 404, 502}}
         /\ pc' = "chain" => res' = NoResponse /\ wrote' = wrote
         /\ pc' = "alternate" => res' = ResponseOf(404) /\ wrote' = wrote
         /\ pc' = "return" => wrote' = Append(wrote, 500)
         /\ UNCHANGED <<config, session, body, reads, modified, conn,
                        latency, meters>>
<1>1. /\ pc = "chain" /\ j \in 1 .. Len(chain) /\ chain[j] \in Module
      /\ hdr \in HeaderMaps /\ Shared(hdr) /\ dest \in Destinations
      /\ req \in Request /\ Len(chain) \in Nat
  <2>1. pc = "chain" /\ j <= Len(chain) /\ j \in Nat /\ chain \in Seq(Module)
    BY DEF CallModule, IInv, TypeOK, ConfigTypes
  <2>2. j # 0
    BY <2>1 DEF IInv, ResponseInv, Choosing
  <2>3. QED
    BY <2>1, <2>2 DEF IInv, TypeOK, ConfigTypes, HeaderInv, Shared,
       Destinations
<1>2. PICK r \in ProcessRequest(chain[j]) :
        /\ hdr' = r.hdr /\ dest' = r.dest
        /\ res' = ResponseOf(r.status)
        /\ \/ r.err /\ Fail(500) /\ UNCHANGED j
           \/ /\ ~r.err /\ r.status # 0
              /\ pc' = "alternate" /\ UNCHANGED <<j, wrote>>
           \/ /\ ~r.err /\ r.status = 0 /\ j' = j + 1
              /\ UNCHANGED <<pc, wrote>>
  BY DEF CallModule
<1>3. /\ r.hdr \in HeaderMaps /\ Shared(r.hdr) /\ r.hdr.in = hdr.in
      /\ \A k \in Headers : r.hdr.out[k] \in {hdr.out[k], "module"}
      /\ r.dest \in Destinations
      /\ r.status \in {0, 404, 502}
      /\ r.status = 502 => r.err
  BY <1>1, ModuleReturns
<1>4. UNCHANGED <<config, session, body, reads, modified, conn, latency,
                  meters>>
  BY DEF CallModule
<1>5. ResponseOf(0) = NoResponse
  BY DEF ResponseOf
<1>6. CASE r.err /\ Fail(500) /\ UNCHANGED j
  BY <1>1, <1>2, <1>3, <1>4, <1>6 DEF Fail
<1>7. CASE /\ ~r.err /\ r.status # 0
           /\ pc' = "alternate" /\ UNCHANGED <<j, wrote>>
  <2>1. r.status = 404
    BY <1>3, <1>7
  <2>2. QED
    BY <1>1, <1>2, <1>3, <1>4, <1>7, <2>1
<1>8. CASE ~r.err /\ r.status = 0 /\ j' = j + 1 /\ UNCHANGED <<pc, wrote>>
  BY <1>1, <1>2, <1>3, <1>4, <1>5, <1>8
<1>9. QED
  BY <1>2, <1>6, <1>7, <1>8

\* Every step keeps the invariant of the request's headers.
LEMMA StepHeaders ==
  ASSUME IInv, [Next]_vars
  PROVE  /\ HeaderInv' /\ InRequestPreserved' /\ hdr' \in HeaderMaps
         /\ dest' \in Destinations
         /\ pc' = "roundtrip" =>
              \A k \in Hop \cup req.named : hdr'.out[k] # "client"
<1>0. /\ HeaderInv /\ InRequestPreserved /\ HopByHopRemoved /\ TypeOK
      /\ hdr \in HeaderMaps /\ dest \in Destinations /\ req \in Request
  BY DEF IInv, TypeOK, ConfigTypes, Destinations
<1>1. CASE CallModule
  <2>1. /\ pc = "chain" /\ pc' # "roundtrip" /\ UNCHANGED req
        /\ hdr' \in HeaderMaps /\ Shared(hdr') /\ hdr'.in = hdr.in
        /\ \A k \in Headers : hdr'.out[k] \in {hdr.out[k], "module"}
        /\ dest' \in Destinations
    BY <1>1, Calls
  <2>2. HeaderInv'
    BY <1>0, <2>1 DEF HeaderInv, Choosing, Shared
  <2>3. InRequestPreserved'
    BY <1>0, <2>1 DEF InRequestPreserved
  <2>4. QED
    BY <2>1, <2>2, <2>3
<1>2. CASE PrepareRequest
  <2> DEFINE a == RemoveHopHeaders(hdr)
             g == SetOwnHeaders(a)
  <2>1. /\ pc = "chain" /\ pc' = "roundtrip" /\ UNCHANGED <<req, dest>>
        /\ hdr' = g
    BY <1>2 DEF PrepareRequest
  <2>2. /\ hdr.in = req.header /\ Shared(hdr)
        /\ \A k \in Headers : hdr.out[k] \in {req.header[k], "module"}
    BY <1>0, <2>1 DEF HeaderInv, Choosing, Shared
  <2>3. /\ a \in HeaderMaps /\ Shared(a) /\ a.in = hdr.in
        /\ \A k \in Hop \cup req.named : a.out[k] # "client"
    BY <1>0, <2>2, HopHeadersGo
  <2>4. /\ g \in HeaderMaps /\ Shared(g)
        /\ \A k \in Headers \ {"User-Agent", "X-Request-ID"} :
             g.in[k] = a.in[k]
        /\ \A k \in {"User-Agent", "X-Request-ID"} :
             Has(a.in, k) => g.in[k] = a.in[k]
        /\ \A k \in Headers : g.out[k] \in {a.out[k], "empty", "session"}
    <3> HIDE DEF a
    <3> QED BY <2>3, OwnHeaders
  <2>5. Hop \cup req.named \subseteq Headers
    BY <1>0 DEF Request, Headers
  <2> HIDE DEF a, g
  <2>6. InRequestPreserved'
    BY <2>1, <2>2, <2>3, <2>4 DEF InRequestPreserved
  <2>7. HeaderInv'
    BY <2>1, <2>4 DEF HeaderInv, Choosing, Shared
  <2>8. \A k \in Hop \cup req.named : hdr'.out[k] # "client"
    BY <2>1, <2>3, <2>4, <2>5
  <2>9. QED
    BY <1>0, <2>1, <2>4, <2>6, <2>7, <2>8
<1>3. CASE \/ Others \/ RemoveResponseHopHeaders \/ ModifyResponse
           \/ RoundTrip
  <2>1. /\ UNCHANGED <<config, hdr, dest>>
        /\ pc' \in Choosing => pc \in Choosing
        /\ pc' = "roundtrip" => pc = "roundtrip"
    BY <1>0, <1>3, HeadersStay
  <2>2. HeaderInv' /\ InRequestPreserved'
    BY <1>0, <2>1 DEF HeaderInv, InRequestPreserved
  <2>3. QED
    BY <1>0, <2>1, <2>2 DEF HopByHopRemoved
<1>4. QED
  BY <1>1, <1>2, <1>3, Steps

(***************************************************************************)
(* The response: where it comes from, and the modules in reverse.          *)
(***************************************************************************)
Responses ==
  [from : {"none", "module", "backend"}, status : {0, 200, 404, 502},
   hop : {"none", "module", "backend"},
   location : {"none", "good", "bad", "proxy"}]

\* What a module answers is a response that is not the backend's.
LEMMA ResponsesOf ==
  /\ NoResponse \in Responses /\ NoResponse.from = "none"
  /\ \A s \in {0, 404, 502} : /\ ResponseOf(s) \in Responses
                              /\ ResponseOf(s).from # "backend"
  /\ ResponseOf(404).from = "module" /\ ResponseOf(404).status = 404
<1>1. NoResponse \in Responses /\ NoResponse.from = "none"
  BY DEF Responses, NoResponse
<1>2. ResponseOf(0) = NoResponse
  BY DEF ResponseOf
<1>3. ASSUME NEW s \in {404, 502}
      PROVE  /\ ResponseOf(s) \in Responses /\ ResponseOf(s).from = "module"
             /\ ResponseOf(s).status = s
  <2>1. s # 0
    OBVIOUS
  <2>2. ResponseOf(s) = [from |-> "module", status |-> s, hop |-> "none",
                         location |-> "none"]
    BY <2>1 DEF ResponseOf, NoResponse
  <2>3. s \in {0, 200, 404, 502}
    OBVIOUS
  <2>4. QED
    BY <2>2, <2>3 DEF Responses
<1>4. QED
  BY <1>1, <1>2, <1>3

\* What a module makes of a response is one of the same origin.
LEMMA ModifiedResponse ==
  ASSUME NEW m \in Module, res \in Responses
  PROVE  /\ Modified(m) \in Responses /\ Modified(m).from = res.from
         /\ Modified(m).status = res.status
         /\ Modified(m).hop \in {res.hop, "module"}
<1> DEFINE l == IF Rewrites(m) /\ res.location # "none" THEN "proxy"
                ELSE res.location
           h == IF m.type = "set_header" /\ m.responseHop THEN "module"
                ELSE res.hop
<1>1. Modified(m) = [res EXCEPT !.location = l, !.hop = h]
  BY DEF Modified, Responses
<1>2. /\ l \in {"none", "good", "bad", "proxy"}
      /\ h \in {res.hop, "module"}
  BY DEF Responses
<1>3. QED
  <2> HIDE DEF l, h
  <2>1. res.hop \in {"none", "module", "backend"}
    BY DEF Responses
  <2>2. h \in {"none", "module", "backend"}
    BY <1>2, <2>1
  <2>3. Modified(m) \in Responses
    <3>1. Modified(m) = [from |-> res.from, status |-> res.status,
                         hop |-> h, location |-> l]
      <4>1. res = [from |-> res.from, status |-> res.status,
                   hop |-> res.hop, location |-> res.location]
        BY DEF Responses
      <4>2. QED
        BY <1>1, <4>1
    <3>2. /\ res.from \in {"none", "module", "backend"}
          /\ res.status \in {0, 200, 404, 502}
      BY DEF Responses
    <3>3. l \in {"none", "good", "bad", "proxy"}
      BY <1>2
    <3>4. QED
      BY <2>2, <3>1, <3>2, <3>3 DEF Responses
  <2>4. /\ Modified(m).from = res.from /\ Modified(m).status = res.status
        /\ Modified(m).hop = h
    BY <1>1 DEF Responses
  <2>5. QED
    BY <1>2, <2>3, <2>4

\* The position in the chain, the response and the modules that saw it.
LEMMA StepResponse ==
  ASSUME IInv, [Next]_vars
  PROVE  /\ ResponseInv' /\ res' \in Responses
         /\ j' \in 0 .. Len(chain) + 1
         /\ modified' \in Seq(1 .. Len(chain))
         /\ \A i \in DOMAIN modified' : modified'[i] = Len(chain) + 1 - i
<1>0. /\ ResponseInv /\ TypeOK /\ res \in Responses /\ UNCHANGED chain
      /\ j \in 0 .. Len(chain) + 1 /\ Len(chain) \in Nat
      /\ chain \in Seq(Module)
      /\ modified \in Seq(1 .. Len(chain)) /\ Len(modified) \in Nat
      /\ \A i \in DOMAIN modified : modified[i] = Len(chain) + 1 - i
  BY ConfigStays, Steps, ResponseStays
  DEF IInv, TypeOK, ConfigTypes, Responses, ChainSymmetry, CallModule,
      PrepareRequest, RemoveResponseHopHeaders, ModifyResponse, RoundTrip
<1> USE DEF ResponseInv, Asking, Choosing, Copying
<1>1. CASE CallModule
  <2>1. /\ pc = "chain" /\ pc' \in {"chain", "alternate", "return"}
        /\ j' \in 0 .. Len(chain) + 1 /\ UNCHANGED modified
        /\ res' \in {ResponseOf(s) : s \in {0, 404, 502}}
        /\ pc' = "chain" => res' = NoResponse
        /\ pc' = "alternate" => res' = ResponseOf(404)
    BY <1>1, Calls
  <2>2. j' > 0
    BY <1>0, <1>1, <2>1 DEF CallModule
  <2>3. res' \in Responses /\ res'.from # "backend"
    BY <2>1, ResponsesOf
  <2>4. ResponseInv'
    BY <1>0, <2>1, <2>2, <2>3, ResponsesOf
  <2>5. QED
    BY <1>0, <2>1, <2>3, <2>4
<1>2. CASE PrepareRequest
  BY <1>0, <1>2, ResponsesOf DEF PrepareRequest
<1>3. CASE RoundTrip
  <2>1. /\ pc = "roundtrip" /\ pc' = "response" /\ UNCHANGED <<j, modified>>
        /\ res' \in Responses /\ res'.from = "backend" /\ res'.status = 200
    BY <1>3 DEF RoundTrip, Responses
  <2>2. QED
    BY <1>0, <2>1
<1>4. CASE RemoveResponseHopHeaders
  <2>1. /\ pc = "response" /\ pc' = "modify" /\ j' = Len(chain)
        /\ res' = [res EXCEPT !.hop = "none"] /\ UNCHANGED modified
    BY <1>4 DEF RemoveResponseHopHeaders
  <2>2. /\ res' \in Responses /\ res'.from = "backend"
        /\ res'.hop = "none" /\ res'.status = 200
    BY <1>0, <2>1 DEF Responses
  <2>3. Len(modified) = 0
    BY <1>0, <2>1
  <2>4. QED
    BY <1>0, <2>1, <2>2, <2>3
<1>5. CASE ModifyResponse
  <2>1. /\ pc = "modify" /\ j \in 1 .. Len(chain) /\ chain[j] \in Module
        /\ modified' = Append(modified, j)
        /\ res.from = "backend" /\ res.hop # "backend" /\ res.status = 200
        /\ Len(modified) = Len(chain) - j
    BY <1>0, <1>5 DEF ModifyResponse
  <2>2. /\ pc' \in {"modify", "return", "panic"} /\ j' \in {j, j - 1}
        /\ pc' = "modify" => j' = j - 1
        /\ res' = res \/ res' = Modified(chain[j])
    BY <1>5, <2>1 DEF ModifyResponse, Fail
  <2>3. /\ modified' \in Seq(1 .. Len(chain))
        /\ Len(modified') = Len(modified) + 1
        /\ \A i \in DOMAIN modified' : modified'[i] = Len(chain) + 1 - i
    <3>1. /\ DOMAIN modified = 1 .. Len(modified)
          /\ modified' \in Seq(1 .. Len(chain))
          /\ DOMAIN modified' = 1 .. Len(modified) + 1
          /\ Len(modified') = Len(modified) + 1
          /\ modified'[Len(modified) + 1] = j
      BY <1>0, <2>1
    <3>2. \A i \in 1 .. Len(modified) : modified'[i] = modified[i]
      BY <1>0, <2>1
    <3>3. ASSUME NEW i \in DOMAIN modified'
          PROVE  modified'[i] = Len(chain) + 1 - i
      <4>1. CASE i \in 1 .. Len(modified)
        BY <1>0, <3>1, <3>2, <4>1
      <4>2. CASE i = Len(modified) + 1
        <5>1. modified'[i] = j
          BY <3>1, <4>2
        <5>2. QED
          BY <1>0, <2>1, <4>2, <5>1
      <4>3. QED
        BY <1>0, <3>1, <3>3, <4>1, <4>2
    <3>4. QED
      BY <3>1, <3>3
  <2>4. /\ res' \in Responses /\ res'.from = "backend"
        /\ res'.hop # "backend" /\ res'.status = 200
    BY <1>0, <2>1, <2>2, ModifiedResponse
  <2>5. QED
    BY <1>0, <2>1, <2>2, <2>3, <2>4
<1>6. CASE Others
  <2>1. UNCHANGED <<res, modified, chain>>
    BY <1>6, ResponseStays DEF config
  <2>2. UNCHANGED j
    BY <1>6 DEF Others, Start, NewRequestContext, AlternateResponse,
       AllModified, RoundTripFails, SendHead, ReadBody, LockForWrite,
       WriteBody, Stop, CloseBody, Return, FlushLoop, FlushTick, LockForFlush,
       Flush, Client, ClientLeaves, CloseNotify, Watch, vars
  <2>3. ResponseInv'
    <3>1. CASE Start \/ NewRequestContext \/ AlternateResponse \/ Return
               \/ RoundTripFails
      BY <1>0, <2>1, <2>2, <3>1, ResponsesOf
      DEF Start, NewRequestContext, AlternateResponse, Return,
          RoundTripFails, Fail
    <3>2. CASE AllModified
      <4>1. /\ pc' = "send" /\ Len(modified) = Len(chain)
            /\ res.from = "backend" /\ res.status = 200
            /\ res.hop # "backend"
        BY <1>0, <3>2 DEF AllModified
      <4>2. QED
        BY <1>0, <2>1, <2>2, <4>1
    <3>3. CASE SendHead \/ ReadBody \/ LockForWrite \/ WriteBody \/ Stop
               \/ CloseBody
      BY <1>0, <2>1, <2>2, <3>3
      DEF SendHead, ReadBody, LockForWrite, WriteBody, Stop, CloseBody
    <3>4. CASE FlushLoop \/ Client \/ Watch \/ UNCHANGED vars
      <4>1. UNCHANGED pc
        BY <3>4 DEF FlushLoop, FlushTick, LockForFlush, Flush, Client,
           ClientLeaves, CloseNotify, Watch, vars
      <4>2. QED
        BY <1>0, <2>1, <2>2, <4>1
    <3>5. QED
      BY <1>6, <3>1, <3>2, <3>3, <3>4 DEF Others
  <2>4. QED
    BY <1>0, <2>1, <2>2, <2>3
<1>7. QED
  BY <1>1, <1>2, <1>3, <1>4, <1>5, <1>6, Steps

(***************************************************************************)
(* The answer: one status, whatever fails on the way.                      *)
(***************************************************************************)
Codes == {200, 404, 499, 500, 502}

\* A status is given where none was given before, except for the frames.
LEMMA StepAnswer ==
  ASSUME IInv, [Next]_vars
  PROVE  /\ AnswerInv' /\ wrote' \in Seq(Codes)
         /\ wrote' = <<499>> => gone'
<1>0. /\ AnswerInv /\ ResponseInv /\ ClientInv /\ TypeOK
      /\ wrote \in Seq(Codes) /\ (wrote = <<499>> => gone)
  BY DEF IInv, TypeOK, Codes, AnsweredOnce
<1> USE DEF AnswerInv, Asking, Copying, Over
<1>1. ASSUME wrote = <<>>, NEW s \in Codes, wrote' = Append(wrote, s),
             s = 499 => gone', pc' \in {"return", "read"},
             pc' = "return" /\ res'.from = "backend" => s = 500
      PROVE  /\ AnswerInv' /\ wrote' \in Seq(Codes)
             /\ wrote' = <<499>> => gone'
  <2>1. wrote' = <<s>> /\ wrote' # <<>> /\ (wrote' = <<499>> => s = 499)
    BY <1>1
  <2>2. QED
    BY <1>1, <2>1 DEF Codes
<1>A. ASSUME wrote = <<>>, wrote' = Append(wrote, 500), pc' = "return"
      PROVE  /\ AnswerInv' /\ wrote' \in Seq(Codes)
             /\ wrote' = <<499>> => gone'
  <2>1. wrote' = <<500>> /\ wrote' # <<>> /\ wrote' # <<499>>
    BY <1>A
  <2>2. QED
    BY <1>A, <2>1 DEF Codes
<1>B. ASSUME wrote = <<>>, UNCHANGED wrote, pc' \notin Over,
             pc' \notin {"close"} \cup Copying
      PROVE  /\ AnswerInv' /\ wrote' \in Seq(Codes)
             /\ wrote' = <<499>> => gone'
  BY <1>B
<1>2. CASE CallModule
  <2>1. /\ pc = "chain" /\ pc' \in {"chain", "alternate", "return"}
        /\ pc' \in {"chain", "alternate"} => wrote' = wrote
        /\ pc' = "return" => wrote' = Append(wrote, 500)
        /\ UNCHANGED gone
    BY <1>2, Calls DEF conn
  <2>2. wrote = <<>>
    BY <1>0, <2>1
  <2>3. QED
    BY <1>A, <1>B, <2>1, <2>2
<1>3. CASE NewRequestContext
  <2>1. /\ pc = "context" /\ wrote = <<>> /\ UNCHANGED <<gone, res>>
        /\ \/ pc' = "chain" /\ UNCHANGED wrote
           \/ pc' = "return" /\ wrote' = Append(wrote, 500)
    BY <1>0, <1>3 DEF NewRequestContext, Fail
  <2>2. QED
    BY <1>A, <1>B, <2>1
<1>4. CASE RoundTripFails
  <2>1. /\ pc = "roundtrip" /\ wrote = <<>> /\ UNCHANGED <<gone, res>>
        /\ res = NoResponse /\ pc' = "return"
    BY <1>0, <1>4 DEF RoundTripFails, Fail, ResponseInv
  <2>2. \/ wrote' = Append(wrote, 502)
        \/ wrote' = Append(wrote, 500)
        \/ cancelled /\ wrote' = Append(wrote, 499)
    BY <1>4 DEF RoundTripFails, Fail
  <2>3. cancelled => gone
    BY <1>0, <2>1 DEF ClientInv, Ended
  <2>4. res'.from # "backend"
    BY <2>1, ResponsesOf
  <2>5. QED
    BY <1>1, <2>1, <2>2, <2>3, <2>4 DEF Codes
<1>5. CASE ModifyResponse
  <2>1. /\ pc = "modify" /\ wrote = <<>> /\ UNCHANGED gone
        /\ \/ pc' \in {"modify", "panic"} /\ UNCHANGED wrote
           \/ pc' = "return" /\ wrote' = Append(wrote, 500)
    BY <1>0, <1>5 DEF ModifyResponse, Fail
  <2>2. QED
    BY <1>A, <1>B, <2>1
<1>6. CASE SendHead
  <2>1. /\ pc = "send" /\ pc' = "read" /\ wrote = <<>> /\ UNCHANGED gone
        /\ wrote' = Append(wrote, res.status) /\ res.status \in {200, 404}
    BY <1>0, <1>6 DEF SendHead, ResponseInv
  <2>2. QED
    BY <1>1, <2>1 DEF Codes
<1>7. CASE AlternateResponse
  <2>1. /\ pc = "alternate" /\ res.from = "module" /\ wrote = <<>>
        /\ pc' = (IF notify = "yes" THEN "return" ELSE "send")
        /\ UNCHANGED <<gone, res, wrote, modified>>
    BY <1>0, <1>7 DEF AlternateResponse, ResponseInv
  <2>2. pc' = "return" => gone
    BY <1>0, <2>1 DEF ClientInv
  <2>3. QED
    BY <1>0, <2>1, <2>2
<1>8. CASE CloseBody
  <2>1. /\ pc = "close" /\ pc' = "return" /\ wrote # <<>>
        /\ UNCHANGED <<gone, res, wrote, modified, chain>>
        /\ res.from = "backend" => Len(modified) = Len(chain)
    BY <1>0, <1>8 DEF CloseBody, ResponseInv
  <2>2. QED
    BY <1>0, <2>1
<1>9. CASE Return
  <2>1. /\ \/ pc = "return" /\ pc' = "end"
           \/ pc = "panic" /\ pc' = "recovered"
        /\ UNCHANGED <<gone, res, wrote, modified, chain>>
    BY <1>0, <1>9 DEF Return
  <2>2. QED
    BY <1>0, <2>1
<1>10. CASE Start \/ PrepareRequest \/ RemoveResponseHopHeaders \/ RoundTrip
              \/ AllModified
  <2>1. /\ pc \in Asking \cup {"response", "modify"}
        /\ pc' \in Asking \cup {"response", "modify", "send"}
        /\ UNCHANGED <<gone, wrote>>
    BY <1>10 DEF Start, PrepareRequest, RemoveResponseHopHeaders, RoundTrip,
       AllModified
  <2>2. QED
    BY <1>0, <2>1
<1>11. CASE ReadBody \/ LockForWrite \/ WriteBody \/ Stop
  <2>1. /\ pc \in Copying /\ pc' \in {"close"} \cup Copying
        /\ UNCHANGED <<gone, wrote>>
    BY <1>11 DEF ReadBody, LockForWrite, WriteBody, Stop
  <2>2. QED
    BY <1>0, <2>1
<1>12. CASE FlushLoop \/ Client \/ Watch \/ UNCHANGED vars
  <2>1. /\ UNCHANGED <<pc, res, wrote, modified, chain>> /\ (gone => gone')
    BY <1>12 DEF FlushLoop, FlushTick, LockForFlush, Flush, Client,
       ClientLeaves, CloseNotify, Watch, vars
  <2>2. QED
    BY <1>0, <2>1
<1>13. QED
  BY <1>2, <1>3, <1>4, <1>5, <1>6, <1>7, <1>8, <1>9, <1>10, <1>11, <1>12, Steps
  DEF Others

\* A response of the backend that was sent was seen by every module.
LEMMA SentIsModified ==
  TypeOK /\ ResponseInv /\ AnswerInv =>
    (res.from = "backend" /\ Len(wrote) = 1 /\ wrote[1] # 500 =>
       Len(modified) = Len(chain))
<1> SUFFICES ASSUME TypeOK, ResponseInv, AnswerInv, res.from = "backend",
                    Len(wrote) = 1, wrote[1] # 500
             PROVE  Len(modified) = Len(chain)
  OBVIOUS
<1>1. wrote # <<>> /\ wrote # <<500>>
  OBVIOUS
<1>2. pc \in {"close"} \cup Copying \cup Over
  BY <1>1 DEF TypeOK, AnswerInv, Asking, Copying, Over
<1>3. QED
  BY <1>1, <1>2 DEF ResponseInv, AnswerInv, Copying, Over

\* Every status is in one class, whatever exact codes are counted beside it.
LEMMA OneClass ==
  ASSUME NEW s \in Codes
  PROVE  \E t \in 1 .. 5 : \A u \in 1 .. 5 : Matches(u, s) <=> u = t
<1> USE DEF Matches, rangeCodeTest
<1>1. CASE s = 200
  <2>1. \A u \in 1 .. 5 : Matches(u, s) <=> u = 2
    BY <1>1
  <2>2. QED
    BY <2>1
<1>2. CASE s \in {404, 499}
  <2>1. \A u \in 1 .. 5 : Matches(u, s) <=> u = 4
    BY <1>2
  <2>2. QED
    BY <2>1
<1>3. CASE s \in {500, 502}
  <2>1. \A u \in 1 .. 5 : Matches(u, s) <=> u = 5
    BY <1>3
  <2>2. QED
    BY <2>1
<1>4. QED
  BY <1>1, <1>2, <1>3 DEF Codes

\* What the audit function counts.
LEMMA StepMeters ==
  ASSUME IInv, [Next]_vars
  PROVE  /\ counted' \subseteq spec.codes /\ timed' \in BOOLEAN
         /\ pc' = "end" /\ wrote' # <<>> /\ 1 .. 5 \subseteq spec.codes =>
              \E t \in 1 .. 5 : counted' \cap (1 .. 5) = {t}
<1>0. /\ AnswerInv /\ AnsweredOnce /\ spec \in MetricsSpec
      /\ counted \subseteq spec.codes /\ timed \in BOOLEAN
  BY DEF IInv, TypeOK, ConfigTypes
<1>1. CASE Return /\ pc = "return"
  <2>1. /\ counted' = {t \in spec.codes : Matches(t, Status)}
        /\ timed' = spec.time /\ UNCHANGED wrote
    BY <1>1 DEF Return, metricsFunction
  <2>2. timed' \in BOOLEAN /\ counted' \subseteq spec.codes
    BY <1>0, <2>1 DEF MetricsSpec
  <2>3. ASSUME wrote # <<>>, 1 .. 5 \subseteq spec.codes
        PROVE  \E t \in 1 .. 5 : counted' \cap (1 .. 5) = {t}
    <3>1. PICK s \in Codes : wrote = <<s>>
      BY <1>0, <2>3 DEF AnswerInv, Codes
    <3>2. Status = s
      BY <2>3, <3>1 DEF Status, Last
    <3>3. PICK t \in 1 .. 5 : \A u \in 1 .. 5 : Matches(u, s) <=> u = t
      BY OneClass
    <3>4. counted' \cap (1 .. 5) = {t}
      BY <2>1, <2>3, <3>2, <3>3
    <3>5. QED
      BY <3>4
  <2>4. QED
    BY <2>1, <2>2, <2>3
<1>2. CASE ~(Return /\ pc = "return")
  <2>1. UNCHANGED <<meters, spec>> /\ (pc' = "end" => pc = "end")
        /\ (pc = "end" => UNCHANGED wrote)
    <3>1. CASE CallModule
      BY <3>1, Calls
    <3>2. CASE PrepareRequest \/ RemoveResponseHopHeaders \/ ModifyResponse
               \/ RoundTrip
      BY <3>2 DEF PrepareRequest, RemoveResponseHopHeaders, ModifyResponse,
         RoundTrip, Fail
    <3>3. CASE Start \/ NewRequestContext \/ AlternateResponse \/ AllModified
               \/ RoundTripFails \/ SendHead
      BY <3>3 DEF Start, NewRequestContext, AlternateResponse, AllModified,
         RoundTripFails, SendHead, Fail
    <3>4. CASE ReadBody \/ LockForWrite \/ WriteBody \/ Stop \/ CloseBody
      BY <3>4 DEF ReadBody, LockForWrite, WriteBody, Stop, CloseBody
    <3>5. CASE Return
      BY <1>2, <3>5 DEF Return
    <3>6. CASE FlushLoop \/ Client \/ Watch \/ UNCHANGED vars
      BY <3>6 DEF FlushLoop, FlushTick, LockForFlush, Flush, Client,
         ClientLeaves, CloseNotify, Watch, vars
    <3>7. QED
      BY <3>1, <3>2, <3>3, <3>4, <3>5, <3>6, Steps DEF Others
  <2>2. QED
    BY <1>0, <2>1 DEF AnsweredOnce
<1>3. QED
  BY <1>1, <1>2

(***************************************************************************)
(* The client, the flush goroutine and the body of the backend.            *)
(***************************************************************************)

\* The request context is cancelled before the end only when the client left.
LEMMA StepClient ==
  ASSUME IInv, [Next]_vars
  PROVE  /\ ClientInv' /\ gone' \in BOOLEAN /\ cancelled' \in BOOLEAN
         /\ notify' \in {"no", "yes", "taken"}
         /\ watcher' \in {"none", "wait", "done"}
<1>0. /\ ClientInv /\ gone \in BOOLEAN /\ cancelled \in BOOLEAN
      /\ notify \in {"no", "yes", "taken"}
      /\ watcher \in {"none", "wait", "done"}
  BY DEF IInv, TypeOK
<1> USE DEF ClientInv, Ended
<1>1. CASE Start
  BY <1>0, <1>1 DEF Start
<1>2. CASE AlternateResponse
  BY <1>0, <1>2 DEF AlternateResponse
<1>3. CASE Return
  BY <1>0, <1>3 DEF Return
<1>4. CASE ClientLeaves
  BY <1>0, <1>4 DEF ClientLeaves
<1>5. CASE CloseNotify
  BY <1>0, <1>5 DEF CloseNotify
<1>6. CASE Watch
  BY <1>0, <1>6 DEF Watch
<1>7. CASE CallModule
  BY <1>0, <1>7, Calls
<1>8. CASE NewRequestContext \/ PrepareRequest \/ RoundTrip \/ RoundTripFails
  BY <1>0, <1>8 DEF NewRequestContext, PrepareRequest, RoundTrip,
     RoundTripFails
<1>9. CASE RemoveResponseHopHeaders \/ ModifyResponse \/ AllModified
           \/ SendHead
  BY <1>0, <1>9 DEF RemoveResponseHopHeaders, ModifyResponse, AllModified,
     SendHead
<1>10. CASE ReadBody \/ LockForWrite \/ WriteBody \/ Stop \/ CloseBody
            \/ FlushLoop \/ UNCHANGED vars
  BY <1>0, <1>10 DEF ReadBody, LockForWrite, WriteBody, Stop, CloseBody,
     FlushLoop, FlushTick, LockForFlush, Flush, vars
<1>11. QED
  BY <1>1, <1>2, <1>3, <1>4, <1>5, <1>6, <1>7, <1>8, <1>9, <1>10, Steps
  DEF Others, Client

\* Before the head of the response is sent there is no flush goroutine, and
\* only the writer and the flush goroutine take the mutex.
LEMMA StepLatency ==
  ASSUME IInv, [Next]_vars
  PROVE  /\ LatencyInv' /\ mu' \in {"free", "writer", "flusher"}
         /\ flusher' \in {"off", "select", "locking", "flush", "exited"}
         /\ body' \in {"none", "open", "closed"} /\ reads' \in 0 .. MaxReads
         /\ session' \in {"none", "client", "uuid"}
<1>0. /\ LatencyInv /\ AnswerInv /\ mu \in {"free", "writer", "flusher"}
      /\ flusher \in {"off", "select", "locking", "flush", "exited"}
      /\ body \in {"none", "open", "closed"} /\ reads \in 0 .. MaxReads
      /\ session \in {"none", "client", "uuid"} /\ flushing \in BOOLEAN
  BY DEF IInv, TypeOK, ConfigTypes
<1>c. UNCHANGED config
  BY Steps, ResponseStays DEF CallModule, PrepareRequest,
     RemoveResponseHopHeaders, ModifyResponse, RoundTrip
<1> USE DEF LatencyInv, Copying, Over
<1>1. CASE CallModule
  <2>1. /\ pc = "chain" /\ pc' \in {"chain", "alternate", "return"}
        /\ UNCHANGED <<session, body, reads, latency>>
    BY <1>1, Calls
  <2>2. QED
    BY <1>0, <1>c, <2>1
<1>2. CASE Start \/ PrepareRequest \/ AlternateResponse
  BY <1>0, <1>c, <1>2 DEF Start, PrepareRequest, AlternateResponse
<1>3. CASE NewRequestContext \/ RoundTripFails
  BY <1>0, <1>c, <1>3 DEF NewRequestContext, RoundTripFails, Fail
<1>4. CASE RoundTrip
  BY <1>0, <1>c, <1>4 DEF RoundTrip
<1>5. CASE RemoveResponseHopHeaders \/ AllModified
  BY <1>0, <1>c, <1>5 DEF RemoveResponseHopHeaders, AllModified
<1>6. CASE ModifyResponse
  <2>1. /\ pc = "modify" /\ wrote = <<>>
        /\ UNCHANGED <<session, body, reads, latency>>
        /\ \/ pc' \in {"modify", "panic"}
           \/ pc' = "return" /\ wrote' = Append(wrote, 500)
    BY <1>0, <1>6 DEF ModifyResponse, AnswerInv, Fail
  <2>2. pc' = "return" => wrote' = <<500>>
    BY <2>1
  <2>3. QED
    BY <1>0, <1>c, <2>1, <2>2
<1>7. CASE SendHead
  BY <1>0, <1>c, <1>7 DEF SendHead
<1>8. CASE ReadBody
  <2>1. reads' \in 0 .. MaxReads
    BY <1>0, <1>8, ReverseProxyAssumption DEF ReadBody
  <2>2. QED
    BY <1>0, <1>c, <1>8, <2>1 DEF ReadBody
<1>9. CASE LockForWrite \/ WriteBody
  BY <1>0, <1>c, <1>9 DEF LockForWrite, WriteBody
<1>10. CASE Stop
  BY <1>0, <1>c, <1>10 DEF Stop
<1>11. CASE CloseBody
  BY <1>0, <1>c, <1>11 DEF CloseBody
<1>12. CASE Return
  BY <1>0, <1>c, <1>12 DEF Return
<1>13. CASE FlushLoop
  BY <1>0, <1>c, <1>13 DEF FlushLoop, FlushTick, LockForFlush, Flush
<1>14. CASE Client \/ Watch \/ UNCHANGED vars
  BY <1>0, <1>c, <1>14 DEF Client, ClientLeaves, CloseNotify, Watch, vars
<1>15. QED
  BY <1>1, <1>2, <1>3, <1>4, <1>5, <1>6, <1>7, <1>8, <1>9, <1>10, <1>11,
     <1>12, <1>13, <1>14, Steps DEF Others

\* Where ServeHTTP can be.
LEMMA StepPlace ==
  ASSUME IInv, [Next]_vars
  PROVE  pc' \in {"start", "context", "chain", "alternate", "roundtrip",
                  "response", "modify", "send", "read", "write", "writing",
                  "stop", "close", "return", "panic", "end", "recovered"}
<1>0. TypeOK
  BY DEF IInv
<1>1. CASE CallModule
  BY <1>1, Calls
<1>2. CASE Start \/ NewRequestContext \/ PrepareRequest \/ AlternateResponse
           \/ RoundTrip \/ RoundTripFails
  BY <1>2 DEF Start, NewRequestContext, PrepareRequest, AlternateResponse,
     RoundTrip, RoundTripFails, Fail
<1>3. CASE RemoveResponseHopHeaders \/ AllModified \/ ModifyResponse
           \/ SendHead \/ ReadBody \/ LockForWrite \/ WriteBody \/ Stop
  BY <1>0, <1>3 DEF RemoveResponseHopHeaders, AllModified, ModifyResponse,
     SendHead, ReadBody, LockForWrite, WriteBody, Stop, Fail, TypeOK
<1>4. CASE CloseBody \/ Return \/ FlushLoop \/ Client \/ Watch
           \/ UNCHANGED vars
  BY <1>0, <1>4 DEF CloseBody, Return, FlushLoop, FlushTick, LockForFlush,
     Flush, Client, ClientLeaves, CloseNotify, Watch, vars, TypeOK
<1>5. QED
  BY <1>1, <1>2, <1>3, <1>4, Steps DEF Others

(***************************************************************************)
(* The invariant holds at first, and every step keeps it.                  *)
(***************************************************************************)
LEMMA InitInv == Init => IInv
<1> SUFFICES ASSUME Init PROVE IInv
  OBVIOUS
<1>1. ConfigTypes
  BY ReverseProxyAssumption DEF Init, ConfigTypes
<1>2. hdr \in HeaderMaps
  <2>1. req.header \in [Headers -> Values]
    BY <1>1 DEF ConfigTypes, Request, Values
  <2>2. QED
    BY <2>1 DEF Init, HeaderMaps
<1>3. TypeOK
  <2>1. wrote \in Seq({200, 404, 499, 500, 502})
        /\ modified \in Seq(1 .. Len(chain))
    BY DEF Init
  <2>2. res \in Responses
    BY ResponsesOf DEF Init
  <2>3. j \in 0 .. Len(chain) + 1 /\ reads \in 0 .. MaxReads
    BY <1>1, ReverseProxyAssumption DEF Init, ConfigTypes
  <2>4. dest \in [scheme : Schemes, url : Hosts, host : Hosts]
    BY DEF Init, Schemes, Hosts
  <2>5. QED
    BY <1>2, <2>1, <2>2, <2>3, <2>4 DEF Init, TypeOK, Responses
<1>4. HeaderInv /\ InRequestPreserved /\ ClientInv
  BY DEF Init, HeaderInv, InRequestPreserved, ClientInv
<1>5. ResponseInv /\ HopByHopRemoved
  BY ResponsesOf
  DEF Init, ResponseInv, HopByHopRemoved, Asking, Choosing, Copying
<1>6. AnswerInv /\ AnsweredOnce
  BY DEF Init, AnswerInv, AnsweredOnce, Over, Copying
<1>7. LatencyInv
  BY DEF Init, LatencyInv
<1>8. ChainSymmetry
  BY ResponsesOf DEF Init, ChainSymmetry
<1>9. QED
  BY <1>1, <1>3, <1>4, <1>5, <1>6, <1>7, <1>8 DEF IInv

\* Every step keeps the inductive invariant.
LEMMA StepInv == IInv /\ [Next]_vars => IInv'
<1> SUFFICES ASSUME IInv, [Next]_vars PROVE IInv'
  OBVIOUS
<1>0. UNCHANGED config
  BY Steps, ResponseStays DEF CallModule, PrepareRequest,
     RemoveResponseHopHeaders, ModifyResponse, RoundTrip
<1>1. ConfigTypes'
  BY ConfigStays DEF IInv
<1>2. TypeOK'
  BY <1>0, StepHeaders, StepResponse, StepAnswer, StepMeters, StepClient,
     StepLatency, StepPlace
  DEF TypeOK, Responses, Codes, Destinations
<1>3. /\ HeaderInv' /\ InRequestPreserved' /\ ResponseInv' /\ AnswerInv'
      /\ ClientInv' /\ LatencyInv'
  BY StepHeaders, StepResponse, StepAnswer, StepClient, StepLatency
<1>4. HopByHopRemoved'
  <2>1. res'.from = "backend" =>
          \A k \in Hop \cup req.named : hdr'.out[k] # "client"
    <3>1. CASE RoundTrip
      BY <3>1 DEF IInv, HopByHopRemoved, RoundTrip
    <3>2. CASE CallModule \/ PrepareRequest
      <4>1. res'.from # "backend"
        BY <3>2, Calls, ResponsesOf
        DEF PrepareRequest, IInv, ResponseInv, Asking
      <4>2. QED
        BY <4>1
    <3>3. CASE RemoveResponseHopHeaders \/ ModifyResponse \/ Others
      <4>1. res'.from = res.from
        <5>1. CASE RemoveResponseHopHeaders
          BY <5>1 DEF RemoveResponseHopHeaders, IInv, TypeOK
        <5>2. CASE ModifyResponse
          <6>1. res \in Responses /\ chain[j] \in Module
            BY <5>2 DEF ModifyResponse, IInv, TypeOK, ConfigTypes, Responses,
               ResponseInv
          <6>2. QED
            BY <5>2, <6>1, ModifiedResponse DEF ModifyResponse
        <5>3. CASE Others
          BY <5>3, ResponseStays
        <5>4. QED
          BY <3>3, <5>1, <5>2, <5>3
      <4>2. UNCHANGED hdr
        BY <3>3, HeadersStay DEF IInv
      <4>3. QED
        BY <4>1, <4>2 DEF IInv, HopByHopRemoved
    <3>4. QED
      BY <3>1, <3>2, <3>3, Steps
  <2>2. pc' = "roundtrip" =>
          \A k \in Hop \cup req.named : hdr'.out[k] # "client"
    BY StepHeaders
  <2>3. QED
    BY <1>0, <1>3, <2>1, <2>2 DEF HopByHopRemoved, ResponseInv
<1>5. ChainSymmetry'
  <2>1. \A i \in DOMAIN modified' : modified'[i] = Len(chain) + 1 - i
    BY StepResponse
  <2>2. modified' # <<>> => res'.from = "backend"
    <3>1. CASE ModifyResponse
      <4>1. res \in Responses /\ chain[j] \in Module /\ res.from = "backend"
        BY <3>1 DEF ModifyResponse, IInv, TypeOK, ConfigTypes, Responses,
           ResponseInv
      <4>2. QED
        BY <3>1, <4>1, ModifiedResponse DEF ModifyResponse
    <3>2. CASE CallModule \/ PrepareRequest
      BY <3>2, Calls DEF PrepareRequest, IInv, ResponseInv, Asking, answer
    <3>3. CASE RemoveResponseHopHeaders \/ RoundTrip
      BY <3>3 DEF RemoveResponseHopHeaders, RoundTrip, IInv, TypeOK,
         ChainSymmetry
    <3>4. CASE Others
      BY <3>4, ResponseStays DEF IInv, ChainSymmetry
    <3>5. QED
      BY <3>1, <3>2, <3>3, <3>4, Steps
  <2>3. res'.from = "backend" /\ Len(wrote') = 1 /\ wrote'[1] # 500 =>
          Len(modified') = Len(chain')
    <3>1. (TypeOK /\ ResponseInv /\ AnswerInv =>
             (res.from = "backend" /\ Len(wrote) = 1 /\ wrote[1] # 500 =>
                Len(modified) = Len(chain)))'
      BY SentIsModified, PTL
    <3>2. QED
      BY <1>2, <1>3, <3>1
  <2>4. QED
    BY <1>0, <2>1, <2>2, <2>3 DEF ChainSymmetry
<1>6. AnsweredOnce'
  <2>1. Len(wrote') <= 1
    <3>1. wrote' = <<>> \/ \E s \in {200, 404, 499, 500, 502} : wrote' = <<s>>
      BY <1>3 DEF AnswerInv
    <3>2. CASE wrote' = <<>>
      BY <3>2
    <3>3. ASSUME NEW s \in {200, 404, 499, 500, 502}, wrote' = <<s>>
          PROVE  Len(wrote') <= 1
      BY <3>3
    <3>4. QED
      BY <3>1, <3>2, <3>3
  <2>2. pc' = "end" /\ wrote' = <<>> => gone' /\ res'.from = "module"
    BY <1>3 DEF AnswerInv, Over
  <2>3. QED
    BY <1>0, <2>1, <2>2, StepAnswer, StepMeters DEF AnsweredOnce
<1>7. QED
  BY <1>1, <1>2, <1>3, <1>4, <1>5, <1>6 DEF IInv

\* Every reachable state satisfies the inductive invariant.
THEOREM Invariance == Spec => []IInv
  BY InitInv, StepInv, PTL DEF Spec

(***************************************************************************)
(* The results.                                                            *)
(***************************************************************************)

\* The variables of ServeHTTP, of the goroutines around it and of the audit
\* function keep their types.
THEOREM TypeCorrectness == Spec => []TypeOK
<1>1. IInv => TypeOK
  BY DEF IInv
<1>2. QED
  BY <1>1, Invariance, PTL

\* What the client sent is not changed under the modules, the access log and
\* ModifyResponse(), although the outgoing request shares its header map.
THEOREM IncomingRequestIsPreserved == Spec => []InRequestPreserved
<1>1. IInv => InRequestPreserved
  BY DEF IInv
<1>2. QED
  BY <1>1, Invariance, PTL

\* No hop-by-hop header gets through, in either direction.
THEOREM HopHeadersAreRemoved == Spec => []HopByHopRemoved
<1>1. IInv => HopByHopRemoved
  BY DEF IInv
<1>2. QED
  BY <1>1, Invariance, PTL

\* The modules see the response in the reverse order of the request.
THEOREM ChainIsSymmetric == Spec => []ChainSymmetry
<1>1. IInv => ChainSymmetry
  BY DEF IInv
<1>2. QED
  BY <1>1, Invariance, PTL

\* A request gets one status, and is counted in one class.
THEOREM RequestsAreAnsweredOnce == Spec => []AnsweredOnce
<1>1. IInv => AnsweredOnce
  BY DEF IInv
<1>2. QED
  BY <1>1, Invariance, PTL

\* The flush goroutine does not outlive the copy, and the body of the backend
\* is closed unless a module failed on the response.
THEOREM NothingIsLeft == Spec => []NothingLeft
<1>1. IInv => NothingLeft
  <2> SUFFICES ASSUME IInv PROVE NothingLeft
    OBVIOUS
  <2>1. flusher = "flush" => pc # "writing"
    BY DEF IInv, LatencyInv, ConfigTypes
  <2>2. QED
    BY <2>1 DEF IInv, LatencyInv, NothingLeft, Copying, Over, Ended
<1>2. QED
  BY <1>1, Invariance, PTL

=============================================================================
