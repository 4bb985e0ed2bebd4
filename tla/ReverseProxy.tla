---------------------------- MODULE ReverseProxy ----------------------------
(***************************************************************************)
(* One request through OzoneProxy.ServeHTTP (handlers/rproxy/ozoneproxy.go):*)
(* the module chain, the header maps of the incoming and the outgoing      *)
(* request, the round trip, the modules again in reverse, and the copy of  *)
(* the body with its flush goroutine (orig_reverseproxy.go).  Next to the  *)
(* handler run the client, which may leave at any moment, the goroutine    *)
(* that waits for CloseNotify(), and the backend.  The audit handler around *)
(* the proxy counts the status (requestmetrics.go).                        *)
(*                                                                         *)
(* A header has one of five values that tell who wrote it; a host, one of  *)
(* four that tell where it comes from.                                     *)
(***************************************************************************)
EXTENDS Naturals, Sequences, SequencesExt

CONSTANTS Chains,    \* the configured module chains
          Requests,  \* the requests a client sends
          Specs,     \* the metrics specs, sets of tokens
          MaxReads   \* bound: reads of the body that return data

\* The configuration of each kind of module.  An empty host stands for the
\* target that every other host is forwarded to.
ProxyPassConfig ==
  [type : {"proxypass"}, forwarded : BOOLEAN, rewriteHost : BOOLEAN,
   rewriteForward : BOOLEAN, rewriteReverse : BOOLEAN]
SetHeaderConfig ==
  [type : {"set_header"}, request : SUBSET STRING, responseHop : BOOLEAN]
ForwardMapConfig   == [type : {"forward_map_director"}, hosts : SUBSET STRING]
HostSuffixConfig   == [type : {"host_suffix_director"}, viaCNAME : BOOLEAN]
BackendSettingsConfig ==
  [type : {"backendsettings"}, port : BOOLEAN, forceTLS : BOOLEAN]
Module ==
  ProxyPassConfig \cup SetHeaderConfig \cup ForwardMapConfig \cup
  HostSuffixConfig \cup BackendSettingsConfig \cup [type : {"plugin"}]

VARIABLES chain, req, spec, notifier, flushing,  \* fixed when ServeHTTP begins
          pc, j,        \* the handler, and the module it is at
          hdr,          \* header maps: in (req), out (outreq), copied
          dest,         \* outreq.URL and outreq.Host
          session,      \* reqCtx.sessionId
          res, body,    \* the response to send, and the backend's body
          wrote,        \* the status codes given to WriteHeader
          reads,        \* reads of the body so far
          modified,     \* the modules whose ModifyResponse ran, in order
          gone, notify, cancelled, watcher,  \* client, CloseNotify, context
          mu, flusher,  \* maxLatencyWriter
          counted, timed  \* what the audit function counted

config  == <<chain, req, spec, notifier, flushing>>
conn    == <<gone, notify, cancelled, watcher>>
latency == <<mu, flusher>>
request == <<hdr, dest, session>>
answer  == <<res, body, wrote, reads, modified>>
meters  == <<counted, timed>>
vars == <<config, pc, j, request, answer, conn, latency, meters>>

-----------------------------------------------------------------------------
(***************************************************************************)
(* Headers.  outreq is a shallow copy of req: until EnsureWritableHeader   *)
(* copies the map, what is written to the one is written to the other.     *)
(***************************************************************************)

Hop     == {"Connection", "Keep-Alive"}
Headers == Hop \cup {"User-Agent", "X-Request-ID", "rid", "Destination",
                     "X-Forwarded-For", "X-Foo"}
Values  == {"none", "empty", "client", "module", "session"}
Has(m, k) == m[k] \notin {"none", "empty"}  \* m.Get(k) != ""

HeaderMaps == [in : [Headers -> Values], out : [Headers -> Values],
               copied : BOOLEAN]

\* What a client sends; "named" are the headers its Connection line names.
Request ==
  {r \in [header : [Headers -> {"none", "empty", "client"}],
          named : SUBSET Headers, tls : BOOLEAN, badDestination : BOOLEAN] :
     r.named # {} => Has(r.header, "Connection")}

MetricsSpec == [codes : SUBSET Nat, time : BOOLEAN]

ASSUME ReverseProxyAssumption ==
  /\ MaxReads \in Nat
  /\ Chains \subseteq Seq(Module)
  /\ \A r \in Requests : r \in Request
  /\ \A s \in Specs : s \in MetricsSpec

EnsureWritableHeader(h) ==
  IF h.copied THEN h ELSE [in |-> h.in, out |-> h.in, copied |-> TRUE]

\* outreq.Header.Set() and Del() on the map outreq has now.
Write(h, K, v) ==
  LET m == [k \in Headers |-> IF k \in K THEN v ELSE h.out[k]] IN
  IF h.copied THEN [h EXCEPT !.out = m] ELSE [h EXCEPT !.out = m, !.in = m]

\* Fault: Del() before the copy.
WriteShared(h, K, v) ==
  IF K = {} THEN h ELSE EnsureWritableHeader(Write(h, K, v))

WriteCopy(h, K, v) ==
  IF K = {} THEN h ELSE Write(EnsureWritableHeader(h), K, v)

\* Fault: hopHeaders first, Connection among them.
RemoveHopHeadersFirst(h) ==
  LET a == WriteCopy(h, {k \in Hop : Has(h.out, k)}, "none")
      named == IF Has(a.out, "Connection") THEN req.named ELSE {}
  IN  WriteCopy(a, named, "none")

\* The headers the Connection line of the client names, then hopHeaders.
RemoveHopHeaders(h) ==
  LET named == IF Has(h.out, "Connection") THEN req.named ELSE {}
      a == WriteCopy(h, named, "none")
  IN  WriteCopy(a, {k \in Hop : Has(a.out, k)}, "none")

\* The two headers the proxy sets without asking for a copy.
SetOwnHeaders(h) ==
  LET a == IF h.out["User-Agent"] = "none"
           THEN Write(h, {"User-Agent"}, "empty") ELSE h
  IN  IF Has(a.in, "X-Request-ID") THEN a
      ELSE Write(a, {"X-Request-ID"}, "session")

-----------------------------------------------------------------------------
(***************************************************************************)
(* The modules.  ProcessRequest() gives the headers, the destination, and  *)
(* what is returned: a response (its status, 0 for none) and an error.     *)
(***************************************************************************)

Hosts == {"none", "client", "target", "suffix"}
Schemes == {"none", "http", "https", "target"}

Ended == pc \in {"end", "recovered"}
InScheme == IF req.tls THEN "https" ELSE "http"
Done(h, d) == [hdr |-> h, dest |-> d, status |-> 0, err |-> FALSE]
CreateResponse(s) == [hdr |-> hdr, dest |-> dest, status |-> s, err |-> FALSE]

\* The X-Forwarded-* headers are one header of the model.
ProxyPass(m) ==
  LET h == WriteCopy(hdr, IF m.forwarded THEN {"X-Forwarded-For"} ELSE {},
                     "module")
      d == IF m.rewriteHost THEN [dest EXCEPT !.host = dest.url] ELSE dest
      rewrite == m.rewriteForward /\ Has(h.out, "Destination")
                 /\ ~req.badDestination
  IN  Done(WriteCopy(h, IF rewrite THEN {"Destination"} ELSE {}, "module"), d)

SetHeader(m) == Done(WriteCopy(hdr, m.request, "module"), dest)

ForwardMap(m) ==
  IF dest.host \in m.hosts \/ "" \in m.hosts
  THEN Done(hdr, [dest EXCEPT !.scheme = "target", !.url = "target"])
  ELSE CreateResponse(404)

\* LookupCNAME() may fail: then there are a response and an error.
HostSuffix(m) ==
  LET d == [dest EXCEPT !.scheme = InScheme] IN
  {Done(hdr, [d EXCEPT !.url = "suffix"])} \cup
  (IF m.viaCNAME
   THEN {[hdr |-> hdr, dest |-> d, status |-> 502, err |-> TRUE]} ELSE {})

BackendSettings(m) ==
  LET d == IF m.port THEN [dest EXCEPT !.url = dest.host] ELSE dest IN
  Done(hdr, IF m.forceTLS THEN [d EXCEPT !.scheme = "https"] ELSE d)

\* A module from a plugin may answer, or fail, as it likes.
Plugin == {Done(hdr, dest), CreateResponse(404),
           [hdr |-> hdr, dest |-> dest, status |-> 0, err |-> TRUE]}

ProcessRequest(m) ==
  CASE m.type = "proxypass"            -> {ProxyPass(m)}
    [] m.type = "set_header"           -> {SetHeader(m)}
    [] m.type = "forward_map_director" -> {ForwardMap(m)}
    [] m.type = "host_suffix_director" -> HostSuffix(m)
    [] m.type = "backendsettings"      -> {BackendSettings(m)}
    [] m.type = "plugin"               -> Plugin

\* ModifyResponse() of proxypass uses the URL of a Location it cannot parse.
Rewrites(m) == m.type = "proxypass" /\ m.rewriteReverse
RewritesBad(m) == Rewrites(m) /\ res.location = "bad"
ModifyMayFail(m) == m.type = "plugin"

\* What a module that does not fail makes of the response.
Modified(m) ==
  [res EXCEPT !.location = IF Rewrites(m) /\ @ # "none" THEN "proxy" ELSE @,
              !.hop = IF m.type = "set_header" /\ m.responseHop
                      THEN "module" ELSE @]

-----------------------------------------------------------------------------
(***************************************************************************)
(* The request before the round trip.                                      *)
(***************************************************************************)

NoResponse == [from |-> "none", status |-> 0, hop |-> "none",
               location |-> "none"]

ResponseOf(s) ==
  IF s = 0 THEN NoResponse
  ELSE [NoResponse EXCEPT !.from = "module", !.status = s]

Init ==
  /\ chain \in Chains /\ req \in Requests /\ spec \in Specs
  /\ notifier \in BOOLEAN /\ flushing \in BOOLEAN
  /\ pc = "start" /\ j = 1
  /\ hdr = [in |-> req.header, out |-> req.header, copied |-> FALSE]
  /\ dest = [scheme |-> "none", url |-> "none", host |-> "client"]
  /\ session = "none"
  /\ res = NoResponse /\ body = "none" /\ wrote = <<>> /\ reads = 0
  /\ modified = <<>>
  /\ gone = FALSE /\ notify = "no" /\ cancelled = FALSE /\ watcher = "none"
  /\ mu = "free" /\ flusher = "off"
  /\ counted = {} /\ timed = FALSE

\* The goroutine that waits for the client starts, and the request context.
Start ==
  /\ pc = "start"
  /\ watcher' = IF notifier THEN "wait" ELSE "none"
  /\ pc' = "context"
  /\ UNCHANGED <<config, j, request, answer, gone, notify, cancelled,
                 latency, meters>>

\* http.Error() and sendErrorResponse(): a status, and the handler returns.
Fail(status) == wrote' = Append(wrote, status) /\ pc' = "return"

\* Fault: the next module is called after the last one.
CallModulePast ==
  /\ pc = "chain" /\ j <= Len(chain) + 1
  /\ j' = j + 1 /\ UNCHANGED pc
  /\ UNCHANGED <<config, request, answer, conn, latency, meters>>

\* Without an id of the client's one is drawn, which may fail.
NewRequestContext ==
  /\ pc = "context"
  /\ \/ /\ session' = IF Has(hdr.in, "rid") THEN "client" ELSE "uuid"
        /\ pc' = "chain" /\ UNCHANGED wrote
     \/ ~Has(hdr.in, "rid") /\ Fail(500) /\ UNCHANGED session
  /\ UNCHANGED <<config, j, hdr, dest, res, body, reads, modified, conn,
                 latency, meters>>

\* The next module: an error is looked at before the response.
CallModule ==
  /\ pc = "chain" /\ j <= Len(chain)
  /\ \E r \in ProcessRequest(chain[j]) :
        /\ hdr' = r.hdr /\ dest' = r.dest
        /\ res' = ResponseOf(r.status)
        /\ \/ r.err /\ Fail(500) /\ UNCHANGED j
           \/ /\ ~r.err /\ r.status # 0
              /\ pc' = "alternate" /\ UNCHANGED <<j, wrote>>
           \/ /\ ~r.err /\ r.status = 0 /\ j' = j + 1
              /\ UNCHANGED <<pc, wrote>>
  /\ UNCHANGED <<config, session, body, reads, modified, conn, latency,
                 meters>>

\* Fault: a client that left is answered, and the request goes on.
AlternateResponseBoth ==
  /\ pc = "alternate"
  /\ pc' = "send"
  /\ notify' = IF notify = "yes" THEN "taken" ELSE notify
  /\ wrote' = IF notify = "yes" THEN Append(wrote, 499) ELSE wrote
  /\ UNCHANGED <<config, j, request, res, body, reads, modified, gone,
                 cancelled, watcher, latency, meters>>

\* A module answered: no backend, and no answer for a client that left, if
\* the notification was not taken by the goroutine that waits for it too.
AlternateResponse ==
  /\ pc = "alternate"
  /\ pc' = IF notify = "yes" THEN "return" ELSE "send"
  /\ notify' = IF notify = "yes" THEN "taken" ELSE notify
  /\ UNCHANGED <<config, j, request, answer, gone, cancelled, watcher,
                 latency, meters>>

PrepareRequest ==
  /\ pc = "chain" /\ j > Len(chain)
  /\ hdr' = SetOwnHeaders(RemoveHopHeaders(hdr))
  /\ pc' = "roundtrip"
  /\ UNCHANGED <<config, j, dest, session, answer, conn, latency, meters>>

-----------------------------------------------------------------------------
(***************************************************************************)
(* The round trip, and the response.                                       *)
(***************************************************************************)

\* A destination that no module set is an error of the transport.
RoundTrip ==
  /\ pc = "roundtrip" /\ dest.url # "none" /\ dest.scheme # "none"
  /\ \E hop \in {"none", "backend"}, loc \in {"none", "good", "bad"} :
        res' = [from |-> "backend", status |-> 200, hop |-> hop,
                location |-> loc]
  /\ body' = "open" /\ pc' = "response"
  /\ UNCHANGED <<config, j, request, wrote, reads, modified, conn, latency,
                 meters>>

RoundTripFails ==
  /\ pc = "roundtrip"
  /\ \/ Fail(502)  \* a certificate error
     \/ Fail(IF cancelled THEN 499 ELSE 500)
  /\ UNCHANGED <<config, j, request, res, body, reads, modified, conn,
                 latency, meters>>

\* Fault: the modules of a response run in the order of the request.
RemoveResponseHopHeadersFirst ==
  /\ pc = "response"
  /\ res' = [res EXCEPT !.hop = "none"]
  /\ j' = IF Len(chain) > 0 THEN 1 ELSE 0
  /\ pc' = "modify"
  /\ UNCHANGED <<config, request, body, wrote, reads, modified, conn,
                 latency, meters>>

RemoveResponseHopHeaders ==
  /\ pc = "response"
  /\ res' = [res EXCEPT !.hop = "none"]
  /\ j' = Len(chain) /\ pc' = "modify"
  /\ UNCHANGED <<config, request, body, wrote, reads, modified, conn,
                 latency, meters>>

\* The modules in reverse.  A failure answers 500 and leaves the body open.
ModifyResponse ==
  /\ pc = "modify" /\ j > 0
  /\ modified' = Append(modified, j)
  /\ \/ /\ ~RewritesBad(chain[j])
        /\ res' = Modified(chain[j])
        /\ j' = j - 1 /\ UNCHANGED <<pc, wrote>>
     \/ ModifyMayFail(chain[j]) /\ Fail(500) /\ UNCHANGED <<j, res>>
     \/ RewritesBad(chain[j]) /\ pc' = "panic" /\ UNCHANGED <<j, res, wrote>>
  /\ UNCHANGED <<config, request, body, reads, conn, latency, meters>>

AllModified ==
  /\ pc = "modify" /\ j = 0
  /\ pc' = "send"
  /\ UNCHANGED <<config, j, request, answer, conn, latency, meters>>

-----------------------------------------------------------------------------
(***************************************************************************)
(* SENDRESPONSE: the head, copyResponse(), the end of the body.  With a    *)
(* FlushInterval a goroutine flushes the writer under the same mutex; the  *)
(* deferred stop() meets it in its select.                                 *)
(***************************************************************************)

SendHead ==
  /\ pc = "send"
  /\ wrote' = Append(wrote, res.status)
  /\ flusher' = IF flushing THEN "select" ELSE "off"
  /\ pc' = "read"
  /\ UNCHANGED <<config, j, request, res, body, reads, modified, conn, mu,
                 meters>>

\* src.Read(): data, or the end of the body or an error of the backend.
ReadBody ==
  /\ pc = "read"
  /\ \/ reads < MaxReads /\ reads' = reads + 1 /\ pc' = "write"
     \/ pc' = "stop" /\ UNCHANGED reads
  /\ UNCHANGED <<config, j, request, res, body, wrote, modified, conn,
                 latency, meters>>

\* dst.Write() takes the mutex of the maxLatencyWriter.
LockForWrite ==
  /\ pc = "write" /\ mu = "free"
  /\ mu' = IF flushing THEN "writer" ELSE "free"
  /\ pc' = "writing"
  /\ UNCHANGED <<config, j, request, answer, conn, flusher, meters>>

\* A write fails for a client that is gone, or too slow: the copy ends.
WriteBody ==
  /\ pc = "writing"
  /\ mu' = "free"
  /\ pc' \in {"read", "stop"}
  /\ UNCHANGED <<config, j, request, answer, conn, flusher, meters>>

\* Fault: stop() does not wait for the goroutine.
StopAtOnce ==
  /\ pc = "stop" /\ pc' = "close"
  /\ flusher' = IF flusher = "select" THEN "exited" ELSE flusher
  /\ UNCHANGED <<config, j, request, answer, conn, mu, meters>>

Stop ==
  /\ pc = "stop" /\ flusher \in {"off", "select"}
  /\ flusher' = IF flushing THEN "exited" ELSE "off"
  /\ pc' = "close"
  /\ UNCHANGED <<config, j, request, answer, conn, mu, meters>>

CloseBody ==
  /\ pc = "close"
  /\ body' = IF body = "open" THEN "closed" ELSE body
  /\ pc' = "return"
  /\ UNCHANGED <<config, j, request, res, wrote, reads, modified, conn,
                 latency, meters>>

FlushTick ==
  /\ flusher = "select"
  /\ flusher' = "locking"
  /\ UNCHANGED <<config, pc, j, request, answer, conn, mu, meters>>

LockForFlush ==
  /\ flusher = "locking" /\ mu = "free"
  /\ flusher' = "flush" /\ mu' = "flusher"
  /\ UNCHANGED <<config, pc, j, request, answer, conn, meters>>

Flush ==
  /\ flusher = "flush"
  /\ flusher' = "select" /\ mu' = "free"
  /\ UNCHANGED <<config, pc, j, request, answer, conn, meters>>

-----------------------------------------------------------------------------
(***************************************************************************)
(* The audit function of the handler around the proxy: meters for a        *)
(* metrics spec.  A status token is a number, 5xx is written 5.            *)
(***************************************************************************)

exactCodeTest(val, code) == val = code
rangeCodeTest(val, code) == code >= val /\ code - val < 100
Matches(t, code) ==
  IF t < 10 THEN rangeCodeTest(t * 100, code) ELSE exactCodeTest(t, code)

\* rec.Status(): 0 when nothing was written.
Status == IF wrote = <<>> THEN 0 ELSE Last(wrote)

\* The time and the size are sampled for every request.
metricsFunction ==
  /\ counted' = {t \in spec.codes : Matches(t, Status)}
  /\ timed' = spec.time

\* Fault: the goroutine that waits for the client ends with it only.
WatchNotify ==
  /\ watcher = "wait" /\ notify = "yes"
  /\ notify' = "taken" /\ cancelled' = TRUE /\ watcher' = "done"
  /\ UNCHANGED <<config, pc, j, request, answer, gone, latency, meters>>

\* The deferred cancel() runs, and the HTTP server cancels its own context.
\* After a panic, which the server recovers, nothing is measured.
Return ==
  /\ pc \in {"return", "panic"}
  /\ cancelled' = TRUE
  /\ IF pc = "return" THEN metricsFunction ELSE UNCHANGED meters
  /\ pc' = IF pc = "return" THEN "end" ELSE "recovered"
  /\ UNCHANGED <<config, j, request, answer, gone, notify, watcher, latency>>

-----------------------------------------------------------------------------
(***************************************************************************)
(* The client, and the goroutine that waits for it.                        *)
(***************************************************************************)

\* The HTTP server cancels its context first.
ClientLeaves ==
  /\ ~gone /\ ~Ended
  /\ gone' = TRUE /\ cancelled' = TRUE
  /\ UNCHANGED <<config, pc, j, request, answer, notify, watcher, latency,
                 meters>>

CloseNotify ==
  /\ gone /\ notifier /\ notify = "no" /\ ~Ended
  /\ notify' = "yes"
  /\ UNCHANGED <<config, pc, j, request, answer, gone, cancelled, watcher,
                 latency, meters>>

\* A value of the notification channel goes to one of its two receivers.
Watch ==
  /\ watcher = "wait"
  /\ \/ notify = "yes" /\ notify' = "taken" /\ cancelled' = TRUE
     \/ cancelled /\ UNCHANGED <<notify, cancelled>>
  /\ watcher' = "done"
  /\ UNCHANGED <<config, pc, j, request, answer, gone, latency, meters>>

Handler ==
  \/ Start \/ NewRequestContext \/ CallModule \/ AlternateResponse
  \/ PrepareRequest \/ RemoveResponseHopHeaders \/ ModifyResponse
  \/ AllModified \/ SendHead \/ WriteBody \/ CloseBody \/ Return

Backend == RoundTrip \/ RoundTripFails \/ ReadBody
FlushLoop == FlushTick \/ LockForFlush \/ Flush
Client == ClientLeaves \/ CloseNotify
Terminated == Ended /\ UNCHANGED vars

Next == \/ Handler \/ LockForWrite \/ Stop \/ Backend \/ FlushLoop
        \/ Client \/ Watch \/ Terminated

\* Goroutines run, and get a mutex in the end.  A select whose cases stay
\* ready takes each of them in the end.  A backend may be silent for ever;
\* the transport gives up when the context is cancelled.
Fairness ==
  /\ WF_vars(Handler) /\ WF_vars(Watch)
  /\ SF_vars(LockForWrite) /\ SF_vars(Stop)
  /\ SF_vars(LockForFlush) /\ WF_vars(Flush)
  /\ WF_vars(cancelled /\ RoundTripFails) /\ WF_vars(cancelled /\ ReadBody)

Spec == Init /\ [][Next]_vars /\ Fairness

-----------------------------------------------------------------------------
(***************************************************************************)
(* Properties.                                                             *)
(***************************************************************************)

TypeOK ==
  /\ pc \in {"start", "context", "chain", "alternate", "roundtrip",
            "response", "modify", "send", "read", "write", "writing", "stop",
            "close", "return", "panic", "end", "recovered"}
  /\ j \in 0 .. Len(chain) + 1
  /\ hdr \in HeaderMaps
  /\ dest \in [scheme : Schemes, url : Hosts, host : Hosts]
  /\ session \in {"none", "client", "uuid"}
  /\ res \in [from : {"none", "module", "backend"},
               status : {0, 200, 404, 502},
               hop : {"none", "module", "backend"},
               location : {"none", "good", "bad", "proxy"}]
  /\ body \in {"none", "open", "closed"} /\ reads \in 0 .. MaxReads
  /\ wrote \in Seq({200, 404, 499, 500, 502})
  /\ modified \in Seq(1 .. Len(chain))
  /\ gone \in BOOLEAN /\ cancelled \in BOOLEAN
  /\ notify \in {"no", "yes", "taken"} /\ watcher \in {"none", "wait", "done"}
  /\ mu \in {"free", "writer", "flusher"}
  /\ flusher \in {"off", "select", "locking", "flush", "exited"}
  /\ counted \subseteq spec.codes /\ timed \in BOOLEAN

\* The modules, the access log and ModifyResponse() see the request as the
\* client sent it, although outreq shares its header map until it is copied:
\* the two exceptions are a missing User-Agent and a missing request id.
InRequestPreserved ==
  /\ \A k \in Headers \ {"User-Agent", "X-Request-ID"} :
        hdr.in[k] = req.header[k]
  /\ \A k \in {"User-Agent", "X-Request-ID"} :
        Has(req.header, k) => hdr.in[k] = req.header[k]

\* Neither the backend gets a hop-by-hop header of the client, or one its
\* Connection header names, nor the client one of the backend.
HopByHopRemoved ==
  /\ pc = "roundtrip" \/ res.from = "backend" =>
       \A k \in Hop \cup req.named : hdr.out[k] # "client"
  /\ res.from = "backend" /\ pc \in {"modify", "send", "read", "end"} =>
       res.hop # "backend"

\* The modules see the response of the backend, and nobody else's, in the
\* reverse order of the request: all of them before the client sees it.
ChainSymmetry ==
  /\ modified # <<>> => res.from = "backend"
  /\ \A i \in DOMAIN modified : modified[i] = Len(chain) + 1 - i
  /\ res.from = "backend" /\ Len(wrote) = 1 /\ wrote[1] # 500 =>
       Len(modified) = Len(chain)

\* A request gets one status, whatever fails on the way, and counts in one
\* status class.  It gets none only when a module answered a client that had
\* left, and 499 only when it left.
AnsweredOnce ==
  /\ Len(wrote) <= 1
  /\ pc = "end" /\ wrote = <<>> => gone /\ res.from = "module"
  /\ wrote = <<499>> => gone
  /\ pc = "end" /\ wrote # <<>> /\ 1 .. 5 \subseteq spec.codes =>
       \E t \in 1 .. 5 : counted \cap (1 .. 5) = {t}

\* When the handler is over, the client's connection is not used by the flush
\* goroutine any more, nor while the copy uses it; and the backend's can be
\* used again: its body is closed, unless a module failed on the response.
NothingLeft ==
  /\ flusher = "flush" => pc # "writing"
  /\ flusher \in {"select", "locking", "flush"} =>
       pc \in {"read", "write", "writing", "stop"}
  /\ Ended /\ body = "open" => pc = "recovered" \/ wrote = <<500>>

\* A client that leaves ends the request, also while the backend is silent,
\* and no goroutine of the request is left.
LeavingEndsRequest ==
  gone ~> Ended /\ watcher # "wait" /\ flusher \in {"off", "exited"}

=============================================================================
