------------------------------ MODULE MCOzone ------------------------------
(***************************************************************************)
(* Configurations for the Ozone module.                                    *)
(***************************************************************************)
EXTENDS Ozone

Hex(w)     == [format |-> "hex", parses |-> TRUE, runs |-> TRUE, words |-> w]
OpenSSL(w) == [Hex(w) EXCEPT !.format = "openssl"]
TLS(ciphers, plugin) ==
  [tls |-> TRUE, min |-> "TLSv10", max |-> "", ciphers |-> ciphers,
   certs |-> {"pair"}, clientCAs |-> {}, auth |-> "", sni |-> FALSE,
   plugin |-> plugin]
TCP  == [tls |-> FALSE]
Good == TLS(Hex({47, 49199}), "")
Acme == [type |-> "autocert", so |-> "map", absolute |-> TRUE, init |-> "ok"]

ClientTLS == [given |-> TRUE, min |-> "TLSv12", max |-> "", certs |-> {},
              ciphers |-> NoCiphers, rootCAs |-> {"pem"}]
RR(upstreams) == [parses |-> TRUE, type |-> "RoundRobin", rr |-> TRUE,
                  rrParses |-> TRUE, uri |-> "good", upstreams |-> upstreams]
Virtual(up) == [given |-> TRUE, type |-> "Virtual", tls |-> ClientTLS,
                virtual |-> RR("up" :> up)]

Needs(needs) == [needs |-> needs, strict |-> TRUE, out |-> "handler",
                 cleanup |-> TRUE]
Lenient(needs) == [Needs(needs) EXCEPT !.strict = FALSE]
Of(type, c) == [type |-> type, plugin |-> "none", config |-> c]
Custom(c) == Of("custom", c)
FromPlugin(so, p, h) == [type |-> h.type, plugin |-> so, fromPlugin |-> p,
                         config |-> h.config]
Proxy(transport, modules) ==
  Of("ReverseProxy", [given |-> TRUE, parses |-> TRUE, dir |-> TRUE,
                      transport |-> transport, modules |-> modules])
Redirect(parses) == Of("Redirect", [parses |-> parses])

Server(handler) == [kind |-> "string", paths |-> "/" :> handler,
                    log |-> FALSE, listeners |-> "tcp" :> TCP]
Mux(ps, ls) == [kind |-> "mux", paths |-> ps, log |-> TRUE,
                listeners |-> ls]

Conf(http, handlers) ==
  [read |-> "ok", metrics |-> {}, log |-> FALSE, http |-> http,
   handlers |-> handlers, tlsPlugins |-> <<>>, pluginDir |-> FALSE,
   defaultSNI |-> "map"]

\* Two servers share handlers that share a proxy.
Diamond ==
  [Conf("A" :> Server("h1") @@
        "B" :> Mux("/1" :> "h1" @@ "/2" :> "h2",
                   "tls" :> Good @@ "acme" :> TLS(OpenSSL({49199}), "acme")),
        "h1" :> Custom(Needs(<<"h3">>)) @@
        "h2" :> Custom(Needs(<<"h3", "NotFound">>)) @@
        "h3" :> Proxy(Virtual({"url"}), <<"ok", "ok">>))
    EXCEPT !.metrics = {"Address", "Ident"}, !.tlsPlugins = "acme" :> Acme]

Cyclic == Conf("A" :> Server("h1") @@ "B" :> Server("h3"),
               "h1" :> Custom(Needs(<<"h2">>)) @@
               "h2" :> Custom(Needs(<<"h1">>)) @@ "h3" :> Redirect(TRUE))

\* A cycle that one of its handlers can do without.
Tolerant == Conf("A" :> Server("h1") @@ "B" :> Mux("/" :> "h2", <<>>),
                 "h1" :> Custom(Needs(<<"h2">>)) @@
                 "h2" :> Custom(Lenient(<<"h3", "h1">>)) @@
                 "h3" :> Proxy(NotGiven, <<"ok", "fails">>))

\* Handlers that refer to each other in every way that is and is not a
\* cycle; h2 can do without the others.
Graphs ==
  {Conf("A" :> Mux("/1" :> "h1" @@ "/2" :> "h2" @@ "/3" :> "h3", <<>>),
        "h1" :> Custom(Needs(n1)) @@ "h2" :> Custom(Lenient(n2)) @@
        "h3" :> Custom(Needs(n3))) :
     n1 \in {<<"h2", "h3">>, <<"h3">>}, n2 \in {<<"h3", "h1">>},
     n3 \in {<<>>, <<"h1">>, <<"h2", "h1">>, <<"nobody">>}}

\* Plugins: one without a map, one that leaves the handler to the type, one
\* that refers to itself.
Plugins ==
  Conf("A" :> Server("h1") @@ "B" :> Server("h2"),
       "h1" :> FromPlugin("map", [Needs(<<"h2">>) EXCEPT !.out = "nil"],
                          Redirect(TRUE)) @@
       "h2" :> FromPlugin("nomap", Needs(<<>>), Custom(Lenient(<<"h3">>))) @@
       "h3" :> FromPlugin("map", Needs(<<"h3">>), Redirect(TRUE)))

Failing ==
  {Conf("A" :> Server("h1") @@ "B" :> Mux("/" :> "#", <<>>), "h1" :> h) :
     h \in {Proxy(Virtual({}), <<>>), FromPlugin("bad", Needs(<<>>),
            Redirect(TRUE)), Redirect(FALSE), Of("unknown", Needs(<<>>)),
            Custom([Needs(<<>>) EXCEPT !.out = "failed"])}}
  \cup {Conf("A" :> Mux("/" :> "NotFound", "tls" :> Good @@ "bad" :> t)
             @@ "B" :> [Server("NotFound") EXCEPT !.kind = k], <<>>) :
          <<t, k>> \in {<<TLS(NoCiphers, ""), "string">>,
                        <<TLS(Hex({65536}), ""), "string">>,
                        <<[Good EXCEPT !.sni = TRUE], "string">>,
                        <<Good, "invalid">>}}

\* What ends the process instead of the load.
NoPlugin ==
  Conf("A" :> Mux("/" :> "NotFound", "tls" :> TLS(Hex({47}), "acme")), <<>>)
Deadly ==
  {NoPlugin,
   Conf("A" :> Mux("/" :> "h1", <<>>), "h1" :> [Proxy(NotGiven, <<>>)
          EXCEPT !.config.given = FALSE]),
   Conf("A" :> Mux("/" :> "h1", <<>>),
        "h1" :> Custom([Needs(<<>>) EXCEPT !.out = "nil"])),
   Conf("A" :> Server("h1"), "h1" :> Proxy(NotGiven, <<"ok", "panics">>)),
   Conf("A" :> Server("h1"), "h1" :> FromPlugin("nilmap", Needs(<<>>),
                                                Redirect(TRUE)))}

Minimal == [Conf("A" :> Server("NotFound"), <<>>) EXCEPT !.log = TRUE]
NoConf(read) == [Minimal EXCEPT !.read = read]

MCConfigs == {Diamond, Cyclic, Tolerant, Plugins, Minimal, NoConf("bad"),
              NoConf("null")} \cup Graphs \cup Failing \cup Deadly

MCOptions == {<<>>, <<[field |-> "dryrun", value |-> TRUE]>>,
              <<[field |-> "dryrun", value |-> FALSE],
                [field |-> "controlsocket", value |-> FALSE]>>}

=============================================================================
