--------------------------- MODULE MCReverseProxy ---------------------------
(***************************************************************************)
(* Chains, requests and metrics specs for the ReverseProxy module.         *)
(***************************************************************************)
EXTENDS ReverseProxy

proxypass == [type |-> "proxypass", forwarded |-> TRUE, rewriteHost |-> TRUE,
              rewriteForward |-> TRUE, rewriteReverse |-> TRUE]
noop      == [type |-> "proxypass", forwarded |-> FALSE,
              rewriteHost |-> FALSE, rewriteForward |-> FALSE,
              rewriteReverse |-> FALSE]
setter    == [type |-> "set_header", request |-> {"X-Foo"},
              responseHop |-> TRUE]
forward   == [type |-> "forward_map_director", hosts |-> {"client"}]
fallback  == [type |-> "forward_map_director", hosts |-> {""}]
suffix    == [type |-> "host_suffix_director", viaCNAME |-> TRUE]
settings  == [type |-> "backendsettings", port |-> TRUE, forceTLS |-> TRUE]
external  == [type |-> "plugin"]

MCChains == {<<>>, <<forward, proxypass>>, <<proxypass, forward>>,
             <<suffix, setter>>, <<external, settings, noop>>,
             <<fallback, setter, external>>}

Plain == [k \in Headers |-> "none"]
Full  == [k \in Headers |-> "client"]

MCRequests ==
  {[header |-> Plain, named |-> {}, tls |-> FALSE, badDestination |-> FALSE],
   [header |-> Full, named |-> {"Keep-Alive", "X-Foo"}, tls |-> TRUE,
    badDestination |-> FALSE],
   [header |-> [Full EXCEPT !["X-Request-ID"] = "empty", !["rid"] = "none"],
    named |-> {"User-Agent"}, tls |-> FALSE, badDestination |-> TRUE],
   [header |-> [Plain EXCEPT !["X-Foo"] = "client"], named |-> {},
    tls |-> FALSE, badDestination |-> FALSE]}

MCSpecs == {[codes |-> {}, time |-> FALSE],
            [codes |-> {200, 404, 1, 2, 3, 4, 5}, time |-> TRUE]}

=============================================================================
