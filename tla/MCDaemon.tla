------------------------------ MODULE MCDaemon ------------------------------
(* Model-checking instances of Daemon: an HTTP server, and a service that  *)
(* keeps no connections (the metrics service, a proxy's health checks).    *)
EXTENDS Daemon

CONSTANTS http, service

Both == {http, service}
JustHTTP == {http}
JustService == {service}
None == {}

=============================================================================
