---------------------------- MODULE Generations ----------------------------
(***************************************************************************)
(* What the daemon promises about the generations of servers it runs, with *)
(* no event loop, no channels and no contexts: generations are loaded in   *)
(* order, at most one of them accepts connections, one that was replaced   *)
(* finishes the requests it has, and its cleanups run after the last one.  *)
(* Only an exit may cut a request short, or put a generation away that     *)
(* never served.                                                           *)
(***************************************************************************)
EXTENDS Integers

CONSTANTS HTTPServers, MaxGen

Gen == 1 .. MaxGen

VARIABLES
  phase,    \* per generation
  busy,     \* per generation: the HTTP servers with a request in progress
  exiting   \* an exit was requested

vars == <<phase, busy, exiting>>

Phases == {"unborn", "loaded", "serving", "stopped", "draining", "clean"}

Init ==
  /\ phase = [g \in Gen |-> "unborn"]
  /\ busy = [g \in Gen |-> {}]
  /\ exiting = FALSE

Move(g, from, to) ==
  /\ phase[g] \in from
  /\ phase' = [phase EXCEPT ![g] = to]

Load(g) ==
  /\ \A h \in Gen : phase[h] = "unborn" <=> h >= g
  /\ Move(g, {"unborn"}, "loaded")
  /\ UNCHANGED <<busy, exiting>>

\* A generation takes over when no other serves, and never goes back to an
\* older one.
Start(g) ==
  /\ \A h \in Gen : phase[h] # "serving"
  /\ \A h \in Gen : h > g => phase[h] \in {"unborn", "loaded"}
  /\ Move(g, {"loaded"}, "serving")
  /\ UNCHANGED <<busy, exiting>>

\* Its sockets could not be opened.
Refuse(g) ==
  /\ Move(g, {"loaded"}, "stopped")
  /\ UNCHANGED <<busy, exiting>>

Stop(g) ==
  /\ Move(g, {"serving"}, "stopped")
  /\ UNCHANGED <<busy, exiting>>

\* Requests begin on new connections and on kept-alive ones.
Begin(g, s) ==
  /\ phase[g] \in {"serving", "stopped"}
  /\ s \notin busy[g]
  /\ busy' = [busy EXCEPT ![g] = @ \cup {s}]
  /\ UNCHANGED <<phase, exiting>>

Finish(g, s) ==
  /\ s \in busy[g]
  /\ busy' = [busy EXCEPT ![g] = @ \ {s}]
  /\ UNCHANGED <<phase, exiting>>

Drain(g) ==
  /\ \/ Move(g, {"stopped"}, "draining")
     \/ exiting /\ Move(g, {"loaded"}, "draining")
  /\ UNCHANGED <<busy, exiting>>

Cut(g) ==
  /\ exiting
  /\ phase[g] = "draining"
  /\ busy' = [busy EXCEPT ![g] = {}]
  /\ UNCHANGED <<phase, exiting>>

Clean(g) ==
  /\ busy[g] = {}
  /\ Move(g, {"draining"}, "clean")
  /\ UNCHANGED <<busy, exiting>>

RequestExit ==
  /\ exiting' = TRUE
  /\ UNCHANGED <<phase, busy>>

Next ==
  \/ RequestExit
  \/ \E g \in Gen :
       \/ Load(g) \/ Start(g) \/ Refuse(g) \/ Stop(g)
       \/ Drain(g) \/ Cut(g) \/ Clean(g)
       \/ \E s \in HTTPServers : Begin(g, s) \/ Finish(g, s)

Spec == Init /\ [][Next]_vars

=============================================================================
