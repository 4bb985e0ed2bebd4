----------------------------- MODULE AccessLog -----------------------------
(***************************************************************************)
(* The access log of one HTTP server name across the configurations that   *)
(* define it (accesslog.go, and gone/http/handlers/accesslog).             *)
(*                                                                         *)
(* Configuration c wraps the server's handler in a dynamic log handler,    *)
(* called handler c here.  Four kinds of goroutines change the writers of  *)
(* the handlers and the registry entry of the name:                        *)
(*   - the event loop sets configurations up, one after the other;         *)
(*   - recordShutdown runs the cleanup of a configuration it retired;      *)
(*   - the signal handler reopens the log files, under registryLock;       *)
(*   - control-socket sessions follow a log ("alog <server>").             *)
(* Requests take the writers they log to when they begin, and write when   *)
(* they end.                                                               *)
(*                                                                         *)
(* The stages of a configuration:                                          *)
(*   none -> opened -> registered -> loaded -> serving -> stopped          *)
(*        -> off -> unregistered -> done,   and failed.                    *)
(***************************************************************************)
EXTENDS Integers, Sequences, FiniteSets, Functions

CONSTANTS
  Sessions,    \* control-socket connections
  Requests,
  MaxConf,     \* bound: configurations
  MaxReopen,   \* bound: files that Reopen opens
  OpenMayFail, \* may the log file fail to open?
  ConfMayFail, \* may the rest of a configuration fail?
  QuietSetup   \* no reopening and no session while a handler is wired up

Conf  == 1 .. MaxConf
Files == 1 .. (MaxConf + MaxReopen)  \* open files, numbered as they are opened

NilFile  == 0     \* the *os.File of an open that failed
NoWriter == -1    \* the nil io.Writer: no access log

FileWriters == Files \cup {NilFile}
Writers     == FileWriters \cup Sessions

\* The io.Writer of a session is a connection: neither nil nor an *os.File.
ASSUME AccessLogAssumption ==
  /\ MaxConf \in Nat \ {0}
  /\ MaxReopen \in Nat
  /\ {OpenMayFail, ConfMayFail, QuietSetup} \subseteq BOOLEAN
  /\ Sessions \cap (FileWriters \cup {NoWriter}) = {}

NoEntry == [handler |-> 0, writer |-> NoWriter]
NoSwap  == [old |-> NoWriter, new |-> NoWriter]
Idle    == [handler |-> 0, writers |-> <<>>]
Off     == [is |-> "off", handler |-> 0]

VARIABLES
  stage,     \* per configuration
  out,       \* per configuration: the file wrapAuditHandler opened
  writers,   \* per handler: what its access log goes to, in order
  alog,      \* the handler "alog" finds for the server
  registry,  \* the registry's entry for the server
  swap,      \* the files ReopenAccessLogFiles, holding registryLock, handles
  opened,    \* how many files were opened
  isOpen,    \* the files that are open
  session,   \* per session: its command's progress and handler
  request    \* per request: its handler and the writers it took from it

fileVars == <<opened, isOpen>>
vars == <<stage, out, writers, alog, registry, swap, fileVars, session,
          request>>

Stages == {"none", "opened", "registered", "loaded", "serving", "stopped",
           "off", "unregistered", "done", "failed"}

TypeOK ==
  /\ stage \in [Conf -> Stages]
  /\ out \in [Conf -> FileWriters \cup {NoWriter}]
  /\ writers \in [Conf -> Seq(Writers)]
  /\ alog \in {0} \cup Conf
  /\ registry \in {NoEntry} \cup [handler : Conf, writer : FileWriters]
  /\ swap \in {NoSwap} \cup [old : FileWriters, new : FileWriters]
  /\ opened \in {0} \cup Files
  /\ isOpen \subseteq Files
  /\ session \in [Sessions ->
       {Off} \cup [is : {"found", "on", "gone"}, handler : Conf]]
  /\ request \in [Requests ->
       {Idle} \cup [handler : Conf, writers : Seq(Writers)]]

Init ==
  /\ stage = [c \in Conf |-> "none"]
  /\ out = [c \in Conf |-> NoWriter]
  /\ writers = [c \in Conf |-> <<>>]
  /\ alog = 0
  /\ registry = NoEntry
  /\ swap = NoSwap
  /\ opened = 0 /\ isOpen = {}
  /\ session = [s \in Sessions |-> Off]
  /\ request = [r \in Requests |-> Idle]

LockFree == swap = NoSwap

-----------------------------------------------------------------------------
(***************************************************************************)
(* Plausible mistakes in this code, none of which is part of Next.         *)
(***************************************************************************)

\* ToggleAccessLog: a new writer goes to the front; an old one stays
ToggleInFront(ws, old, new) ==
  IF old = NoWriter THEN <<new>> \o ws
  ELSE LET kept == SelectSeq(ws, LAMBDA w : w # old \/ new # NoWriter)
       IN [i \in DOMAIN kept |-> IF kept[i] = old THEN new ELSE kept[i]]

ToggleKeepsOld(ws, old, new) == IF new = NoWriter THEN ws ELSE Append(ws, new)

\* ReopenedEntry: the entry keeps the file that was closed
StaleEntry == registry

\* CleanupCloses: the file is left open
ClosesNothing(c) == {}

\* AlogKnown: the handler that was looked up is not checked
AlogUnchecked == TRUE

-----------------------------------------------------------------------------
(***************************************************************************)
(* Helpers.                                                                *)
(***************************************************************************)

\* What the walk through the writers ws leaves of the first i of them.
Walk(ws, old, new) ==
  LET kept[i \in 0 .. Len(ws)] ==
        IF i = 0 THEN <<>>
        ELSE IF ws[i] # old THEN Append(kept[i - 1], ws[i])
        ELSE IF new # NoWriter THEN Append(kept[i - 1], new)
        ELSE kept[i - 1]
  IN kept

ToggleAccessLog(ws, old, new) ==
  IF old = NoWriter THEN Append(ws, new) ELSE Walk(ws, old, new)[Len(ws)]

Toggle(c, old, new) ==
  writers' = [writers EXCEPT ![c] = ToggleAccessLog(@, old, new)]

\* accessLogFile: f is the file, or a nil *os.File when it does not open.
Open(f) ==
  \/ /\ f = opened + 1
     /\ opened' = f
     /\ isOpen' = isOpen \cup {f}
  \/ /\ OpenMayFail
     /\ f = NilFile
     /\ UNCHANGED fileVars

-----------------------------------------------------------------------------
(***************************************************************************)
(* wrapAuditHandler, and what becomes of its configuration.                *)
(***************************************************************************)
InSetup(c) == stage[c] \in {"opened", "registered"}

CanBegin(c) ==
  /\ stage[c] = "none"
  /\ \A d \in Conf : d < c => stage[d] # "none" /\ ~InSetup(d)

\* The new handler replaces the older one for "alog"; its file is opened.
OpenLog(c) ==
  /\ CanBegin(c)
  /\ alog' = c
  /\ \E f \in FileWriters :
       Open(f) /\ out' = [out EXCEPT ![c] = f]
  /\ stage' = [stage EXCEPT ![c] = "opened"]
  /\ UNCHANGED <<writers, registry, swap, session, request>>

\* The server has no access log: a handler, and nothing to clean up.
WithoutLog(c) ==
  /\ CanBegin(c)
  /\ alog' = c
  /\ stage' = [stage EXCEPT ![c] = "loaded"]
  /\ UNCHANGED <<out, writers, registry, swap, fileVars, session, request>>

Register(c) ==
  /\ stage[c] = "opened" /\ LockFree
  /\ registry' = [handler |-> c, writer |-> out[c]]
  /\ stage' = [stage EXCEPT ![c] = "registered"]
  /\ UNCHANGED <<out, writers, alog, swap, fileVars, session, request>>

\* The handler starts logging; and the rest of the configuration may fail, in
\* which case nobody runs its cleanups.
Attach(c) ==
  /\ stage[c] = "registered"
  /\ Toggle(c, NoWriter, out[c])
  /\ \E result \in {"loaded"} \cup (IF ConfMayFail THEN {"failed"} ELSE {}) :
       stage' = [stage EXCEPT ![c] = result]
  /\ UNCHANGED <<out, alog, registry, swap, fileVars, session, request>>

-----------------------------------------------------------------------------
(***************************************************************************)
(* The configuration's generation of servers, as the daemon runs it.       *)
(***************************************************************************)
Newer(c) == {d \in Conf : d > c}

Serve(c) ==
  /\ stage[c] = "loaded"
  /\ \A d \in Conf : stage[d] # "serving"
  /\ \A d \in Newer(c) : stage[d] # "loaded"
  /\ stage' = [stage EXCEPT ![c] = "serving"]
  /\ UNCHANGED <<out, writers, alog, registry, swap, fileVars, session,
                 request>>

Stop(c) ==
  /\ stage[c] = "serving"
  /\ \E d \in Newer(c) : stage[d] = "loaded"
  /\ stage' = [stage EXCEPT ![c] = "stopped"]
  /\ UNCHANGED <<out, writers, alog, registry, swap, fileVars, session,
                 request>>

Drained(c) == \A r \in Requests : request[r].handler # c

\* The cleanup, run when the last request is gone: with the file that was
\* opened at set-up, whatever is attached now ...
CleanupDetach(c) ==
  /\ stage[c] = "stopped" /\ Drained(c) /\ out[c] # NoWriter
  /\ Toggle(c, out[c], NoWriter)
  /\ stage' = [stage EXCEPT ![c] = "off"]
  /\ UNCHANGED <<out, alog, registry, swap, fileVars, session, request>>

\* ... and the entry of the name, whosever it is now.
Unregister(c) ==
  /\ stage[c] = "off" /\ LockFree
  /\ registry' = NoEntry
  /\ stage' = [stage EXCEPT ![c] = "unregistered"]
  /\ UNCHANGED <<out, writers, alog, swap, fileVars, session, request>>

CleanupCloses(c) == {out[c]}

CleanupClose(c) ==
  /\ stage[c] = "unregistered"
  /\ isOpen' = isOpen \ CleanupCloses(c)
  /\ stage' = [stage EXCEPT ![c] = "done"]
  /\ UNCHANGED <<out, writers, alog, registry, swap, opened, session, request>>

-----------------------------------------------------------------------------
(***************************************************************************)
(* ReopenAccessLogFiles (SIGUSR1), holding registryLock.                   *)
(***************************************************************************)
\* The file is opened again and swapped for the one the entry knows ...
Reopen ==
  /\ LockFree /\ registry # NoEntry
  /\ opened - Cardinality({c \in Conf : out[c] \in Files}) < MaxReopen
  /\ QuietSetup => \A c \in Conf : ~InSetup(c)
  /\ \E f \in FileWriters :
       /\ Open(f)
       /\ swap' = [old |-> registry.writer, new |-> f]
       /\ Toggle(registry.handler, registry.writer, f)
  /\ UNCHANGED <<stage, out, alog, registry, session, request>>

ReopenedEntry == [registry EXCEPT !.writer = swap.new]

\* ... which is closed then.
CloseOld ==
  /\ ~LockFree
  /\ isOpen' = isOpen \ {swap.old}
  /\ registry' = ReopenedEntry
  /\ swap' = NoSwap
  /\ UNCHANGED <<stage, out, writers, alog, opened, session, request>>

-----------------------------------------------------------------------------
(***************************************************************************)
(* The alog command of the control socket.                                 *)
(***************************************************************************)
AlogKnown == alog # 0

AlogInvoke(s) ==
  /\ session[s] = Off /\ AlogKnown
  /\ session' = [session EXCEPT ![s] = [is |-> "found", handler |-> alog]]
  /\ UNCHANGED <<stage, out, writers, alog, registry, swap, fileVars, request>>

AlogOn(s) ==
  /\ session[s].is = "found"
  /\ QuietSetup => ~InSetup(session[s].handler)
  /\ Toggle(session[s].handler, NoWriter, s)
  /\ session' = [session EXCEPT ![s].is = "on"]
  /\ UNCHANGED <<stage, out, alog, registry, swap, fileVars, request>>

\* The client is gone: writing to the connection fails from now on.
Disconnect(s) ==
  /\ session[s].is = "on"
  /\ session' = [session EXCEPT ![s].is = "gone"]
  /\ UNCHANGED <<stage, out, writers, alog, registry, swap, fileVars, request>>

\* The command's context ended.
AlogOff(s) ==
  /\ session[s].is \in {"on", "gone"}
  /\ Toggle(session[s].handler, s, NoWriter)
  /\ session' = [session EXCEPT ![s] = Off]
  /\ UNCHANGED <<stage, out, alog, registry, swap, fileVars, request>>

-----------------------------------------------------------------------------
(***************************************************************************)
(* Requests.                                                               *)
(***************************************************************************)
BeginRequest(r, c) ==
  /\ request[r] = Idle /\ stage[c] \in {"serving", "stopped"}
  /\ request' = [request EXCEPT ![r] = [handler |-> c, writers |-> writers[c]]]
  /\ UNCHANGED <<stage, out, writers, alog, registry, swap, fileVars, session>>

EndRequest(r) ==
  /\ request[r] # Idle
  /\ request' = [request EXCEPT ![r] = Idle]
  /\ UNCHANGED <<stage, out, writers, alog, registry, swap, fileVars, session>>

\* A MultiWriter stops at the first writer that fails.
Works(w) ==
  \/ w \in isOpen
  \/ w \in Sessions /\ session[w].is = "on"

GetsLine(r, w) ==
  LET ws == request[r].writers
  IN \E i \in DOMAIN ws : ws[i] = w /\ \A j \in 1 .. i : Works(ws[j])

-----------------------------------------------------------------------------
SetUp(c)   == OpenLog(c) \/ WithoutLog(c) \/ Register(c) \/ Attach(c)
Cleanup(c) == CleanupDetach(c) \/ Unregister(c) \/ CleanupClose(c)
Alog(s)    == AlogInvoke(s) \/ AlogOn(s) \/ Disconnect(s) \/ AlogOff(s)

Next ==
  \/ \E c \in Conf : SetUp(c) \/ Serve(c) \/ Stop(c) \/ Cleanup(c)
  \/ Reopen \/ CloseOld
  \/ \E s \in Sessions : Alog(s)
  \/ \E r \in Requests : EndRequest(r) \/ \E c \in Conf : BeginRequest(r, c)

Spec == Init /\ [][Next]_vars

-----------------------------------------------------------------------------
(***************************************************************************)
(* Properties.                                                             *)
(***************************************************************************)
Attached(c) == Range(writers[c])

\* No request is logged twice to the same place: a file or a session is a
\* writer of at most one handler, and once.
EachWriterOnce ==
  \A c, d \in Conf : \A i \in DOMAIN writers[c], j \in DOMAIN writers[d] :
    writers[c][i] = writers[d][j] /\ writers[c][i] # NilFile => c = d /\ i = j

\* A handler never writes to a file that is closed: files are closed after
\* they are swapped or detached, also while a cleanup and a reopening overlap.
AttachedIsOpen ==
  \A c \in Conf : Attached(c) \cap Files \subseteq isOpen

\* The next reopening will find, in its handler, the file the registry names.
ReopenFindsLog ==
  \A c \in Conf :
    LockFree /\ registry.handler = c
      /\ stage[c] \in {"loaded", "serving", "stopped", "failed"} =>
         registry.writer \in Attached(c)

\* A configuration that was cleaned up has closed the file it opened, and its
\* handler does not write to it.
OldLogReleased ==
  \A c \in Conf : stage[c] = "done" =>
    out[c] \notin (Attached(c) \cap Files) \cup isOpen

\* A request that no reopening overtook gets its line into the log file,
\* whatever happens to the sessions that follow the log.
LineReachesLog ==
  [][\A r \in Requests :
       request[r] # Idle /\ request'[r] = Idle =>
         \A f \in Files \cap Range(request[r].writers) :
           f \in Attached(request[r].handler) => GetsLine(r, f)]_request

(***************************************************************************)
(* Statements of the code's comments that the code does not keep.          *)
(***************************************************************************)

\* The registry knows the log of the configuration that serves, when no other
\* one is about to replace it.
ActiveLogRegistered ==
  \A c \in Conf :
    /\ stage[c] = "serving" /\ out[c] # NoWriter
    /\ \A d \in Newer(c) : stage[d] = "none"
    => registry.handler = c

=============================================================================
