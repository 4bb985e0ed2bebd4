---------------------------- MODULE RoundRobin -----------------------------
(***************************************************************************)
(* A virtual upstream: its round-robin pool of targets (gone/http/         *)
(* vtransport/upstream/rr), and requests on their way through              *)
(* VirtualTransport.RoundTrip (gone/http/vtransport), which tries one      *)
(* target after the other.                                                 *)
(*                                                                         *)
(* NextTarget and Update work on the targets under the lock smu.  The      *)
(* health check works on the same fields under another lock, mu, so its    *)
(* writes fall anywhere between: a search is a step per target, an update  *)
(* a step per access that a write of the health check could overtake.  An  *)
(* increment or decrement is one access.                                   *)
(*                                                                         *)
(* The time of a target's last failure is told by two flags: whether it    *)
(* is within the burst grace, and within the quarantine, of now.           *)
(***************************************************************************)
EXTENDS Integers

CONSTANTS
  Requests,
  Idempotent,  \* requests with an idempotent method
  NTargets,
  MaxFails,    \* the options MaxFails, ...
  MaxRetries,  \* ... Retries, and how often the pool may be repeated
  MaxRepeat,
  NoOne,       \* smu is free
  FailBound    \* bound: the counter of a target goes no higher

ASSUME RoundRobinAssumption ==
  /\ Idempotent \subseteq Requests
  /\ NTargets \in Nat \ {0}
  /\ MaxFails \in Nat /\ MaxRetries \in Nat /\ MaxRepeat \in Nat
  /\ NoOne \notin Requests
  /\ FailBound \in Nat /\ FailBound >= MaxFails

Targets == 0 .. (NTargets - 1)

VARIABLES
  \* the targets
  down, fails, burst, quarantined,
  \* where the last request began its search
  idx,
  smu,
  \* does the upstream have a health check; what its goroutine is about to do
  monitored, health,
  \* per request: where it is, its rrcontext, its search (start and next), its
  \* deferCloseBody, whether a backend may have carried out what must not be
  \* done twice, and the error that Update still works on
  pc, ctx, search, body, unsafe, error

targetVars == <<down, fails, burst, quarantined>>
poolVars   == <<idx, monitored>>
reqVars    == <<pc, ctx, search, body, unsafe, error>>
vars       == <<targetVars, poolVars, smu, health, reqVars>>

Ctx    == [first : Targets, idx : Targets, retry : 0 .. MaxRetries, wrap : Nat]
Search == [start : Targets, next : Targets]
Body   == [isread : BOOLEAN, shouldClose : BOOLEAN, closed : Nat]

NoCtx    == [first |-> 0, idx |-> 0, retry |-> 0, wrap |-> 0]
NoSearch == [start |-> 0, next |-> 0]
NewBody  == [isread |-> FALSE, shouldClose |-> FALSE, closed |-> 0]
NoCheck  == [is |-> "idle", target |-> 0]

Steps  == {"idle", "search", "send", "lower", "punish", "mark", "giveup"}
Errors == {"none", "dial", "io"}

\* fails-- after a health check has set the counter to MaxFails / 2
LeastFails == IF MaxFails = 1 THEN -1 ELSE 0

TypeOK ==
  /\ down \in [Targets -> BOOLEAN]
  /\ fails \in [Targets -> LeastFails .. FailBound]
  /\ burst \in [Targets -> BOOLEAN]
  /\ quarantined \in [Targets -> BOOLEAN]
  /\ idx \in Targets
  /\ smu \in Requests \cup {NoOne}
  /\ monitored \in BOOLEAN
  /\ health \in [is : {"idle", "fail", "ok"}, target : Targets]
  /\ pc \in [Requests -> Steps]
  /\ ctx \in [Requests -> Ctx]
  /\ search \in [Requests -> Search]
  /\ body \in [Requests -> Body]
  /\ unsafe \in [Requests -> BOOLEAN]
  /\ error \in [Requests -> Errors]

Init ==
  /\ down = [t \in Targets |-> FALSE]
  /\ fails = [t \in Targets |-> 0]
  /\ burst = [t \in Targets |-> FALSE]
  /\ quarantined = [t \in Targets |-> FALSE]
  /\ idx = 0
  /\ smu = NoOne
  /\ monitored \in BOOLEAN /\ health = NoCheck
  /\ pc = [r \in Requests |-> "idle"]
  /\ ctx = [r \in Requests |-> NoCtx]
  /\ search = [r \in Requests |-> NoSearch]
  /\ body = [r \in Requests |-> NewBody]
  /\ unsafe = [r \in Requests |-> FALSE]
  /\ error = [r \in Requests |-> "none"]

SmuFree(r) == smu \in {NoOne, r}

-----------------------------------------------------------------------------
(***************************************************************************)
(* Plausible mistakes in this code, none of which is part of Next.         *)
(***************************************************************************)

\* step: off by one at the end of the list
StepTooFar(i) == IF i + 1 > NTargets THEN 0 ELSE i + 1

\* MayRetry: a body that was read, or any method, is sent again
RetriesRead(r, e, b) ==
  /\ ctx[r].retry < MaxRetries /\ ctx[r].wrap <= MaxRepeat
  /\ r \in Idempotent \/ e = "dial"

\* SearchFrom: a retry begins with the target that failed
SearchFromSame(r) == ctx[r].idx

\* Closed: the first Close() is not put off
ClosedAtOnce(b) == [b EXCEPT !.closed = @ + 1]

\* ClosedIfNeeded: the Close() that was put off is forgotten
NeverClosed(b) == b

-----------------------------------------------------------------------------
(***************************************************************************)
(* NextTarget.                                                             *)
(***************************************************************************)
step(i) == IF i + 1 >= NTargets THEN 0 ELSE i + 1

\* A request comes in: it searches from the target after the last one.
FirstTarget(r) ==
  /\ pc[r] = "idle"
  /\ LET start == step(idx)
     IN /\ idx' = start
        /\ ctx' = [ctx EXCEPT ![r] = [NoCtx EXCEPT !.first = start]]
        /\ search' = [search EXCEPT ![r] = [start |-> start, next |-> start]]
  /\ pc' = [pc EXCEPT ![r] = "search"]
  /\ UNCHANGED <<targetVars, monitored, smu, health, body, unsafe, error>>

\* fails <= rand.Intn(maxFails) can hold, and can fail.
MayTake(t) == MaxFails = 0 \/ fails[t] < MaxFails
MaySkip(t) == MaxFails # 0 /\ fails[t] > 0

Pick(r, t) ==
  /\ pc' = [pc EXCEPT ![r] = "send"]
  /\ search' = [search EXCEPT ![r] = NoSearch]
  /\ smu' = NoOne

\* The target is up, and the dice are for it; or its quarantine is over.
TakeTarget(r) ==
  /\ pc[r] = "search" /\ SmuFree(r)
  /\ LET t == search[r].next
     IN /\ \/ ~down[t] /\ MayTake(t) /\ UNCHANGED down
           \/ down[t] /\ ~quarantined[t] /\ down' = [down EXCEPT ![t] = FALSE]
        /\ ctx' = [ctx EXCEPT ![r].idx = t]
        /\ Pick(r, t)
  /\ UNCHANGED <<fails, burst, quarantined, poolVars, health, body, unsafe,
                 error>>

\* All that is asked of wrap is whether it is above MaxRepeat.
Repeats(n) == IF n > MaxRepeat THEN MaxRepeat + 1 ELSE n

Rejected(t) == IF down[t] THEN quarantined[t] ELSE MaySkip(t)

\* Not this one; after the last one, the first is tried none the less.
SkipTarget(r) ==
  /\ pc[r] = "search" /\ SmuFree(r)
  /\ Rejected(search[r].next)
  /\ LET t == step(search[r].next)
     IN IF t = search[r].start
          THEN /\ ctx' = [ctx EXCEPT
                            ![r] = [ctx[r] EXCEPT !.idx = t,
                                            !.wrap = Repeats(@ + 1)]]
               /\ Pick(r, t)
          ELSE /\ search' = [search EXCEPT ![r].next = t]
               /\ smu' = r
               /\ UNCHANGED <<ctx, pc>>
  /\ UNCHANGED <<targetVars, poolVars, health, body, unsafe, error>>

-----------------------------------------------------------------------------
(***************************************************************************)
(* One attempt: http.Transport sends the request and closes its body, and  *)
(* Update is told how it went.                                             *)
(***************************************************************************)
SmuAfter(r) == NoOne

\* RoundTrip returns: the request's variables are gone.
Return(r) ==
  /\ body' = [body EXCEPT ![r] = NewBody]
  /\ unsafe' = [unsafe EXCEPT ![r] = FALSE]
  /\ error' = [error EXCEPT ![r] = "none"]

\* A response; or the client went away, which is not the target's fault.  All
\* that is left to do is to lower the fail counter, if it is not 0.
Succeed(r) ==
  /\ pc[r] = "send" /\ SmuFree(r)
  /\ IF fails[ctx[r].idx] > 0
       THEN /\ pc' = [pc EXCEPT ![r] = "lower"]
            /\ ctx' = [ctx EXCEPT ![r] = [NoCtx EXCEPT !.idx = ctx[r].idx]]
            /\ smu' = r
       ELSE /\ pc' = [pc EXCEPT ![r] = "idle"]
            /\ ctx' = [ctx EXCEPT ![r] = NoCtx]
            /\ smu' = SmuAfter(r)
  /\ Return(r)
  /\ UNCHANGED <<targetVars, poolVars, health, search>>

LowerFails(r) ==
  /\ pc[r] = "lower"
  /\ fails' = [fails EXCEPT ![ctx[r].idx] = @ - 1]
  /\ pc' = [pc EXCEPT ![r] = "idle"]
  /\ ctx' = [ctx EXCEPT ![r] = NoCtx]
  /\ smu' = SmuAfter(r)
  /\ UNCHANGED <<down, burst, quarantined, poolVars, health, search, body,
                 unsafe, error>>

\* deferCloseBody.Close
Closed(b) ==
  IF ~b.shouldClose /\ ~b.isread
    THEN [b EXCEPT !.shouldClose = TRUE]
    ELSE [b EXCEPT !.shouldClose = FALSE, !.closed = @ + 1]

\* deferCloseBody.CloseIfNeeded
ClosedIfNeeded(b) == IF b.shouldClose THEN [b EXCEPT !.closed = @ + 1] ELSE b

\* RetryPolicy and CanRetry, for the error e and the body b
MayRetry(r, e, b) ==
  /\ ctx[r].retry < MaxRetries /\ ctx[r].wrap <= MaxRepeat
  /\ r \in Idempotent \/ e = "dial"
  /\ ~b.isread

SearchFrom(r) == step(ctx[r].idx)

\* Search for another target from the one after this, or give up.
RetryOrGiveUp(r, e, b) ==
  IF MayRetry(r, e, b)
    THEN LET start == SearchFrom(r)
             again == IF start = ctx[r].first THEN 1 ELSE 0
         IN /\ ctx' = [ctx EXCEPT
                         ![r] = [ctx[r] EXCEPT !.retry = @ + 1,
                                               !.wrap = Repeats(@ + again)]]
            /\ search' = [search EXCEPT ![r] = [start |-> start,
                                                next |-> start]]
            /\ body' = [body EXCEPT ![r] = b]
            /\ pc' = [pc EXCEPT ![r] = "search"]
    ELSE /\ body' = [body EXCEPT ![r] = ClosedIfNeeded(b)]
         /\ ctx' = [ctx EXCEPT ![r] = NoCtx]
         /\ pc' = [pc EXCEPT ![r] = "giveup"]
         /\ UNCHANGED search

Bounded(n) == IF n > FailBound THEN FailBound ELSE n

\* The failure is counted unless it belongs to a burst.
Count(r, e, b) ==
  LET t == ctx[r].idx
  IN IF MaxFails = 0 \/ burst[t]
       THEN /\ RetryOrGiveUp(r, e, b)
            /\ UNCHANGED <<targetVars, smu, error>>
       ELSE /\ fails' = [fails EXCEPT ![t] = Bounded(@ + 1)]
            /\ burst' = [burst EXCEPT ![t] = TRUE]
            /\ quarantined' = [quarantined EXCEPT ![t] = TRUE]
            /\ pc' = [pc EXCEPT ![r] = "punish"]
            /\ smu' = r
            /\ error' = [error EXCEPT ![r] = e]
            /\ body' = [body EXCEPT ![r] = b]
            /\ UNCHANGED <<down, ctx, search>>

\* A failed dial leaves the body unread.
Fail(r) ==
  /\ pc[r] = "send" /\ SmuFree(r)
  /\ \E e \in {"dial", "io"}, isread \in BOOLEAN :
       /\ e = "dial" => ~isread
       /\ unsafe' = [unsafe EXCEPT
                       ![r] = @ \/ (e = "io" /\ r \notin Idempotent)]
       /\ Count(r, e, Closed([body[r] EXCEPT !.isread = @ \/ isread]))
  /\ UNCHANGED <<poolVars, health>>

\* Update is over.
Updated(r) ==
  /\ smu' = SmuAfter(r)
  /\ error' = [error EXCEPT ![r] = "none"]
  /\ RetryOrGiveUp(r, error[r], body[r])

\* After MaxFails failures the target is to be quarantined.
Punish(r) ==
  /\ pc[r] = "punish"
  /\ IF fails[ctx[r].idx] >= MaxFails
       THEN /\ pc' = [pc EXCEPT ![r] = "mark"]
            /\ UNCHANGED <<smu, ctx, search, body, error>>
       ELSE Updated(r)
  /\ UNCHANGED <<targetVars, poolVars, health, unsafe>>

MarkDown(r) ==
  /\ pc[r] = "mark"
  /\ down' = [down EXCEPT ![ctx[r].idx] = TRUE]
  /\ Updated(r)
  /\ UNCHANGED <<fails, burst, quarantined, poolVars, health, unsafe>>

GiveUp(r) ==
  /\ pc[r] = "giveup"
  /\ pc' = [pc EXCEPT ![r] = "idle"]
  /\ Return(r)
  /\ UNCHANGED <<targetVars, poolVars, smu, health, ctx, search>>

-----------------------------------------------------------------------------
(***************************************************************************)
(* The health check, which does not hold smu, and time.                    *)
(***************************************************************************)
CheckFails(t) ==
  /\ monitored /\ health = NoCheck
  /\ down' = [down EXCEPT ![t] = TRUE]
  /\ health' = [is |-> "fail", target |-> t]
  /\ UNCHANGED <<fails, burst, quarantined, poolVars, smu, reqVars>>

CheckFailed ==
  /\ health.is = "fail"
  /\ burst' = [burst EXCEPT ![health.target] = TRUE]
  /\ quarantined' = [quarantined EXCEPT ![health.target] = TRUE]
  /\ health' = NoCheck
  /\ UNCHANGED <<down, fails, poolVars, smu, reqVars>>

CheckSucceeds(t) ==
  /\ monitored /\ health = NoCheck
  /\ down' = [down EXCEPT ![t] = FALSE]
  /\ health' = [is |-> "ok", target |-> t]
  /\ UNCHANGED <<fails, burst, quarantined, poolVars, smu, reqVars>>

CheckSucceeded ==
  /\ health.is = "ok"
  /\ fails' = [fails EXCEPT ![health.target] = MaxFails \div 2]
  /\ health' = NoCheck
  /\ UNCHANGED <<down, burst, quarantined, poolVars, smu, reqVars>>

HealthCheck ==
  \/ \E t \in Targets : CheckFails(t) \/ CheckSucceeds(t)
  \/ CheckFailed \/ CheckSucceeded

BurstEnds(t) ==
  /\ burst[t]
  /\ burst' = [burst EXCEPT ![t] = FALSE]
  /\ UNCHANGED <<down, fails, quarantined, poolVars, smu, health, reqVars>>

QuarantineEnds(t) ==
  /\ quarantined[t] /\ ~burst[t]
  /\ quarantined' = [quarantined EXCEPT ![t] = FALSE]
  /\ UNCHANGED <<down, fails, burst, poolVars, smu, health, reqVars>>

Time == \E t \in Targets : BurstEnds(t) \/ QuarantineEnds(t)

-----------------------------------------------------------------------------
NextTarget(r) == TakeTarget(r) \/ SkipTarget(r)
Attempt(r) ==
  \/ Succeed(r) \/ LowerFails(r)
  \/ Fail(r) \/ Punish(r) \/ MarkDown(r) \/ GiveUp(r)

Next ==
  \/ \E r \in Requests :
       FirstTarget(r) \/ NextTarget(r) \/ Attempt(r)
  \/ HealthCheck \/ Time

Spec == Init /\ [][Next]_vars

-----------------------------------------------------------------------------
(***************************************************************************)
(* Properties.                                                             *)
(***************************************************************************)

\* A request is sent again only if that is safe: no attempt has read its body,
\* and, unless its method is idempotent, none reached a backend.
ResentOnlyIfSafe ==
  \A r \in Requests : pc[r] \in {"search", "send"} /\ ctx[r].retry > 0 =>
    ~body[r].isread /\ ~unsafe[r]

\* A target in quarantine, or the one that has just failed, is tried only if
\* no other is up without fails (when no health check changes that meanwhile).
HealthyFirst ==
  [][\A r \in Requests :
       ~monitored /\ pc[r] = "search" /\ pc'[r] = "send" =>
         LET t == ctx'[r].idx
         IN (down[t] /\ quarantined[t]) \/ (ctx[r].retry > 0 /\ ctx[r].idx = t)
              => \A u \in Targets \ {t} : down[u] \/ fails[u] > 0]_pc

\* The body is open when a request is sent for the first and second time.
BodyKeptForRetry ==
  \A r \in Requests :
    pc[r] = "send" /\ ctx[r].retry <= 1 => body[r].closed = 0

\* A request that is given up leaves its body closed.
GivenUpIsClosed ==
  \A r \in Requests : pc[r] = "giveup" => body[r].closed > 0

\* smu is held by the request that is in the middle of a search or an update,
\* and by no other: it is released on every path, and never twice.
SmuHeldInside ==
  \A r \in Requests :
    smu = r <=> \/ pc[r] \in {"lower", "punish", "mark"}
                \/ pc[r] = "search" /\ search[r].next # search[r].start

(***************************************************************************)
(* The inductive invariant behind the state properties.                    *)
(***************************************************************************)

\* Without MaxFails nothing is counted; and a counter that is about to be
\* lowered is not 0, unless a health check has reset it to 1 \div 2.
CountInv ==
  /\ MaxFails = 0 => \A t \in Targets : fails[t] = 0
  /\ \A r \in Requests : pc[r] = "lower" =>
       \/ fails[ctx[r].idx] >= 1
       \/ MaxFails = 1 /\ fails[ctx[r].idx] >= 0

\* What must not be done twice ends with Update, or with giving up.
UnsafeInv ==
  \A r \in Requests : unsafe[r] =>
    /\ r \notin Idempotent
    /\ pc[r] = "giveup" \/ (pc[r] \in {"punish", "mark"} /\ error[r] = "io")

\* A body is new, or waits unread for its next attempt, or was closed.
BodyOk(r) ==
  /\ pc[r] \in {"idle", "lower"} => body[r] = NewBody
  /\ pc[r] \in {"search", "send"} =>
       /\ ~body[r].isread
       /\ ctx[r].retry = 0 => body[r] = NewBody
       /\ ctx[r].retry = 1 => body[r].closed = 0
  /\ pc[r] \in {"punish", "mark"} =>
       /\ error[r] # "none"
       /\ body[r].shouldClose \/ body[r].closed > 0
       /\ ctx[r].retry = 0 /\ ~body[r].isread => body[r].closed = 0
  /\ pc[r] = "giveup" => body[r].closed > 0

BodyInv == \A r \in Requests : BodyOk(r)

IInv == TypeOK /\ SmuHeldInside /\ CountInv /\ UnsafeInv /\ BodyInv

(***************************************************************************)
(* And the one behind HealthyFirst.                                        *)
(***************************************************************************)

\* The targets a search has gone past when it began at s and has come to n.
Passed(s, n) ==
  {u \in Targets : IF s <= n THEN s <= u /\ u < n ELSE s <= u \/ u < n}

\* A retry begins after the target that failed; and what a search has passed is
\* down or has fails until the search ends, unless a health check changes that.
SearchOk(r) ==
  pc[r] = "search" =>
    /\ ctx[r].retry > 0 => search[r].start = step(ctx[r].idx)
    /\ ~monitored => \A u \in Passed(search[r].start, search[r].next) :
                       down[u] \/ fails[u] > 0

\* A health check runs only where there is one.
SearchInv ==
  /\ monitored \/ health = NoCheck
  /\ \A r \in Requests : SearchOk(r)

(***************************************************************************)
(* Statements of the code's comments that the code does not keep.          *)
(***************************************************************************)

\* A target with MaxFails fails is in quarantine, unless it is being retried:
\* otherwise it can still be picked.
FailedOnlyInQuarantine ==
  (\A r \in Requests : pc[r] = "idle") /\ ~monitored /\ MaxFails > 0 =>
    \A t \in Targets : down[t] \/ fails[t] < MaxFails

=============================================================================
