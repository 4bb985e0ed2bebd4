-------------------------- MODULE RoundRobinProofs --------------------------
(***************************************************************************)
(* Proofs about RoundRobin, for every set of requests, any number of       *)
(* targets and every choice of the options.                                *)
(***************************************************************************)
EXTENDS RoundRobin, TLAPS

USE DEF targetVars, poolVars, reqVars

(***************************************************************************)
(* Facts about the helpers.                                                *)
(***************************************************************************)
LEMMA FirstTargetExists == 0 \in Targets
  BY RoundRobinAssumption DEF Targets

\* step stays within the list.
LEMMA StepInTargets == ASSUME NEW t \in Targets PROVE step(t) \in Targets
  BY RoundRobinAssumption DEF Targets, step

\* What a health check sets a counter to: 0 only if MaxFails is 0 or 1.
LEMMA HalfMaxFails ==
  /\ MaxFails \div 2 \in 0 .. FailBound
  /\ MaxFails = 0 => MaxFails \div 2 = 0
  /\ MaxFails \notin {0, 1} => MaxFails \div 2 >= 1
  BY RoundRobinAssumption

\* A request never looks like a free smu.
LEMMA NoOneIsNoRequest == NoOne \notin Requests
  BY RoundRobinAssumption

\* What the variables begin with is of their types.
LEMMA InitialRecords ==
  /\ NoCtx \in Ctx
  /\ NoSearch \in Search
  /\ NewBody \in Body
  /\ NoCheck \in [is : {"idle", "fail", "ok"}, target : Targets]
  BY FirstTargetExists, RoundRobinAssumption
     DEF NoCtx, NoSearch, NewBody, NoCheck, Ctx, Search, Body

\* wrap stays a number.
LEMMA RepeatsInNat == ASSUME NEW n \in Nat PROVE Repeats(n) \in Nat
  BY RoundRobinAssumption DEF Repeats

\* A retry, and a search that has gone round, leave an rrcontext.
LEMMA RetriedCtx ==
  ASSUME NEW c \in Ctx, NEW m \in 0 .. MaxRetries, NEW n \in Nat
  PROVE  /\ [c EXCEPT !.retry = m, !.wrap = n] \in Ctx
         /\ [c EXCEPT !.retry = m, !.wrap = n].retry = m
<1>1. [c EXCEPT !.retry = m, !.wrap = n]
        = [[c EXCEPT !.retry = m] EXCEPT !.wrap = n]
  BY DEF Ctx
<1>2. QED
  BY <1>1 DEF Ctx

\* The same of a search that has gone round, which takes a target as well.
LEMMA WrappedCtx ==
  ASSUME NEW c \in Ctx, NEW t \in Targets, NEW n \in Nat
  PROVE  /\ [c EXCEPT !.idx = t, !.wrap = n] \in Ctx
         /\ [c EXCEPT !.idx = t, !.wrap = n].retry = c.retry
<1>1. [c EXCEPT !.idx = t, !.wrap = n]
        = [[c EXCEPT !.idx = t] EXCEPT !.wrap = n]
  BY DEF Ctx
<1>2. QED
  BY <1>1 DEF Ctx

\* Close() leaves a body that is to be closed, or is.
LEMMA CloseCounts ==
  ASSUME NEW b \in Body
  PROVE  /\ Closed(b) \in Body
         /\ Closed(b).isread = b.isread
         /\ Closed(b).shouldClose \/ Closed(b).closed > 0
         /\ ~b.isread /\ ~b.shouldClose => Closed(b).closed = b.closed
<1>1. CASE ~b.shouldClose /\ ~b.isread
  BY <1>1 DEF Closed, Body
<1>2. CASE ~(~b.shouldClose /\ ~b.isread)
  <2>1. Closed(b) = [b EXCEPT !.shouldClose = FALSE, !.closed = @ + 1]
    BY <1>2 DEF Closed
  <2>2. Closed(b) = [isread |-> b.isread, shouldClose |-> FALSE,
                     closed |-> b.closed + 1]
    BY <2>1 DEF Body
  <2>3. QED
    BY <1>2, <2>2 DEF Body
<1>3. QED
  BY <1>1, <1>2

\* CloseIfNeeded makes up for a Close() that was put off.
LEMMA CloseIfNeededCloses ==
  ASSUME NEW b \in Body
  PROVE  /\ ClosedIfNeeded(b) \in Body
         /\ b.shouldClose \/ b.closed > 0 => ClosedIfNeeded(b).closed > 0
<1>1. CASE b.shouldClose
  BY <1>1 DEF ClosedIfNeeded, Body
<1>2. CASE ~b.shouldClose
  BY <1>2 DEF ClosedIfNeeded, Body
<1>3. QED
  BY <1>1, <1>2

(***************************************************************************)
(* RetryOrGiveUp: what it does to its request, whichever way it goes, if   *)
(* Close() was called on the body b.                                       *)
(***************************************************************************)
LEMMA RetryOrGiveUpResult ==
  ASSUME TypeOK, NEW r \in Requests, NEW e \in {"dial", "io"},
         NEW b \in Body, b.shouldClose \/ b.closed > 0,
         RetryOrGiveUp(r, e, b)
  PROVE  /\ \E c \in Ctx, s \in Search, d \in Body :
              /\ ctx' = [ctx EXCEPT ![r] = c]
              /\ search' = [search EXCEPT ![r] = s]
              /\ body' = [body EXCEPT ![r] = d]
              /\ \/ /\ MayRetry(r, e, b)
                    /\ pc' = [pc EXCEPT ![r] = "search"]
                    /\ d = b
                    /\ s.next = s.start
                    /\ c.retry = ctx[r].retry + 1
                 \/ /\ pc' = [pc EXCEPT ![r] = "giveup"]
                    /\ d.closed > 0
<1>0. /\ ctx \in [Requests -> Ctx] /\ search \in [Requests -> Search]
      /\ ctx[r] \in Ctx /\ search[r] \in Search
  BY DEF TypeOK
<1>1. CASE MayRetry(r, e, b)
  <2> DEFINE s == [start |-> SearchFrom(r), next |-> SearchFrom(r)]
  <2>1. SearchFrom(r) \in Targets
    BY <1>0, StepInTargets DEF SearchFrom, Ctx
  <2>2. s \in Search /\ s.next = s.start
    BY <2>1 DEF Search
  <2>3. PICK n \in {0, 1} :
          ctx' = [ctx EXCEPT ![r] = [ctx[r] EXCEPT !.retry = @ + 1,
                                                   !.wrap = Repeats(@ + n)]]
    BY <1>1 DEF RetryOrGiveUp
  <2> DEFINE m == ctx[r].retry + 1
             k == Repeats(ctx[r].wrap + n)
             c == [ctx[r] EXCEPT !.retry = m, !.wrap = k]
  <2>4. m \in 0 .. MaxRetries /\ k \in Nat
    <3>1. ctx[r].retry < MaxRetries
      BY <1>1 DEF MayRetry
    <3>2. QED
      BY <1>0, <3>1, RepeatsInNat, RoundRobinAssumption DEF Ctx
  <2>5. c \in Ctx /\ c.retry = m
    <3> HIDE DEF m, k
    <3>1. QED
      BY <1>0, <2>4, RetriedCtx
  <2>6. /\ ctx' = [ctx EXCEPT ![r] = c]
        /\ search' = [search EXCEPT ![r] = s]
        /\ body' = [body EXCEPT ![r] = b]
        /\ pc' = [pc EXCEPT ![r] = "search"]
    BY <1>1, <2>3 DEF RetryOrGiveUp
  <2> HIDE DEF c, s, k
  <2>7. QED
    BY <1>1, <2>2, <2>5, <2>6
<1>2. CASE ~MayRetry(r, e, b)
  <2>1. /\ ctx' = [ctx EXCEPT ![r] = NoCtx]
        /\ search' = [search EXCEPT ![r] = search[r]]
        /\ body' = [body EXCEPT ![r] = ClosedIfNeeded(b)]
        /\ pc' = [pc EXCEPT ![r] = "giveup"]
    BY <1>0, <1>2 DEF RetryOrGiveUp
  <2>2. ClosedIfNeeded(b) \in Body /\ ClosedIfNeeded(b).closed > 0
    BY CloseIfNeededCloses
  <2>3. NoCtx \in Ctx
    BY InitialRecords
  <2>4. QED
    BY <1>0, <2>1, <2>2, <2>3
<1>3. QED
  BY <1>1, <1>2

\* The types that RetryOrGiveUp keeps.
LEMMA RetryOrGiveUpTypes ==
  ASSUME TypeOK, NEW r \in Requests, NEW e \in {"dial", "io"},
         NEW b \in Body, b.shouldClose \/ b.closed > 0,
         RetryOrGiveUp(r, e, b)
  PROVE  /\ ctx' \in [Requests -> Ctx] /\ search' \in [Requests -> Search]
         /\ body' \in [Requests -> Body] /\ pc' \in [Requests -> Steps]
<1>1. PICK c \in Ctx, s \in Search, d \in Body, p \in {"search", "giveup"} :
        /\ ctx' = [ctx EXCEPT ![r] = c]
        /\ search' = [search EXCEPT ![r] = s]
        /\ body' = [body EXCEPT ![r] = d]
        /\ pc' = [pc EXCEPT ![r] = p]
  BY RetryOrGiveUpResult
<1>2. QED
  BY <1>1 DEF TypeOK, Steps

\* What a failed attempt leaves to Update.
LEMMA FailResult ==
  ASSUME TypeOK, NEW r \in Requests, Fail(r)
  PROVE  \E e \in {"dial", "io"}, b \in Body :
           /\ unsafe' = [unsafe EXCEPT
                           ![r] = @ \/ (e = "io" /\ r \notin Idempotent)]
           /\ b.shouldClose \/ b.closed > 0
           /\ ~b.isread /\ ~body[r].shouldClose => b.closed = body[r].closed
           /\ Count(r, e, b)
<1>1. PICK e \in {"dial", "io"}, isread \in BOOLEAN :
        /\ unsafe' = [unsafe EXCEPT
                        ![r] = @ \/ (e = "io" /\ r \notin Idempotent)]
        /\ Count(r, e, Closed([body[r] EXCEPT !.isread = @ \/ isread]))
  BY DEF Fail
<1> DEFINE b0 == [body[r] EXCEPT !.isread = @ \/ isread]
<1>2. /\ b0 \in Body
      /\ b0.shouldClose = body[r].shouldClose /\ b0.closed = body[r].closed
  BY DEF TypeOK, Body
<1> HIDE DEF b0
<1>3. /\ Closed(b0) \in Body
      /\ Closed(b0).isread = b0.isread
      /\ Closed(b0).shouldClose \/ Closed(b0).closed > 0
      /\ ~b0.isread /\ ~b0.shouldClose => Closed(b0).closed = b0.closed
  BY <1>2, CloseCounts
<1>4. Count(r, e, Closed(b0))
  BY <1>1 DEF b0
<1>5. QED
  BY <1>1, <1>2, <1>3, <1>4

\* What Update works on at its end.
LEMMA UpdatedResult ==
  ASSUME TypeOK, BodyInv, NEW r \in Requests, pc[r] \in {"punish", "mark"},
         Updated(r)
  PROVE  /\ error[r] \in {"dial", "io"} /\ body[r] \in Body
         /\ body[r].shouldClose \/ body[r].closed > 0
         /\ RetryOrGiveUp(r, error[r], body[r])
         /\ error' = [error EXCEPT ![r] = "none"] /\ smu' = NoOne
<1>1. /\ RetryOrGiveUp(r, error[r], body[r])
      /\ error' = [error EXCEPT ![r] = "none"] /\ smu' = NoOne
  BY DEF Updated, SmuAfter
<1>2. error[r] # "none" /\ (body[r].shouldClose \/ body[r].closed > 0)
  BY DEF BodyInv, BodyOk
<1>3. QED
  BY <1>1, <1>2 DEF Errors, TypeOK

\* The end of Update is near: the target may have to be marked first.
LEMMA PunishResult ==
  ASSUME TypeOK, NEW r \in Requests, Punish(r) \/ MarkDown(r)
  PROVE  /\ pc[r] \in {"punish", "mark"}
         /\ UNCHANGED <<fails, burst, quarantined, poolVars, health, unsafe>>
         /\ down' \in [Targets -> BOOLEAN]
         /\ \/ Updated(r)
            \/ /\ pc' = [pc EXCEPT ![r] = "mark"]
               /\ UNCHANGED <<smu, ctx, search, body, error>>
  BY DEF Punish, MarkDown, TypeOK

(***************************************************************************)
(* The invariant holds at the beginning, ...                               *)
(***************************************************************************)
LEMMA InitIInv == Init => IInv
<1> SUFFICES ASSUME Init PROVE IInv
  OBVIOUS
<1>1. TypeOK
  <2>1. LeastFails <= 0 /\ 0 \in LeastFails .. FailBound
    BY RoundRobinAssumption DEF LeastFails
  <2>2. QED
    BY <2>1, InitialRecords, FirstTargetExists DEF Init, TypeOK, Steps, Errors
<1>2. SmuHeldInside
  BY NoOneIsNoRequest DEF Init, SmuHeldInside
<1>3. CountInv /\ UnsafeInv
  BY FirstTargetExists DEF Init, CountInv, UnsafeInv
<1>4. BodyInv
  BY DEF Init, BodyInv, BodyOk
<1>5. QED
  BY <1>1, <1>2, <1>3, <1>4 DEF IInv

(***************************************************************************)
(* ... and every step keeps it, part by part.                              *)
(***************************************************************************)
LEMMA StepTypes == IInv /\ [Next]_vars => TypeOK'
<1> USE DEF IInv, TypeOK
<1> SUFFICES ASSUME IInv, [Next]_vars PROVE TypeOK'
  OBVIOUS
<1>1. CASE \E r \in Requests : FirstTarget(r)
  <2> PICK r \in Requests : FirstTarget(r)
    BY <1>1
  <2> DEFINE start == step(idx)
             c == [NoCtx EXCEPT !.first = start]
  <2>1. start \in Targets
    BY StepInTargets
  <2>2. c \in Ctx
    BY <2>1, InitialRecords DEF Ctx
  <2>3. [start |-> start, next |-> start] \in Search
    BY <2>1 DEF Search
  <2> HIDE DEF start
  <2>4. /\ idx' = start /\ pc' = [pc EXCEPT ![r] = "search"]
        /\ ctx' = [ctx EXCEPT ![r] = c]
        /\ search' = [search EXCEPT ![r] = [start |-> start, next |-> start]]
    BY DEF FirstTarget, start
  <2> HIDE DEF c
  <2>5. QED
    BY <2>1, <2>2, <2>3, <2>4 DEF FirstTarget, Steps
<1>2. CASE \E r \in Requests : TakeTarget(r)
  <2> PICK r \in Requests : TakeTarget(r)
    BY <1>2
  <2>1. search[r].next \in Targets
    BY DEF Search
  <2>2. ctx' = [ctx EXCEPT ![r].idx = search[r].next] /\ ctx[r] \in Ctx
    BY DEF TakeTarget
  <2>3. ctx' \in [Requests -> Ctx]
    BY <2>1, <2>2 DEF Ctx
  <2>4. QED
    BY <2>1, <2>3, InitialRecords DEF TakeTarget, Pick, Steps
<1>3. CASE \E r \in Requests : SkipTarget(r)
  <2> PICK r \in Requests : SkipTarget(r)
    BY <1>3
  <2> DEFINE t == step(search[r].next)
             w == Repeats(ctx[r].wrap + 1)
             c == [ctx[r] EXCEPT !.idx = t, !.wrap = w]
  <2>1. t \in Targets /\ search[r] \in Search /\ ctx[r] \in Ctx
    BY StepInTargets DEF Search
  <2>2. w \in Nat
    BY <2>1, RepeatsInNat DEF Ctx
  <2>3. c \in Ctx
    BY <2>1, <2>2, WrappedCtx
  <2>4. CASE t = search[r].start
    <3>1. ctx' = [ctx EXCEPT ![r] = c]
      BY <2>4 DEF SkipTarget
    <3> HIDE DEF c, t
    <3>2. Pick(r, t)
      BY <2>4 DEF SkipTarget, t
    <3>3. QED
      BY <2>3, <3>1, <3>2, InitialRecords DEF SkipTarget, Pick, Steps
  <2>5. CASE t # search[r].start
    <3>1. search' = [search EXCEPT ![r].next = t]
      BY <2>5 DEF SkipTarget
    <3>2. search' \in [Requests -> Search]
      BY <2>1, <3>1 DEF Search
    <3>3. QED
      BY <2>5, <3>2 DEF SkipTarget
  <2>6. QED
    BY <2>4, <2>5
<1>4. CASE \E r \in Requests : Succeed(r)
  <2> PICK r \in Requests : Succeed(r)
    BY <1>4
  <2>1. [NoCtx EXCEPT !.idx = ctx[r].idx] \in Ctx
    BY InitialRecords DEF Ctx
  <2>2. QED
    BY <2>1, InitialRecords DEF Succeed, Return, SmuAfter, Steps, Errors
<1>5. CASE \E r \in Requests : LowerFails(r)
  <2> PICK r \in Requests : LowerFails(r)
    BY <1>5
  <2>1. ctx[r].idx \in Targets
    BY DEF Ctx
  <2>2. fails[ctx[r].idx] - 1 \in LeastFails .. FailBound
    <3>1. \/ fails[ctx[r].idx] >= 1
          \/ MaxFails = 1 /\ fails[ctx[r].idx] >= 0
      BY DEF LowerFails, CountInv
    <3>2. fails[ctx[r].idx] \in LeastFails .. FailBound
      BY <2>1
    <3>3. QED
      BY <3>1, <3>2, RoundRobinAssumption DEF LeastFails
  <2>3. QED
    BY <2>1, <2>2, InitialRecords DEF LowerFails, SmuAfter, Steps
<1>6. CASE \E r \in Requests : Fail(r)
  <2> PICK r \in Requests : Fail(r)
    BY <1>6
  <2>1. PICK e \in {"dial", "io"}, b \in Body :
          /\ unsafe' = [unsafe EXCEPT
                          ![r] = @ \/ (e = "io" /\ r \notin Idempotent)]
          /\ b.shouldClose \/ b.closed > 0
          /\ Count(r, e, b)
    BY FailResult
  <2>2. ctx[r].idx \in Targets
    BY DEF Ctx
  <2>3. unsafe' \in [Requests -> BOOLEAN]
    BY <2>1
  <2>4. CASE MaxFails = 0 \/ burst[ctx[r].idx]
    <3>1. RetryOrGiveUp(r, e, b) /\ UNCHANGED <<targetVars, smu, error>>
      BY <2>1, <2>4 DEF Count
    <3>2. /\ ctx' \in [Requests -> Ctx] /\ search' \in [Requests -> Search]
          /\ body' \in [Requests -> Body] /\ pc' \in [Requests -> Steps]
      BY <2>1, <3>1, RetryOrGiveUpTypes
    <3>3. QED
      BY <2>3, <3>1, <3>2 DEF Fail
  <2>5. CASE ~(MaxFails = 0 \/ burst[ctx[r].idx])
    <3>1. Bounded(fails[ctx[r].idx] + 1) \in LeastFails .. FailBound
      <4>1. fails[ctx[r].idx] \in LeastFails .. FailBound
        BY <2>2
      <4>2. LeastFails \in {-1, 0}
        BY DEF LeastFails
      <4>3. QED
        BY <4>1, <4>2, RoundRobinAssumption DEF Bounded
    <3> DEFINE t == ctx[r].idx
    <3>2. /\ fails' = [fails EXCEPT ![t] = Bounded(fails[t] + 1)]
          /\ burst' = [burst EXCEPT ![t] = TRUE]
          /\ quarantined' = [quarantined EXCEPT ![t] = TRUE]
          /\ pc' = [pc EXCEPT ![r] = "punish"] /\ smu' = r
          /\ error' = [error EXCEPT ![r] = e]
          /\ body' = [body EXCEPT ![r] = b]
          /\ UNCHANGED <<down, ctx, search>>
      BY <2>1, <2>5 DEF Count
    <3>3. UNCHANGED <<idx, monitored, health>>
      BY DEF Fail
    <3>4. /\ fails' \in [Targets -> LeastFails .. FailBound]
          /\ burst' \in [Targets -> BOOLEAN]
          /\ quarantined' \in [Targets -> BOOLEAN]
      BY <3>1, <3>2
    <3>5. pc' \in [Requests -> Steps] /\ error' \in [Requests -> Errors]
      BY <3>2 DEF Steps, Errors
    <3>6. body' \in [Requests -> Body]
      BY <3>2
    <3>7. QED
      BY <2>3, <3>2, <3>3, <3>4, <3>5, <3>6
  <2>6. QED
    BY <2>4, <2>5
<1>7. CASE \E r \in Requests : Punish(r) \/ MarkDown(r)
  <2> PICK r \in Requests : Punish(r) \/ MarkDown(r)
    BY <1>7
  <2>1. CASE Updated(r)
    <3>1. /\ ctx' \in [Requests -> Ctx] /\ search' \in [Requests -> Search]
          /\ body' \in [Requests -> Body] /\ pc' \in [Requests -> Steps]
      BY <2>1, PunishResult, UpdatedResult, RetryOrGiveUpTypes
    <3>2. smu' = NoOne /\ error' \in [Requests -> Errors]
      BY <2>1, PunishResult, UpdatedResult DEF Errors
    <3>3. QED
      BY <3>1, <3>2, PunishResult
  <2>2. CASE /\ pc' = [pc EXCEPT ![r] = "mark"]
             /\ UNCHANGED <<smu, ctx, search, body, error>>
    BY <2>2, PunishResult DEF Steps
  <2>3. QED
    BY <2>1, <2>2, PunishResult
<1>8. CASE \E r \in Requests : GiveUp(r)
  BY <1>8, InitialRecords DEF GiveUp, Return, Steps, Errors
<1>9. CASE HealthCheck
  <2>1. CASE \E t \in Targets : CheckFails(t) \/ CheckSucceeds(t)
    <3> PICK t \in Targets, is \in {"fail", "ok"}, up \in BOOLEAN :
          /\ down' = [down EXCEPT ![t] = up]
          /\ health' = [is |-> is, target |-> t]
          /\ UNCHANGED <<fails, burst, quarantined, poolVars, smu, reqVars>>
      BY <2>1 DEF CheckFails, CheckSucceeds
    <3>1. QED
      OBVIOUS
  <2>2. CASE CheckFailed
    BY <2>2, InitialRecords DEF CheckFailed
  <2>3. CASE CheckSucceeded
    <3>1. MaxFails \div 2 \in LeastFails .. FailBound
      BY HalfMaxFails, RoundRobinAssumption DEF LeastFails
    <3>2. QED
      BY <2>3, <3>1, InitialRecords DEF CheckSucceeded
  <2>4. QED
    BY <1>9, <2>1, <2>2, <2>3 DEF HealthCheck
<1>10. CASE Time
  BY <1>10 DEF Time, BurstEnds, QuarantineEnds
<1>11. CASE UNCHANGED vars
  BY <1>11 DEF vars
<1>12. QED
  BY <1>1, <1>2, <1>3, <1>4, <1>5, <1>6, <1>7, <1>8, <1>9, <1>10, <1>11
     DEF Next, NextTarget, Attempt

\* Only FirstTarget, a search, Succeed and what Update ends with touch smu.
LEMMA StepSmu == IInv /\ [Next]_vars => SmuHeldInside'
<1> SUFFICES ASSUME IInv, [Next]_vars PROVE SmuHeldInside'
  OBVIOUS
<1>0. TypeOK /\ SmuHeldInside /\ NoOne \notin Requests
  BY NoOneIsNoRequest DEF IInv
<1>t. /\ pc \in [Requests -> Steps] /\ search \in [Requests -> Search]
  BY <1>0 DEF TypeOK
<1> USE DEF SmuHeldInside
<1>1. CASE \E r \in Requests : FirstTarget(r)
  BY <1>0, <1>t, <1>1 DEF FirstTarget
<1>2. CASE \E r \in Requests : TakeTarget(r)
  BY <1>0, <1>t, <1>2 DEF TakeTarget, Pick, SmuFree
<1>3. CASE \E r \in Requests : SkipTarget(r)
  <2> PICK r \in Requests : SkipTarget(r)
    BY <1>3
  <2> DEFINE t == step(search[r].next)
  <2>1. smu \in {NoOne, r} /\ pc[r] = "search"
    BY DEF SkipTarget, SmuFree
  <2>2. CASE t = search[r].start
    <3>1. Pick(r, t)
      BY <2>2 DEF SkipTarget
    <3>2. QED
      BY <1>0, <1>t, <2>1, <3>1 DEF Pick
  <2>3. CASE t # search[r].start
    <3>1. search' = [search EXCEPT ![r].next = t] /\ smu' = r /\ pc' = pc
      BY <2>3 DEF SkipTarget
    <3>2. search[r] \in Search
      BY <1>t
    <3>3. search'[r].next = t /\ search'[r].start = search[r].start
      BY <1>t, <3>1, <3>2 DEF Search
    <3>4. \A q \in Requests \ {r} : search'[q] = search[q]
      BY <1>t, <3>1
    <3> HIDE DEF t
    <3>5. QED
      BY <1>0, <1>t, <2>1, <2>3, <3>1, <3>3, <3>4
  <2>4. QED
    BY <2>2, <2>3
<1>4. CASE \E r \in Requests : Succeed(r)
  BY <1>0, <1>t, <1>4 DEF Succeed, SmuFree, SmuAfter
<1>5. CASE \E r \in Requests : LowerFails(r)
  BY <1>0, <1>t, <1>5 DEF LowerFails, SmuAfter
<1>6. CASE \E r \in Requests : Fail(r)
  <2> PICK r \in Requests : Fail(r)
    BY <1>6
  <2>1. pc[r] = "send" /\ smu \in {NoOne, r}
    BY DEF Fail, SmuFree
  <2>2. PICK e \in {"dial", "io"}, b \in Body :
          (b.shouldClose \/ b.closed > 0) /\ Count(r, e, b)
    BY <1>0, FailResult
  <2>3. CASE MaxFails = 0 \/ burst[ctx[r].idx]
    <3>1. RetryOrGiveUp(r, e, b) /\ smu' = smu
      BY <2>2, <2>3 DEF Count
    <3>2. PICK s \in Search, p \in {"search", "giveup"} :
            /\ search' = [search EXCEPT ![r] = s]
            /\ pc' = [pc EXCEPT ![r] = p]
            /\ p = "search" => s.next = s.start
      BY <1>0, <2>2, <3>1, RetryOrGiveUpResult
    <3>3. QED
      BY <1>0, <1>t, <2>1, <3>1, <3>2
  <2>4. CASE ~(MaxFails = 0 \/ burst[ctx[r].idx])
    <3>1. /\ pc' = [pc EXCEPT ![r] = "punish"] /\ smu' = r
          /\ search' = search
      BY <2>2, <2>4 DEF Count
    <3>2. QED
      BY <1>0, <1>t, <2>1, <3>1
  <2>5. QED
    BY <2>3, <2>4
<1>7. CASE \E r \in Requests : Punish(r) \/ MarkDown(r)
  <2> PICK r \in Requests : Punish(r) \/ MarkDown(r)
    BY <1>7
  <2>1. pc[r] \in {"punish", "mark"} /\ smu = r
    BY <1>0, PunishResult
  <2>2. CASE Updated(r)
    <3>1. smu' = NoOne
      BY <1>0, <2>1, <2>2, UpdatedResult DEF IInv
    <3>2. PICK s \in Search, p \in {"search", "giveup"} :
            /\ search' = [search EXCEPT ![r] = s]
            /\ pc' = [pc EXCEPT ![r] = p]
            /\ p = "search" => s.next = s.start
      BY <1>0, <2>1, <2>2, UpdatedResult, RetryOrGiveUpResult DEF IInv
    <3>3. QED
      BY <1>0, <1>t, <2>1, <3>1, <3>2
  <2>3. CASE /\ pc' = [pc EXCEPT ![r] = "mark"]
             /\ UNCHANGED <<smu, ctx, search, body, error>>
    BY <1>0, <1>t, <2>1, <2>3
  <2>4. QED
    BY <1>0, <2>2, <2>3, PunishResult
<1>8. CASE \E r \in Requests : GiveUp(r)
  BY <1>0, <1>t, <1>8 DEF GiveUp
<1>9. CASE UNCHANGED <<smu, pc, search>>
  BY <1>0, <1>9
<1>10. QED
  BY <1>1, <1>2, <1>3, <1>4, <1>5, <1>6, <1>7, <1>8, <1>9
     DEF Next, NextTarget, Attempt, HealthCheck, CheckFails, CheckFailed,
         CheckSucceeds, CheckSucceeded, Time, BurstEnds, QuarantineEnds, vars

\* A counter is changed by the holder of smu only, and by the health check.
LEMMA StepCount == IInv /\ [Next]_vars => CountInv'
<1> SUFFICES ASSUME IInv, [Next]_vars PROVE CountInv'
  OBVIOUS
<1>1. /\ TypeOK /\ SmuHeldInside /\ CountInv
      /\ pc \in [Requests -> Steps] /\ ctx \in [Requests -> Ctx]
      /\ fails \in [Targets -> Int]
  BY RoundRobinAssumption DEF IInv, TypeOK, LeastFails
<1>2. \A r \in Requests : pc[r] = "lower" => smu = r
  BY <1>1 DEF SmuHeldInside
<1>3. CASE fails' = fails /\ \E r \in Requests :
             /\ \A q \in Requests \ {r} : pc'[q] = pc[q] /\ ctx'[q] = ctx[q]
             /\ pc'[r] # "lower"
  BY <1>1, <1>3 DEF CountInv
<1>4. CASE \E r \in Requests : FirstTarget(r) \/ TakeTarget(r) \/ SkipTarget(r)
                                \/ LowerFails(r) \/ GiveUp(r)
  <2>1. CASE \E r \in Requests : FirstTarget(r) \/ TakeTarget(r)
    BY <1>1, <1>3, <2>1 DEF FirstTarget, TakeTarget, Pick
  <2>2. CASE \E r \in Requests : SkipTarget(r)
    BY <1>1, <1>3, <2>2 DEF SkipTarget, Pick
  <2>3. CASE \E r \in Requests : GiveUp(r)
    BY <1>1, <1>3, <2>3 DEF GiveUp
  <2>4. CASE \E r \in Requests : LowerFails(r)
    <3> PICK r \in Requests : LowerFails(r)
      BY <2>4
    <3>1. \A q \in Requests : pc'[q] # "lower"
      BY <1>1, <1>2 DEF LowerFails
    <3>2. MaxFails # 0
      BY <1>1 DEF LowerFails, CountInv, Ctx
    <3>3. QED
      BY <3>1, <3>2 DEF CountInv
  <2>5. QED
    BY <1>4, <2>1, <2>2, <2>3, <2>4
<1>5. CASE \E r \in Requests : Succeed(r)
  <2> PICK r \in Requests : Succeed(r)
    BY <1>5
  <2>1. ctx[r].idx \in Targets
    BY <1>1 DEF Ctx
  <2>2. CASE fails[ctx[r].idx] > 0
    <3>1. /\ pc' = [pc EXCEPT ![r] = "lower"] /\ fails' = fails
          /\ ctx' = [ctx EXCEPT ![r] = [NoCtx EXCEPT !.idx = ctx[r].idx]]
      BY <2>2 DEF Succeed
    <3>2. ctx'[r].idx = ctx[r].idx
      BY <1>1, <3>1 DEF NoCtx
    <3>3. fails[ctx[r].idx] >= 1
      BY <1>1, <2>1, <2>2
    <3>4. QED
      BY <1>1, <3>1, <3>2, <3>3 DEF CountInv
  <2>3. CASE ~(fails[ctx[r].idx] > 0)
    BY <1>1, <1>3, <2>3 DEF Succeed
  <2>4. QED
    BY <2>2, <2>3
<1>6. CASE \E r \in Requests : Fail(r)
  <2> PICK r \in Requests : Fail(r)
    BY <1>6
  <2>1. pc[r] = "send" /\ smu \in {NoOne, r} /\ ctx[r].idx \in Targets
    BY <1>1 DEF Fail, SmuFree, Ctx
  <2>2. PICK e \in {"dial", "io"}, b \in Body :
          (b.shouldClose \/ b.closed > 0) /\ Count(r, e, b)
    BY <1>1, FailResult
  <2>3. CASE MaxFails = 0 \/ burst[ctx[r].idx]
    <3>1. RetryOrGiveUp(r, e, b) /\ fails' = fails
      BY <2>2, <2>3 DEF Count
    <3>2. QED
      BY <1>1, <1>3, <2>2, <3>1, RetryOrGiveUpResult
  <2>4. CASE ~(MaxFails = 0 \/ burst[ctx[r].idx])
    <3>1. pc' = [pc EXCEPT ![r] = "punish"]
      BY <2>2, <2>4 DEF Count
    <3>2. \A q \in Requests : pc'[q] # "lower"
      BY <1>1, <1>2, <2>1, <3>1, NoOneIsNoRequest
    <3>3. QED
      BY <2>4, <3>2 DEF CountInv
  <2>5. QED
    BY <2>3, <2>4
<1>7. CASE \E r \in Requests : Punish(r) \/ MarkDown(r)
  <2> PICK r \in Requests : Punish(r) \/ MarkDown(r)
    BY <1>7
  <2>1. pc[r] \in {"punish", "mark"} /\ fails' = fails
    BY <1>1, PunishResult
  <2>2. CASE Updated(r)
    <3>1. PICK c \in Ctx, p \in {"search", "giveup"} :
            ctx' = [ctx EXCEPT ![r] = c] /\ pc' = [pc EXCEPT ![r] = p]
      BY <1>1, <2>1, <2>2, UpdatedResult, RetryOrGiveUpResult DEF IInv
    <3>2. QED
      BY <1>1, <1>3, <2>1, <3>1
  <2>3. CASE pc' = [pc EXCEPT ![r] = "mark"] /\ UNCHANGED ctx
    BY <1>1, <1>3, <2>1, <2>3
  <2>4. QED
    BY <1>1, <2>2, <2>3, PunishResult
<1>8. CASE CheckSucceeded
  <2> DEFINE t == health.target
             half == MaxFails \div 2
  <2>1. /\ t \in Targets /\ UNCHANGED <<pc, ctx>>
        /\ fails' = [fails EXCEPT ![t] = half]
    BY <1>1, <1>8 DEF CheckSucceeded, TypeOK
  <2>2. /\ half \in Nat /\ (MaxFails = 0 => half = 0)
        /\ half >= 1 \/ MaxFails \in {0, 1}
    BY HalfMaxFails
  <2> HIDE DEF t, half
  <2>3. MaxFails = 0 => \A u \in Targets : fails'[u] = 0
    BY <1>1, <2>1, <2>2 DEF CountInv
  <2>4. ASSUME NEW r \in Requests, pc[r] = "lower"
        PROVE  \/ fails'[ctx[r].idx] >= 1
               \/ MaxFails = 1 /\ fails'[ctx[r].idx] >= 0
    <3>1. ctx[r].idx \in Targets
      BY <1>1 DEF Ctx
    <3>2. MaxFails # 0
      BY <1>1, <2>4, <3>1 DEF CountInv
    <3>3. QED
      BY <1>1, <2>1, <2>2, <2>4, <3>1, <3>2 DEF CountInv
  <2>5. QED
    BY <2>1, <2>3, <2>4 DEF CountInv
<1>9. CASE UNCHANGED <<fails, pc, ctx>>
  BY <1>1, <1>9 DEF CountInv
<1>10. QED
  BY <1>4, <1>5, <1>6, <1>7, <1>8, <1>9
     DEF Next, NextTarget, Attempt, HealthCheck, CheckFails, CheckFailed,
         CheckSucceeds, Time, BurstEnds, QuarantineEnds, vars

\* What must not be done twice is never retried.
LEMMA StepUnsafe == IInv /\ [Next]_vars => UnsafeInv'
<1> SUFFICES ASSUME IInv, [Next]_vars PROVE UnsafeInv'
  OBVIOUS
<1>1. /\ TypeOK /\ UnsafeInv
      /\ pc \in [Requests -> Steps] /\ unsafe \in [Requests -> BOOLEAN]
      /\ error \in [Requests -> Errors]
  BY DEF IInv, TypeOK
<1>2. CASE \E r \in Requests :
             FirstTarget(r) \/ NextTarget(r) \/ LowerFails(r)
  <2>1. \A r \in Requests : unsafe[r] => pc[r] \in {"giveup", "punish", "mark"}
    BY <1>1 DEF UnsafeInv
  <2>2. CASE \E r \in Requests : FirstTarget(r) \/ TakeTarget(r)
    BY <1>1, <2>1, <2>2 DEF FirstTarget, TakeTarget, Pick, UnsafeInv
  <2>3. CASE \E r \in Requests : SkipTarget(r)
    BY <1>1, <2>1, <2>3 DEF SkipTarget, Pick, UnsafeInv
  <2>4. CASE \E r \in Requests : LowerFails(r)
    BY <1>1, <2>1, <2>4 DEF LowerFails, UnsafeInv
  <2>5. QED
    BY <1>2, <2>2, <2>3, <2>4 DEF NextTarget
<1>3. CASE \E r \in Requests : Succeed(r) \/ GiveUp(r)
  BY <1>1, <1>3 DEF Succeed, GiveUp, Return, UnsafeInv
<1>4. CASE \E r \in Requests : Fail(r)
  <2> PICK r \in Requests : Fail(r)
    BY <1>4
  <2>1. ~unsafe[r] /\ pc[r] = "send"
    BY <1>1 DEF Fail, UnsafeInv
  <2>2. PICK e \in {"dial", "io"}, b \in Body :
          /\ unsafe' = [unsafe EXCEPT
                          ![r] = @ \/ (e = "io" /\ r \notin Idempotent)]
          /\ b.shouldClose \/ b.closed > 0
          /\ Count(r, e, b)
    BY <1>1, FailResult
  <2>3. unsafe'[r] => e = "io" /\ r \notin Idempotent
    BY <1>1, <2>1, <2>2
  <2>4. \A q \in Requests \ {r} : unsafe'[q] = unsafe[q]
    BY <1>1, <2>2
  <2>5. CASE MaxFails = 0 \/ burst[ctx[r].idx]
    <3>1. RetryOrGiveUp(r, e, b) /\ error' = error
      BY <2>2, <2>5 DEF Count
    <3>2. MayRetry(r, e, b) => ~unsafe'[r]
      BY <2>3 DEF MayRetry
    <3>3. PICK p \in {"search", "giveup"} :
            /\ pc' = [pc EXCEPT ![r] = p]
            /\ p = "search" => MayRetry(r, e, b)
      BY <1>1, <2>2, <3>1, RetryOrGiveUpResult
    <3>4. QED
      BY <1>1, <2>3, <2>4, <3>1, <3>2, <3>3 DEF UnsafeInv
  <2>6. CASE ~(MaxFails = 0 \/ burst[ctx[r].idx])
    <3>1. /\ pc' = [pc EXCEPT ![r] = "punish"]
          /\ error' = [error EXCEPT ![r] = e]
      BY <2>2, <2>6 DEF Count
    <3>2. QED
      BY <1>1, <2>3, <2>4, <3>1 DEF UnsafeInv
  <2>7. QED
    BY <2>5, <2>6
<1>5. CASE \E r \in Requests : Punish(r) \/ MarkDown(r)
  <2> PICK r \in Requests : Punish(r) \/ MarkDown(r)
    BY <1>5
  <2>1. pc[r] \in {"punish", "mark"} /\ unsafe' = unsafe
    BY <1>1, PunishResult
  <2>2. unsafe[r] => error[r] = "io" /\ r \notin Idempotent
    BY <1>1, <2>1 DEF UnsafeInv
  <2>3. CASE Updated(r)
    <3>1. MayRetry(r, error[r], body[r]) => ~unsafe[r]
      BY <2>2 DEF MayRetry
    <3>2. error' = [error EXCEPT ![r] = "none"]
      BY <1>1, <2>1, <2>3, UpdatedResult DEF IInv
    <3>3. PICK p \in {"search", "giveup"} :
            /\ pc' = [pc EXCEPT ![r] = p]
            /\ p = "search" => MayRetry(r, error[r], body[r])
      BY <1>1, <2>1, <2>3, UpdatedResult, RetryOrGiveUpResult DEF IInv
    <3>4. QED
      BY <1>1, <2>1, <2>2, <3>1, <3>2, <3>3 DEF UnsafeInv
  <2>4. CASE pc' = [pc EXCEPT ![r] = "mark"] /\ UNCHANGED error
    BY <1>1, <2>1, <2>2, <2>4 DEF UnsafeInv
  <2>5. QED
    BY <1>1, <2>3, <2>4, PunishResult
<1>6. CASE UNCHANGED <<pc, unsafe, error>>
  BY <1>1, <1>6 DEF UnsafeInv
<1>7. QED
  BY <1>2, <1>3, <1>4, <1>5, <1>6
     DEF Next, Attempt, HealthCheck, CheckFails, CheckFailed, CheckSucceeds,
         CheckSucceeded, Time, BurstEnds, QuarantineEnds, vars

\* An unread body that was closed for the first time is still open when
\* RetryOrGiveUp sends it again; any other is closed when it gives up.
LEMMA BodyAfterUpdate ==
  ASSUME TypeOK, NEW r \in Requests, NEW e \in {"dial", "io"},
         NEW b \in Body, b.shouldClose \/ b.closed > 0,
         ctx[r].retry = 0 /\ ~b.isread => b.closed = 0,
         RetryOrGiveUp(r, e, b)
  PROVE  /\ \A q \in Requests \ {r} :
              pc'[q] = pc[q] /\ ctx'[q] = ctx[q] /\ body'[q] = body[q]
         /\ BodyOk(r)'
<1>1. /\ pc \in [Requests -> Steps] /\ ctx \in [Requests -> Ctx]
      /\ body \in [Requests -> Body] /\ ctx[r].retry \in Nat
  BY RoundRobinAssumption DEF TypeOK, Ctx
<1>2. PICK c \in Ctx, d \in Body :
        /\ ctx' = [ctx EXCEPT ![r] = c]
        /\ body' = [body EXCEPT ![r] = d]
        /\ \/ /\ MayRetry(r, e, b) /\ pc' = [pc EXCEPT ![r] = "search"]
              /\ d = b /\ c.retry = ctx[r].retry + 1
           \/ pc' = [pc EXCEPT ![r] = "giveup"] /\ d.closed > 0
  BY RetryOrGiveUpResult
<1>3. MayRetry(r, e, b) => ~b.isread
  BY DEF MayRetry
<1>4. BodyOk(r)'
  BY <1>1, <1>2, <1>3 DEF BodyOk
<1>5. QED
  BY <1>1, <1>2, <1>4

\* A step of one request is about its own body.
LEMMA StepBody == IInv /\ [Next]_vars => BodyInv'
<1> SUFFICES ASSUME IInv, [Next]_vars PROVE BodyInv'
  OBVIOUS
<1>1. /\ TypeOK /\ BodyInv
      /\ pc \in [Requests -> Steps] /\ ctx \in [Requests -> Ctx]
      /\ body \in [Requests -> Body] /\ error \in [Requests -> Errors]
  BY DEF IInv, TypeOK
<1>2. CASE \E r \in Requests :
             /\ \A q \in Requests \ {r} :
                  /\ pc'[q] = pc[q] /\ ctx'[q] = ctx[q]
                  /\ body'[q] = body[q] /\ error'[q] = error[q]
             /\ BodyOk(r)'
  <2>1. PICK r \in Requests :
          /\ \A q \in Requests \ {r} :
               /\ pc'[q] = pc[q] /\ ctx'[q] = ctx[q]
               /\ body'[q] = body[q] /\ error'[q] = error[q]
          /\ BodyOk(r)'
    BY <1>2
  <2>2. \A q \in Requests \ {r} : BodyOk(q)'
    BY <1>1, <2>1 DEF BodyInv, BodyOk
  <2>3. QED
    BY <2>1, <2>2 DEF BodyInv
<1>3. CASE \E r \in Requests : FirstTarget(r)
  <2> PICK r \in Requests : FirstTarget(r)
    BY <1>3
  <2>1. pc[r] = "idle" /\ body' = body /\ error' = error
    BY DEF FirstTarget
  <2>2. pc' = [pc EXCEPT ![r] = "search"]
        /\ \E c \in {[NoCtx EXCEPT !.first = step(idx)]} :
             ctx' = [ctx EXCEPT ![r] = c]
    BY DEF FirstTarget
  <2>3. body[r] = NewBody /\ ~NewBody.isread /\ NewBody.closed = 0
    BY <1>1, <2>1 DEF BodyInv, BodyOk, NewBody
  <2>4. BodyOk(r)'
    BY <1>1, <2>1, <2>2, <2>3 DEF BodyOk
  <2>5. QED
    BY <1>1, <1>2, <2>1, <2>2, <2>4
<1>4. CASE \E r \in Requests : NextTarget(r)
  <2> PICK r \in Requests : NextTarget(r)
    BY <1>4
  <2>1. /\ pc[r] = "search" /\ body' = body /\ error' = error
        /\ \E p \in {"search", "send"} : pc' = [pc EXCEPT ![r] = p]
    BY <1>1 DEF NextTarget, TakeTarget, SkipTarget, Pick
  <2>2. \E c \in Ctx : ctx' = [ctx EXCEPT ![r] = c] /\ c.retry = ctx[r].retry
    <3>1. CASE TakeTarget(r)
      <4>1. search[r].next \in Targets
        BY <1>1 DEF TypeOK, Search
      <4>2. ctx' = [ctx EXCEPT ![r].idx = search[r].next]
        BY <3>1 DEF TakeTarget
      <4>3. /\ [ctx[r] EXCEPT !.idx = search[r].next] \in Ctx
            /\ [ctx[r] EXCEPT !.idx = search[r].next].retry = ctx[r].retry
        BY <1>1, <4>1 DEF Ctx
      <4>4. QED
        BY <4>2, <4>3
    <3>2. CASE SkipTarget(r)
      <4> DEFINE t == step(search[r].next)
                 w == Repeats(ctx[r].wrap + 1)
                 c == [ctx[r] EXCEPT !.idx = t, !.wrap = w]
      <4>1. t \in Targets /\ w \in Nat /\ ctx[r] \in Ctx
        BY <1>1, StepInTargets, RepeatsInNat DEF TypeOK, Search, Ctx
      <4>2. ctx' = [ctx EXCEPT ![r] = c] \/ ctx' = ctx
        BY <3>2 DEF SkipTarget
      <4> HIDE DEF t, w
      <4>3. c \in Ctx /\ c.retry = ctx[r].retry
        BY <4>1, WrappedCtx
      <4> HIDE DEF c
      <4>4. QED
        BY <1>1, <4>1, <4>2, <4>3
    <3>3. QED
      BY <3>1, <3>2 DEF NextTarget
  <2>3. BodyOk(r)'
    BY <1>1, <2>1, <2>2 DEF BodyInv, BodyOk
  <2>4. QED
    BY <1>1, <1>2, <2>1, <2>2, <2>3
<1>5. CASE \E r \in Requests : Succeed(r) \/ LowerFails(r) \/ GiveUp(r)
  <2> PICK r \in Requests : Succeed(r) \/ LowerFails(r) \/ GiveUp(r)
    BY <1>5
  <2>1. \A q \in Requests \ {r} :
          /\ pc'[q] = pc[q] /\ ctx'[q] = ctx[q]
          /\ body'[q] = body[q] /\ error'[q] = error[q]
    BY <1>1 DEF Succeed, LowerFails, GiveUp, Return
  <2>2. pc'[r] \in {"idle", "lower"} /\ body'[r] = NewBody
    BY <1>1 DEF Succeed, LowerFails, GiveUp, Return, BodyInv, BodyOk
  <2>3. QED
    BY <1>2, <2>1, <2>2 DEF BodyOk
<1>6. CASE \E r \in Requests : Fail(r)
  <2> PICK r \in Requests : Fail(r)
    BY <1>6
  <2>1. pc[r] = "send" /\ BodyOk(r)
    BY <1>1 DEF Fail, BodyInv
  <2>2. PICK e \in {"dial", "io"}, b \in Body :
          /\ b.shouldClose \/ b.closed > 0
          /\ ~b.isread /\ ~body[r].shouldClose => b.closed = body[r].closed
          /\ Count(r, e, b)
    BY <1>1, FailResult
  <2>3. ctx[r].retry = 0 /\ ~b.isread => b.closed = 0
    BY <2>1, <2>2 DEF BodyOk, NewBody
  <2>4. CASE MaxFails = 0 \/ burst[ctx[r].idx]
    <3>1. RetryOrGiveUp(r, e, b) /\ error' = error
      BY <2>2, <2>4 DEF Count
    <3>2. QED
      BY <1>1, <1>2, <2>2, <2>3, <3>1, BodyAfterUpdate
  <2>5. CASE ~(MaxFails = 0 \/ burst[ctx[r].idx])
    <3>1. /\ pc' = [pc EXCEPT ![r] = "punish"] /\ ctx' = ctx
          /\ error' = [error EXCEPT ![r] = e]
          /\ body' = [body EXCEPT ![r] = b]
      BY <2>2, <2>5 DEF Count
    <3>2. BodyOk(r)'
      BY <1>1, <2>2, <2>3, <3>1 DEF BodyOk
    <3>3. QED
      BY <1>1, <1>2, <3>1, <3>2
  <2>6. QED
    BY <2>4, <2>5
<1>7. CASE \E r \in Requests : Punish(r) \/ MarkDown(r)
  <2> PICK r \in Requests : Punish(r) \/ MarkDown(r)
    BY <1>7
  <2>1. pc[r] \in {"punish", "mark"} /\ BodyOk(r)
    BY <1>1, PunishResult DEF BodyInv
  <2>2. CASE Updated(r)
    <3>1. ctx[r].retry = 0 /\ ~body[r].isread => body[r].closed = 0
      BY <2>1 DEF BodyOk
    <3>2. error' = [error EXCEPT ![r] = "none"]
      BY <1>1, <2>1, <2>2, UpdatedResult
    <3>3. QED
      BY <1>1, <1>2, <2>1, <2>2, <3>1, <3>2, UpdatedResult, BodyAfterUpdate
  <2>3. CASE /\ pc' = [pc EXCEPT ![r] = "mark"]
             /\ UNCHANGED <<ctx, body, error>>
    BY <1>1, <1>2, <2>1, <2>3 DEF BodyOk
  <2>4. QED
    BY <1>1, <2>2, <2>3, PunishResult
<1>8. CASE UNCHANGED <<pc, ctx, body, error>>
  BY <1>1, <1>8 DEF BodyInv, BodyOk
<1>9. QED
  BY <1>3, <1>4, <1>5, <1>6, <1>7, <1>8
     DEF Next, Attempt, HealthCheck, CheckFails, CheckFailed, CheckSucceeds,
         CheckSucceeded, Time, BurstEnds, QuarantineEnds, vars

(***************************************************************************)
(* The search: what HealthyFirst rests on.                                 *)
(***************************************************************************)

\* A search that goes from target to target has passed the ones it left, and
\* all of them when it comes back to where it began.
LEMMA RoundOfTargets ==
  ASSUME NEW s \in Targets, NEW n \in Targets
  PROVE  /\ Passed(s, s) = {}
         /\ step(n) # s => Passed(s, step(n)) \subseteq Passed(s, n) \cup {n}
         /\ step(n) = s => Targets \subseteq Passed(s, n) \cup {n}
  BY RoundRobinAssumption DEF Targets, Passed, step

\* A retry searches from the target after the one that failed.
LEMMA RetrySearch ==
  ASSUME TypeOK, NEW r \in Requests, NEW e, NEW b, RetryOrGiveUp(r, e, b),
         pc'[r] = "search"
  PROVE  /\ search'[r].next = search'[r].start
         /\ search'[r].start = step(ctx'[r].idx)
         /\ search'[r].start \in Targets
<1>0. /\ ctx \in [Requests -> Ctx] /\ search \in [Requests -> Search]
      /\ pc \in [Requests -> Steps] /\ ctx[r] \in Ctx
  BY DEF TypeOK
<1>1. MayRetry(r, e, b)
  BY <1>0 DEF RetryOrGiveUp
<1> DEFINE s == step(ctx[r].idx)
<1>2. search' = [search EXCEPT ![r] = [start |-> s, next |-> s]]
  BY <1>1 DEF RetryOrGiveUp, SearchFrom
<1>3. PICK n : ctx' = [ctx EXCEPT ![r] = [ctx[r] EXCEPT !.retry = @ + 1,
                                                        !.wrap = n]]
  BY <1>1 DEF RetryOrGiveUp
<1>4. ctx'[r].idx = ctx[r].idx
  BY <1>0, <1>3 DEF Ctx
<1>5. s \in Targets
  BY <1>0, StepInTargets DEF Ctx
<1> HIDE DEF s
<1>6. search'[r] = [start |-> s, next |-> s]
  BY <1>0, <1>2
<1>7. QED
  BY <1>4, <1>5, <1>6 DEF s

\* A search that has only begun has passed nothing.
LEMMA SearchBegins ==
  ASSUME NEW r \in Requests, pc'[r] = "search",
         search'[r].next = search'[r].start, search'[r].start \in Targets,
         ctx'[r].retry > 0 => search'[r].start = step(ctx'[r].idx)
  PROVE  SearchOk(r)'
<1>1. Passed(search'[r].start, search'[r].start) = {}
  BY RoundOfTargets
<1>2. Passed(search[r].start, search[r].next)' = {}
  BY <1>1 DEF Passed
<1>3. QED
  BY <1>2 DEF SearchOk

\* Whoever is in the middle of a search holds smu: a step of another request
\* that needs smu leaves what the search has passed as it was.
LEMMA SearchGoesOn ==
  ASSUME IInv, monitored' = monitored, NEW r \in Requests, SearchOk(r),
         pc'[r] = pc[r], ctx'[r] = ctx[r], search'[r] = search[r],
         smu = r /\ ~monitored => down' = down /\ fails' = fails
  PROVE  SearchOk(r)'
<1> SUFFICES ASSUME pc[r] = "search" PROVE SearchOk(r)'
  BY DEF SearchOk
<1>0. search[r] \in Search
  BY DEF IInv, TypeOK
<1>1. CASE search[r].next = search[r].start
  BY <1>0, <1>1, SearchBegins DEF Search, SearchOk
<1>2. CASE search[r].next # search[r].start
  <2>1. smu = r
    BY <1>2 DEF IInv, SmuHeldInside
  <2>2. Passed(search[r].start, search[r].next)'
          = Passed(search[r].start, search[r].next)
    BY DEF Passed
  <2>3. QED
    BY <2>1, <2>2 DEF SearchOk
<1>3. QED
  BY <1>1, <1>2

\* A target that is not taken is down or has fails.
LEMMA RejectedIsUnfit ==
  ASSUME NEW t \in Targets, Rejected(t)
  PROVE  down[t] \/ fails[t] > 0
  BY DEF Rejected, MaySkip

\* Every step keeps the invariant of the search.
LEMMA StepSearch == IInv /\ SearchInv /\ [Next]_vars => SearchInv'
<1> SUFFICES ASSUME IInv, SearchInv, [Next]_vars PROVE SearchInv'
  OBVIOUS
<1>0. /\ TypeOK /\ SmuHeldInside /\ NoOne \notin Requests
      /\ pc \in [Requests -> Steps] /\ ctx \in [Requests -> Ctx]
      /\ search \in [Requests -> Search]
      /\ \A q \in Requests : SearchOk(q)
  BY NoOneIsNoRequest DEF IInv, TypeOK, SearchInv
<1>1. monitored' = monitored /\ (monitored \/ health' = NoCheck)
  <2>1. monitored' = monitored
    BY DEF Next, NextTarget, Attempt, HealthCheck, Time, FirstTarget,
           TakeTarget, SkipTarget, Succeed, LowerFails, Fail, Punish, MarkDown,
           GiveUp, CheckFails, CheckFailed, CheckSucceeds, CheckSucceeded,
           BurstEnds, QuarantineEnds, vars
  <2>2. health' = health \/ monitored \/ health' = NoCheck
    BY DEF Next, NextTarget, Attempt, HealthCheck, Time, FirstTarget,
           TakeTarget, SkipTarget, Succeed, LowerFails, Fail, Punish, MarkDown,
           GiveUp, CheckFails, CheckFailed, CheckSucceeds, CheckSucceeded,
           BurstEnds, QuarantineEnds, vars
  <2>3. QED
    BY <2>1, <2>2 DEF SearchInv
\* What is left to show of a step of one request.
<1>2. ASSUME NEW r \in Requests, SearchOk(r)',
             smu \in {NoOne, r} \/ (down' = down /\ fails' = fails),
             \A q \in Requests \ {r} : /\ pc'[q] = pc[q] /\ ctx'[q] = ctx[q]
                                       /\ search'[q] = search[q]
      PROVE  SearchInv'
  <2>1. ASSUME NEW q \in Requests, q # r
        PROVE  SearchOk(q)'
    BY <1>0, <1>1, <1>2, <2>1, SearchGoesOn
  <2>2. QED
    BY <1>1, <1>2, <2>1 DEF SearchInv
<1>3. CASE \E r \in Requests : FirstTarget(r)
  <2> PICK r \in Requests : FirstTarget(r)
    BY <1>3
  <2> DEFINE s == step(idx)
  <2>1. s \in Targets
    BY <1>0, StepInTargets DEF TypeOK
  <2>2. /\ search' = [search EXCEPT ![r] = [start |-> s, next |-> s]]
        /\ ctx' = [ctx EXCEPT ![r] = [NoCtx EXCEPT !.first = s]]
        /\ pc' = [pc EXCEPT ![r] = "search"]
        /\ down' = down /\ fails' = fails
    BY DEF FirstTarget
  <2> HIDE DEF s
  <2>3. search'[r].next = s /\ search'[r].start = s /\ pc'[r] = "search"
    BY <1>0, <2>2
  <2>4. ctx'[r].retry = 0
    BY <1>0, <2>2 DEF NoCtx
  <2>5. SearchOk(r)'
    BY <2>1, <2>3, <2>4, SearchBegins
  <2>6. QED
    BY <1>0, <1>2, <2>2, <2>5
<1>4. CASE \E r \in Requests : TakeTarget(r)
  <2> PICK r \in Requests : TakeTarget(r)
    BY <1>4
  <2>1. /\ smu \in {NoOne, r} /\ pc' = [pc EXCEPT ![r] = "send"]
        /\ search' = [search EXCEPT ![r] = NoSearch]
        /\ ctx' = [ctx EXCEPT ![r].idx = search[r].next]
    BY DEF TakeTarget, SmuFree, Pick
  <2>2. SearchOk(r)'
    BY <1>0, <2>1 DEF SearchOk
  <2>3. QED
    BY <1>0, <1>2, <2>1, <2>2
<1>5. CASE \E r \in Requests : SkipTarget(r)
  <2> PICK r \in Requests : SkipTarget(r)
    BY <1>5
  <2> DEFINE n == search[r].next
             t == step(n)
  <2>1. /\ smu \in {NoOne, r} /\ pc[r] = "search" /\ Rejected(n)
        /\ down' = down /\ fails' = fails
    BY DEF SkipTarget, SmuFree
  <2>2. search[r] \in Search /\ n \in Targets /\ search[r].start \in Targets
    BY <1>0 DEF Search
  <2>3. CASE t = search[r].start
    <3>1. /\ pc' = [pc EXCEPT ![r] = "send"]
          /\ search' = [search EXCEPT ![r] = NoSearch]
          /\ \A q \in Requests \ {r} : ctx'[q] = ctx[q]
      BY <1>0, <2>3 DEF SkipTarget, Pick
    <3>2. SearchOk(r)'
      BY <1>0, <3>1 DEF SearchOk
    <3>3. QED
      BY <1>0, <1>2, <2>1, <3>1, <3>2
  <2>4. CASE t # search[r].start
    <3>1. /\ search' = [search EXCEPT ![r].next = t]
          /\ UNCHANGED <<ctx, pc>>
      BY <2>4 DEF SkipTarget
    <3>2. /\ search'[r].next = t /\ search'[r].start = search[r].start
          /\ \A q \in Requests \ {r} : search'[q] = search[q]
      <4> HIDE DEF t
      <4>1. QED
        BY <1>0, <2>2, <3>1 DEF Search
    <3>3. Passed(search[r].start, t) \subseteq
            Passed(search[r].start, n) \cup {n}
      <4> HIDE DEF n
      <4>1. QED
        BY <2>2, <2>4, RoundOfTargets
    <3>4. Passed(search[r].start, search[r].next)'
            = Passed(search[r].start, t)
      <4> HIDE DEF t
      <4>1. QED
        BY <3>2 DEF Passed
    <3>5. down[n] \/ fails[n] > 0
      <4> HIDE DEF n
      <4>1. QED
        BY <2>1, <2>2, RejectedIsUnfit
    <3>6. ~monitored => \A u \in Passed(search[r].start, n) :
                          down[u] \/ fails[u] > 0
      BY <1>0, <2>1 DEF SearchOk
    <3>7. ctx[r].retry > 0 => search[r].start = step(ctx[r].idx)
      BY <1>0, <2>1 DEF SearchOk
    <3>8. SearchOk(r)'
      <4> HIDE DEF n, t
      <4>1. QED
        BY <1>1, <2>1, <3>1, <3>2, <3>3, <3>4, <3>5, <3>6, <3>7 DEF SearchOk
    <3>9. QED
      BY <1>0, <1>2, <2>1, <3>1, <3>2, <3>8
  <2>5. QED
    BY <2>3, <2>4
<1>6. CASE \E r \in Requests : Succeed(r)
  <2> PICK r \in Requests : Succeed(r)
    BY <1>6
  <2>1. /\ smu \in {NoOne, r} /\ pc'[r] # "search" /\ search' = search
        /\ \A q \in Requests \ {r} : pc'[q] = pc[q] /\ ctx'[q] = ctx[q]
    BY <1>0 DEF Succeed, SmuFree
  <2>2. SearchOk(r)'
    BY <2>1 DEF SearchOk
  <2>3. QED
    BY <1>2, <2>1, <2>2
<1>7. CASE \E r \in Requests : LowerFails(r) \/ GiveUp(r)
  <2> PICK r \in Requests : LowerFails(r) \/ GiveUp(r)
    BY <1>7
  <2>1. /\ smu = r \/ (down' = down /\ fails' = fails)
        /\ pc'[r] # "search" /\ search' = search
        /\ \A q \in Requests \ {r} : pc'[q] = pc[q] /\ ctx'[q] = ctx[q]
    BY <1>0 DEF LowerFails, GiveUp, SmuHeldInside
  <2>2. SearchOk(r)'
    BY <2>1 DEF SearchOk
  <2>3. QED
    BY <1>2, <2>1, <2>2
\* The end of an attempt that failed.
<1>8. ASSUME NEW r \in Requests, NEW e, NEW b, RetryOrGiveUp(r, e, b),
             smu \in {NoOne, r}
      PROVE  SearchInv'
  <2>1. /\ pc'[r] = "search" \/ pc'[r] # "search"
        /\ \A q \in Requests \ {r} : /\ pc'[q] = pc[q] /\ ctx'[q] = ctx[q]
                                     /\ search'[q] = search[q]
    BY <1>0, <1>8 DEF RetryOrGiveUp
  <2>2. CASE pc'[r] = "search"
    BY <1>0, <1>2, <1>8, <2>1, <2>2, RetrySearch, SearchBegins
  <2>3. CASE pc'[r] # "search"
    <3>1. SearchOk(r)'
      BY <2>3 DEF SearchOk
    <3>2. QED
      BY <1>2, <1>8, <2>1, <3>1
  <2>4. QED
    BY <2>2, <2>3
<1>9. CASE \E r \in Requests : Fail(r)
  <2> PICK r \in Requests : Fail(r)
    BY <1>9
  <2>1. PICK e, b : Count(r, e, b)
    BY <1>0, FailResult
  <2>2. smu \in {NoOne, r}
    BY DEF Fail, SmuFree
  <2>3. CASE MaxFails = 0 \/ burst[ctx[r].idx]
    BY <1>8, <2>1, <2>2, <2>3 DEF Count
  <2>4. CASE ~(MaxFails = 0 \/ burst[ctx[r].idx])
    <3>1. /\ pc' = [pc EXCEPT ![r] = "punish"] /\ UNCHANGED <<ctx, search>>
      BY <2>1, <2>4 DEF Count
    <3>2. SearchOk(r)'
      BY <1>0, <3>1 DEF SearchOk
    <3>3. QED
      BY <1>0, <1>2, <2>2, <3>1, <3>2
  <2>5. QED
    BY <2>3, <2>4
<1>10. CASE \E r \in Requests : Punish(r) \/ MarkDown(r)
  <2> PICK r \in Requests : Punish(r) \/ MarkDown(r)
    BY <1>10
  <2>1. smu = r
    BY <1>0, PunishResult DEF SmuHeldInside
  <2>2. CASE Updated(r)
    BY <1>8, <2>1, <2>2 DEF Updated
  <2>3. CASE /\ pc' = [pc EXCEPT ![r] = "mark"]
             /\ UNCHANGED <<smu, ctx, search, body, error>>
    <3>1. SearchOk(r)'
      BY <1>0, <2>3 DEF SearchOk
    <3>2. QED
      BY <1>0, <1>2, <2>1, <2>3, <3>1
  <2>4. QED
    BY <1>0, <2>2, <2>3, PunishResult
\* A health check writes where there is one, and time only to other fields.
<1>11. CASE /\ UNCHANGED <<pc, ctx, search>>
            /\ monitored \/ UNCHANGED <<down, fails>>
  <2>1. \A q \in Requests : SearchOk(q)'
    BY <1>0, <1>1, <1>11, SearchGoesOn
  <2>2. QED
    BY <1>1, <2>1 DEF SearchInv
<1>12. CASE HealthCheck
  <2>1. UNCHANGED <<pc, ctx, search>>
    BY <1>12 DEF HealthCheck, CheckFails, CheckFailed, CheckSucceeds,
                 CheckSucceeded
  <2>2. monitored \/ UNCHANGED <<down, fails>>
    BY <1>12 DEF HealthCheck, CheckFails, CheckFailed, CheckSucceeds,
                 CheckSucceeded, SearchInv, NoCheck
  <2>3. QED
    BY <1>11, <2>1, <2>2
<1>13. CASE Time \/ UNCHANGED vars
  BY <1>11, <1>13 DEF Time, BurstEnds, QuarantineEnds, vars
<1>14. QED
  BY <1>3, <1>4, <1>5, <1>6, <1>7, <1>9, <1>10, <1>12, <1>13
     DEF Next, NextTarget, Attempt

(***************************************************************************)
(* The theorems.                                                           *)
(***************************************************************************)

\* The inductive invariant holds in every reachable state.
THEOREM Invariance == Spec => []IInv
<1>1. IInv /\ [Next]_vars => IInv'
  BY StepTypes, StepSmu, StepCount, StepUnsafe, StepBody DEF IInv
<1>2. QED
  BY <1>1, InitIInv, PTL DEF Spec

\* Every variable keeps its type: in particular NextTarget never leaves the
\* list of targets, and a fail counter falls below 0 only if MaxFails is 1.
THEOREM TypeCorrect == Spec => []TypeOK
<1>1. IInv => TypeOK
  BY DEF IInv
<1>2. QED
  BY <1>1, Invariance, PTL

\* smu is held in the middle of a search or an update and nowhere else: every
\* path through NextTarget and Update releases it.
THEOREM SmuIsExclusive == Spec => []SmuHeldInside
<1>1. IInv => SmuHeldInside
  BY DEF IInv
<1>2. QED
  BY <1>1, Invariance, PTL

\* RoundTrip repeats a request only if no attempt has read its body and, unless
\* its method is idempotent, none has reached a backend.
THEOREM SafeRetries == Spec => []ResentOnlyIfSafe
<1>1. IInv => ResentOnlyIfSafe
  BY DEF IInv, ResentOnlyIfSafe, UnsafeInv, BodyInv, BodyOk
<1>2. QED
  BY <1>1, Invariance, PTL

\* deferCloseBody keeps the body open for the first retry.
THEOREM BodiesKept == Spec => []BodyKeptForRetry
<1>1. IInv => BodyKeptForRetry
  <2>1. SUFFICES ASSUME IInv, NEW r \in Requests, pc[r] = "send",
                        ctx[r].retry <= 1
                 PROVE  body[r].closed = 0
    BY DEF BodyKeptForRetry
  <2>2. ctx[r].retry \in 0 .. MaxRetries /\ BodyOk(r)
    BY <2>1 DEF IInv, TypeOK, Ctx, BodyInv
  <2>3. ctx[r].retry \in {0, 1}
    BY <2>1, <2>2, RoundRobinAssumption
  <2>4. QED
    BY <2>1, <2>2, <2>3 DEF BodyOk, NewBody
<1>2. QED
  BY <1>1, Invariance, PTL

\* A request that RoundTrip gives up leaves its body closed.
THEOREM BodiesClosed == Spec => []GivenUpIsClosed
<1>1. IInv => GivenUpIsClosed
  BY DEF IInv, GivenUpIsClosed, BodyInv, BodyOk
<1>2. QED
  BY <1>1, Invariance, PTL

\* NextTarget prefers a target that is up and has no fails: one that is in
\* quarantine, or the one that has just failed, is tried when all others have
\* been passed.  They are still unfit then, since smu was held meanwhile.
THEOREM HealthyTargetsFirst == Spec => HealthyFirst
<1> DEFINE Choice(r) ==
      ~monitored /\ pc[r] = "search" /\ pc'[r] = "send" =>
        LET t == ctx'[r].idx
        IN (down[t] /\ quarantined[t]) \/ (ctx[r].retry > 0 /\ ctx[r].idx = t)
             => \A u \in Targets \ {t} : down[u] \/ fails[u] > 0
<1>1. Init => SearchInv
  BY DEF Init, SearchInv, SearchOk
<1>2. IInv /\ SearchInv /\ [Next]_vars => [\A r \in Requests : Choice(r)]_pc
  <2> SUFFICES ASSUME IInv, SearchInv, Next, NEW r \in Requests,
                      ~monitored, pc[r] = "search", pc'[r] = "send"
               PROVE  Choice(r)
    BY DEF vars
  <2>0. /\ TypeOK /\ SearchOk(r) /\ search[r] \in Search /\ ctx[r] \in Ctx
        /\ pc \in [Requests -> Steps] /\ ctx \in [Requests -> Ctx]
    BY DEF IInv, TypeOK, SearchInv
  <2> DEFINE n == search[r].next
             s == search[r].start
  <2>1. n \in Targets /\ s \in Targets
    BY <2>0 DEF Search
  <2>2. \A u \in Passed(s, n) : down[u] \/ fails[u] > 0
    BY <2>0 DEF SearchOk
  <2>3. TakeTarget(r) \/ SkipTarget(r)
    <3>1. ASSUME NEW q \in Requests,
                 \/ FirstTarget(q) \/ Succeed(q) \/ LowerFails(q) \/ GiveUp(q)
          PROVE  FALSE
      BY <2>0, <3>1 DEF FirstTarget, Succeed, LowerFails, GiveUp
    <3>2. ASSUME NEW q \in Requests, Fail(q) \/ Punish(q) \/ MarkDown(q)
          PROVE  FALSE
      BY <2>0, <3>2 DEF Fail, Count, Punish, MarkDown, Updated, RetryOrGiveUp
    <3>3. ASSUME NEW q \in Requests, q # r, TakeTarget(q) \/ SkipTarget(q)
          PROVE  FALSE
      BY <2>0, <3>3 DEF TakeTarget, SkipTarget, Pick
    <3>4. ~HealthCheck /\ ~Time
      BY DEF HealthCheck, CheckFails, CheckFailed, CheckSucceeds,
             CheckSucceeded, Time, BurstEnds, QuarantineEnds
    <3>5. QED
      BY <3>1, <3>2, <3>3, <3>4 DEF Next, NextTarget, Attempt
  <2>4. CASE TakeTarget(r)
    <3>1. ctx'[r].idx = n
      BY <2>0, <2>4 DEF TakeTarget, Ctx
    <3>2. ~(down[n] /\ quarantined[n])
      BY <2>4 DEF TakeTarget
    <3>3. ASSUME ctx[r].retry > 0, ctx[r].idx = n
          PROVE  \A u \in Targets \ {n} : down[u] \/ fails[u] > 0
      <4>1. s = step(n)
        BY <2>0, <3>3 DEF SearchOk
      <4> HIDE DEF n, s
      <4>2. QED
        BY <2>1, <2>2, <4>1, RoundOfTargets
    <3> HIDE DEF n
    <3>4. QED
      BY <3>1, <3>2, <3>3
  <2>5. CASE SkipTarget(r)
    <3>1. Rejected(n) /\ step(n) = s
      BY <2>0, <2>5 DEF SkipTarget
    <3> HIDE DEF n, s
    <3>2. \A u \in Targets : down[u] \/ fails[u] > 0
      BY <2>1, <2>2, <3>1, RoundOfTargets, RejectedIsUnfit
    <3>3. QED
      BY <3>2
  <2>6. QED
    BY <2>3, <2>4, <2>5
<1>3. QED
  BY <1>1, <1>2, StepSearch, Invariance, PTL DEF Spec, HealthyFirst

=============================================================================
