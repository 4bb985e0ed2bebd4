------------------------------ MODULE YbcCache ------------------------------
(***************************************************************************)
(* The cache of a reverse proxy of version 1 (handlers/rproxy/cache):      *)
(* GetAndStore() of many requests, which share one fetch of a key, against *)
(* Set(), Delete() and Clear().  The library that stores the values may    *)
(* drop them, and fail.                                                    *)
(*                                                                         *)
(* A caller calls GetAndStore() once.  A `call` of the code is named after *)
(* the caller that fetches, and so is the value it fetches.                *)
(***************************************************************************)
EXTENDS Naturals, FiniteSets

CONSTANTS Callers, Keys,
          KeysAsked,  \* the keys the callers ask for, [Callers -> Keys]
          MaxClears   \* bound: calls of Clear()

ASSUME YbcCacheAssumption ==
  /\ IsFiniteSet(Callers) /\ KeysAsked \subseteq [Callers -> Keys]
  /\ Callers \cap {"none", "nil", "error", "set", "open"} = {}
  /\ MaxClears \in Nat

VARIABLES cacher,     \* what NewCache() made: "YBC" or "null"
          store,      \* the library: the value of a key
          fetchings,  \* the call a key is being fetched by
          call,       \* the val and err of a call
          pc, key, mine, got,  \* a caller: its key, its call, what it returned
          fresh,      \* the callers that looked for a call since Clear()
          clears      \* calls of Clear()

cache  == <<store, fetchings, call>>
caller == <<pc, key, mine, got>>
vars   == <<cacher, cache, caller, fresh, clears>>

None     == "none"
Outcomes == Callers \cup {"nil", "error"}  \* of a fetch
Active   == {"fetch", "store", "signal", "delete"}

Goto(p, l) == pc' = [pc EXCEPT ![p] = l]
Return(p, v) == Goto(p, "returned") /\ got' = [got EXCEPT ![p] = v]

\* No configuration gives a NullCache, an unknown type an error.
NewCache == cacher \in {"YBC", "null"}

Init ==
  /\ NewCache
  /\ store = [k \in Keys |-> None] /\ fetchings = [k \in Keys |-> None]
  /\ call = [p \in Callers |-> "open"]
  /\ pc = [p \in Callers |-> "idle"] /\ key \in KeysAsked
  /\ mine = [p \in Callers |-> None] /\ got = [p \in Callers |-> None]
  /\ fresh = {} /\ clears = 0

\* The library answers: a hit, an error, or a miss.  A NullCache fetches.
Get(p) ==
  /\ pc[p] = "idle"
  /\ CASE cacher = "null" -> Goto(p, "fetch") /\ UNCHANGED got
       [] cacher = "YBC" /\ store[key[p]] # None ->
            Return(p, store[key[p]]) \/ Return(p, "error")
       [] cacher = "YBC" /\ store[key[p]] = None ->
            Return(p, "error") \/ (Goto(p, "join") /\ UNCHANGED got)
  /\ UNCHANGED <<cacher, cache, key, mine, fresh, clears>>

\* Fault: the lock is released between the look and the entry.
JoinUnlocked(p) ==
  \/ /\ pc[p] = "join" /\ Goto(p, IF fetchings[key[p]] = None THEN "enter"
                                  ELSE "wait")
     /\ mine' = [mine EXCEPT ![p] = fetchings[key[p]]]
     /\ UNCHANGED <<cacher, cache, key, got, fresh, clears>>
  \/ /\ pc[p] = "enter" /\ Goto(p, "fetch")
     /\ mine' = [mine EXCEPT ![p] = p]
     /\ fetchings' = [fetchings EXCEPT ![key[p]] = p]
     /\ UNCHANGED <<cacher, store, call, key, got, fresh, clears>>

\* Under fetchingLock: join the call there is, or begin one.
Join(p) ==
  LET c == fetchings[key[p]]
      mycall == IF c = None THEN p ELSE c IN
  /\ pc[p] = "join"
  /\ Goto(p, IF c = None THEN "fetch" ELSE "wait")
  /\ mine' = [mine EXCEPT ![p] = mycall]
  /\ fetchings' = [fetchings EXCEPT ![key[p]] = mycall]
  /\ fresh' = fresh \cup {p}
  /\ UNCHANGED <<cacher, store, call, key, got, clears>>

\* Fetch() is a module's: it returns a value, none, or an error.
Fetch(p) ==
  /\ pc[p] = "fetch"
  /\ \E v \in {p, "nil", "error"} : call' = [call EXCEPT ![p] = v]
  /\ IF cacher = "null" THEN Return(p, call'[p])
     ELSE Goto(p, "store") /\ UNCHANGED got
  /\ UNCHANGED <<cacher, store, fetchings, key, mine, fresh, clears>>

\* The HTTP server recovers a panic of Fetch(): nobody signals or deletes.
FetchPanics(p) ==
  /\ pc[p] = "fetch" /\ Goto(p, "panicked")
  /\ UNCHANGED <<cacher, cache, key, mine, got, fresh, clears>>

\* The library may refuse the value.
StoreFetched(p) ==
  /\ pc[p] = "store" /\ Goto(p, "signal")
  /\ \/ call[p] = p /\ store' = [store EXCEPT ![key[p]] = p]
     \/ UNCHANGED store
  /\ UNCHANGED <<cacher, fetchings, call, key, mine, got, fresh, clears>>

WaitOver(c) == pc[c] \in {"delete", "returned"}

\* Fault: an error does not wake those who wait.
SignalOnSuccess(p) ==
  /\ pc[p] = "signal" /\ call[p] # "error" /\ Goto(p, "delete")
  /\ UNCHANGED <<cacher, cache, key, mine, got, fresh, clears>>

Signal(p) ==
  /\ pc[p] = "signal" /\ Goto(p, "delete")
  /\ UNCHANGED <<cacher, cache, key, mine, got, fresh, clears>>

Wait(p) ==
  /\ pc[p] = "wait" /\ WaitOver(mine[p])
  /\ Return(p, call[mine[p]])
  /\ UNCHANGED <<cacher, cache, key, mine, fresh, clears>>

\* Fault: after an error the entry stays.
FinishOnSuccess(p) ==
  /\ pc[p] = "delete" /\ Return(p, call[p])
  /\ fetchings' = IF call[p] = "error" THEN fetchings
                  ELSE [fetchings EXCEPT ![key[p]] = None]
  /\ UNCHANGED <<cacher, store, call, key, mine, fresh, clears>>

\* The entry of the key goes, whosever it is.
Finish(p) ==
  /\ pc[p] = "delete" /\ Return(p, call[p])
  /\ fetchings' = [fetchings EXCEPT ![key[p]] = None]
  /\ UNCHANGED <<cacher, store, call, key, mine, fresh, clears>>

-----------------------------------------------------------------------------
\* Clear() forgets the calls, then the values.
Clear ==
  /\ clears < MaxClears /\ cacher = "YBC"
  /\ clears' = clears + 1
  /\ fetchings' = [k \in Keys |-> None] /\ fresh' = {}
  /\ UNCHANGED <<cacher, store, call, caller>>

\* Delete(), the second half of Clear(), a ttl that is over, an eviction.
Drop(k) ==
  /\ store[k] # None /\ store' = [store EXCEPT ![k] = None]
  /\ UNCHANGED <<cacher, fetchings, call, caller, fresh, clears>>

\* Set() by a module.
Set(k) ==
  /\ cacher = "YBC"
  /\ store' = [store EXCEPT ![k] = "set"]
  /\ UNCHANGED <<cacher, fetchings, call, caller, fresh, clears>>

GetAndStore(p) ==
  \/ Get(p) \/ Join(p) \/ StoreFetched(p) \/ Signal(p) \/ Wait(p) \/ Finish(p)

Next ==
  \/ \E p \in Callers : GetAndStore(p) \/ Fetch(p) \/ FetchPanics(p)
  \/ \E k \in Keys : Drop(k) \/ Set(k)
  \/ Clear

\* Goroutines run; a Fetch() returns or panics in the end.
Spec == /\ Init /\ [][Next]_vars
        /\ \A p \in Callers : WF_vars(GetAndStore(p))
                              /\ WF_vars(Fetch(p) \/ FetchPanics(p))

-----------------------------------------------------------------------------
Fetching(k) == {p \in Callers : key[p] = k /\ pc[p] \in Active}

\* The call of a key is one of its callers', who is at it or panicked: none
\* is left behind that a later caller would wait for in vain.  What a caller
\* returns was set or fetched for its key.
TypeOK ==
  /\ \A k \in Keys : fetchings[k] # None =>
       LET c == fetchings[k] IN
       key[c] = k /\ pc[c] \in Active \cup {"panicked"} /\ mine[c] = c
  /\ \A p \in Callers :
       /\ got[p] \in Outcomes \cup {None, "set"}
       /\ got[p] \in Callers => key[got[p]] = key[p]
       /\ pc[p] \in Active => got[p] = None
  /\ clears \in 0 .. MaxClears

\* Callers of a key share a fetch.  Clear() lets one more go on beside those
\* that are under way, and never more than one.
FetchesBounded ==
  cacher = "YBC" => \A k \in Keys : Cardinality(Fetching(k)) <= 1 + clears

\* Who waits for a call returns what its fetch gave, unless it panicked.
WaitersServed ==
  \A p \in Callers :
    pc[p] = "wait" ~>
      /\ mine[p] \in Callers
      /\ \/ pc[p] = "returned" /\ got[p] = call[mine[p]] /\ got[p] # "open"
         \/ pc[mine[p]] = "panicked"

\* ybc.go: a lookup that is under way protects against the dog-pile effect:
\* of the callers since the last Clear(), one fetches a key.
OneFetch ==
  cacher = "YBC" => \A k \in Keys : Cardinality(Fetching(k) \cap fresh) <= 1

=============================================================================
