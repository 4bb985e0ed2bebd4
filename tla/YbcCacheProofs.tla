--------------------------- MODULE YbcCacheProofs ---------------------------
(***************************************************************************)
(* Proofs about YbcCache, for any callers, keys and number of Clear()s.    *)
(*                                                                         *)
(* FetchesBounded is not inductive: that a call begins only when its key   *)
(* has no entry, and that an entry stands for a caller still at it, gives  *)
(* the bound that is (BoundInv): an entry allows one fetch, each Clear()   *)
(* another.  That a caller returns a value of its own key follows the      *)
(* value from the fetch through the call and the library (DataInv).        *)
(***************************************************************************)
EXTENDS YbcCache, FiniteSetTheorems, TLAPS


Locations == {"idle", "join", "wait", "returned", "panicked"} \cup Active

TypeInv ==
  /\ cacher \in {"YBC", "null"}
  /\ store \in [Keys -> Callers \cup {None, "set"}]
  /\ fetchings \in [Keys -> Callers \cup {None}]
  /\ call \in [Callers -> Outcomes \cup {"open"}]
  /\ pc \in [Callers -> Locations] /\ key \in [Callers -> Keys]
  /\ mine \in [Callers -> Callers \cup {None}]
  /\ got \in [Callers -> Outcomes \cup {None, "set"}]
  /\ clears \in 0 .. MaxClears

NullInv ==
  cacher = "null" =>
    /\ \A k \in Keys : fetchings[k] = None
    /\ \A p \in Callers : pc[p] \in {"idle", "fetch", "returned", "panicked"}

EntryInv ==
  \A k \in Keys : fetchings[k] # None =>
    /\ key[fetchings[k]] = k
    /\ pc[fetchings[k]] \in Active \cup {"panicked"}
    /\ mine[fetchings[k]] = fetchings[k]

MineInv ==
  \A p \in Callers :
    /\ pc[p] \in {"idle", "join"} => mine[p] = None
    /\ pc[p] = "wait" => mine[p] # None
    /\ mine[p] # None => key[mine[p]] = key[p] /\ mine[mine[p]] = mine[p]

DataInv ==
  /\ \A k \in Keys : store[k] \in Callers => key[store[k]] = k
  /\ \A p \in Callers :
       /\ call[p] \in Callers => call[p] = p
       /\ pc[p] \in {"store", "signal", "delete"} => call[p] # "open"
       /\ mine[p] = p /\ pc[p] = "returned" => call[p] # "open"
       /\ got[p] \in Callers => key[got[p]] = key[p]
       /\ pc[p] \notin {"returned"} => got[p] = None

BoundInv ==
  cacher = "YBC" => \A k \in Keys :
    Cardinality(Fetching(k)) <= clears + (IF fetchings[k] = None THEN 0 ELSE 1)

IInv == TypeInv /\ NullInv /\ EntryInv /\ MineInv /\ DataInv /\ BoundInv

(***************************************************************************)
(* Facts about constants and about the callers that fetch a key.           *)
(***************************************************************************)
LEMMA WordsAreNoCallers ==
  \A w \in {"none", "nil", "error", "set", "open"} : w \notin Callers
  BY YbcCacheAssumption

\* Those who fetch a key can be counted.
LEMMA FetchingFinite ==
  \A k : /\ IsFiniteSet(Fetching(k)) /\ Cardinality(Fetching(k)) \in Nat
         /\ Cardinality(Fetching(k)') \in Nat
<1> TAKE k
<1>1. Fetching(k) \in SUBSET Callers /\ Fetching(k)' \in SUBSET Callers
  BY DEF Fetching
<1> QED
  BY <1>1, FS_Subset, FS_CardinalityType, YbcCacheAssumption

\* A step of p changes who fetches p's key by p at most, and no other key's.
LEMMA FetchingStep ==
  ASSUME TypeInv, NEW p \in Callers, NEW l, pc' = [pc EXCEPT ![p] = l],
         key' = key
  PROVE  /\ \A k \in Keys \ {key[p]} : Fetching(k)' = Fetching(k)
         /\ l \in Active => Fetching(key[p])' = Fetching(key[p]) \cup {p}
         /\ l \notin Active => Fetching(key[p])' = Fetching(key[p]) \ {p}
  BY DEF Fetching, TypeInv

\* A caller that moves adds itself to those at its own key, or takes itself out.
LEMMA FetchingCount ==
  ASSUME TypeInv, NEW p \in Callers, NEW l, pc' = [pc EXCEPT ![p] = l],
         key' = key
  PROVE  \A k \in Keys :
           /\ l \notin Active \/ pc[p] \in Active =>
                Cardinality(Fetching(k)') <= Cardinality(Fetching(k))
           /\ Cardinality(Fetching(k)') <= Cardinality(Fetching(k)) + 1
           /\ k # key[p] => Cardinality(Fetching(k)') = Cardinality(Fetching(k))
           /\ l \notin Active /\ pc[p] \in Active /\ k = key[p] =>
                Cardinality(Fetching(k)') = Cardinality(Fetching(k)) - 1
<1> TAKE k \in Keys
<1>1. IsFiniteSet(Fetching(k)) /\ Cardinality(Fetching(k)) \in Nat
  BY FetchingFinite
<1>2. p \in Fetching(key[p]) <=> pc[p] \in Active
  BY DEF Fetching
<1>3. CASE k # key[p]
  <2>1. Fetching(k)' = Fetching(k)
    BY <1>3, FetchingStep
  <2> QED
    BY <2>1, <1>1, <1>3
<1>4. CASE k = key[p] /\ l \in Active
  <2>1. Fetching(k)' = Fetching(k) \cup {p}
    BY <1>4, FetchingStep
  <2>2. Cardinality(Fetching(k) \cup {p}) =
          IF p \in Fetching(k) THEN Cardinality(Fetching(k))
          ELSE Cardinality(Fetching(k)) + 1
    BY <1>1, FS_AddElement
  <2> QED
    BY <2>1, <2>2, <1>1, <1>2, <1>4
<1>5. CASE k = key[p] /\ l \notin Active
  <2>1. Fetching(k)' = Fetching(k) \ {p}
    BY <1>5, FetchingStep
  <2>2. Cardinality(Fetching(k) \ {p}) =
          IF p \in Fetching(k) THEN Cardinality(Fetching(k)) - 1
          ELSE Cardinality(Fetching(k))
    BY <1>1, FS_RemoveElement
  <2> QED
    BY <2>1, <2>2, <1>1, <1>2, <1>5
<1> QED
  BY <1>3, <1>4, <1>5

(***************************************************************************)
(* The invariant.                                                          *)
(***************************************************************************)
LEMMA InitInvariant == Init => IInv
<1> SUFFICES ASSUME Init PROVE IInv
  OBVIOUS
<1>1. TypeInv
  BY YbcCacheAssumption DEF Init, NewCache, TypeInv, Locations, Outcomes, None
<1>2. NullInv /\ EntryInv /\ MineInv /\ DataInv
  BY <1>1, WordsAreNoCallers
  DEF Init, TypeInv, NullInv, EntryInv, MineInv, DataInv, None
<1>3. BoundInv
  <2> SUFFICES ASSUME NEW k \in Keys
               PROVE  Cardinality(Fetching(k)) = 0
    BY YbcCacheAssumption DEF BoundInv, Init
  <2>1. Fetching(k) = {}
    BY DEF Fetching, Init, Active
  <2> QED
    BY <2>1, FS_EmptySet
<1> QED
  BY <1>1, <1>2, <1>3 DEF IInv

\* A step that begins no fetch, and leaves the entries alone, keeps the bound.
LEMMA BoundKept ==
  ASSUME TypeInv, BoundInv, NEW p \in Callers, NEW l, Goto(p, l),
         l \notin Active \/ pc[p] \in Active,
         UNCHANGED <<key, cacher, fetchings, clears>>
  PROVE  BoundInv'
<1> SUFFICES ASSUME cacher = "YBC", NEW k \in Keys
             PROVE  Cardinality(Fetching(k)') <=
                      clears + (IF fetchings[k] = None THEN 0 ELSE 1)
  BY DEF BoundInv
<1>1. Cardinality(Fetching(k)') <= Cardinality(Fetching(k))
  BY FetchingCount DEF Goto
<1>2. Cardinality(Fetching(k)) <=
        clears + (IF fetchings[k] = None THEN 0 ELSE 1)
  BY DEF BoundInv
<1>3. /\ Cardinality(Fetching(k)) \in Nat
      /\ Cardinality(Fetching(k)') \in Nat
  BY FetchingFinite
<1> QED
  BY <1>1, <1>2, <1>3 DEF TypeInv

\* Each action keeps the invariant: a lookup in the library, ...
LEMMA GetInvariant == ASSUME IInv, NEW p \in Callers, Get(p) PROVE IInv'
<1> USE DEF IInv
<1>1. /\ pc[p] = "idle" /\ mine[p] = None
      /\ UNCHANGED <<cacher, store, fetchings, call, key, mine, clears>>
  BY DEF Get, cache, MineInv
<1>2. \/ cacher = "null" /\ Goto(p, "fetch") /\ got' = got
      \/ cacher = "YBC" /\ Goto(p, "join") /\ got' = got
      \/ cacher = "YBC" /\ Return(p, "error")
      \/ cacher = "YBC" /\ store[key[p]] # None /\ Return(p, store[key[p]])
  BY DEF Get, TypeInv
<1>3. CASE cacher = "null" /\ Goto(p, "fetch") /\ got' = got
  <2>1. TypeInv'
    BY <1>1, <1>3 DEF Goto, TypeInv, Locations, Active
  <2>2. NullInv' /\ EntryInv' /\ BoundInv'
    BY <1>1, <1>3 DEF Goto, TypeInv, NullInv, EntryInv, BoundInv
  <2>3. MineInv' /\ DataInv'
    BY <1>1, <1>3 DEF Goto, TypeInv, MineInv, DataInv
  <2> QED
    BY <2>1, <2>2, <2>3
<1>4. CASE cacher = "YBC" /\ Goto(p, "join") /\ got' = got
  <2>1. TypeInv'
    BY <1>1, <1>4 DEF Goto, TypeInv, Locations
  <2>2. NullInv' /\ EntryInv'
    BY <1>1, <1>4 DEF Goto, TypeInv, NullInv, EntryInv, Active
  <2>3. MineInv' /\ DataInv'
    BY <1>1, <1>4 DEF Goto, TypeInv, MineInv, DataInv
  <2>4. BoundInv'
    BY <1>1, <1>4, BoundKept DEF Active
  <2> QED
    BY <2>1, <2>2, <2>3, <2>4
<1>5. ASSUME NEW v, cacher = "YBC", Return(p, v),
             v \in Callers \cup {"error", "set"},
             v \in Callers => key[v] = key[p]
      PROVE  IInv'
  <2>1. TypeInv'
    BY <1>1, <1>5 DEF Goto, Return, TypeInv, Locations, Outcomes
  <2>2. NullInv' /\ EntryInv'
    BY <1>1, <1>5 DEF Goto, Return, TypeInv, NullInv, EntryInv, Active
  <2>3. MineInv'
    BY <1>1, <1>5 DEF Goto, Return, TypeInv, MineInv
  <2>4. DataInv'
    BY <1>1, <1>5, WordsAreNoCallers DEF Goto, Return, TypeInv, DataInv, None
  <2>5. BoundInv'
    BY <1>1, <1>5, BoundKept DEF Return, Active
  <2> QED
    BY <2>1, <2>2, <2>3, <2>4, <2>5
<1>6. /\ "error" \notin Callers
      /\ store[key[p]] # None => store[key[p]] \in Callers \cup {"set"}
      /\ store[key[p]] \in Callers => key[store[key[p]]] = key[p]
  BY WordsAreNoCallers DEF TypeInv, DataInv
<1> QED
  BY <1>2, <1>3, <1>4, <1>5, <1>6

\* ... joining a fetch or beginning one, ...
LEMMA JoinInvariant == ASSUME IInv, NEW p \in Callers, Join(p) PROVE IInv'
<1> USE DEF IInv
<1>1. TypeInv'
  BY DEF Join, Goto, TypeInv, Locations, Active, None
<1>2. NullInv'
  BY DEF Join, TypeInv, NullInv
<1>3. EntryInv'
  BY WordsAreNoCallers DEF Join, Goto, TypeInv, EntryInv, MineInv, Active, None
<1>4. MineInv'
  BY WordsAreNoCallers DEF Join, Goto, TypeInv, EntryInv, MineInv, Active, None
<1>5. DataInv'
  BY DEF Join, Goto, TypeInv, DataInv
<1>6. BoundInv'
  <2> SUFFICES ASSUME cacher = "YBC", NEW k \in Keys
               PROVE  Cardinality(Fetching(k)') <=
                        clears + (IF fetchings'[k] = None THEN 0 ELSE 1)
    BY DEF BoundInv, Join
  <2>1. PICK l : /\ pc' = [pc EXCEPT ![p] = l] /\ key' = key
                 /\ l = IF fetchings[key[p]] = None THEN "fetch" ELSE "wait"
    BY DEF Join, Goto
  <2>2. /\ Cardinality(Fetching(k)) <=
             clears + (IF fetchings[k] = None THEN 0 ELSE 1)
        /\ Cardinality(Fetching(k)) \in Nat
    BY FetchingFinite DEF BoundInv
  <2>3. Cardinality(Fetching(k)') \in Nat
    BY FetchingFinite
  <2>4. CASE fetchings[key[p]] = None
    <3>1. /\ Cardinality(Fetching(k)') <= Cardinality(Fetching(k)) + 1
          /\ k # key[p] => Cardinality(Fetching(k)') = Cardinality(Fetching(k))
      BY <2>1, FetchingCount
    <3>2. /\ k = key[p] => fetchings[k] = None /\ fetchings'[k] # None
          /\ k # key[p] => fetchings'[k] = fetchings[k]
      BY <2>4, WordsAreNoCallers DEF Join, TypeInv, None
    <3> QED
      BY <3>1, <3>2, <2>2, <2>3 DEF TypeInv
  <2>5. CASE fetchings[key[p]] # None
    <3>1. l \notin Active
      BY <2>1, <2>5 DEF Active
    <3>2. Cardinality(Fetching(k)') <= Cardinality(Fetching(k))
      BY <2>1, <3>1, FetchingCount
    <3>3. fetchings'[k] = fetchings[k]
      BY <2>5 DEF Join, TypeInv
    <3> QED
      BY <3>2, <3>3, <2>2, <2>3 DEF TypeInv
  <2> QED
    BY <2>4, <2>5
<1> QED
  BY <1>1, <1>2, <1>3, <1>4, <1>5, <1>6

\* ... a Fetch() that returns, ...
LEMMA FetchInvariant == ASSUME IInv, NEW p \in Callers, Fetch(p) PROVE IInv'
<1> USE DEF IInv
<1>1. PICK v \in {p, "nil", "error"} : call' = [call EXCEPT ![p] = v]
  BY DEF Fetch
<1>2. v # "open" /\ (v \in Callers => v = p) /\ v \in Outcomes
  BY WordsAreNoCallers DEF Outcomes
<1>3. CASE cacher = "null"
  <2>1. Goto(p, "returned") /\ got' = [got EXCEPT ![p] = v]
    BY <1>1, <1>3 DEF Fetch, Return, TypeInv
  <2>2. TypeInv'
    BY <1>1, <1>2, <2>1
    DEF Fetch, Goto, TypeInv, Locations
  <2>3. NullInv' /\ EntryInv' /\ BoundInv'
    BY <1>3, <2>1 DEF Fetch, Goto, TypeInv, NullInv, EntryInv, BoundInv
  <2>4. MineInv'
    BY <2>1 DEF Fetch, Goto, TypeInv, MineInv
  <2>5. DataInv'
    BY <1>1, <1>2, <2>1 DEF Fetch, Goto, TypeInv, DataInv
  <2> QED
    BY <2>2, <2>3, <2>4, <2>5
<1>4. CASE cacher = "YBC"
  <2>1. Goto(p, "store") /\ UNCHANGED got
    BY <1>4 DEF Fetch
  <2>2. TypeInv'
    BY <1>1, <1>2, <2>1 DEF Fetch, Goto, TypeInv, Locations, Active
  <2>3. NullInv' /\ EntryInv'
    BY <1>4, <2>1 DEF Fetch, Goto, TypeInv, NullInv, EntryInv, Active
  <2>4. MineInv'
    BY <2>1 DEF Fetch, Goto, TypeInv, MineInv
  <2>5. DataInv'
    BY <1>1, <1>2, <2>1 DEF Fetch, Goto, TypeInv, DataInv
  <2>6. BoundInv'
    BY <2>1, BoundKept DEF Fetch, Active
  <2> QED
    BY <2>2, <2>3, <2>4, <2>5, <2>6
<1> QED
  BY <1>3, <1>4 DEF TypeInv

\* ... or panics, ...
LEMMA FetchPanicsInvariant ==
  ASSUME IInv, NEW p \in Callers, FetchPanics(p) PROVE IInv'
<1> USE DEF IInv
<1>1. TypeInv'
  BY DEF FetchPanics, Goto, TypeInv, Locations, cache
<1>2. NullInv' /\ EntryInv'
  BY DEF FetchPanics, Goto, TypeInv, NullInv, EntryInv, cache
<1>3. MineInv' /\ DataInv'
  BY DEF FetchPanics, Goto, TypeInv, MineInv, DataInv, cache
<1>4. BoundInv'
  BY BoundKept DEF FetchPanics, Active, cache
<1> QED
  BY <1>1, <1>2, <1>3, <1>4

\* ... storing the value, ...
LEMMA StoreFetchedInvariant ==
  ASSUME IInv, NEW p \in Callers, StoreFetched(p) PROVE IInv'
<1> USE DEF IInv
<1>1. TypeInv'
  BY DEF StoreFetched, Goto, TypeInv, Locations, Active
<1>2. NullInv' /\ EntryInv'
  BY DEF StoreFetched, Goto, TypeInv, NullInv, EntryInv, Active
<1>3. MineInv' /\ DataInv'
  BY DEF StoreFetched, Goto, TypeInv, MineInv, DataInv
<1>4. BoundInv'
  BY BoundKept DEF StoreFetched, Active
<1> QED
  BY <1>1, <1>2, <1>3, <1>4

\* ... waking those who wait, ...
LEMMA SignalInvariant == ASSUME IInv, NEW p \in Callers, Signal(p) PROVE IInv'
<1> USE DEF IInv
<1>1. TypeInv'
  BY DEF Signal, Goto, TypeInv, Locations, Active, cache
<1>2. NullInv' /\ EntryInv'
  BY DEF Signal, Goto, TypeInv, NullInv, EntryInv, Active, cache
<1>3. MineInv' /\ DataInv'
  BY DEF Signal, Goto, TypeInv, MineInv, DataInv, cache
<1>4. BoundInv'
  BY BoundKept DEF Signal, Active, cache
<1> QED
  BY <1>1, <1>2, <1>3, <1>4

\* ... waiting, ...
LEMMA WaitInvariant == ASSUME IInv, NEW p \in Callers, Wait(p) PROVE IInv'
<1> USE DEF IInv
<1>1. /\ mine[p] \in Callers
      /\ key[mine[p]] = key[p] /\ mine[mine[p]] = mine[p]
  BY DEF Wait, TypeInv, MineInv, None
<1>2. call[mine[p]] # "open" /\ call[mine[p]] \in Outcomes
  BY <1>1 DEF Wait, WaitOver, TypeInv, DataInv
<1>3. TypeInv'
  BY <1>2 DEF Wait, Goto, Return, TypeInv, Locations, cache
<1>4. NullInv' /\ EntryInv'
  BY DEF Wait, Goto, Return, TypeInv, NullInv, EntryInv, Active, cache
<1>5. MineInv'
  BY DEF Wait, Goto, Return, TypeInv, MineInv, cache
<1>6. DataInv'
  BY <1>1, <1>2 DEF Wait, Goto, Return, TypeInv, DataInv, cache
<1>7. BoundInv'
  BY BoundKept DEF Wait, Return, Active, cache
<1> QED
  BY <1>3, <1>4, <1>5, <1>6, <1>7

\* ... removing the entry, ...
LEMMA FinishInvariant == ASSUME IInv, NEW p \in Callers, Finish(p) PROVE IInv'
<1> USE DEF IInv
<1>1. call[p] # "open" /\ call[p] \in Outcomes
  BY DEF Finish, TypeInv, DataInv
<1>2. TypeInv'
  BY <1>1 DEF Finish, Goto, Return, TypeInv, Locations, None
<1>3. NullInv'
  BY DEF Finish, Goto, Return, TypeInv, NullInv, None
<1>4. EntryInv'
  BY DEF Finish, Goto, Return, TypeInv, EntryInv, None
<1>5. MineInv'
  BY DEF Finish, Goto, Return, TypeInv, MineInv
<1>6. DataInv'
  BY <1>1 DEF Finish, Goto, Return, TypeInv, DataInv
<1>7. BoundInv'
  <2> SUFFICES ASSUME cacher = "YBC", NEW k \in Keys
               PROVE  Cardinality(Fetching(k)') <=
                        clears + (IF fetchings'[k] = None THEN 0 ELSE 1)
    BY DEF BoundInv, Finish
  <2>1. /\ Cardinality(Fetching(k)) <=
             clears + (IF fetchings[k] = None THEN 0 ELSE 1)
        /\ Cardinality(Fetching(k)) \in Nat
    BY FetchingFinite DEF BoundInv
  <2>2. "returned" \notin Active /\ pc[p] \in Active
    BY DEF Finish, Active
  <2>3. /\ Cardinality(Fetching(k)') <= Cardinality(Fetching(k))
        /\ k = key[p] =>
             Cardinality(Fetching(k)') = Cardinality(Fetching(k)) - 1
    BY <2>2, FetchingCount DEF Finish, Return, Goto
  <2>4. /\ k = key[p] => fetchings'[k] = None
        /\ k # key[p] => fetchings'[k] = fetchings[k]
    BY DEF Finish, TypeInv
  <2>5. Cardinality(Fetching(k)') \in Nat
    BY FetchingFinite
  <2> QED
    BY <2>1, <2>3, <2>4, <2>5 DEF TypeInv
<1> QED
  BY <1>2, <1>3, <1>4, <1>5, <1>6, <1>7

\* ... and Clear(), which counts for the entries it takes away.
LEMMA ClearInvariant == ASSUME IInv, Clear PROVE IInv'
<1> USE DEF IInv
<1>1. TypeInv'
  BY YbcCacheAssumption DEF Clear, TypeInv, caller, None
<1>2. NullInv' /\ EntryInv'
  BY DEF Clear, NullInv, EntryInv, caller, None
<1>3. MineInv' /\ DataInv'
  BY DEF Clear, MineInv, DataInv, caller
<1>4. BoundInv'
  <2> SUFFICES ASSUME cacher = "YBC", NEW k \in Keys
               PROVE  Cardinality(Fetching(k)') <= clears + 1
    BY DEF BoundInv, Clear
  <2>1. Fetching(k)' = Fetching(k)
    BY DEF Clear, Fetching, caller
  <2>2. Cardinality(Fetching(k)) \in Nat
    BY FetchingFinite
  <2>3. Cardinality(Fetching(k)) <=
          clears + (IF fetchings[k] = None THEN 0 ELSE 1)
    BY DEF BoundInv
  <2> QED
    BY <2>1, <2>2, <2>3 DEF TypeInv
<1> QED
  BY <1>1, <1>2, <1>3, <1>4

\* What changes the library's values only.
LEMMA LibraryInvariant ==
  ASSUME IInv, NEW k \in Keys, Drop(k) \/ Set(k) PROVE IInv'
<1> USE DEF IInv
<1>1. TypeInv' /\ DataInv'
  BY WordsAreNoCallers DEF Drop, Set, TypeInv, DataInv, caller, None
<1>2. NullInv' /\ EntryInv' /\ MineInv'
  BY DEF Drop, Set, NullInv, EntryInv, MineInv, caller
<1>3. BoundInv'
  BY DEF Drop, Set, BoundInv, Fetching, caller
<1> QED
  BY <1>1, <1>2, <1>3

\* So every step does.
LEMMA NextInvariant == IInv /\ [Next]_vars => IInv'
<1> SUFFICES ASSUME IInv, [Next]_vars PROVE IInv'
  OBVIOUS
<1>1. ASSUME NEW p \in Callers, GetAndStore(p) PROVE IInv'
  BY <1>1, GetInvariant, JoinInvariant, StoreFetchedInvariant,
     SignalInvariant, WaitInvariant, FinishInvariant
  DEF GetAndStore
<1>2. ASSUME NEW p \in Callers, Fetch(p) \/ FetchPanics(p) PROVE IInv'
  BY <1>2, FetchInvariant, FetchPanicsInvariant
<1>3. CASE UNCHANGED vars
  BY <1>3 DEF vars, cache, caller, IInv, TypeInv, NullInv, EntryInv, MineInv,
              DataInv, BoundInv, Fetching
<1> QED
  BY <1>1, <1>2, <1>3, ClearInvariant, LibraryInvariant DEF Next

(***************************************************************************)
(* The theorems.                                                           *)
(***************************************************************************)
\* The inductive invariant holds of every state of the cache.
THEOREM Invariance == Spec => []IInv
  BY InitInvariant, NextInvariant, PTL DEF Spec

\* The call of a key is one of its callers', who is at it or panicked, and
\* what a caller returns was set or fetched for its key, for any callers,
\* keys and Clear()s (GetAndStore(), ybc.go).
THEOREM TypeCorrect == Spec => []TypeOK
<1>1. IInv => TypeOK
  BY WordsAreNoCallers
  DEF IInv, TypeInv, EntryInv, DataInv, TypeOK, Active, None
<1> QED
  BY <1>1, Invariance, PTL

\* However many callers ask for a key, at most one of them fetches it, and
\* one more for every Clear() (GetAndStore(), ybc.go).
THEOREM FetchesAreBounded == Spec => []FetchesBounded
<1>1. IInv => FetchesBounded
  <2> SUFFICES ASSUME IInv, cacher = "YBC", NEW k \in Keys
               PROVE  Cardinality(Fetching(k)) <= 1 + clears
    BY DEF FetchesBounded
  <2>1. Cardinality(Fetching(k)) \in Nat
    BY FetchingFinite
  <2>2. Cardinality(Fetching(k)) <=
          clears + (IF fetchings[k] = None THEN 0 ELSE 1)
    BY DEF IInv, BoundInv
  <2> QED
    BY <2>1, <2>2 DEF IInv, TypeInv
<1> QED
  BY <1>1, Invariance, PTL

=============================================================================
