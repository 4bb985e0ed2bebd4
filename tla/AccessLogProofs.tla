-------------------------- MODULE AccessLogProofs --------------------------
(***************************************************************************)
(* Proofs about AccessLog, for every set of sessions and requests and      *)
(* every bound.                                                            *)
(***************************************************************************)
EXTENDS AccessLog, WellFoundedInduction, TLAPS

(***************************************************************************)
(* The walk of ToggleAccessLog.                                            *)
(***************************************************************************)

\* A set of numbers has a smallest one.
LEMMA SmallestNumber ==
  ASSUME NEW T \in SUBSET Nat, T # {}
  PROVE  \E n \in T : \A m \in T : n <= m
<1>1. PICK n \in T : \A m \in T : ~ (<<m, n>> \in OpToRel(<, Nat))
  BY NatLessThanWellFounded, WFMin
<1>2. \A m \in T : ~ (m < n)
  BY <1>1 DEF OpToRel
<1>3. QED
  BY <1>2

\* One step of the walk: what the i-th writer makes of what was kept before.
WalkStep(ws, old, new, kept, i) ==
  IF ws[i] # old THEN Append(kept, ws[i])
  ELSE IF new # NoWriter THEN Append(kept, new)
  ELSE kept

WalkOf(ws, old, new, f, n) ==
  f = [i \in 0 .. n |->
         IF i = 0 THEN <<>> ELSE WalkStep(ws, old, new, f[i - 1], i)]

\* The walk of any length exists.
LEMMA WalkExists ==
  ASSUME NEW ws, NEW old, NEW new, NEW n \in Nat
  PROVE  \E f : WalkOf(ws, old, new, f, n)
<1> DEFINE Bad == {m \in Nat : ~ \E f : WalkOf(ws, old, new, f, m)}
<1> SUFFICES ASSUME Bad # {} PROVE FALSE
  OBVIOUS
<1>1. PICK m \in Bad : \A k \in Bad : m <= k
  BY SmallestNumber
<1>2. CASE m = 0
  <2>1. WalkOf(ws, old, new, [i \in 0 .. 0 |-> <<>>], 0)
    BY DEF WalkOf
  <2>2. QED
    BY <1>1, <1>2, <2>1
<1>3. CASE m # 0
  <2>1. m - 1 \in Nat /\ m - 1 \notin Bad
    BY <1>1, <1>3
  <2>2. PICK f : WalkOf(ws, old, new, f, m - 1)
    BY <2>1
  <2> DEFINE g == [i \in 0 .. m |->
                     IF i = m THEN WalkStep(ws, old, new, f[m - 1], m)
                     ELSE f[i]]
  <2>3. \A i \in 0 .. (m - 1) :
          f[i] = IF i = 0 THEN <<>> ELSE WalkStep(ws, old, new, f[i - 1], i)
    BY <2>2 DEF WalkOf
  <2>4. \A i \in 0 .. m :
          g[i] = IF i = 0 THEN <<>> ELSE WalkStep(ws, old, new, g[i - 1], i)
    <3> TAKE i \in 0 .. m
    <3>1. CASE i = m
      <4>1. g[i - 1] = f[m - 1]
        BY <1>3, <3>1, <1>1
      <4>2. QED
        BY <1>3, <3>1, <4>1
    <3>2. CASE i = 0
      BY <3>2, <2>3, <1>3, <2>1
    <3>3. CASE i # 0 /\ i # m
      <4>1. i \in 0 .. (m - 1) /\ i - 1 \in 0 .. m /\ i - 1 # m
        BY <3>3, <1>1
      <4>2. g[i] = f[i] /\ g[i - 1] = f[i - 1]
        BY <4>1, <3>3
      <4>3. QED
        BY <2>3, <4>1, <4>2, <3>3
    <3>4. QED
      BY <3>1, <3>2, <3>3
  <2> DEFINE h == [i \in 0 .. m |->
                  IF i = 0 THEN <<>> ELSE WalkStep(ws, old, new, g[i - 1], i)]
  <2>5. g = h
    <3> HIDE DEF h
    <3>1. DOMAIN g = DOMAIN h /\ \A i \in 0 .. m : g[i] = h[i]
      BY <2>4 DEF h
    <3>2. h = [i \in 0 .. m |-> h[i]]
      BY DEF h
    <3>3. QED
      BY <3>1, <3>2
  <2>6. WalkOf(ws, old, new, g, m)
    BY <2>5 DEF WalkOf
  <2>7. QED
    BY <2>6, <1>1
<1>4. QED
  BY <1>2, <1>3

\* The walk is what its definition says, number by number.
LEMMA WalkDef ==
  ASSUME NEW ws, Len(ws) \in Nat, NEW old, NEW new
  PROVE  \A i \in 0 .. Len(ws) :
           Walk(ws, old, new)[i] =
             IF i = 0 THEN <<>>
             ELSE WalkStep(ws, old, new, Walk(ws, old, new)[i - 1], i)
<1> DEFINE W == Walk(ws, old, new)
<1>1. \E f : WalkOf(ws, old, new, f, Len(ws))
  BY WalkExists
<1>2. W = CHOOSE f : WalkOf(ws, old, new, f, Len(ws))
  BY Zenon DEF Walk, WalkOf, WalkStep
<1>3. WalkOf(ws, old, new, W, Len(ws))
  BY <1>1, <1>2, Zenon
<1> HIDE DEF W
<1>4. \A i \in 0 .. Len(ws) :
        W[i] = IF i = 0 THEN <<>> ELSE WalkStep(ws, old, new, W[i - 1], i)
  BY <1>3 DEF WalkOf
<1>5. QED
  BY <1>4 DEF W

\* A set of numbers with 0 and with the successors of its members holds 0 .. n.
LEMMA UpTo ==
  ASSUME NEW n \in Nat, NEW G,
         0 \in G,
         \A i \in 1 .. n : i - 1 \in G => i \in G
  PROVE  \A i \in 0 .. n : i \in G
<1> DEFINE Bad == {i \in 0 .. n : i \notin G}
<1> SUFFICES ASSUME Bad # {} PROVE FALSE
  OBVIOUS
<1>0. Bad \in SUBSET Nat
  OBVIOUS
<1>1. PICK m \in Bad : \A k \in Bad : m <= k
  <2> HIDE DEF Bad
  <2>1. QED
    BY <1>0, SmallestNumber
<1>2. m \in 1 .. n /\ m - 1 \in 0 .. n /\ m - 1 \notin Bad
  BY <1>1
<1>3. QED
  BY <1>1, <1>2

\* The writers kept of the first i, when old is removed: at which place of ws
\* each of them was.
KeptAt(ws, old, kept, i, at) ==
  /\ at \in [1 .. Len(kept) -> 1 .. i]
  /\ \A k, l \in 1 .. Len(kept) : k < l => at[k] < at[l]
  /\ \A k \in 1 .. Len(kept) : kept[k] = ws[at[k]] /\ ws[at[k]] # old
  /\ \A j \in 1 .. i : ws[j] # old => \E k \in 1 .. Len(kept) : at[k] = j

\* Removing a writer keeps the others, each once and in their order.
LEMMA ToggleRemoves ==
  ASSUME NEW S, NEW ws \in Seq(S), NEW old, old # NoWriter
  PROVE  LET res == ToggleAccessLog(ws, old, NoWriter)
         IN /\ res \in Seq(S)
            /\ \E at : KeptAt(ws, old, res, Len(ws), at)
<1> DEFINE n == Len(ws)
           W == Walk(ws, old, NoWriter)
           G == {i \in 0 .. n : /\ W[i] \in Seq(S)
                                /\ \E at : KeptAt(ws, old, W[i], i, at)}
<1>1. n \in Nat /\ \A j \in 1 .. n : ws[j] \in S
  OBVIOUS
<1>2. \A i \in 0 .. n :
        W[i] = IF i = 0 THEN <<>> ELSE WalkStep(ws, old, NoWriter, W[i - 1], i)
  BY <1>1, WalkDef
<1> HIDE DEF W
<1>3. 0 \in G
  <2>1. W[0] = <<>> /\ <<>> \in Seq(S) /\ Len(<<>>) = 0
    BY <1>1, <1>2
  <2>2. KeptAt(ws, old, <<>>, 0, [k \in 1 .. 0 |-> 0])
    BY DEF KeptAt
  <2>3. \E at : KeptAt(ws, old, W[0], 0, at)
    BY <2>1, <2>2, Zenon
  <2>4. W[0] \in Seq(S) /\ 0 \in 0 .. n
    BY <1>1, <2>1
  <2>5. QED
    BY <2>3, <2>4, Zenon
<1>4. \A i \in 1 .. n : i - 1 \in G => i \in G
  <2> SUFFICES ASSUME NEW i \in 1 .. n, i - 1 \in G PROVE i \in G
    OBVIOUS
  <2>1. PICK at : KeptAt(ws, old, W[i - 1], i - 1, at)
    OBVIOUS
  <2>2. W[i - 1] \in Seq(S) /\ Len(W[i - 1]) \in Nat
    OBVIOUS
  <2>3. W[i] = WalkStep(ws, old, NoWriter, W[i - 1], i)
    BY <1>2
  <2> DEFINE kept == W[i - 1]
             m    == Len(kept)
  <2>4. CASE ws[i] = old
    <3>1. W[i] = kept
      BY <2>3, <2>4 DEF WalkStep
    <3>2. KeptAt(ws, old, kept, i, at)
      BY <2>1, <2>4, <2>2 DEF KeptAt
    <3>3. QED
      BY <3>1, <3>2, <2>2
  <2>5. CASE ws[i] # old
    <3>1. W[i] = Append(kept, ws[i])
      BY <2>3, <2>5 DEF WalkStep
    <3>2. /\ W[i] \in Seq(S) /\ Len(W[i]) = m + 1
          /\ \A k \in 1 .. m : W[i][k] = kept[k]
          /\ W[i][m + 1] = ws[i]
      BY <3>1, <2>2, <1>1
    <3> DEFINE to == [k \in 1 .. (m + 1) |-> IF k = m + 1 THEN i ELSE at[k]]
    <3>3. /\ at \in [1 .. m -> 1 .. (i - 1)]
          /\ \A k, l \in 1 .. m : k < l => at[k] < at[l]
          /\ \A k \in 1 .. m : kept[k] = ws[at[k]] /\ ws[at[k]] # old
          /\ \A j \in 1 .. (i - 1) :
               ws[j] # old => \E k \in 1 .. m : at[k] = j
      BY <2>1 DEF KeptAt
    <3>4. to \in [1 .. Len(W[i]) -> 1 .. i]
      BY <3>2, <3>3, <2>2
    <3>5. \A k, l \in 1 .. Len(W[i]) : k < l => to[k] < to[l]
      <4> SUFFICES ASSUME NEW k \in 1 .. Len(W[i]), NEW l \in 1 .. Len(W[i]),
                          k < l
                   PROVE  to[k] < to[l]
        OBVIOUS
      <4>1. /\ m \in Nat /\ k \in 1 .. m /\ l \in 1 .. (m + 1)
            /\ k \in 1 .. (m + 1) /\ k # m + 1
        <5>1. m \in Nat /\ Len(W[i]) = m + 1
          BY <3>2, <2>2
        <5> HIDE DEF m
        <5>2. QED
          BY <5>1
      <4>2. to[k] = at[k] /\ at[k] \in 1 .. (i - 1)
        BY <4>1, <3>3
      <4>3. CASE l = m + 1
        BY <4>1, <4>2, <4>3
      <4>4. CASE l \in 1 .. m
        BY <4>1, <4>2, <4>4, <3>3
      <4>5. QED
        BY <4>1, <4>3, <4>4
    <3>6. \A k \in 1 .. Len(W[i]) : W[i][k] = ws[to[k]] /\ ws[to[k]] # old
      BY <3>2, <3>3, <2>2, <2>5
    <3>7. \A j \in 1 .. i :
            ws[j] # old => \E k \in 1 .. Len(W[i]) : to[k] = j
      <4> SUFFICES ASSUME NEW j \in 1 .. i, ws[j] # old
                   PROVE  \E k \in 1 .. Len(W[i]) : to[k] = j
        OBVIOUS
      <4>1. CASE j = i
        BY <4>1, <3>2, <2>2
      <4>2. CASE j # i
        <5>1. PICK k \in 1 .. m : at[k] = j
          BY <4>2, <3>3
        <5>2. k \in 1 .. Len(W[i]) /\ to[k] = j
          BY <5>1, <3>2, <2>2
        <5>3. QED
          BY <5>2
      <4>3. QED
        BY <4>1, <4>2
    <3>8. KeptAt(ws, old, W[i], i, to)
      BY <3>4, <3>5, <3>6, <3>7 DEF KeptAt
    <3>9. QED
      BY <3>2, <3>8
  <2>6. QED
    BY <2>4, <2>5
<1>5. n \in G
  <2> HIDE DEF G
  <2>1. \A i \in 0 .. n : i \in G
    BY <1>1, <1>3, <1>4, UpTo
  <2>2. QED
    BY <1>1, <2>1
<1>6. ToggleAccessLog(ws, old, NoWriter) = W[n]
  BY DEF ToggleAccessLog, W
<1>7. QED
  BY <1>5, <1>6

\* Replacing a writer changes nothing else.
LEMMA ToggleReplaces ==
  ASSUME NEW S, NEW ws \in Seq(S), NEW old, old # NoWriter,
         NEW new \in S, new # NoWriter
  PROVE  LET res == ToggleAccessLog(ws, old, new)
         IN /\ res \in Seq(S)
            /\ Len(res) = Len(ws)
            /\ \A k \in 1 .. Len(ws) :
                 res[k] = IF ws[k] = old THEN new ELSE ws[k]
<1> DEFINE n == Len(ws)
           W == Walk(ws, old, new)
           To(k) == IF ws[k] = old THEN new ELSE ws[k]
           G == {i \in 0 .. n : /\ W[i] \in Seq(S)
                                /\ Len(W[i]) = i
                                /\ \A k \in 1 .. i : W[i][k] = To(k)}
<1>1. n \in Nat /\ \A j \in 1 .. n : ws[j] \in S
  OBVIOUS
<1>2. \A i \in 0 .. n :
        W[i] = IF i = 0 THEN <<>> ELSE WalkStep(ws, old, new, W[i - 1], i)
  BY <1>1, WalkDef
<1> HIDE DEF W
<1>3. 0 \in G
  <2>1. W[0] = <<>> /\ <<>> \in Seq(S) /\ Len(<<>>) = 0
    BY <1>1, <1>2
  <2>2. /\ 0 \in 0 .. n /\ W[0] \in Seq(S) /\ Len(W[0]) = 0
        /\ \A k \in 1 .. 0 : W[0][k] = To(k)
    BY <1>1, <2>1
  <2>3. QED
    BY <2>2, Zenon
<1>4. \A i \in 1 .. n : i - 1 \in G => i \in G
  <2> SUFFICES ASSUME NEW i \in 1 .. n, i - 1 \in G PROVE i \in G
    OBVIOUS
  <2>0. W[i] = WalkStep(ws, old, new, W[i - 1], i)
    BY <1>1, <1>2
  <2>1. W[i] = Append(W[i - 1], To(i)) /\ To(i) \in S
    BY <1>1, <2>0, Zenon DEF WalkStep
  <2>2. W[i - 1] \in Seq(S) /\ Len(W[i - 1]) = i - 1
    OBVIOUS
  <2>3. /\ W[i] \in Seq(S) /\ Len(W[i]) = i
        /\ \A k \in 1 .. (i - 1) : W[i][k] = W[i - 1][k]
        /\ W[i][i] = To(i)
    <3> HIDE DEF To
    <3>1. QED
      BY <2>1, <2>2
  <2>4. QED
    BY <2>3
<1>5. n \in G
  <2> HIDE DEF G
  <2>1. \A i \in 0 .. n : i \in G
    BY <1>1, <1>3, <1>4, UpTo
  <2>2. QED
    BY <1>1, <2>1
<1>6. ToggleAccessLog(ws, old, new) = W[n]
  BY DEF ToggleAccessLog, W
<1>7. QED
  BY <1>5, <1>6

(***************************************************************************)
(* The inductive invariant, first what needs no assumption on set-up: who  *)
(* may hold which writer.                                                  *)
(***************************************************************************)
Before == {"none", "opened", "registered"}    \* before the log is attached
After  == {"off", "unregistered", "done"}     \* after it was detached

\* A handler has one place for a log file, and a session is in one place.
PlacesInv ==
  /\ \A c \in Conf : \A i, j \in DOMAIN writers[c] :
       /\ writers[c][i] \in FileWriters /\ writers[c][j] \in FileWriters
            => i = j
       /\ writers[c][i] = writers[c][j] => i = j
  /\ \A c \in Conf : \A i \in DOMAIN writers[c] :
       writers[c][i] \in Sessions =>
         /\ session[writers[c][i]].is \in {"on", "gone"}
         /\ session[writers[c][i]].handler = c

\* The next file to be opened is a new one.
NumberingInv ==
  /\ \A c \in Conf : out[c] <= opened
  /\ \A c \in Conf : \A i \in DOMAIN writers[c] :
       writers[c][i] \in FileWriters => writers[c][i] <= opened
  /\ \A f \in isOpen : f <= opened
  /\ registry.writer <= opened /\ swap.old <= opened /\ swap.new <= opened

\* A file is the log of one configuration and of one handler, and the file
\* that a configuration opened is in no handler but its own.
OwnerInv ==
  \A c, d \in Conf :
    /\ out[c] = out[d] /\ out[c] \in Files => c = d
    /\ \A i \in DOMAIN writers[d] :
         writers[d][i] = out[c] /\ out[c] \in Files => c = d
    /\ \A i \in DOMAIN writers[c], j \in DOMAIN writers[d] :
         writers[c][i] = writers[d][j] /\ writers[c][i] \in Files => c = d

\* When a configuration's log is attached, and what is left of it after.
StageInv ==
  /\ \A c \in Conf :
       /\ InSetup(c) => out[c] \in FileWriters
       /\ stage[c] \in Before =>
            \A i \in DOMAIN writers[c] : writers[c][i] \notin FileWriters
       /\ stage[c] \in After =>
            out[c] \in FileWriters /\
              \A i \in DOMAIN writers[c] :
                out[c] \in Files => writers[c][i] # out[c]
       /\ stage[c] = "done" => out[c] \notin isOpen
  /\ ~LockFree => registry # NoEntry

IInv == TypeOK /\ PlacesInv /\ NumberingInv /\ OwnerInv /\ StageInv

(***************************************************************************)
(* What needs QuietSetup: the file comes first, it is open, and the        *)
(* registry knows it.                                                      *)
(***************************************************************************)
Logging == {"loaded", "serving", "stopped", "failed"}

\* Before its log is attached a handler has no writer, and no session.
FirstInv ==
  /\ \A c \in Conf : \A i \in DOMAIN writers[c] :
       writers[c][i] \in FileWriters => i = 1
  /\ \A r \in Requests : \A i \in DOMAIN request[r].writers :
       request[r].writers[i] \in FileWriters => i = 1
  /\ \A c \in Conf : stage[c] \in Before => writers[c] = <<>>
  /\ \A c \in Conf : stage[c] = "none" => alog # c
  /\ \A s \in Sessions : session[s] # Off =>
       /\ stage[session[s].handler] # "none"
       /\ session[s].is # "found" => stage[session[s].handler] \notin Before

\* The handler of the registry's entry has the log that the entry is about.
RegistryInv ==
  \A c \in Conf : registry.handler = c =>
    /\ stage[c] \notin {"none", "opened", "unregistered", "done"}
    /\ stage[c] = "registered" => LockFree /\ registry.writer = out[c]
    /\ ~LockFree /\ stage[c] \in Logging => swap.new \in Attached(c)

\* The file f is, at most, the one that handler h writes to.
OnlyIn(f, h) ==
  \A c \in Conf : c # h /\ f \in Files =>
    /\ \A i \in DOMAIN writers[c] : writers[c][i] # f
    /\ InSetup(c) => out[c] # f

\* No other handler writes to the files of the entry and of the reopening.
SwapInv ==
  /\ OnlyIn(registry.writer, registry.handler)
  /\ OnlyIn(swap.new, registry.handler)
  /\ OnlyIn(swap.old, 0)

\* What a handler writes to, or is about to, is open.
OpenInv ==
  \A c \in Conf :
    /\ \A i \in DOMAIN writers[c] :
         writers[c][i] \in Files => writers[c][i] \in isOpen
    /\ InSetup(c) /\ out[c] \in Files => out[c] \in isOpen

QInv == FirstInv /\ RegistryInv /\ SwapInv /\ OpenInv /\ ReopenFindsLog

(***************************************************************************)
(* What the three uses of Toggle do to the writers of all handlers.        *)
(***************************************************************************)
USE DEF fileVars

\* Only handler c changes.
OthersKept(c) == \A d \in Conf : d # c => writers'[d] = writers[d]
EmptyKept(c)  == writers[c] = <<>> => writers'[c] = <<>>

\* A new writer comes last.
Appended(c, w) ==
  \A d \in Conf :
    /\ \A i \in DOMAIN writers[d] :
         i \in DOMAIN writers'[d] /\ writers'[d][i] = writers[d][i]
    /\ \A i \in DOMAIN writers'[d] :
         \/ i \in DOMAIN writers[d]
         \/ d = c /\ i = Len(writers[d]) + 1 /\ writers'[d][i] = w
    /\ \E i \in DOMAIN writers'[c] : writers'[c][i] = w

\* The writer at a place of handler d after an exchange.
Exchanged(c, old, new) ==
  \A d \in Conf :
    /\ DOMAIN writers'[d] = DOMAIN writers[d]
    /\ \A i \in DOMAIN writers[d] :
         writers'[d][i] = IF d = c /\ writers[d][i] = old THEN new
                          ELSE writers[d][i]

\* The place that the writer at a place of handler d had before a removal.
RemovedIn(d, c, old, at) ==
  /\ \A i \in DOMAIN writers'[d] :
       /\ i \in Nat /\ at[i] \in Nat
       /\ at[i] \in DOMAIN writers[d]
       /\ writers'[d][i] = writers[d][at[i]]
       /\ d = c => writers'[d][i] # old
       /\ at[i] = 1 => i = 1
       /\ \A j \in DOMAIN writers'[d] : at[i] = at[j] => i = j
  /\ \A j \in DOMAIN writers[d] :
       (d = c => writers[d][j] # old) =>
         \E i \in DOMAIN writers'[d] : writers'[d][i] = writers[d][j]

Removed(c, old, at) == \A d \in Conf : RemovedIn(d, c, old, at[d])

\* Files and configurations are numbered; the io.Writer of a session is neither
\* a file nor nil.
LEMMA NumbersNotSessions ==
  /\ MaxConf \in Nat /\ MaxReopen \in Nat
  /\ \A s \in Sessions : s \notin FileWriters /\ s # NoWriter
  /\ Files \subseteq Nat /\ FileWriters \subseteq Nat /\ 0 \notin Files
  /\ NoWriter \notin FileWriters /\ NoWriter \notin Writers
  /\ Conf \subseteq Nat \ {0} /\ FileWriters = Files \cup {0}
<1>1. /\ MaxConf \in Nat /\ MaxReopen \in Nat
      /\ Sessions \cap (FileWriters \cup {NoWriter}) = {}
  BY AccessLogAssumption
<1>2. Files \subseteq Nat /\ Conf \subseteq Nat \ {0} /\ 0 \notin Files
  BY <1>1 DEF Files, Conf
<1>3. \A s \in Sessions : s \notin FileWriters /\ s # NoWriter
  BY <1>1
<1>4. FileWriters \subseteq Nat /\ NoWriter \notin FileWriters
  BY <1>2 DEF FileWriters, NilFile, NoWriter
<1>5. NoWriter \notin Writers
  BY <1>3, <1>4 DEF Writers
<1>6. QED
  BY <1>1, <1>2, <1>3, <1>4, <1>5 DEF FileWriters, NilFile

\* ToggleAccessLog(nil, w) appends w, ...
LEMMA AppendToggle ==
  ASSUME writers \in [Conf -> Seq(Writers)], NEW c \in Conf, NEW w \in Writers,
         Toggle(c, NoWriter, w)
  PROVE  /\ writers' \in [Conf -> Seq(Writers)]
         /\ Appended(c, w) /\ OthersKept(c)
<1>1. writers' = [writers EXCEPT ![c] = Append(writers[c], w)]
  BY DEF Toggle, ToggleAccessLog
<1>2. writers[c] \in Seq(Writers)
  OBVIOUS
<1>3. Append(writers[c], w) \in Seq(Writers)
  BY <1>2
<1>4. writers' \in [Conf -> Seq(Writers)]
  BY <1>1, <1>3
<1>5. \A d \in Conf : d # c => writers'[d] = writers[d]
  BY <1>1
<1>6. writers'[c] = Append(writers[c], w)
  BY <1>1
<1>7. /\ \A i \in DOMAIN writers[c] :
           i \in DOMAIN writers'[c] /\ writers'[c][i] = writers[c][i]
      /\ \A i \in DOMAIN writers'[c] :
           \/ i \in DOMAIN writers[c]
           \/ i = Len(writers[c]) + 1 /\ writers'[c][i] = w
      /\ \E i \in DOMAIN writers'[c] : writers'[c][i] = w
  <2>1. Len(writers[c]) \in Nat /\ DOMAIN writers[c] = 1 .. Len(writers[c])
    BY <1>2
  <2>2. /\ DOMAIN writers'[c] = 1 .. (Len(writers[c]) + 1)
        /\ \A i \in 1 .. Len(writers[c]) : writers'[c][i] = writers[c][i]
        /\ writers'[c][Len(writers[c]) + 1] = w
    BY <1>2, <1>6
  <2>3. QED
    BY <2>1, <2>2
<1>8. Appended(c, w)
  BY <1>5, <1>7 DEF Appended
<1>9. QED
  BY <1>4, <1>5, <1>8 DEF OthersKept

\* ... ToggleAccessLog(old, new) puts new where old was, if it was there, ...
LEMMA ExchangeToggle ==
  ASSUME writers \in [Conf -> Seq(Writers)], NEW c \in Conf,
         NEW old \in Writers, NEW new \in Writers, Toggle(c, old, new)
  PROVE  /\ writers' \in [Conf -> Seq(Writers)]
         /\ Exchanged(c, old, new) /\ OthersKept(c) /\ EmptyKept(c)
<1> DEFINE res == ToggleAccessLog(writers[c], old, new)
<1>1. writers' = [writers EXCEPT ![c] = res]
  BY DEF Toggle
<1>2. writers[c] \in Seq(Writers) /\ old # NoWriter /\ new # NoWriter
  BY NumbersNotSessions
<1>3. /\ res \in Seq(Writers) /\ Len(res) = Len(writers[c])
      /\ \A k \in 1 .. Len(writers[c]) :
           res[k] = IF writers[c][k] = old THEN new ELSE writers[c][k]
  BY <1>2, ToggleReplaces
<1> HIDE DEF res
<1>4. writers' \in [Conf -> Seq(Writers)]
  BY <1>1, <1>3
<1>5. \A d \in Conf : d # c => writers'[d] = writers[d]
  BY <1>1
<1>6. writers'[c] = res /\ DOMAIN res = DOMAIN writers[c]
        /\ DOMAIN res = 1 .. Len(writers[c])
  BY <1>1, <1>2, <1>3
<1>7. writers[c] = <<>> => res = <<>>
  BY <1>3
<1>8. Exchanged(c, old, new)
  BY <1>3, <1>5, <1>6, <1>7 DEF Exchanged
<1>9. QED
  BY <1>4, <1>5, <1>6, <1>7, <1>8 DEF OthersKept, EmptyKept

\* ... and ToggleAccessLog(old, nil) takes old out, if it was there.
LEMMA RemoveToggle ==
  ASSUME writers \in [Conf -> Seq(Writers)], NEW c \in Conf,
         NEW old \in Writers, Toggle(c, old, NoWriter)
  PROVE  /\ writers' \in [Conf -> Seq(Writers)]
         /\ \E at : Removed(c, old, at)
         /\ OthersKept(c) /\ EmptyKept(c)
<1> DEFINE ws  == writers[c]
           res == ToggleAccessLog(ws, old, NoWriter)
<1>1. writers' = [writers EXCEPT ![c] = res]
  BY DEF Toggle
<1>2. ws \in Seq(Writers) /\ old # NoWriter
  BY NumbersNotSessions
<1>3. res \in Seq(Writers) /\ \E at : KeptAt(ws, old, res, Len(ws), at)
  BY <1>2, ToggleRemoves
<1>4. PICK to : KeptAt(ws, old, res, Len(ws), to)
  BY <1>3
<1> HIDE DEF res
<1>5. writers' \in [Conf -> Seq(Writers)]
  BY <1>1, <1>3
<1>6. /\ \A d \in Conf : d # c => writers'[d] = writers[d]
      /\ writers'[c] = res
  BY <1>1
<1>7. /\ DOMAIN ws = 1 .. Len(ws) /\ Len(ws) \in Nat
      /\ DOMAIN res = 1 .. Len(res) /\ Len(res) \in Nat
  BY <1>2, <1>3
<1> DEFINE at == [d \in Conf |->
                   IF d = c THEN to ELSE [i \in DOMAIN writers[d] |-> i]]
<1>8. ASSUME NEW d \in Conf, d # c
      PROVE  /\ writers'[d] = writers[d]
             /\ \A i \in DOMAIN writers[d] : i \in Nat /\ at[d][i] = i
  <2>1. DOMAIN writers[d] \subseteq Nat
    <3>1. writers[d] \in Seq(Writers)
      OBVIOUS
    <3>2. QED
      BY <3>1
  <2>2. QED
    BY <1>8, <1>6, <2>1
<1>9. at[c] = to
  OBVIOUS
<1>10. /\ to \in [1 .. Len(res) -> 1 .. Len(ws)]
       /\ \A k, l \in 1 .. Len(res) : k < l => to[k] < to[l]
       /\ \A k \in 1 .. Len(res) : res[k] = ws[to[k]] /\ ws[to[k]] # old
       /\ \A j \in 1 .. Len(ws) :
            ws[j] # old => \E k \in 1 .. Len(res) : to[k] = j
  BY <1>4 DEF KeptAt
<1> HIDE DEF at, ws
<1>11. ASSUME NEW i \in DOMAIN res
       PROVE  /\ i \in Nat /\ to[i] \in Nat /\ to[i] \in DOMAIN ws
              /\ res[i] = ws[to[i]] /\ res[i] # old
              /\ to[i] = 1 => i = 1
              /\ \A j \in DOMAIN res : to[i] = to[j] => i = j
  <2>1. i \in 1 .. Len(res) /\ to[i] \in 1 .. Len(ws)
    BY <1>7, <1>10
  <2>2. to[i] = 1 => i = 1
    <3>1. SUFFICES ASSUME i # 1 PROVE to[i] # 1
      OBVIOUS
    <3>2. 1 \in 1 .. Len(res) /\ 1 < i
      BY <1>7, <2>1, <3>1
    <3>3. to[1] < to[i] /\ to[1] \in 1 .. Len(ws)
      BY <1>10, <2>1, <3>2
    <3>4. QED
      BY <1>7, <2>1, <3>3
  <2>3. ASSUME NEW j \in DOMAIN res, to[i] = to[j] PROVE i = j
    <3>1. j \in 1 .. Len(res) /\ to[j] \in 1 .. Len(ws)
      BY <1>7, <1>10
    <3>2. ~ (i < j) /\ ~ (j < i)
      BY <1>7, <1>10, <2>1, <2>3, <3>1
    <3>3. QED
      BY <1>7, <2>1, <3>1, <3>2
  <2>4. QED
    BY <1>7, <1>10, <2>1, <2>2, <2>3
<1>12. \A j \in DOMAIN ws :
         ws[j] # old => \E i \in DOMAIN res : res[i] = ws[j]
  BY <1>7, <1>10
<1>13. ws = <<>> => res = <<>>
  <2>1. SUFFICES ASSUME ws = <<>> PROVE res = <<>>
    OBVIOUS
  <2>2. Len(ws) = 0
    BY <2>1
  <2>3. 1 \notin 1 .. Len(res)
    BY <2>2, <1>7, <1>10
  <2>4. Len(res) = 0
    BY <2>3, <1>7
  <2>5. QED
    BY <2>4, <1>3
<1>14. \A d \in Conf : RemovedIn(d, c, old, at[d])
  <2> TAKE d \in Conf
  <2>1. CASE d = c
    BY <2>1, <1>6, <1>9, <1>11, <1>12, <1>13 DEF ws, RemovedIn
  <2>2. CASE d # c
    <3>1. /\ writers'[d] = writers[d]
          /\ \A i \in DOMAIN writers[d] : i \in Nat /\ at[d][i] = i
      BY <2>2, <1>8
    <3>2. ASSUME NEW i \in DOMAIN writers'[d]
          PROVE  /\ i \in Nat /\ at[d][i] = i /\ i \in DOMAIN writers[d]
                 /\ writers'[d][i] = writers[d][at[d][i]]
                 /\ \A j \in DOMAIN writers'[d] : at[d][i] = at[d][j] => i = j
      BY <3>1
    <3>3. \A j \in DOMAIN writers[d] :
            \E i \in DOMAIN writers'[d] : writers'[d][i] = writers[d][j]
      BY <3>1
    <3>4. QED
      BY <2>2, <3>1, <3>2, <3>3 DEF RemovedIn
  <2>3. QED
    BY <2>1, <2>2
<1>15. OthersKept(c) /\ EmptyKept(c)
  BY <1>6, <1>13 DEF OthersKept, EmptyKept, ws
<1>16. QED
  BY <1>5, <1>14, <1>15 DEF Removed

(***************************************************************************)
(* Types are preserved by every step.                                      *)
(***************************************************************************)

\* What a step may open.
LEMMA OpenTypes ==
  ASSUME TypeOK, NEW f \in FileWriters, Open(f)
  PROVE  /\ opened' \in {0} \cup Files /\ isOpen' \subseteq Files
         /\ opened \in Nat /\ opened' \in Nat /\ opened <= opened'
         /\ isOpen \subseteq isOpen'
         /\ \/ f \in Files /\ f = opened' /\ opened < f
               /\ isOpen' = isOpen \cup {f}
            \/ f = 0 /\ UNCHANGED fileVars
<1>1. opened \in Nat
  BY NumbersNotSessions DEF TypeOK
<1>2. CASE f = opened + 1 /\ opened' = f /\ isOpen' = isOpen \cup {f}
  <2>1. f # 0
    BY <1>1, <1>2
  <2>2. f \in Files
    BY <2>1, NumbersNotSessions
  <2>3. QED
    BY <1>1, <1>2, <2>2, NumbersNotSessions DEF TypeOK
<1>3. CASE f = NilFile /\ UNCHANGED fileVars
  BY <1>1, <1>3 DEF TypeOK, NilFile
<1>4. QED
  BY <1>2, <1>3 DEF Open

\* Every step keeps the types; that files are numbered needs the stages.
LEMMA StepTypeOK ==
  TypeOK /\ StageInv /\ [Next]_vars => TypeOK'
<1> SUFFICES ASSUME TypeOK, StageInv, [Next]_vars PROVE TypeOK'
  OBVIOUS
<1> USE DEF TypeOK
<1>1. ASSUME NEW c \in Conf, OpenLog(c) PROVE TypeOK'
  <2>1. PICK f \in FileWriters : Open(f) /\ out' = [out EXCEPT ![c] = f]
    BY <1>1 DEF OpenLog
  <2>2. opened' \in {0} \cup Files /\ isOpen' \subseteq Files
    BY <2>1, OpenTypes
  <2>3. QED
    BY <1>1, <2>1, <2>2 DEF OpenLog, Stages
<1>2. ASSUME NEW c \in Conf, WithoutLog(c) PROVE TypeOK'
  BY <1>2 DEF WithoutLog, Stages
<1>3. ASSUME NEW c \in Conf, Register(c) PROVE TypeOK'
  <2>1. out[c] \in FileWriters
    BY <1>3 DEF Register, StageInv, InSetup
  <2>2. QED
    BY <1>3, <2>1 DEF Register, Stages
<1>4. ASSUME NEW c \in Conf, Attach(c) PROVE TypeOK'
  <2>1. out[c] \in Writers
    BY <1>4 DEF Attach, StageInv, InSetup, Writers
  <2>2. Toggle(c, NoWriter, out[c])
    BY <1>4 DEF Attach
  <2>3. writers' \in [Conf -> Seq(Writers)]
    BY <2>1, <2>2, AppendToggle
  <2>4. PICK result \in {"loaded", "failed"} :
          stage' = [stage EXCEPT ![c] = result]
    BY <1>4 DEF Attach
  <2>5. stage' \in [Conf -> Stages]
    BY <2>4 DEF Stages
  <2>6. QED
    BY <1>4, <2>3, <2>5 DEF Attach
<1>5. ASSUME NEW c \in Conf, Serve(c) \/ Stop(c) PROVE TypeOK'
  BY <1>5 DEF Serve, Stop, Stages
<1>6. ASSUME NEW c \in Conf, CleanupDetach(c) PROVE TypeOK'
  <2>1. out[c] \in Writers /\ Toggle(c, out[c], NoWriter)
    BY <1>6 DEF CleanupDetach, Writers
  <2>2. writers' \in [Conf -> Seq(Writers)]
    BY <2>1, RemoveToggle
  <2>3. QED
    BY <1>6, <2>2 DEF CleanupDetach, Stages
<1>7. ASSUME NEW c \in Conf, Unregister(c) \/ CleanupClose(c) PROVE TypeOK'
  BY <1>7 DEF Unregister, CleanupClose, Stages
<1>8. CASE Reopen
  <2>1. PICK f \in FileWriters :
          /\ Open(f)
          /\ swap' = [old |-> registry.writer, new |-> f]
          /\ Toggle(registry.handler, registry.writer, f)
    BY <1>8 DEF Reopen
  <2>2. registry.handler \in Conf /\ registry.writer \in FileWriters
    BY <1>8 DEF Reopen
  <2>3. opened' \in {0} \cup Files /\ isOpen' \subseteq Files
    BY <2>1, OpenTypes
  <2>4. writers' \in [Conf -> Seq(Writers)]
    BY <2>1, <2>2, ExchangeToggle DEF Writers
  <2>5. QED
    BY <1>8, <2>1, <2>2, <2>3, <2>4 DEF Reopen
<1>9. CASE CloseOld
  <2>1. swap \in [old : FileWriters, new : FileWriters]
          /\ registry \in [handler : Conf, writer : FileWriters]
    BY <1>9 DEF CloseOld, StageInv, LockFree
  <2>2. QED
    BY <1>9, <2>1 DEF CloseOld, ReopenedEntry
<1>10. ASSUME NEW s \in Sessions, AlogInvoke(s) PROVE TypeOK'
  BY <1>10 DEF AlogInvoke, AlogKnown
<1>11. ASSUME NEW s \in Sessions, AlogOn(s) PROVE TypeOK'
  <2>1. session[s] # Off /\ session[s].handler \in Conf
    BY <1>11 DEF AlogOn, Off
  <2>2. Toggle(session[s].handler, NoWriter, s) /\ s \in Writers
    BY <1>11 DEF AlogOn, Writers
  <2>3. writers' \in [Conf -> Seq(Writers)]
    BY <2>1, <2>2, AppendToggle
  <2>4. QED
    BY <1>11, <2>1, <2>3 DEF AlogOn
<1>12. ASSUME NEW s \in Sessions, Disconnect(s) PROVE TypeOK'
  <2>1. session[s] # Off
    BY <1>12 DEF Disconnect, Off
  <2>2. QED
    BY <1>12, <2>1 DEF Disconnect
<1>13. ASSUME NEW s \in Sessions, AlogOff(s) PROVE TypeOK'
  <2>1. session[s] # Off /\ session[s].handler \in Conf
    BY <1>13 DEF AlogOff, Off
  <2>2. Toggle(session[s].handler, s, NoWriter) /\ s \in Writers
    BY <1>13 DEF AlogOff, Writers
  <2>3. writers' \in [Conf -> Seq(Writers)]
    BY <2>1, <2>2, RemoveToggle
  <2>4. QED
    BY <1>13, <2>1, <2>3 DEF AlogOff
<1>14. ASSUME NEW r \in Requests,
              EndRequest(r) \/ \E c \in Conf : BeginRequest(r, c)
       PROVE  TypeOK'
  <2>1. ASSUME NEW c \in Conf, BeginRequest(r, c) PROVE TypeOK'
    <3>1. [handler |-> c, writers |-> writers[c]]
            \in [handler : Conf, writers : Seq(Writers)]
      OBVIOUS
    <3>2. QED
      BY <2>1, <3>1 DEF BeginRequest
  <2>2. QED
    BY <1>14, <2>1 DEF EndRequest
<1>15. CASE UNCHANGED vars
  BY <1>15 DEF vars
<1>16. QED
  BY <1>1, <1>2, <1>3, <1>4, <1>5, <1>6, <1>7, <1>8, <1>9, <1>10, <1>11,
     <1>12, <1>13, <1>14, <1>15
     DEF Next, SetUp, Cleanup, Alog

(***************************************************************************)
(* Steps that change no handler, and those that do.                        *)
(***************************************************************************)
PlainStep ==
  \/ \E c \in Conf : OpenLog(c) \/ WithoutLog(c) \/ Register(c) \/ Serve(c)
                       \/ Stop(c) \/ Unregister(c) \/ CleanupClose(c)
  \/ CloseOld
  \/ \E s \in Sessions : AlogInvoke(s) \/ Disconnect(s)
  \/ \E r \in Requests : EndRequest(r) \/ \E c \in Conf : BeginRequest(r, c)
  \/ UNCHANGED vars

\* Four kinds of step change the writers of a handler; ...
LEMMA Steps ==
  ASSUME [Next]_vars
  PROVE  \/ PlainStep
         \/ \E c \in Conf : Attach(c) \/ CleanupDetach(c)
         \/ Reopen
         \/ \E s \in Sessions : AlogOn(s) \/ AlogOff(s)
  BY DEF Next, SetUp, Cleanup, Alog, PlainStep

\* ... all others leave them alone.
LEMMA PlainWriters ==
  PlainStep => writers' = writers
  BY DEF PlainStep, OpenLog, WithoutLog, Register, Serve, Stop, Unregister,
     CleanupClose, CloseOld, AlogInvoke, Disconnect, EndRequest, BeginRequest,
     vars

\* What each of the steps that change a handler does to it.
LEMMA AttachFacts ==
  ASSUME TypeOK, StageInv, NEW c \in Conf, Attach(c)
  PROVE  Appended(c, out[c]) /\ OthersKept(c) /\ out[c] \in FileWriters
<1>1. out[c] \in FileWriters /\ Toggle(c, NoWriter, out[c])
  BY DEF Attach, StageInv, InSetup
<1>2. QED
  BY <1>1, AppendToggle DEF TypeOK, Writers

\* A session that follows the log is appended to it.
LEMMA AlogOnFacts ==
  ASSUME TypeOK, NEW s \in Sessions, AlogOn(s)
  PROVE  /\ session[s].is = "found" /\ session[s].handler \in Conf
         /\ session' = [session EXCEPT ![s].is = "on"]
         /\ session'[s].is = "on"
         /\ session'[s].handler = session[s].handler
         /\ \A t \in Sessions : t # s => session'[t] = session[t]
         /\ Appended(session[s].handler, s)
         /\ OthersKept(session[s].handler)
<1>1. session[s] \in [is : {"found", "on", "gone"}, handler : Conf]
  BY DEF TypeOK, AlogOn, Off
<1>2. Toggle(session[s].handler, NoWriter, s) /\ s \in Writers
  BY DEF AlogOn, Writers
<1>3. Appended(session[s].handler, s) /\ OthersKept(session[s].handler)
  BY <1>1, <1>2, AppendToggle DEF TypeOK
<1>4. QED
  BY <1>1, <1>3 DEF AlogOn, TypeOK

\* Reopening exchanges the registered file for the one it opened.
LEMMA ReopenFacts ==
  ASSUME TypeOK, NumberingInv, Reopen
  PROVE  /\ registry.handler \in Conf /\ registry.writer \in FileWriters
         /\ OthersKept(registry.handler) /\ EmptyKept(registry.handler)
         /\ \E f \in FileWriters :
              /\ Exchanged(registry.handler, registry.writer, f)
              /\ swap' = [old |-> registry.writer, new |-> f]
              /\ opened \in Nat /\ opened' \in Nat /\ opened <= opened'
              /\ f <= opened' /\ (f \in Files => opened < f)
              /\ isOpen' = isOpen \cup ({f} \cap Files)
<1>1. registry.handler \in Conf /\ registry.writer \in FileWriters
  BY DEF TypeOK, Reopen
<1>2. PICK f \in FileWriters :
        /\ Open(f)
        /\ swap' = [old |-> registry.writer, new |-> f]
        /\ Toggle(registry.handler, registry.writer, f)
  BY DEF Reopen
<1>3. /\ Exchanged(registry.handler, registry.writer, f)
      /\ OthersKept(registry.handler) /\ EmptyKept(registry.handler)
  BY <1>1, <1>2, ExchangeToggle DEF TypeOK, Writers
<1>4. /\ opened \in Nat /\ opened' \in Nat /\ opened <= opened'
      /\ \/ f \in Files /\ f = opened' /\ opened < f
            /\ isOpen' = isOpen \cup {f}
         \/ f = 0 /\ UNCHANGED fileVars
  BY <1>2, OpenTypes
<1>5. /\ f <= opened' /\ (f \in Files => opened < f)
      /\ isOpen' = isOpen \cup ({f} \cap Files)
  BY <1>4, NumbersNotSessions
<1>6. QED
  BY <1>1, <1>2, <1>3, <1>4, <1>5

\* A cleanup takes the file of its configuration out.
LEMMA DetachFacts ==
  ASSUME TypeOK, NEW c \in Conf, CleanupDetach(c)
  PROVE  /\ out[c] \in FileWriters
         /\ OthersKept(c) /\ EmptyKept(c)
         /\ \E at : Removed(c, out[c], at)
<1>1. out[c] \in FileWriters /\ Toggle(c, out[c], NoWriter)
  BY DEF CleanupDetach, TypeOK
<1>2. QED
  BY <1>1, RemoveToggle DEF TypeOK, Writers

\* A session that ends is taken out.
LEMMA AlogOffFacts ==
  ASSUME TypeOK, NEW s \in Sessions, AlogOff(s)
  PROVE  /\ session[s].handler \in Conf
         /\ session' = [session EXCEPT ![s] = Off]
         /\ session'[s] = Off
         /\ \A t \in Sessions : t # s => session'[t] = session[t]
         /\ OthersKept(session[s].handler) /\ EmptyKept(session[s].handler)
         /\ \E at : Removed(session[s].handler, s, at)
<1>1. session[s].handler \in Conf
  BY DEF TypeOK, AlogOff, Off
<1>2. Toggle(session[s].handler, s, NoWriter) /\ s \in Writers
  BY DEF AlogOff, Writers
<1>3. /\ \E at : Removed(session[s].handler, s, at)
      /\ OthersKept(session[s].handler) /\ EmptyKept(session[s].handler)
  BY <1>1, <1>2, RemoveToggle DEF TypeOK
<1>4. QED
  BY <1>1, <1>3 DEF AlogOff, TypeOK

(***************************************************************************)
(* Every conjunct of the invariant is preserved.                           *)
(***************************************************************************)
LEMMA StepPlaces == IInv /\ [Next]_vars => PlacesInv'
<1> SUFFICES ASSUME IInv, [Next]_vars PROVE PlacesInv'
  OBVIOUS
<1>0. TypeOK /\ PlacesInv /\ NumberingInv /\ OwnerInv /\ StageInv
  BY DEF IInv
<1>n. \A s \in Sessions : s \notin FileWriters
  BY NumbersNotSessions
<1>1. CASE PlainStep
  <2>1. writers' = writers
    BY <1>1, PlainWriters
  <2>2. \A s \in Sessions : session[s].is \in {"on", "gone"} =>
           session'[s].is \in {"on", "gone"}
             /\ session'[s].handler = session[s].handler
    <3>1. CASE UNCHANGED session
      BY <3>1
    <3>2. ASSUME NEW s \in Sessions, AlogInvoke(s)
          PROVE \A t \in Sessions : t # s => session'[t] = session[t]
      BY <3>2, <1>0 DEF AlogInvoke, TypeOK
    <3>3. ASSUME NEW s \in Sessions, AlogInvoke(s)
          PROVE session[s].is = "off"
      BY <3>3 DEF AlogInvoke, Off
    <3>4. ASSUME NEW s \in Sessions, Disconnect(s)
          PROVE  /\ session'[s].is = "gone"
                 /\ session'[s].handler = session[s].handler
                 /\ \A t \in Sessions : t # s => session'[t] = session[t]
      <4>1. session[s] \in [is : {"found", "on", "gone"}, handler : Conf]
        BY <3>4, <1>0 DEF TypeOK, Disconnect, Off
      <4>2. QED
        BY <4>1, <3>4, <1>0 DEF Disconnect, TypeOK
    <3>5. \/ UNCHANGED session
          \/ \E s \in Sessions : AlogInvoke(s) \/ Disconnect(s)
      BY <1>1 DEF PlainStep, OpenLog, WithoutLog, Register, Serve, Stop,
         Unregister, CleanupClose, CloseOld, EndRequest, BeginRequest, vars
    <3>6. QED
      BY <3>1, <3>2, <3>3, <3>4, <3>5
  <2>3. QED
    BY <2>1, <2>2, <1>0 DEF PlacesInv
<1>2. ASSUME NEW c \in Conf, Attach(c) PROVE PlacesInv'
  <2>1. Appended(c, out[c]) /\ out[c] \in FileWriters
    BY <1>0, <1>2, AttachFacts
  <2>2. session' = session
    BY <1>2 DEF Attach
  <2>3. \A i \in DOMAIN writers[c] : writers[c][i] \notin FileWriters
    BY <1>0, <1>2 DEF StageInv, Attach, Before
  <2>4. QED
    BY <1>0, <1>n, <2>1, <2>2, <2>3 DEF PlacesInv, Appended
<1>3. ASSUME NEW s \in Sessions, AlogOn(s) PROVE PlacesInv'
  <2> DEFINE h == session[s].handler
  <2>1. /\ session[s].is = "found" /\ h \in Conf
        /\ session'[s].is = "on" /\ session'[s].handler = h
        /\ \A t \in Sessions : t # s => session'[t] = session[t]
        /\ Appended(h, s)
    BY <1>0, <1>3, AlogOnFacts
  <2>2. \A d \in Conf : \A i \in DOMAIN writers[d] : writers[d][i] # s
    BY <1>0, <2>1 DEF PlacesInv
  <2> HIDE DEF h
  <2>3. QED
    BY <1>0, <1>n, <2>1, <2>2 DEF PlacesInv, Appended
<1>4. CASE Reopen
  <2>1. PICK f \in FileWriters :
          Exchanged(registry.handler, registry.writer, f)
    BY <1>0, <1>4, ReopenFacts
  <2>2. registry.writer \in FileWriters /\ session' = session
    BY <1>0, <1>4, ReopenFacts DEF Reopen
  <2>3. QED
    BY <1>0, <1>n, <2>1, <2>2 DEF PlacesInv, Exchanged
<1>5. ASSUME NEW c \in Conf, CleanupDetach(c) PROVE PlacesInv'
  <2>1. PICK at : Removed(c, out[c], at)
    BY <1>0, <1>5, DetachFacts
  <2>2. session' = session
    BY <1>5 DEF CleanupDetach
  <2>3. QED
    BY <1>0, <2>1, <2>2 DEF PlacesInv, Removed, RemovedIn
<1>6. ASSUME NEW s \in Sessions, AlogOff(s) PROVE PlacesInv'
  <2> DEFINE h == session[s].handler
  <2>1. PICK at : Removed(h, s, at)
    BY <1>0, <1>6, AlogOffFacts
  <2>2. /\ h \in Conf
        /\ \A t \in Sessions : t # s => session'[t] = session[t]
    BY <1>0, <1>6, AlogOffFacts
  <2>3. \A d \in Conf : \A i \in DOMAIN writers[d] :
          writers[d][i] = s => d = h
    BY <1>0 DEF PlacesInv
  <2>4. \A d \in Conf : \A i \in DOMAIN writers'[d] : writers'[d][i] # s
    BY <2>1, <2>3 DEF Removed, RemovedIn
  <2> HIDE DEF h
  <2>5. QED
    BY <1>0, <2>1, <2>2, <2>4 DEF PlacesInv, Removed, RemovedIn
<1>7. QED
  BY <1>1, <1>2, <1>3, <1>4, <1>5, <1>6, Steps

\* No file is named before it was opened.
LEMMA StepNumbering == IInv /\ [Next]_vars => NumberingInv'
<1> SUFFICES ASSUME IInv, [Next]_vars PROVE NumberingInv'
  OBVIOUS
<1>0. TypeOK /\ NumberingInv /\ StageInv
  BY DEF IInv
<1>n. /\ opened \in Nat /\ NoWriter <= opened
      /\ \A c \in Conf : out[c] \in Int
      /\ \A w \in FileWriters : w \in Nat
      /\ \A s \in Sessions : s \notin FileWriters
  <2>1. opened \in Nat
    BY <1>0, NumbersNotSessions DEF TypeOK
  <2>2. \A c \in Conf : out[c] \in Int
    <3>1. NoWriter \in Int
      BY DEF NoWriter
    <3>2. \A w \in FileWriters \cup {NoWriter} : w \in Int
      BY <3>1, NumbersNotSessions
    <3>3. out \in [Conf -> FileWriters \cup {NoWriter}]
      BY <1>0 DEF TypeOK
    <3>4. QED
      BY <3>2, <3>3
  <2>3. QED
    BY <2>1, <2>2, NumbersNotSessions DEF NoWriter
<1>1. ASSUME NEW c \in Conf, OpenLog(c) PROVE NumberingInv'
  <2>1. PICK f \in FileWriters : Open(f) /\ out' = [out EXCEPT ![c] = f]
    BY <1>1 DEF OpenLog
  <2>2. /\ opened' \in Nat /\ opened <= opened' /\ f <= opened'
        /\ \A g \in isOpen' : g <= opened'
    <3>1. /\ opened' \in Nat /\ opened <= opened'
          /\ \/ f = opened' /\ isOpen' = isOpen \cup {f}
             \/ f = 0 /\ isOpen' = isOpen
      BY <1>0, <2>1, OpenTypes
    <3>2. \A g \in isOpen : g \in Nat /\ g <= opened
      BY <1>0, NumbersNotSessions DEF NumberingInv, TypeOK
    <3>3. QED
      BY <1>n, <3>1, <3>2
  <2>3. /\ registry.writer \in Int /\ swap.old \in Int /\ swap.new \in Int
    BY <1>0, <1>n DEF TypeOK, NoEntry, NoSwap, NoWriter
  <2>4. \A d \in Conf : out'[d] <= opened'
    BY <1>0, <1>n, <2>1, <2>2 DEF NumberingInv, TypeOK
  <2>5. UNCHANGED <<writers, registry, swap>>
    BY <1>1 DEF OpenLog
  <2>6. QED
    BY <1>0, <1>n, <2>2, <2>3, <2>4, <2>5 DEF NumberingInv
<1>2. ASSUME NEW c \in Conf,
             WithoutLog(c) \/ Register(c) \/ Serve(c) \/ Stop(c)
               \/ Unregister(c) \/ CleanupClose(c)
      PROVE  NumberingInv'
  BY <1>0, <1>n, <1>2 DEF NumberingInv, WithoutLog, Register, Serve, Stop,
     Unregister, CleanupClose, NoEntry
<1>3. CASE CloseOld
  <2>1. registry'.writer = swap.new
    BY <1>0, <1>3 DEF CloseOld, ReopenedEntry, TypeOK, StageInv, LockFree
  <2>2. QED
    BY <1>0, <1>n, <1>3, <2>1 DEF CloseOld, NumberingInv, NoSwap
<1>4. ASSUME UNCHANGED <<out, writers, registry, swap, opened, isOpen>>
      PROVE  NumberingInv'
  BY <1>0, <1>4 DEF NumberingInv
<1>5. CASE PlainStep
  <2>1. \/ \E c \in Conf :
             OpenLog(c) \/ WithoutLog(c) \/ Register(c) \/ Serve(c) \/ Stop(c)
               \/ Unregister(c) \/ CleanupClose(c)
        \/ CloseOld
        \/ UNCHANGED <<out, writers, registry, swap, opened, isOpen>>
    BY <1>5 DEF PlainStep, AlogInvoke, Disconnect, EndRequest, BeginRequest,
       vars
  <2>2. QED
    BY <1>1, <1>2, <1>3, <1>4, <2>1
<1>6. ASSUME NEW c \in Conf, Attach(c) PROVE NumberingInv'
  <2>1. Appended(c, out[c])
    BY <1>0, <1>6, AttachFacts
  <2>2. UNCHANGED <<out, registry, swap, opened, isOpen>>
    BY <1>6 DEF Attach
  <2>3. QED
    BY <1>0, <2>1, <2>2 DEF NumberingInv, Appended
<1>7. ASSUME NEW s \in Sessions, AlogOn(s) PROVE NumberingInv'
  <2>1. Appended(session[s].handler, s)
    BY <1>0, <1>7, AlogOnFacts
  <2>2. UNCHANGED <<out, registry, swap, opened, isOpen>>
    BY <1>7 DEF AlogOn
  <2>3. QED
    BY <1>0, <1>n, <2>1, <2>2 DEF NumberingInv, Appended
<1>8. CASE Reopen
  <2>1. PICK f \in FileWriters :
          /\ Exchanged(registry.handler, registry.writer, f)
          /\ swap' = [old |-> registry.writer, new |-> f]
          /\ opened' \in Nat /\ opened <= opened' /\ f <= opened'
          /\ isOpen' = isOpen \cup ({f} \cap Files)
    BY <1>0, <1>8, ReopenFacts
  <2>2. registry.writer \in Nat /\ isOpen \subseteq Nat
    BY <1>0, <1>8, <1>n, ReopenFacts, NumbersNotSessions DEF TypeOK
  <2>3. UNCHANGED <<out, registry>>
    BY <1>8 DEF Reopen
  <2>4. \A c \in Conf : \A i \in DOMAIN writers'[c] :
          writers'[c][i] \in FileWriters => writers'[c][i] <= opened'
    BY <1>0, <1>n, <2>1 DEF NumberingInv, Exchanged
  <2>5. QED
    BY <1>0, <1>n, <2>1, <2>2, <2>3, <2>4 DEF NumberingInv
<1>9. ASSUME NEW c \in Conf, CleanupDetach(c) PROVE NumberingInv'
  <2>1. PICK at : Removed(c, out[c], at)
    BY <1>0, <1>9, DetachFacts
  <2>2. UNCHANGED <<out, registry, swap, opened, isOpen>>
    BY <1>9 DEF CleanupDetach
  <2>3. QED
    BY <1>0, <2>1, <2>2 DEF NumberingInv, Removed, RemovedIn
<1>10. ASSUME NEW s \in Sessions, AlogOff(s) PROVE NumberingInv'
  <2>1. PICK at : Removed(session[s].handler, s, at)
    BY <1>0, <1>10, AlogOffFacts
  <2>2. UNCHANGED <<out, registry, swap, opened, isOpen>>
    BY <1>10 DEF AlogOff
  <2>3. QED
    BY <1>0, <2>1, <2>2 DEF NumberingInv, Removed, RemovedIn
<1>11. QED
  BY <1>5, <1>6, <1>7, <1>8, <1>9, <1>10, Steps

\* A file belongs to one configuration and to one handler.
LEMMA StepOwner == IInv /\ [Next]_vars => OwnerInv'
<1> SUFFICES ASSUME IInv, [Next]_vars PROVE OwnerInv'
  OBVIOUS
<1>0. TypeOK /\ NumberingInv /\ OwnerInv /\ StageInv
  BY DEF IInv
<1>n. /\ opened \in Nat
      /\ \A s \in Sessions : s \notin FileWriters
      /\ Files \subseteq FileWriters /\ Files \subseteq Nat
  BY <1>0, NumbersNotSessions DEF TypeOK
<1>1. ASSUME NEW c \in Conf, OpenLog(c) PROVE OwnerInv'
  <2>1. PICK f \in FileWriters : Open(f) /\ out' = [out EXCEPT ![c] = f]
    BY <1>1 DEF OpenLog
  <2>2. f \in Files => opened < f
    BY <1>0, <1>n, <2>1, OpenTypes, NumbersNotSessions
  <2>3. /\ out'[c] = f
        /\ \A d \in Conf : d # c => out'[d] = out[d]
        /\ writers' = writers
    BY <1>0, <1>1, <2>1 DEF OpenLog, TypeOK
  <2>4. f \in Files =>
          /\ \A d \in Conf : out[d] # f
          /\ \A d \in Conf : \A i \in DOMAIN writers[d] : writers[d][i] # f
    <3>1. f \in Files => f \in Nat /\ f \in FileWriters /\ ~ (f <= opened)
      BY <1>n, <2>2
    <3>2. QED
      BY <1>0, <3>1 DEF NumberingInv
  <2>5. QED
    BY <1>0, <2>3, <2>4 DEF OwnerInv
<1>2. CASE PlainStep /\ UNCHANGED out
  BY <1>0, <1>2, PlainWriters DEF OwnerInv
<1>3. CASE PlainStep
  <2>1. UNCHANGED out \/ \E c \in Conf : OpenLog(c)
    BY <1>3 DEF PlainStep, WithoutLog, Register, Serve, Stop,
       Unregister, CleanupClose, CloseOld, AlogInvoke, Disconnect,
       EndRequest, BeginRequest, vars
  <2>2. QED
    BY <1>1, <1>2, <1>3, <2>1
<1>4. ASSUME NEW c \in Conf, Attach(c) PROVE OwnerInv'
  <2>1. Appended(c, out[c]) /\ out' = out
    BY <1>0, <1>4, AttachFacts DEF Attach
  <2>2. \A i \in DOMAIN writers[c] : writers[c][i] \notin FileWriters
    BY <1>0, <1>4 DEF StageInv, Attach, Before
  <2>3. \A d \in Conf : \A i \in DOMAIN writers[d] :
          out[c] \in Files => writers[d][i] # out[c]
    BY <1>0, <1>n, <2>2 DEF OwnerInv
  <2>4. QED
    BY <1>0, <2>1, <2>3 DEF OwnerInv, Appended
<1>5. ASSUME NEW s \in Sessions, AlogOn(s) PROVE OwnerInv'
  <2>1. Appended(session[s].handler, s) /\ out' = out
    BY <1>0, <1>5, AlogOnFacts DEF AlogOn
  <2>2. s \notin Files
    BY <1>n
  <2>3. QED
    BY <1>0, <2>1, <2>2 DEF OwnerInv, Appended
<1>6. CASE Reopen
  <2>1. PICK f \in FileWriters :
          /\ Exchanged(registry.handler, registry.writer, f)
          /\ f \in Files => opened < f
    BY <1>0, <1>6, ReopenFacts
  <2>2. out' = out
    BY <1>6 DEF Reopen
  <2>3. f \in Files =>
          /\ \A d \in Conf : out[d] # f
          /\ \A d \in Conf : \A i \in DOMAIN writers[d] : writers[d][i] # f
    <3>1. f \in Files => f \in Nat /\ f \in FileWriters /\ ~ (f <= opened)
      BY <1>n, <2>1
    <3>2. QED
      BY <1>0, <3>1 DEF NumberingInv
  <2>4. QED
    BY <1>0, <2>1, <2>2, <2>3 DEF OwnerInv, Exchanged
<1>7. ASSUME NEW c \in Conf, CleanupDetach(c) PROVE OwnerInv'
  <2>1. PICK at : Removed(c, out[c], at)
    BY <1>0, <1>7, DetachFacts
  <2>2. out' = out
    BY <1>7 DEF CleanupDetach
  <2>3. QED
    BY <1>0, <2>1, <2>2 DEF OwnerInv, Removed, RemovedIn
<1>8. ASSUME NEW s \in Sessions, AlogOff(s) PROVE OwnerInv'
  <2>1. PICK at : Removed(session[s].handler, s, at)
    BY <1>0, <1>8, AlogOffFacts
  <2>2. out' = out
    BY <1>8 DEF AlogOff
  <2>3. QED
    BY <1>0, <2>1, <2>2 DEF OwnerInv, Removed, RemovedIn
<1>9. QED
  BY <1>3, <1>4, <1>5, <1>6, <1>7, <1>8, Steps

\* What a configuration has done by each stage.
LEMMA StepStage == IInv /\ [Next]_vars => StageInv'
<1> SUFFICES ASSUME IInv, [Next]_vars PROVE StageInv'
  OBVIOUS
<1>0. TypeOK /\ NumberingInv /\ StageInv
  BY DEF IInv
<1>n. /\ opened \in Nat
      /\ \A s \in Sessions : s \notin FileWriters
      /\ Files \subseteq FileWriters /\ Files \subseteq Nat
      /\ FileWriters \subseteq Nat
  BY <1>0, NumbersNotSessions DEF TypeOK
<1>1. ASSUME NEW c \in Conf, OpenLog(c) PROVE StageInv'
  <2>1. PICK f \in FileWriters : Open(f) /\ out' = [out EXCEPT ![c] = f]
    BY <1>1 DEF OpenLog
  <2>2. /\ isOpen' \subseteq isOpen \cup {f}
        /\ \A d \in Conf : out[d] = f => f = 0
        /\ 0 \notin isOpen'
    BY <1>0, <1>n, <2>1, OpenTypes, NumbersNotSessions
       DEF NumberingInv, TypeOK, fileVars
  <2>3. /\ out'[c] = f
        /\ \A d \in Conf : d # c => out'[d] = out[d]
        /\ stage[c] = "none" /\ stage'[c] = "opened"
        /\ \A d \in Conf : d # c => stage'[d] = stage[d]
        /\ UNCHANGED <<writers, registry, swap>>
    BY <1>0, <1>1, <2>1 DEF OpenLog, CanBegin, TypeOK
  <2>4. \A d \in Conf : stage'[d] = "done" => out'[d] \notin isOpen'
    BY <1>0, <2>2, <2>3 DEF StageInv
  <2>5. ASSUME NEW d \in Conf
        PROVE  /\ InSetup(d)' => out'[d] \in FileWriters
               /\ stage'[d] \in Before => stage[d] \in Before
               /\ stage'[d] \in After => stage[d] \in After /\ d # c
    BY <1>0, <2>1, <2>3 DEF StageInv, InSetup, Before, After
  <2>6. QED
    BY <1>0, <2>3, <2>4, <2>5 DEF StageInv, LockFree
<1>2. ASSUME NEW c \in Conf, CleanupClose(c) PROVE StageInv'
  <2>1. /\ stage[c] = "unregistered" /\ stage'[c] = "done"
        /\ \A d \in Conf : d # c => stage'[d] = stage[d]
        /\ isOpen' = isOpen \ {out[c]}
        /\ UNCHANGED <<out, writers, registry, swap>>
    BY <1>0, <1>2 DEF CleanupClose, CleanupCloses, TypeOK
  <2>2. QED
    BY <1>0, <2>1 DEF StageInv, InSetup, Before, After, LockFree
<1>3. ASSUME NEW c \in Conf,
             WithoutLog(c) \/ Register(c) \/ Serve(c) \/ Stop(c)
               \/ Unregister(c)
      PROVE  StageInv'
  <2>1. /\ \A d \in Conf : d # c => stage'[d] = stage[d]
        /\ \/ stage[c] = "none" /\ stage'[c] = "loaded"
           \/ stage[c] = "opened" /\ stage'[c] = "registered"
           \/ stage[c] = "loaded" /\ stage'[c] = "serving"
           \/ stage[c] = "serving" /\ stage'[c] = "stopped"
           \/ stage[c] = "off" /\ stage'[c] = "unregistered"
        /\ UNCHANGED <<out, writers, swap, isOpen>>
    BY <1>0, <1>3 DEF WithoutLog, CanBegin, Register, Serve, Stop, Unregister,
       TypeOK
  <2>2. UNCHANGED registry \/ LockFree
    BY <1>3 DEF WithoutLog, Register, Serve, Stop, Unregister
  <2>3. QED
    BY <1>0, <2>1, <2>2 DEF StageInv, InSetup, Before, After, LockFree
<1>4. CASE CloseOld
  BY <1>0, <1>4 DEF CloseOld, StageInv, InSetup, LockFree
<1>5. ASSUME UNCHANGED <<stage, out, writers, registry, swap, isOpen>>
      PROVE  StageInv'
  BY <1>0, <1>5 DEF StageInv, InSetup, LockFree
<1>6. CASE PlainStep
  <2>1. \/ \E c \in Conf :
             OpenLog(c) \/ WithoutLog(c) \/ Register(c) \/ Serve(c) \/ Stop(c)
               \/ Unregister(c) \/ CleanupClose(c)
        \/ CloseOld
        \/ UNCHANGED <<stage, out, writers, registry, swap, isOpen>>
    BY <1>6 DEF PlainStep, AlogInvoke, Disconnect, EndRequest, BeginRequest,
       vars
  <2>2. QED
    BY <1>1, <1>2, <1>3, <1>4, <1>5, <2>1
<1>7. ASSUME NEW c \in Conf, Attach(c) PROVE StageInv'
  <2>1. Appended(c, out[c])
    BY <1>0, <1>7, AttachFacts
  <2>2. /\ \A d \in Conf : d # c => stage'[d] = stage[d]
        /\ stage'[c] \in {"loaded", "failed"}
        /\ UNCHANGED <<out, registry, swap, isOpen>>
    BY <1>0, <1>7 DEF Attach, TypeOK
  <2>3. QED
    BY <1>0, <2>1, <2>2
       DEF StageInv, Appended, InSetup, Before, After, LockFree
<1>8. ASSUME NEW s \in Sessions, AlogOn(s) PROVE StageInv'
  <2>1. Appended(session[s].handler, s)
    BY <1>0, <1>8, AlogOnFacts
  <2>2. UNCHANGED <<stage, out, registry, swap, isOpen>>
    BY <1>8 DEF AlogOn
  <2>3. QED
    BY <1>0, <1>n, <2>1, <2>2 DEF StageInv, Appended, InSetup, LockFree
<1>9. CASE Reopen
  <2>1. PICK f \in FileWriters :
          /\ Exchanged(registry.handler, registry.writer, f)
          /\ f \in Files => opened < f
          /\ isOpen' = isOpen \cup ({f} \cap Files)
    BY <1>0, <1>9, ReopenFacts
  <2>2. registry # NoEntry /\ UNCHANGED <<stage, out, registry>>
    BY <1>9 DEF Reopen
  <2>3. registry.writer \in FileWriters
    BY <1>0, <1>9, ReopenFacts
  <2>4. \A c \in Conf : f \in Files => out[c] # f
    BY <1>0, <1>n, <2>1 DEF NumberingInv
  <2>5. \A c \in Conf : stage[c] \in Before =>
          \A i \in DOMAIN writers'[c] : writers'[c][i] \notin FileWriters
    BY <1>0, <2>1, <2>3 DEF StageInv, Exchanged
  <2>6. \A c \in Conf : stage[c] \in After =>
          \A i \in DOMAIN writers'[c] :
            out[c] \in Files => writers'[c][i] # out[c]
    BY <1>0, <2>1, <2>4 DEF StageInv, Exchanged
  <2>7. QED
    BY <1>0, <2>1, <2>2, <2>4, <2>5, <2>6 DEF StageInv, InSetup
<1>10. ASSUME NEW c \in Conf, CleanupDetach(c) PROVE StageInv'
  <2>1. out[c] \in FileWriters
    BY <1>0, <1>10, DetachFacts
  <2>2. PICK at : Removed(c, out[c], at)
    BY <1>0, <1>10, DetachFacts
  <2>3. /\ stage[c] = "stopped" /\ stage'[c] = "off"
        /\ \A d \in Conf : d # c => stage'[d] = stage[d]
        /\ UNCHANGED <<out, registry, swap, isOpen>>
    BY <1>0, <1>10 DEF CleanupDetach, TypeOK
  <2>4. \A d \in Conf : \A i \in DOMAIN writers'[d] :
          \E j \in DOMAIN writers[d] : writers'[d][i] = writers[d][j]
    BY <2>2 DEF Removed, RemovedIn
  <2>5. \A i \in DOMAIN writers'[c] : writers'[c][i] # out[c]
    BY <2>2 DEF Removed, RemovedIn
  <2>6. QED
    BY <1>0, <2>1, <2>3, <2>4, <2>5
       DEF StageInv, InSetup, Before, After, LockFree
<1>11. ASSUME NEW s \in Sessions, AlogOff(s) PROVE StageInv'
  <2>1. PICK at : Removed(session[s].handler, s, at)
    BY <1>0, <1>11, AlogOffFacts
  <2>2. UNCHANGED <<stage, out, registry, swap, isOpen>>
    BY <1>11 DEF AlogOff
  <2>3. \A d \in Conf : \A i \in DOMAIN writers'[d] :
          \E j \in DOMAIN writers[d] : writers'[d][i] = writers[d][j]
    BY <2>1 DEF Removed, RemovedIn
  <2>4. QED
    BY <1>0, <2>2, <2>3 DEF StageInv, InSetup, LockFree
<1>12. QED
  BY <1>6, <1>7, <1>8, <1>9, <1>10, <1>11, Steps

\* The invariant holds at the beginning, ...
LEMMA InitIInv == Init => IInv
<1> SUFFICES ASSUME Init PROVE IInv
  OBVIOUS
<1> USE DEF Init
<1>1. TypeOK
  <2>1. <<>> \in Seq(Writers)
    OBVIOUS
  <2>2. QED
    BY <2>1 DEF TypeOK, Stages
<1>2. \A c \in Conf : writers[c] = <<>> /\ DOMAIN writers[c] = {}
  OBVIOUS
<1>3. PlacesInv /\ OwnerInv
  <2>1. \A c \in Conf : out[c] \notin Files
    BY NumbersNotSessions DEF FileWriters
  <2>2. QED
    BY <1>2, <2>1 DEF PlacesInv, OwnerInv
<1>4. NumberingInv
  BY <1>2 DEF NumberingInv, NoEntry, NoSwap, NoWriter
<1>5. StageInv
  BY <1>2 DEF StageInv, InSetup, Before, After, LockFree
<1>6. QED
  BY <1>1, <1>3, <1>4, <1>5 DEF IInv

\* ... and every step keeps it.
LEMMA StepIInv == IInv /\ [Next]_vars => IInv'
<1>1. IInv /\ [Next]_vars => TypeOK'
  BY StepTypeOK DEF IInv
<1>2. QED
  BY <1>1, StepPlaces, StepNumbering, StepOwner, StepStage DEF IInv

\* Who may hold which writer, in every reachable state: for any set-up, also
\* when a reopening or a session comes in the middle of it.
THEOREM Invariance == Spec => []IInv
BY InitIInv, StepIInv, PTL DEF Spec

\* The variables of the access logs keep their types.
THEOREM TypeCorrectness == Spec => []TypeOK
<1>1. IInv => TypeOK
  BY DEF IInv
<1>2. QED
  BY <1>1, Invariance, PTL

\* No request is logged twice to one file or session: neither two handlers nor
\* two places of a handler hold the same writer (ToggleAccessLog, under every
\* interleaving of set-up, cleanup, reopening and sessions).
THEOREM WritersAreOnce == Spec => []EachWriterOnce
<1>1. IInv => EachWriterOnce
  <2> SUFFICES ASSUME IInv, NEW c \in Conf, NEW d \in Conf,
                      NEW i \in DOMAIN writers[c], NEW j \in DOMAIN writers[d],
                      writers[c][i] = writers[d][j], writers[c][i] # NilFile
               PROVE  c = d /\ i = j
    BY DEF EachWriterOnce
  <2>1. TypeOK /\ PlacesInv /\ OwnerInv
    BY DEF IInv
  <2>2. writers[c][i] \in Writers
    <3>1. writers[c] \in Seq(Writers)
      BY <2>1 DEF TypeOK
    <3>2. QED
      BY <3>1
  <2>3. writers[c][i] \in Files \/ writers[c][i] \in Sessions
    BY <2>2 DEF Writers, FileWriters
  <2>4. c = d
    BY <2>1, <2>3 DEF PlacesInv, OwnerInv
  <2>5. i = j
    BY <2>1, <2>4 DEF PlacesInv
  <2>6. QED
    BY <2>4, <2>5
<1>2. QED
  BY <1>1, Invariance, PTL

\* A configuration that was cleaned up has closed the file it opened and
\* detached it from its handler, whatever was reopened in between.
THEOREM OldLogsAreReleased == Spec => []OldLogReleased
<1>1. IInv => OldLogReleased
  <2> SUFFICES ASSUME IInv, NEW c \in Conf, stage[c] = "done"
               PROVE  out[c] \notin (Attached(c) \cap Files) \cup isOpen
    BY DEF OldLogReleased
  <2>1. out[c] \notin isOpen
    BY DEF IInv, StageInv
  <2>2. out[c] \in Files => \A i \in DOMAIN writers[c] : writers[c][i] # out[c]
    BY DEF IInv, StageInv, After
  <2>3. QED
    BY <2>1, <2>2 DEF Attached, Range
<1>2. QED
  BY <1>1, Invariance, PTL

(***************************************************************************)
(* With QuietSetup: a handler is wired up before its log is reopened or    *)
(* followed.                                                               *)
(***************************************************************************)
LEMMA StepFirst ==
  QuietSetup /\ IInv /\ FirstInv /\ [Next]_vars => FirstInv'
<1> SUFFICES ASSUME QuietSetup, IInv, FirstInv, [Next]_vars PROVE FirstInv'
  OBVIOUS
<1>0. TypeOK /\ StageInv /\ NumberingInv
  BY DEF IInv
<1>n. \A s \in Sessions : s \notin FileWriters
  BY NumbersNotSessions
<1>h. \A s \in Sessions : session[s] # Off => session[s].handler \in Conf
  BY <1>0 DEF TypeOK
<1>1. ASSUME NEW c \in Conf,
             OpenLog(c) \/ WithoutLog(c) \/ Register(c) \/ Serve(c) \/ Stop(c)
               \/ Unregister(c) \/ CleanupClose(c)
      PROVE  FirstInv'
  <2>1. /\ UNCHANGED <<writers, session, request>>
        /\ \A d \in Conf : d # c => stage'[d] = stage[d]
        /\ stage'[c] # "none"
        /\ stage'[c] \in Before => stage[c] \in Before
    BY <1>0, <1>1 DEF OpenLog, WithoutLog, CanBegin, Register, Serve, Stop,
       Unregister, CleanupClose, TypeOK, Before
  <2>2. alog' = alog \/ alog' = c
    BY <1>1 DEF OpenLog, WithoutLog, Register, Serve, Stop, Unregister,
       CleanupClose
  <2>3. QED
    BY <1>h, <2>1, <2>2 DEF FirstInv
<1>2. ASSUME UNCHANGED <<stage, writers, alog, session, request>>
      PROVE  FirstInv'
  BY <1>2 DEF FirstInv
<1>3. ASSUME NEW s \in Sessions, AlogInvoke(s) PROVE FirstInv'
  <2>1. /\ UNCHANGED <<stage, writers, alog, request>>
        /\ alog \in Conf
        /\ session'[s] = [is |-> "found", handler |-> alog]
        /\ \A t \in Sessions : t # s => session'[t] = session[t]
    BY <1>0, <1>3 DEF AlogInvoke, AlogKnown, TypeOK
  <2>2. QED
    BY <2>1 DEF FirstInv
<1>4. ASSUME NEW s \in Sessions, Disconnect(s) PROVE FirstInv'
  <2>1. session[s] \in [is : {"found", "on", "gone"}, handler : Conf]
    BY <1>0, <1>4 DEF TypeOK, Disconnect, Off
  <2>2. /\ UNCHANGED <<stage, writers, alog, request>>
        /\ session[s].is = "on" /\ session[s] # Off
        /\ session'[s].handler = session[s].handler
        /\ \A t \in Sessions : t # s => session'[t] = session[t]
    BY <1>0, <1>4, <2>1 DEF Disconnect, TypeOK, Off
  <2>3. QED
    BY <2>2 DEF FirstInv
<1>5. ASSUME NEW r \in Requests,
             EndRequest(r) \/ \E c \in Conf : BeginRequest(r, c)
      PROVE  FirstInv'
  <2>1. /\ UNCHANGED <<stage, writers, alog, session>>
        /\ \A q \in Requests : q # r => request'[q] = request[q]
        /\ \/ request'[r] = Idle
           \/ \E c \in Conf : request'[r].writers = writers[c]
    BY <1>0, <1>5 DEF EndRequest, BeginRequest, TypeOK
  <2>2. DOMAIN Idle.writers = {}
    BY DEF Idle
  <2>3. \A q \in Requests : \A i \in DOMAIN request'[q].writers :
          request'[q].writers[i] \in FileWriters => i = 1
    BY <2>1, <2>2 DEF FirstInv
  <2>4. QED
    BY <2>1, <2>3 DEF FirstInv
<1>6. CASE PlainStep
  <2>1. CASE CloseOld \/ UNCHANGED vars
    BY <2>1, <1>2 DEF CloseOld, vars
  <2>2. QED
    BY <1>1, <1>3, <1>4, <1>5, <1>6, <2>1 DEF PlainStep
<1>7. ASSUME NEW c \in Conf, Attach(c) PROVE FirstInv'
  <2>1. Appended(c, out[c]) /\ OthersKept(c)
    BY <1>0, <1>7, AttachFacts
  <2>2. /\ UNCHANGED <<alog, session, request>>
        /\ stage[c] = "registered"
        /\ stage'[c] \notin Before
        /\ \A d \in Conf : d # c => stage'[d] = stage[d]
    BY <1>0, <1>7 DEF Attach, TypeOK, Before
  <2>3. DOMAIN writers[c] = {} /\ Len(writers[c]) = 0
    <3>1. writers[c] = <<>>
      BY <2>2 DEF FirstInv, Before
    <3>2. QED
      BY <3>1
  <2>4. \A d \in Conf : \A i \in DOMAIN writers'[d] :
          writers'[d][i] \in FileWriters => i = 1
    BY <2>1, <2>3 DEF FirstInv, Appended, OthersKept
  <2>5. \A d \in Conf : stage'[d] \in Before => writers'[d] = <<>>
    BY <2>1, <2>2 DEF FirstInv, OthersKept
  <2>6. QED
    BY <1>h, <2>2, <2>4, <2>5 DEF FirstInv, Before
<1>8. ASSUME NEW s \in Sessions, AlogOn(s) PROVE FirstInv'
  <2> DEFINE h == session[s].handler
  <2>1. /\ h \in Conf /\ session'[s].handler = h
        /\ \A t \in Sessions : t # s => session'[t] = session[t]
        /\ Appended(h, s) /\ OthersKept(h)
        /\ session[s].is = "found"
    BY <1>0, <1>8, AlogOnFacts
  <2>2. UNCHANGED <<stage, alog, request>> /\ session[s] # Off /\ ~InSetup(h)
    BY <1>8 DEF AlogOn, Off
  <2>3. stage[h] \notin Before
    BY <2>2 DEF FirstInv, InSetup, Before
  <2> HIDE DEF h
  <2>4. \A d \in Conf : \A i \in DOMAIN writers'[d] :
          writers'[d][i] \in FileWriters => i = 1
    BY <1>n, <2>1 DEF FirstInv, Appended
  <2>5. \A d \in Conf : stage[d] \in Before => writers'[d] = <<>>
    BY <2>1, <2>3 DEF FirstInv, OthersKept
  <2>6. ASSUME NEW t \in Sessions, session'[t] # Off
        PROVE  /\ stage[session'[t].handler] # "none"
               /\ session'[t].is # "found" =>
                    stage[session'[t].handler] \notin Before
    BY <2>1, <2>3, <2>6 DEF FirstInv, Before
  <2>7. QED
    BY <2>2, <2>4, <2>5, <2>6 DEF FirstInv
<1>9. CASE Reopen
  <2>1. PICK f \in FileWriters :
          Exchanged(registry.handler, registry.writer, f)
    BY <1>0, <1>9, ReopenFacts
  <2>2. /\ registry.writer \in FileWriters
        /\ OthersKept(registry.handler) /\ EmptyKept(registry.handler)
    BY <1>0, <1>9, ReopenFacts
  <2>3. UNCHANGED <<stage, alog, session, request>>
    BY <1>9 DEF Reopen
  <2>4. \A d \in Conf : \A i \in DOMAIN writers'[d] :
          writers'[d][i] \in FileWriters => i = 1
    BY <2>1, <2>2 DEF FirstInv, Exchanged
  <2>5. \A d \in Conf : stage[d] \in Before => writers'[d] = <<>>
    BY <2>2 DEF FirstInv, OthersKept, EmptyKept
  <2>6. QED
    BY <2>3, <2>4, <2>5 DEF FirstInv
<1>10. ASSUME NEW c \in Conf, CleanupDetach(c) PROVE FirstInv'
  <2>1. PICK at : Removed(c, out[c], at)
    BY <1>0, <1>10, DetachFacts
  <2>2. OthersKept(c) /\ EmptyKept(c)
    BY <1>0, <1>10, DetachFacts
  <2>3. /\ UNCHANGED <<alog, session, request>>
        /\ stage'[c] \notin Before
        /\ \A d \in Conf : d # c => stage'[d] = stage[d]
    BY <1>0, <1>10 DEF CleanupDetach, TypeOK, Before
  <2>4. \A d \in Conf : \A i \in DOMAIN writers'[d] :
          writers'[d][i] \in FileWriters => i = 1
    BY <2>1 DEF FirstInv, Removed, RemovedIn
  <2>5. \A d \in Conf : stage'[d] \in Before => writers'[d] = <<>>
    BY <2>2, <2>3 DEF FirstInv, OthersKept
  <2>6. QED
    BY <1>h, <2>3, <2>4, <2>5 DEF FirstInv, Before
<1>11. ASSUME NEW s \in Sessions, AlogOff(s) PROVE FirstInv'
  <2> DEFINE h == session[s].handler
  <2>1. PICK at : Removed(h, s, at)
    BY <1>0, <1>11, AlogOffFacts
  <2>2. /\ OthersKept(h) /\ EmptyKept(h)
        /\ session'[s] = Off
        /\ \A t \in Sessions : t # s => session'[t] = session[t]
    BY <1>0, <1>11, AlogOffFacts
  <2>3. UNCHANGED <<stage, alog, request>>
    BY <1>11 DEF AlogOff
  <2> HIDE DEF h
  <2>4. \A d \in Conf : \A i \in DOMAIN writers'[d] :
          writers'[d][i] \in FileWriters => i = 1
    BY <2>1 DEF FirstInv, Removed, RemovedIn
  <2>5. \A d \in Conf : stage[d] \in Before => writers'[d] = <<>>
    BY <2>2 DEF FirstInv, OthersKept, EmptyKept
  <2>6. QED
    BY <2>2, <2>3, <2>4, <2>5 DEF FirstInv
<1>12. QED
  BY <1>6, <1>7, <1>8, <1>9, <1>10, <1>11, Steps

\* A reader of the registry: the file f is attached to handler h.
LEMMA StillAttached ==
  ASSUME NEW c \in Conf, NEW w
  PROVE  /\ \A d \in Conf : \A v :
              Appended(d, v) /\ w \in Attached(c) => w \in Attached(c)'
         /\ \A d \in Conf : \A v, at :
              Removed(d, v, at) /\ w # v /\ w \in Attached(c)
                => w \in Attached(c)'
<1>1. ASSUME NEW d \in Conf, NEW v, Appended(d, v), w \in Attached(c)
      PROVE  w \in Attached(c)'
  <2>1. PICK i \in DOMAIN writers[c] : writers[c][i] = w
    BY <1>1 DEF Attached, Range
  <2>2. i \in DOMAIN writers'[c] /\ writers'[c][i] = w
    BY <1>1, <2>1 DEF Appended
  <2>3. QED
    BY <2>2 DEF Attached, Range
<1>2. ASSUME NEW d \in Conf, NEW v, NEW at, Removed(d, v, at), w # v,
             w \in Attached(c)
      PROVE  w \in Attached(c)'
  <2>1. PICK j \in DOMAIN writers[c] : writers[c][j] = w
    BY <1>2 DEF Attached, Range
  <2>2. PICK i \in DOMAIN writers'[c] : writers'[c][i] = w
    BY <1>2, <2>1 DEF Removed, RemovedIn
  <2>3. QED
    BY <2>2 DEF Attached, Range
<1>3. QED
  BY <1>1, <1>2

\* The registry names what is attached: Reopen exchanges both under the lock.
LEMMA StepRegistry ==
  QuietSetup /\ IInv /\ QInv /\ [Next]_vars
    => RegistryInv' /\ ReopenFindsLog'
<1> SUFFICES ASSUME QuietSetup, IInv, QInv, [Next]_vars
             PROVE  RegistryInv' /\ ReopenFindsLog'
  OBVIOUS
<1> USE DEF Logging
<1>0. /\ TypeOK /\ StageInv /\ NumberingInv
      /\ RegistryInv /\ ReopenFindsLog
  BY DEF IInv, QInv
<1>n. 0 \notin Conf /\ \A s \in Sessions : s \notin FileWriters
  BY NumbersNotSessions
<1>u. ASSUME writers' = writers PROVE \A c \in Conf : Attached(c)' = Attached(c)
  BY <1>u DEF Attached
<1>1. ASSUME NEW c \in Conf, OpenLog(c) \/ WithoutLog(c)
      PROVE  RegistryInv' /\ ReopenFindsLog'
  <2>1. /\ UNCHANGED <<writers, registry, swap>>
        /\ stage[c] = "none"
        /\ \A d \in Conf : d # c => stage'[d] = stage[d]
    BY <1>0, <1>1 DEF OpenLog, WithoutLog, CanBegin, TypeOK
  <2>2. registry.handler # c
    BY <1>0, <2>1 DEF RegistryInv
  <2>3. \A d \in Conf : d # c => out'[d] = out[d]
    BY <1>0, <1>1 DEF OpenLog, WithoutLog, TypeOK
  <2>4. QED
    BY <1>0, <1>u, <2>1, <2>2, <2>3 DEF RegistryInv, ReopenFindsLog, LockFree
<1>2. ASSUME NEW c \in Conf, Register(c)
      PROVE  RegistryInv' /\ ReopenFindsLog'
  <2>1. /\ UNCHANGED <<out, writers, swap>>
        /\ LockFree /\ stage'[c] = "registered"
        /\ registry'.handler = c /\ registry'.writer = out[c]
    BY <1>0, <1>2 DEF Register, TypeOK
  <2>2. QED
    BY <2>1 DEF RegistryInv, ReopenFindsLog, LockFree
<1>3. ASSUME NEW c \in Conf, Serve(c) \/ Stop(c) \/ CleanupClose(c)
      PROVE  RegistryInv' /\ ReopenFindsLog'
  <2>1. /\ UNCHANGED <<out, writers, registry, swap>>
        /\ \A d \in Conf : d # c => stage'[d] = stage[d]
        /\ \/ stage[c] = "loaded" /\ stage'[c] = "serving"
           \/ stage[c] = "serving" /\ stage'[c] = "stopped"
           \/ stage[c] = "unregistered" /\ stage'[c] = "done"
    BY <1>0, <1>3 DEF Serve, Stop, CleanupClose, TypeOK
  <2>2. QED
    BY <1>0, <1>u, <2>1 DEF RegistryInv, ReopenFindsLog, LockFree
<1>4. ASSUME NEW c \in Conf, Unregister(c)
      PROVE  RegistryInv' /\ ReopenFindsLog'
  BY <1>n, <1>4 DEF Unregister, NoEntry, RegistryInv, ReopenFindsLog
<1>5. CASE CloseOld
  <2>1. /\ UNCHANGED <<stage, out, writers>> /\ ~LockFree
        /\ swap' = NoSwap
        /\ registry'.handler = registry.handler
        /\ registry'.writer = swap.new
    BY <1>0, <1>5 DEF CloseOld, ReopenedEntry, TypeOK, StageInv
  <2>2. QED
    BY <1>0, <1>u, <2>1 DEF RegistryInv, ReopenFindsLog, LockFree
<1>6. ASSUME UNCHANGED <<stage, out, writers, registry, swap>>
      PROVE  RegistryInv' /\ ReopenFindsLog'
  BY <1>0, <1>6, <1>u DEF RegistryInv, ReopenFindsLog, LockFree
<1>7. CASE PlainStep
  <2>1. \/ \E c \in Conf :
             OpenLog(c) \/ WithoutLog(c) \/ Register(c) \/ Serve(c) \/ Stop(c)
               \/ Unregister(c) \/ CleanupClose(c)
        \/ CloseOld
        \/ UNCHANGED <<stage, out, writers, registry, swap>>
    BY <1>7 DEF PlainStep, AlogInvoke, Disconnect, EndRequest, BeginRequest,
       vars
  <2>2. QED
    BY <1>1, <1>2, <1>3, <1>4, <1>5, <1>6, <2>1
<1>8. ASSUME NEW c \in Conf, Attach(c)
      PROVE  RegistryInv' /\ ReopenFindsLog'
  <2>1. Appended(c, out[c]) /\ OthersKept(c)
    BY <1>0, <1>8, AttachFacts
  <2>2. /\ UNCHANGED <<out, registry, swap>>
        /\ stage[c] = "registered"
        /\ stage'[c] \in {"loaded", "failed"}
        /\ \A d \in Conf : d # c => stage'[d] = stage[d]
    BY <1>0, <1>8 DEF Attach, TypeOK
  <2>3. out[c] \in Attached(c)'
    BY <2>1 DEF Appended, Attached, Range
  <2>4. \A d \in Conf : d # c => Attached(d)' = Attached(d)
    BY <2>1 DEF OthersKept, Attached
  <2>5. registry.handler = c => LockFree /\ registry.writer = out[c]
    BY <1>0, <2>2 DEF RegistryInv
  <2>6. QED
    BY <1>0, <2>2, <2>3, <2>4, <2>5 DEF RegistryInv, ReopenFindsLog, LockFree
<1>9. ASSUME NEW s \in Sessions, AlogOn(s)
      PROVE  RegistryInv' /\ ReopenFindsLog'
  <2>1. Appended(session[s].handler, s) /\ session[s].handler \in Conf
    BY <1>0, <1>9, AlogOnFacts
  <2>2. UNCHANGED <<stage, out, registry, swap>>
    BY <1>9 DEF AlogOn
  <2>3. \A c \in Conf : \A w : w \in Attached(c) => w \in Attached(c)'
    BY <2>1, StillAttached
  <2>4. QED
    BY <1>0, <2>2, <2>3 DEF RegistryInv, ReopenFindsLog, LockFree
<1>10. CASE Reopen
  <2> DEFINE h == registry.handler
  <2>1. PICK f \in FileWriters :
          /\ Exchanged(h, registry.writer, f)
          /\ swap' = [old |-> registry.writer, new |-> f]
    BY <1>0, <1>10, ReopenFacts
  <2>2. /\ h \in Conf /\ LockFree
        /\ UNCHANGED <<stage, out, registry>>
        /\ ~InSetup(h)
    BY <1>0, <1>10, ReopenFacts DEF Reopen
  <2>3. ~LockFree'
    <3>1. registry.writer # NoWriter
      BY <1>0, <1>10, ReopenFacts, NumbersNotSessions
    <3>2. QED
      BY <2>1, <3>1 DEF LockFree, NoSwap
  <2>4. stage[h] \in Logging => swap'.new \in Attached(h)'
    <3>1. SUFFICES ASSUME stage[h] \in Logging PROVE f \in Attached(h)'
      BY <2>1
    <3>2. registry.writer \in Attached(h)
      BY <1>0, <2>2, <3>1 DEF ReopenFindsLog
    <3>3. PICK i \in DOMAIN writers[h] : writers[h][i] = registry.writer
      BY <3>2 DEF Attached, Range
    <3>4. i \in DOMAIN writers'[h] /\ writers'[h][i] = f
      BY <2>1, <2>2, <3>3 DEF Exchanged
    <3>5. f \in Range(writers'[h])
      <4> HIDE DEF h
      <4>1. QED
        BY <3>4 DEF Range
    <3>6. QED
      BY <2>2, <3>5 DEF Attached
  <2>5. stage[h] \notin {"none", "opened", "registered", "unregistered", "done"}
    BY <1>0, <2>2 DEF RegistryInv, InSetup
  <2>6. RegistryInv'
    BY <2>2, <2>4, <2>5 DEF RegistryInv
  <2>7. QED
    BY <2>3, <2>6 DEF ReopenFindsLog
<1>11. ASSUME NEW c \in Conf, CleanupDetach(c)
       PROVE  RegistryInv' /\ ReopenFindsLog'
  <2>1. OthersKept(c)
    BY <1>0, <1>11, DetachFacts
  <2>2. /\ UNCHANGED <<out, registry, swap>>
        /\ stage'[c] = "off"
        /\ \A d \in Conf : d # c => stage'[d] = stage[d]
    BY <1>0, <1>11 DEF CleanupDetach, TypeOK
  <2>3. \A d \in Conf : d # c => Attached(d)' = Attached(d)
    BY <2>1 DEF OthersKept, Attached
  <2>4. QED
    BY <1>0, <2>2, <2>3 DEF RegistryInv, ReopenFindsLog, LockFree
<1>12. ASSUME NEW s \in Sessions, AlogOff(s)
       PROVE  RegistryInv' /\ ReopenFindsLog'
  <2>1. PICK at : Removed(session[s].handler, s, at)
    BY <1>0, <1>12, AlogOffFacts
  <2>2. session[s].handler \in Conf /\ UNCHANGED <<stage, out, registry, swap>>
    BY <1>0, <1>12, AlogOffFacts DEF AlogOff
  <2>3. \A c \in Conf : \A w : w # s /\ w \in Attached(c) => w \in Attached(c)'
    BY <2>1, <2>2, StillAttached
  <2>4. \A c \in Conf : registry.handler = c => registry.writer # s
    BY <1>0, <1>n DEF TypeOK, NoEntry
  <2>5. ~LockFree => swap.new # s
    BY <1>0, <1>n DEF TypeOK, LockFree
  <2>6. QED
    BY <1>0, <2>2, <2>3, <2>4, <2>5 DEF RegistryInv, ReopenFindsLog, LockFree
<1>13. QED
  BY <1>7, <1>8, <1>9, <1>10, <1>11, <1>12, Steps

\* The file that is about to be closed is in no handler, ...
LEMMA StepSwap ==
  QuietSetup /\ IInv /\ QInv /\ [Next]_vars => SwapInv'
<1> SUFFICES ASSUME QuietSetup, IInv, QInv, [Next]_vars PROVE SwapInv'
  OBVIOUS
<1>0. /\ TypeOK /\ StageInv /\ NumberingInv /\ OwnerInv
      /\ RegistryInv /\ SwapInv
  BY DEF IInv, QInv
<1>n. /\ opened \in Nat /\ 0 \notin Conf
      /\ \A s \in Sessions : s \notin Files
      /\ Files \subseteq FileWriters /\ Files \subseteq Nat
      /\ NoWriter \notin Files /\ 0 \notin Files
  BY <1>0, NumbersNotSessions DEF TypeOK
<1> DEFINE Held == {registry.writer, swap.old, swap.new}
<1>f. \A f \in Files \cap Held : f <= opened
  BY <1>0 DEF NumberingInv
<1>1. ASSUME NEW c \in Conf, OpenLog(c) PROVE SwapInv'
  <2>1. PICK f \in FileWriters : Open(f) /\ out' = [out EXCEPT ![c] = f]
    BY <1>1 DEF OpenLog
  <2>2. f \in Files => f \in Nat /\ opened < f
    BY <1>0, <1>n, <2>1, OpenTypes
  <2>3. /\ UNCHANGED <<writers, registry, swap>>
        /\ \A d \in Conf : d # c => out'[d] = out[d] /\ stage'[d] = stage[d]
        /\ out'[c] = f
    BY <1>0, <1>1, <2>1 DEF OpenLog, TypeOK
  <2>4. \A g \in Files \cap Held : g # f
    BY <1>n, <1>f, <2>2
  <2>5. ASSUME NEW d \in Conf, InSetup(d)'
        PROVE  (d # c /\ InSetup(d) /\ out'[d] = out[d])
                 \/ \A g \in Files \cap Held : out'[d] # g
    BY <2>3, <2>4, <2>5 DEF InSetup
  <2>6. OnlyIn(registry.writer, registry.handler)'
    BY <1>0, <2>3, <2>5 DEF SwapInv, OnlyIn
  <2>7. OnlyIn(swap.new, registry.handler)' /\ OnlyIn(swap.old, 0)'
    BY <1>0, <2>3, <2>5 DEF SwapInv, OnlyIn
  <2>8. QED
    BY <2>6, <2>7 DEF SwapInv
<1>2. ASSUME NEW c \in Conf, Register(c) PROVE SwapInv'
  <2>1. /\ UNCHANGED <<out, writers, swap>> /\ LockFree
        /\ stage[c] = "opened"
        /\ \A d \in Conf : InSetup(d)' => InSetup(d)
        /\ registry' = [handler |-> c, writer |-> out[c]]
    BY <1>0, <1>2 DEF Register, TypeOK, InSetup
  <2>2. OnlyIn(out[c], c)'
    BY <1>0, <2>1 DEF OwnerInv, OnlyIn
  <2>3. swap.new \notin Files /\ swap.old \notin Files
    BY <1>n, <2>1 DEF LockFree, NoSwap
  <2>4. QED
    BY <2>1, <2>2, <2>3 DEF SwapInv, OnlyIn
<1>3. ASSUME NEW c \in Conf, Unregister(c) PROVE SwapInv'
  <2>1. /\ registry' = NoEntry /\ swap' = NoSwap
    BY <1>3 DEF Unregister, LockFree
  <2>2. QED
    BY <1>n, <2>1 DEF SwapInv, OnlyIn, NoEntry, NoSwap
<1>4. ASSUME NEW c \in Conf,
             WithoutLog(c) \/ Serve(c) \/ Stop(c) \/ CleanupClose(c)
      PROVE  SwapInv'
  <2>1. /\ UNCHANGED <<out, writers, registry, swap>>
        /\ \A d \in Conf : InSetup(d)' => InSetup(d)
    BY <1>0, <1>4 DEF WithoutLog, Serve, Stop, CleanupClose, InSetup, TypeOK
  <2>2. QED
    BY <1>0, <2>1 DEF SwapInv, OnlyIn
<1>5. CASE CloseOld
  <2>1. /\ UNCHANGED <<stage, out, writers>>
        /\ swap' = NoSwap
        /\ registry'.handler = registry.handler
        /\ registry'.writer = swap.new
    BY <1>0, <1>5 DEF CloseOld, ReopenedEntry, TypeOK, StageInv
  <2>2. QED
    BY <1>0, <1>n, <2>1 DEF SwapInv, OnlyIn, NoSwap, InSetup
<1>6. ASSUME UNCHANGED <<stage, out, writers, registry, swap>> PROVE SwapInv'
  BY <1>0, <1>6 DEF SwapInv, OnlyIn, InSetup
<1>7. CASE PlainStep
  <2>1. \/ \E c \in Conf :
             OpenLog(c) \/ WithoutLog(c) \/ Register(c) \/ Serve(c) \/ Stop(c)
               \/ Unregister(c) \/ CleanupClose(c)
        \/ CloseOld
        \/ UNCHANGED <<stage, out, writers, registry, swap>>
    BY <1>7 DEF PlainStep, AlogInvoke, Disconnect, EndRequest, BeginRequest,
       vars
  <2>2. QED
    BY <1>1, <1>2, <1>3, <1>4, <1>5, <1>6, <2>1
<1>8. ASSUME NEW c \in Conf, Attach(c) PROVE SwapInv'
  <2>1. Appended(c, out[c])
    BY <1>0, <1>8, AttachFacts
  <2>2. /\ UNCHANGED <<out, registry, swap>>
        /\ InSetup(c)
        /\ \A d \in Conf : InSetup(d)' => InSetup(d)
    BY <1>0, <1>8 DEF Attach, TypeOK, InSetup
  <2>3. \A d \in Conf : \A i \in DOMAIN writers'[d] :
          \/ \E j \in DOMAIN writers[d] : writers'[d][i] = writers[d][j]
          \/ d = c /\ writers'[d][i] = out[c]
    BY <2>1 DEF Appended
  <2>4. QED
    BY <1>0, <1>n, <2>2, <2>3 DEF SwapInv, OnlyIn
<1>9. ASSUME NEW s \in Sessions, AlogOn(s) PROVE SwapInv'
  <2>1. Appended(session[s].handler, s)
    BY <1>0, <1>9, AlogOnFacts
  <2>2. UNCHANGED <<stage, out, registry, swap>>
    BY <1>9 DEF AlogOn
  <2>3. \A d \in Conf : \A i \in DOMAIN writers'[d] :
          \/ \E j \in DOMAIN writers[d] : writers'[d][i] = writers[d][j]
          \/ writers'[d][i] \notin Files
    BY <1>n, <2>1 DEF Appended
  <2>4. QED
    BY <1>0, <2>2, <2>3 DEF SwapInv, OnlyIn, InSetup
<1>10. CASE Reopen
  <2> DEFINE h == registry.handler
             w == registry.writer
  <2>1. PICK f \in FileWriters :
          /\ Exchanged(h, w, f)
          /\ swap' = [old |-> w, new |-> f]
          /\ f \in Files => opened < f
    BY <1>0, <1>10, ReopenFacts
  <2>2. /\ UNCHANGED <<stage, out, registry>>
        /\ \A d \in Conf : ~InSetup(d)
    BY <1>10 DEF Reopen
  <2>3. f \in Files =>
          /\ f # w
          /\ \A d \in Conf : \A i \in DOMAIN writers[d] : writers[d][i] # f
    <3>1. f \in Files => f \in Nat /\ f \in FileWriters /\ ~ (f <= opened)
      BY <1>n, <2>1
    <3>2. QED
      BY <1>0, <3>1 DEF NumberingInv
  <2> HIDE DEF h, w
  <2>4. \A d \in Conf : \A i \in DOMAIN writers'[d] :
          /\ w \in Files /\ writers'[d][i] = w => writers[d][i] = w /\ d # h
          /\ f \in Files /\ writers'[d][i] = f => d = h
    BY <2>1, <2>3 DEF Exchanged
  <2>5. OnlyIn(w, h)
    BY <1>0 DEF SwapInv, w, h
  <2>6. /\ \A d \in Conf : ~InSetup(d)'
        /\ \A d \in Conf : \A i \in DOMAIN writers'[d] :
             w \in Files => writers'[d][i] # w
    <3>1. \A d \in Conf : ~InSetup(d)'
      BY <2>2 DEF InSetup
    <3>2. \A d \in Conf : \A i \in DOMAIN writers'[d] :
            w \in Files => writers'[d][i] # w
      BY <2>1, <2>4, <2>5 DEF OnlyIn, Exchanged
    <3>3. QED
      BY <3>1, <3>2
  <2>7. registry'.writer = w /\ registry'.handler = h
    BY <2>2 DEF w, h
  <2>8. swap'.old = w /\ swap'.new = f
    BY <2>1
  <2>9. QED
    BY <2>4, <2>6, <2>7, <2>8 DEF SwapInv, OnlyIn
<1>11. ASSUME NEW c \in Conf, CleanupDetach(c) PROVE SwapInv'
  <2>1. PICK at : Removed(c, out[c], at)
    BY <1>0, <1>11, DetachFacts
  <2>2. /\ UNCHANGED <<out, registry, swap>>
        /\ \A d \in Conf : InSetup(d)' => InSetup(d)
    BY <1>0, <1>11 DEF CleanupDetach, TypeOK, InSetup
  <2>3. \A d \in Conf : \A i \in DOMAIN writers'[d] :
          \E j \in DOMAIN writers[d] : writers'[d][i] = writers[d][j]
    BY <2>1 DEF Removed, RemovedIn
  <2>4. QED
    BY <1>0, <2>2, <2>3 DEF SwapInv, OnlyIn
<1>12. ASSUME NEW s \in Sessions, AlogOff(s) PROVE SwapInv'
  <2>1. PICK at : Removed(session[s].handler, s, at)
    BY <1>0, <1>12, AlogOffFacts
  <2>2. UNCHANGED <<stage, out, registry, swap>>
    BY <1>12 DEF AlogOff
  <2>3. \A d \in Conf : \A i \in DOMAIN writers'[d] :
          \E j \in DOMAIN writers[d] : writers'[d][i] = writers[d][j]
    BY <2>1 DEF Removed, RemovedIn
  <2>4. QED
    BY <1>0, <2>2, <2>3 DEF SwapInv, OnlyIn, InSetup
<1>13. QED
  BY <1>7, <1>8, <1>9, <1>10, <1>11, <1>12, Steps

\* ... so closing it leaves open what handlers write to.
LEMMA StepOpen ==
  QuietSetup /\ IInv /\ QInv /\ [Next]_vars => OpenInv'
<1> SUFFICES ASSUME QuietSetup, IInv, QInv, [Next]_vars PROVE OpenInv'
  OBVIOUS
<1>0. /\ TypeOK /\ StageInv /\ NumberingInv /\ OwnerInv
      /\ SwapInv /\ OpenInv
  BY DEF IInv, QInv
<1>n. /\ 0 \notin Conf
      /\ \A s \in Sessions : s \notin Files
      /\ Files \subseteq FileWriters
  BY NumbersNotSessions
<1>1. ASSUME NEW c \in Conf, OpenLog(c) PROVE OpenInv'
  <2>1. PICK f \in FileWriters : Open(f) /\ out' = [out EXCEPT ![c] = f]
    BY <1>1 DEF OpenLog
  <2>2. isOpen \subseteq isOpen' /\ (f \in Files => f \in isOpen')
    BY <1>0, <2>1, OpenTypes, NumbersNotSessions
  <2>3. /\ writers' = writers
        /\ \A d \in Conf : d # c => out'[d] = out[d] /\ stage'[d] = stage[d]
        /\ out'[c] = f
    BY <1>0, <1>1, <2>1 DEF OpenLog, TypeOK
  <2>4. QED
    BY <1>0, <2>2, <2>3 DEF OpenInv, InSetup
<1>2. ASSUME NEW c \in Conf, CleanupClose(c) PROVE OpenInv'
  <2>1. /\ UNCHANGED <<out, writers>>
        /\ isOpen' = isOpen \ {out[c]}
        /\ stage[c] = "unregistered" /\ stage'[c] = "done"
        /\ \A d \in Conf : d # c => stage'[d] = stage[d]
    BY <1>0, <1>2 DEF CleanupClose, CleanupCloses, TypeOK
  <2>2. \A d \in Conf : \A i \in DOMAIN writers[d] :
          writers[d][i] \in Files => writers[d][i] # out[c]
    BY <1>0, <2>1 DEF OwnerInv, StageInv, After
  <2>3. \A d \in Conf : d # c /\ out[d] \in Files => out[d] # out[c]
    BY <1>0 DEF OwnerInv
  <2>4. QED
    BY <1>0, <2>1, <2>2, <2>3 DEF OpenInv, InSetup
<1>3. ASSUME NEW c \in Conf,
             WithoutLog(c) \/ Register(c) \/ Serve(c) \/ Stop(c)
               \/ Unregister(c)
      PROVE  OpenInv'
  <2>1. /\ UNCHANGED <<out, writers, isOpen>>
        /\ \A d \in Conf : InSetup(d)' => InSetup(d)
    BY <1>0, <1>3 DEF WithoutLog, Register, Serve, Stop, Unregister,
       InSetup, TypeOK
  <2>2. QED
    BY <1>0, <2>1 DEF OpenInv
<1>4. CASE CloseOld
  <2>1. UNCHANGED <<stage, out, writers>> /\ isOpen' = isOpen \ {swap.old}
    BY <1>4 DEF CloseOld
  <2>2. swap.old \in Files => \A d \in Conf :
          /\ \A i \in DOMAIN writers[d] : writers[d][i] # swap.old
          /\ InSetup(d) => out[d] # swap.old
    BY <1>0, <1>n DEF SwapInv, OnlyIn
  <2>3. QED
    BY <1>0, <2>1, <2>2 DEF OpenInv, InSetup
<1>5. ASSUME UNCHANGED <<stage, out, writers, isOpen>> PROVE OpenInv'
  BY <1>0, <1>5 DEF OpenInv, InSetup
<1>6. CASE PlainStep
  <2>1. \/ \E c \in Conf :
             OpenLog(c) \/ WithoutLog(c) \/ Register(c) \/ Serve(c) \/ Stop(c)
               \/ Unregister(c) \/ CleanupClose(c)
        \/ CloseOld
        \/ UNCHANGED <<stage, out, writers, isOpen>>
    BY <1>6 DEF PlainStep, AlogInvoke, Disconnect, EndRequest, BeginRequest,
       vars
  <2>2. QED
    BY <1>1, <1>2, <1>3, <1>4, <1>5, <2>1
<1>7. ASSUME NEW c \in Conf, Attach(c) PROVE OpenInv'
  <2>1. Appended(c, out[c])
    BY <1>0, <1>7, AttachFacts
  <2>2. /\ UNCHANGED <<out, isOpen>>
        /\ InSetup(c)
        /\ \A d \in Conf : InSetup(d)' => InSetup(d)
    BY <1>0, <1>7 DEF Attach, TypeOK, InSetup
  <2>3. out[c] \in Files => out[c] \in isOpen
    BY <1>0, <2>2 DEF OpenInv
  <2>4. \A d \in Conf : \A i \in DOMAIN writers'[d] :
          writers'[d][i] \in Files => writers'[d][i] \in isOpen
    BY <1>0, <2>1, <2>3 DEF OpenInv, Appended
  <2>5. QED
    BY <1>0, <2>2, <2>4 DEF OpenInv
<1>8. ASSUME NEW s \in Sessions, AlogOn(s) PROVE OpenInv'
  <2>1. Appended(session[s].handler, s)
    BY <1>0, <1>8, AlogOnFacts
  <2>2. UNCHANGED <<stage, out, isOpen>>
    BY <1>8 DEF AlogOn
  <2>3. \A d \in Conf : \A i \in DOMAIN writers'[d] :
          writers'[d][i] \in Files => writers'[d][i] \in isOpen
    BY <1>0, <1>n, <2>1 DEF OpenInv, Appended
  <2>4. QED
    BY <1>0, <2>2, <2>3 DEF OpenInv, InSetup
<1>9. CASE Reopen
  <2>1. PICK f \in FileWriters :
          /\ Exchanged(registry.handler, registry.writer, f)
          /\ isOpen' = isOpen \cup ({f} \cap Files)
    BY <1>0, <1>9, ReopenFacts
  <2>2. UNCHANGED <<stage, out>>
    BY <1>9 DEF Reopen
  <2>3. \A d \in Conf : \A i \in DOMAIN writers'[d] :
          writers'[d][i] \in Files => writers'[d][i] \in isOpen'
    BY <1>0, <2>1 DEF OpenInv, Exchanged
  <2>4. QED
    BY <1>0, <2>1, <2>2, <2>3 DEF OpenInv, InSetup
<1>10. ASSUME NEW c \in Conf, CleanupDetach(c) PROVE OpenInv'
  <2>1. PICK at : Removed(c, out[c], at)
    BY <1>0, <1>10, DetachFacts
  <2>2. /\ UNCHANGED <<out, isOpen>>
        /\ \A d \in Conf : InSetup(d)' => InSetup(d)
    BY <1>0, <1>10 DEF CleanupDetach, TypeOK, InSetup
  <2>3. \A d \in Conf : \A i \in DOMAIN writers'[d] :
          \E j \in DOMAIN writers[d] : writers'[d][i] = writers[d][j]
    BY <2>1 DEF Removed, RemovedIn
  <2>4. QED
    BY <1>0, <2>2, <2>3 DEF OpenInv
<1>11. ASSUME NEW s \in Sessions, AlogOff(s) PROVE OpenInv'
  <2>1. PICK at : Removed(session[s].handler, s, at)
    BY <1>0, <1>11, AlogOffFacts
  <2>2. UNCHANGED <<stage, out, isOpen>>
    BY <1>11 DEF AlogOff
  <2>3. \A d \in Conf : \A i \in DOMAIN writers'[d] :
          \E j \in DOMAIN writers[d] : writers'[d][i] = writers[d][j]
    BY <2>1 DEF Removed, RemovedIn
  <2>4. QED
    BY <1>0, <2>2, <2>3 DEF OpenInv, InSetup
<1>12. QED
  BY <1>6, <1>7, <1>8, <1>9, <1>10, <1>11, Steps

\* The part of the invariant that needs QuietSetup holds at the beginning.
LEMMA InitQInv == Init => QInv
<1> SUFFICES ASSUME Init PROVE QInv
  OBVIOUS
<1> USE DEF Init
<1>1. \A c \in Conf : writers[c] = <<>> /\ DOMAIN writers[c] = {} /\ c # 0
  BY NumbersNotSessions
<1>2. FirstInv
  <2>1. \A r \in Requests : DOMAIN request[r].writers = {}
    BY DEF Idle
  <2>2. QED
    BY <1>1, <2>1 DEF FirstInv
<1>3. RegistryInv /\ ReopenFindsLog
  BY <1>1 DEF RegistryInv, ReopenFindsLog, NoEntry
<1>4. SwapInv
  BY NumbersNotSessions DEF SwapInv, OnlyIn, NoEntry, NoSwap
<1>5. OpenInv
  BY <1>1 DEF OpenInv, InSetup
<1>6. QED
  BY <1>2, <1>3, <1>4, <1>5 DEF QInv

\* While handlers are wired up undisturbed: where the file of a handler is, and
\* what the registry knows of it.
THEOREM QuietInvariance == QuietSetup /\ Spec => [](IInv /\ QInv)
<1>1. QuietSetup /\ IInv /\ QInv /\ [Next]_vars => QInv'
  BY StepFirst, StepRegistry, StepSwap, StepOpen DEF QInv
<1>2. QuietSetup /\ IInv /\ QInv /\ [Next]_vars => (IInv /\ QInv)'
  BY <1>1, StepIInv
<1>3. CASE QuietSetup
  BY <1>2, <1>3, InitIInv, InitQInv, PTL DEF Spec
<1>4. QED
  BY <1>3

\* No handler writes to a file that was closed, when no reopening and no
\* session comes between registering a log and attaching it: the swap of
\* ReopenAccessLogFiles and the cleanup close what is attached nowhere.
THEOREM AttachedFilesAreOpen == QuietSetup /\ Spec => []AttachedIsOpen
<1>1. IInv /\ QInv => AttachedIsOpen
  BY DEF QInv, OpenInv, AttachedIsOpen, Attached, Range
<1>2. QED
  BY <1>1, QuietInvariance, PTL

\* Under the same assumption, the file the registry names is the one its
\* handler writes to: the next reopening swaps it.
THEOREM ReopeningFindsTheLog == QuietSetup /\ Spec => []ReopenFindsLog
<1>1. IInv /\ QInv => ReopenFindsLog
  BY DEF QInv
<1>2. QED
  BY <1>1, QuietInvariance, PTL

\* Under the same assumption, a request whose log file is still attached when
\* it ends gets its line there, since the file comes before any session in the
\* MultiWriter it holds.
THEOREM LinesReachTheLog == QuietSetup /\ Spec => LineReachesLog
<1>1. ASSUME IInv, QInv, NEW r \in Requests, request[r] # Idle,
             NEW f \in Files \cap Range(request[r].writers),
             f \in Attached(request[r].handler)
      PROVE  GetsLine(r, f)
  <2>1. request[r].handler \in Conf
    BY <1>1 DEF IInv, TypeOK
  <2>2. f \in isOpen
    BY <1>1, <2>1 DEF QInv, OpenInv, Attached, Range
  <2>3. PICK i \in DOMAIN request[r].writers : request[r].writers[i] = f
    BY <1>1 DEF Range
  <2>4. i = 1
    BY <1>1, <2>3, NumbersNotSessions DEF QInv, FirstInv
  <2>5. \A j \in 1 .. i : Works(request[r].writers[j])
    BY <2>2, <2>3, <2>4 DEF Works
  <2>6. QED
    BY <2>3, <2>5 DEF GetsLine
<1>2. IInv /\ QInv =>
        [\A r \in Requests :
           request[r] # Idle /\ request'[r] = Idle =>
             \A f \in Files \cap Range(request[r].writers) :
               f \in Attached(request[r].handler) => GetsLine(r, f)]_request
  BY <1>1
<1>3. QED
  BY <1>2, QuietInvariance, PTL DEF LineReachesLog

=============================================================================
