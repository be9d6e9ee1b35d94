-------------------------- MODULE MapReduce_proofs --------------------------
(* What exec promises for any nodes, keys, map functions and executions.     *)
EXTENDS MapReduce, WellFoundedInduction, TLAPS

----------------------------------------------------------------------------
(* Induction and recursion *)

\* A statement about numbers, as the set of those it holds for, holds for all
\* when it holds for 0 and from each for the next.
LEMMA SetInduction ==
  ASSUME NEW P, 0 \in P, \A n \in Nat : n \in P => n + 1 \in P
  PROVE  Nat \subseteq P
<1> DEFINE T == {n \in Nat : n \notin P}
<1>1. SUFFICES ASSUME T # {} PROVE FALSE
  OBVIOUS
<1>2. T \subseteq Nat
  OBVIOUS
<1> HIDE DEF T
<1>3. PICK x \in T : \A y \in T : ~(<<y, x>> \in OpToRel(<, Nat))
  BY <1>1, <1>2, NatLessThanWellFounded, WFMin, Zenon
<1> USE DEF T
<1>4. x \in Nat /\ x \notin P /\ \A y \in T : ~(y < x)
  BY <1>3 DEF OpToRel
<1>5. x # 0 /\ x - 1 \in Nat /\ x - 1 < x
  BY <1>4
<1>6. x - 1 \in P
  BY <1>4, <1>5
<1>7. (x - 1) + 1 \in P
  BY <1>5, <1>6
<1>8. QED BY <1>4, <1>5, <1>7

\* The functions that start with a and go on by the steps g.
Recursions(S, a, N, g) == {f \in [0..N -> S] : f[0] = a /\ \A i \in 1..N : f[i] = g[i][f[i - 1]]}

\* A function can be defined by recursion on the numbers up to a bound.
LEMMA RecursionExists ==
  ASSUME NEW S, NEW a \in S, NEW N \in Nat, NEW g \in [1..N -> [S -> S]]
  PROVE  Recursions(S, a, N, g) # {}
<1> DEFINE Good(n, f) == f[0] = a /\ \A i \in 1..n : f[i] = g[i][f[i - 1]]
           P == {n \in Nat : n <= N => \E f \in [0..n -> S] : Good(n, f)}
<1>1. 0 \in P
  <2>1. [i \in 0..0 |-> a] \in [0..0 -> S] /\ Good(0, [i \in 0..0 |-> a])
    OBVIOUS
  <2>2. QED BY <2>1
<1>2. ASSUME NEW n \in Nat, n \in P PROVE n + 1 \in P
  <2>1. SUFFICES ASSUME n + 1 <= N PROVE \E f \in [0..(n + 1) -> S] : Good(n + 1, f)
    OBVIOUS
  <2>2. PICK f \in [0..n -> S] : Good(n, f)
    BY <1>2, <2>1
  <2> DEFINE h == [i \in 0..(n + 1) |-> IF i = n + 1 THEN g[n + 1][f[n]] ELSE f[i]]
  <2>3. n \in 0..n /\ n + 1 \in 1..N /\ f[n] \in S
    BY <2>1, <2>2
  <2>4. g[n + 1][f[n]] \in S
    BY <2>3
  <2>5. h \in [0..(n + 1) -> S]
    BY <2>2, <2>4
  <2>6. h[0] = a
    BY <2>2
  <2>7. ASSUME NEW i \in 1..(n + 1) PROVE h[i] = g[i][h[i - 1]]
    <3>1. CASE i = n + 1
      <4>1. h[i] = g[n + 1][f[n]] /\ h[i - 1] = f[n]
        BY <3>1
      <4> HIDE DEF h
      <4>2. QED BY <3>1, <4>1
    <3>2. CASE i # n + 1
      <4>1. i \in 1..n /\ i - 1 \in 0..n /\ h[i] = f[i] /\ h[i - 1] = f[i - 1]
        BY <3>2
      <4> HIDE DEF h
      <4>2. QED BY <2>2, <4>1
    <3>3. QED BY <3>1, <3>2
  <2> HIDE DEF h
  <2>8. QED BY <2>5, <2>6, <2>7
<1>3. N \in P
  <2>1. Nat \subseteq P
    <3> HIDE DEF P
    <3>1. QED BY <1>1, <1>2, SetInduction
  <2>2. QED BY <2>1
<1>4. QED BY <1>3 DEF Recursions

----------------------------------------------------------------------------
(* Where the values come from *)

\* What a round makes of the origins of its input.
Gathered(p, r, before) == [o \in Keys |-> UNION {before[k] : k \in {i \in Inputs(p, r) : o \in Emits[i]}}]
Given(p) == [o \in Keys |-> {o} \cap p.keys]
OriginMaps == [Keys -> SUBSET Keys]

LEMMA Constants ==
  ASSUME NEW p \in Plans
  PROVE  /\ p.rounds \in Nat /\ p.rounds >= 1 /\ p.keys \subseteq Keys
         /\ p.deleteInput \in BOOLEAN /\ p.output \in BOOLEAN /\ p.faulty \in BOOLEAN
         /\ p.owner \in [0..(p.rounds - 1) -> [Keys -> Nodes]]
         /\ p.yields \in [Keys -> {"pair", "empty", "throws"}]
         /\ p.faulty \/ p.at \in Nodes => p.rounds = 1
         /\ \A r : Inputs(p, r) \subseteq p.keys
BY MapReduceAssumption DEF Inputs

LEMMA HomesAndEmits ==
  ASSUME NEW k \in Keys
  PROVE  Home[k] \in Nodes /\ Emits[k] \subseteq Keys
BY MapReduceAssumption

\* Origins is the function its recursive definition describes.
LEMMA OriginsOfRounds ==
  ASSUME NEW p \in Plans
  PROVE  /\ Origins(p) \in [0..p.rounds -> OriginMaps]
         /\ Origins(p)[0] = Given(p)
         /\ \A r \in 1..p.rounds : Origins(p)[r] = Gathered(p, r, Origins(p)[r - 1])
<1> DEFINE N == p.rounds
           g == [i \in 1..N |-> [x \in OriginMaps |-> Gathered(p, i, x)]]
           Def(f) == f = [r \in 0..N |-> [o \in Keys |->
                            IF r = 0 THEN {o} \cap p.keys
                            ELSE UNION {f[r - 1][k] : k \in {i \in Inputs(p, r) : o \in Emits[i]}}]]
           origins == CHOOSE f : Def(f)
<1>1. N \in Nat /\ p.keys \subseteq Keys
  BY Constants
<1>2. Given(p) \in OriginMaps
  BY <1>1 DEF Given, OriginMaps
<1>3. \A r : \A x \in OriginMaps : Gathered(p, r, x) \in OriginMaps
  <2>1. \A r : Inputs(p, r) \subseteq Keys
    BY <1>1, Constants
  <2>2. QED BY <2>1 DEF Gathered, OriginMaps
<1>4. g \in [1..N -> [OriginMaps -> OriginMaps]] /\ \A i \in 1..N, x \in OriginMaps : g[i][x] = Gathered(p, i, x)
  BY <1>3
<1>5. Origins(p) = origins
  BY DEF Origins
<1> HIDE DEF N, g
<1>6. PICK f \in [0..N -> OriginMaps] : f[0] = Given(p) /\ \A i \in 1..N : f[i] = g[i][f[i - 1]]
  <2>1. Recursions(OriginMaps, Given(p), N, g) # {}
    BY <1>1, <1>2, <1>4, RecursionExists
  <2>2. QED BY <2>1 DEF Recursions
<1>7. \A i \in 1..N : f[i] = Gathered(p, i, f[i - 1])
  <2>1. ASSUME NEW i \in 1..N PROVE f[i] = Gathered(p, i, f[i - 1])
    <3>1. i - 1 \in 0..N
      BY <1>1
    <3>2. f[i - 1] \in OriginMaps /\ f[i] = g[i][f[i - 1]]
      BY <1>6, <3>1
    <3>3. QED BY <1>4, <3>2
  <2>2. QED BY <2>1
<1>8. Def(f)
  <2> DEFINE H(r) == [o \in Keys |-> IF r = 0 THEN {o} \cap p.keys
                        ELSE UNION {f[r - 1][k] : k \in {i \in Inputs(p, r) : o \in Emits[i]}}]
  <2>1. ASSUME NEW r \in 0..N PROVE f[r] = H(r)
    <3>1. CASE r = 0
      BY <1>6, <3>1 DEF Given
    <3>2. CASE r # 0
      <4>1. r \in 1..N
        BY <1>1, <3>2
      <4>2. f[r] = Gathered(p, r, f[r - 1])
        BY <1>7, <4>1
      <4>3. QED BY <3>2, <4>2 DEF Gathered
    <3>3. QED BY <3>1, <3>2
  <2> HIDE DEF H
  <2>2. f = [r \in 0..N |-> H(r)]
    BY <1>6, <2>1
  <2>3. QED BY <2>2 DEF H
<1>9. Def(origins)
  BY <1>8
<1> DEFINE o0 == origins
<1>10. \A h : Def(h) => h = f
  <2>1. SUFFICES ASSUME NEW h, Def(h) PROVE h = f
    OBVIOUS
  <2>2. h[0] = Given(p) /\ \A r \in 1..N : h[r] = Gathered(p, r, h[r - 1])
    <3>1. 0 \in 0..N /\ \A r \in 1..N : r \in 0..N /\ r # 0
      BY <1>1
    <3>2. \A r \in 0..N : h[r] = [o \in Keys |-> IF r = 0 THEN {o} \cap p.keys
                            ELSE UNION {h[r - 1][k] : k \in {i \in Inputs(p, r) : o \in Emits[i]}}]
      BY <2>1, Zenon
    <3>3. h[0] = Given(p)
      BY <3>1, <3>2 DEF Given
    <3>4. ASSUME NEW r \in 1..N PROVE h[r] = Gathered(p, r, h[r - 1])
      BY <3>1, <3>2 DEF Gathered
    <3>5. QED BY <3>3, <3>4
  <2> DEFINE P == {n \in Nat : n <= N => h[n] = f[n]}
  <2>3. 0 \in P
    BY <1>6, <2>2
  <2>4. ASSUME NEW n \in Nat, n \in P PROVE n + 1 \in P
    <3>1. SUFFICES ASSUME n + 1 <= N PROVE h[n + 1] = f[n + 1]
      OBVIOUS
    <3>2. h[n] = f[n] /\ n + 1 \in 1..N /\ (n + 1) - 1 = n
      BY <1>1, <2>4, <3>1
    <3>3. QED BY <1>7, <2>2, <3>2
  <2>5. Nat \subseteq P
    <3> HIDE DEF P
    <3>1. QED BY <2>3, <2>4, SetInduction
  <2>6. \A r \in 0..N : h[r] = f[r]
    BY <1>1, <2>5
  <2>7. DOMAIN h = 0..N /\ h = [r \in 0..N |-> h[r]]
    BY <2>1
  <2>8. QED BY <1>6, <2>6, <2>7
<1>11. Origins(p) = f
  BY <1>5, <1>9, <1>10
<1>12. QED BY <1>6, <1>7, <1>11 DEF N

\* A key of the input comes from itself.
LEMMA InputFits ==
  ASSUME NEW p \in Plans, NEW k \in Keys
  PROVE  Origins(p)[0][k] = {k} \cap p.keys
BY OriginsOfRounds DEF Given

\* A key of the next round comes from what the keys that emit it come from.
LEMMA NextRound ==
  ASSUME NEW p \in Plans, NEW r \in 0..(p.rounds - 1), NEW o \in Keys
  PROVE  Origins(p)[r + 1][o] = UNION {Origins(p)[r][k] : k \in {i \in Inputs(p, r + 1) : o \in Emits[i]}}
<1>1. p.rounds \in Nat
  BY Constants
<1>2. r + 1 \in 1..p.rounds /\ (r + 1) - 1 = r
  BY <1>1
<1>3. Origins(p)[r + 1] = Gathered(p, r + 1, Origins(p)[r])
  BY <1>2, OriginsOfRounds
<1>4. QED BY <1>3 DEF Gathered

\* What map emits for a fitting value fits the next round.
LEMMA EmittedFits ==
  ASSUME NEW p \in Plans, NEW r \in 0..(p.rounds - 1), NEW k \in Inputs(p, r + 1), NEW o \in Emits[k], NEW X,
         X \subseteq Origins(p)[r][k]
  PROVE  X \subseteq Origins(p)[r + 1][o]
<1>1. k \in Keys /\ o \in Keys
  BY Constants, HomesAndEmits
<1>2. Origins(p)[r][k] \in {Origins(p)[r][i] : i \in {i \in Inputs(p, r + 1) : o \in Emits[i]}}
  OBVIOUS
<1>3. QED BY <1>1, <1>2, NextRound

----------------------------------------------------------------------------
(* The inductive invariant *)

Pairs == Keys \X SUBSET Keys
\* The values come from keys that belong to theirs.
Fits(V, r) == \A v \in V : v[2] \subseteq Origins(plan)[r][v[1]]
OnePerKey(V) == \A v, w \in V : v[1] = w[1] => v = w
\* The node that the values of a key are shuffled to.
Own(o) == plan.owner[round][o]
\* What the reduce of node n may make.
MadeBy(n, V) == \A v \in V : Own(v[1]) = n /\ plan.yields[v[1]] = "pair"

Types ==
  /\ plan \in Plans /\ round \in 0..(plan.rounds - 1)
  /\ phase \in {"install", "map", "shuffle", "reduce", "done", "error"}
  /\ call \in [Nodes -> {"none", "sent", "running", "silent", "answered", "failed"}]
  /\ job \in [Nodes -> {"none", "mapping", "shuffling"}]
  /\ up \subseteq Nodes /\ results \subseteq Pairs
  /\ reads \in [Nodes -> SUBSET Keys] /\ puts \in [Nodes -> SUBSET Keys]
  /\ values \in [Nodes -> SUBSET Pairs] /\ mapped \in [Nodes -> SUBSET Pairs]
  /\ reduced \in [Nodes -> SUBSET Pairs] /\ stores \in [Nodes -> SUBSET Keys]
  /\ mem \in [Nodes -> [Keys -> SUBSET Keys]]
  /\ store \in [0..plan.rounds -> [Keys -> SUBSET Keys]]

\* A request belongs to its phase, and so does what runs for it.
Called(n) ==
  /\ call[n] # "none" => phase \in {"map", "shuffle", "reduce"}
  /\ call[n] = "running" => \/ phase = "map" /\ job[n] = "mapping"
                            \/ phase = "shuffle" /\ job[n] = "shuffling"
                            \/ phase = "reduce" /\ stores[n] # {}
  /\ call[n] = "silent" => phase = "reduce"
  /\ reads[n] \subseteq Partition(n)

\* Without faults, and with the orchestrator outside the group, nothing
\* outlives the phase it belongs to, and only a reduce can fail.
Calm == ~plan.faulty /\ plan.at \notin Nodes
Undisturbed(n) ==
  /\ n \in up /\ (call[n] = "failed" => phase = "reduce")
  /\ job[n] # "none" => call[n] = "running" /\ phase # "reduce"
  /\ stores[n] # {} => call[n] = "running" /\ phase = "reduce"
  /\ mapped[n] # {} => \/ phase = "map" /\ call[n] = "answered"
                       \/ phase = "shuffle" /\ call[n] = "sent"
  /\ \A o \in Keys : mem[n][o] # {} => \/ phase = "shuffle"
                                       \/ phase = "reduce" /\ call[n] = "sent"

\* Whatever comes late, the values that a node works on are those of the round.
ValuesFit(n) ==
  /\ (job[n] # "none" \/ mapped[n] # {}) => Fits(values[n], round + 1)
  /\ stores[n] # {} => /\ phase \in {"reduce", "done"} /\ HasOutput
                       /\ Fits(reduced[n], round + 1) /\ OnePerKey(reduced[n]) /\ MadeBy(n, reduced[n])
                       /\ \A o \in stores[n] : \E v \in reduced[n] : v[1] = o
  /\ \A o \in Keys : mem[n][o] # {} =>
       Own(o) = n /\ mem[n][o] \subseteq Origins(plan)[round + 1][o]

\* The last of several rounds may store its output in the group it has read.
Overwritten(r) ==
  plan.rounds > 1 /\ r = round /\ round = plan.rounds - 1 /\ phase \in {"reduce", "done"}
StoreFits(r) ==
  ~Overwritten(r) => \A k \in Keys : /\ store[r][k] \subseteq Origins(plan)[r][k]
                                     /\ store[r][k] # {} => r = 0 \/ plan.yields[k] = "pair"

\* A node has given its results once it has answered the reduce.
ResultsFit ==
  /\ results # {} => phase \in {"reduce", "done"}
  /\ Fits(results, round + 1) /\ OnePerKey(results)
  /\ \A v \in results : plan.yields[v[1]] = "pair"
  /\ phase = "reduce" => \A v \in results : call[Own(v[1])] = "answered"
  /\ phase = "done" => round = plan.rounds - 1

Local(n) == Called(n) /\ ValuesFit(n) /\ (Calm => Undisturbed(n))
Safe ==
  /\ Types
  /\ \A n \in Nodes : Local(n)
  /\ \A r \in 0..plan.rounds : StoreFits(r)
  /\ ResultsFit

----------------------------------------------------------------------------
(* Steps that leave most of the state alone *)

Steady == plan' = plan /\ round' = round /\ phase' = phase
SameAt(m) ==
  /\ call'[m] = call[m] /\ job'[m] = job[m] /\ reads'[m] = reads[m] /\ puts'[m] = puts[m]
  /\ values'[m] = values[m] /\ mapped'[m] = mapped[m] /\ mem'[m] = mem[m]
  /\ reduced'[m] = reduced[m] /\ stores'[m] = stores[m]
  /\ m \in up => m \in up'

\* The owners are nodes, and those of the round do not change.
LEMMA OwnersOfRound ==
  ASSUME plan \in Plans, round \in 0..(plan.rounds - 1)
  PROVE  /\ \A o \in Keys : Own(o) \in Nodes
         /\ Steady => \A o : Own(o)' = Own(o)
<1>1. plan.owner \in [0..(plan.rounds - 1) -> [Keys -> Nodes]]
  BY Constants
<1>2. QED BY <1>1 DEF Own, Steady

LEMMA LocalKeeps ==
  ASSUME NEW m \in Nodes, Local(m), Steady, SameAt(m)
  PROVE  Local(m)'
<1>1. Called(m)'
  BY DEF Local, Called, Steady, SameAt, Partition
<1>2. ValuesFit(m)'
  BY DEF Local, ValuesFit, Steady, SameAt, Fits, OnePerKey, MadeBy, Own, HasOutput
<1>3. (Calm => Undisturbed(m))'
  BY DEF Local, Undisturbed, Calm, Steady, SameAt
<1>4. QED BY <1>1, <1>2, <1>3 DEF Local

LEMMA StoreKeeps ==
  ASSUME Safe, Steady, store' = store
  PROVE  (\A r \in 0..plan.rounds : StoreFits(r))'
BY DEF Safe, Steady, StoreFits, Overwritten

LEMMA ResultsKeep ==
  ASSUME Safe, Steady, results' = results, \A m \in Nodes : call[m] = "answered" => call'[m] = "answered"
  PROVE  ResultsFit'
<1>1. results \subseteq Pairs /\ ResultsFit
  BY DEF Safe, Types
<1>2. \A v \in results : v[1] \in Keys /\ Own(v[1]) \in Nodes /\ Own(v[1])' = Own(v[1])
  BY <1>1, OwnersOfRound DEF Safe, Types, Pairs
<1>3. (phase = "reduce" => \A v \in results : call[Own(v[1])] = "answered")'
  BY <1>1, <1>2 DEF ResultsFit, Steady
<1>4. QED BY <1>1, <1>3 DEF ResultsFit, Steady, Fits, OnePerKey

\* A step of one node, of which the rest has to be shown.
LEMMA NodeStep ==
  ASSUME Safe, Steady, Types', NEW n \in Nodes, \A m \in Nodes \ {n} : SameAt(m),
         Local(n)', (\A r \in 0..plan.rounds : StoreFits(r))', ResultsFit'
  PROVE  Safe'
<1>1. ASSUME NEW m \in Nodes PROVE Local(m)'
  <2>1. Local(m)
    BY DEF Safe
  <2>2. QED BY <2>1, LocalKeeps
<1>2. QED BY <1>1 DEF Safe

LEMMA SafeFacts ==
  ASSUME Safe, NEW n \in Nodes
  PROVE  /\ plan \in Plans /\ round \in Int /\ 0 <= round /\ round < plan.rounds /\ plan.rounds \in Int
         /\ plan.keys \subseteq Keys /\ (~Calm => plan.rounds = 1)
         /\ Called(n) /\ ValuesFit(n) /\ (Calm => Undisturbed(n))
<1>1. plan \in Plans /\ round \in 0..(plan.rounds - 1) /\ Local(n)
  BY DEF Safe, Types
<1>2. QED BY <1>1, Constants DEF Local, Calm

----------------------------------------------------------------------------
(* The invariant holds at first and after each step *)

LEMMA InitSafe == Init => Safe
<1> SUFFICES ASSUME Init PROVE Safe
  OBVIOUS
<1>1. plan \in Plans /\ plan.rounds \in Nat /\ plan.rounds >= 1 /\ plan.keys \subseteq Keys
  BY Constants DEF Init
<1>2. Types
  BY <1>1 DEF Init, Types, Quiet, Empty
<1>3. ASSUME NEW n \in Nodes PROVE Local(n)
  BY <1>1, <1>3 DEF Init, Local, Called, ValuesFit, Undisturbed, Quiet, Empty
<1>4. ASSUME NEW r \in 0..plan.rounds, NEW k \in Keys
      PROVE  store[r][k] \subseteq Origins(plan)[r][k] /\ (store[r][k] # {} => r = 0)
  <2>1. CASE r = 0
    BY <1>1, <2>1, InputFits DEF Init
  <2>2. CASE r # 0
    BY <2>2 DEF Init
  <2>3. QED BY <2>1, <2>2
<1>5. ResultsFit
  BY DEF Init, ResultsFit, Fits, OnePerKey
<1>6. QED BY <1>2, <1>3, <1>4, <1>5 DEF Safe, StoreFits

LEMMA InstallSafe ==
  ASSUME Safe, NEW ok \in BOOLEAN, Install(ok)
  PROVE  Safe'
<1>1. /\ phase = "install" /\ phase' \in {"map", "error"} /\ plan' = plan /\ round' = round
      /\ UNCHANGED <<job, reads, puts, values, mapped, mem, reduced, stores, store, results, up>>
      /\ call' = call \/ (phase' = "map" /\ call' = Calls)
      /\ phase' = "error" => up # Nodes \/ plan.faulty
  BY DEF Install, reducing
<1>2. Types'
  BY <1>1 DEF Safe, Types, Calls
<1>3. ASSUME NEW n \in Nodes PROVE Local(n)'
  <2>1. Called(n) /\ ValuesFit(n) /\ (Calm => Undisturbed(n))
    BY SafeFacts
  <2>2. Called(n)'
    BY <1>1, <1>3, <2>1 DEF Called, Partition, Calls
  <2>3. ValuesFit(n)'
    BY <1>1, <2>1 DEF ValuesFit, Fits, OnePerKey, MadeBy, Own, HasOutput
  <2>4. Calm => Undisturbed(n)'
    BY <1>1, <2>1, <2>2 DEF Undisturbed, Called, Calls, Calm
  <2>5. QED BY <1>1, <2>2, <2>3, <2>4 DEF Local, Calm
<1>4. (\A r \in 0..plan.rounds : StoreFits(r))'
  BY <1>1 DEF Safe, StoreFits, Overwritten
<1>5. ResultsFit'
  BY <1>1 DEF Safe, ResultsFit, Fits, OnePerKey
<1>6. QED BY <1>2, <1>3, <1>4, <1>5 DEF Safe

LEMMA StartMapSafe ==
  ASSUME Safe, NEW n \in Nodes, StartMap(n)
  PROVE  Safe'
<1>1. /\ phase = "map" /\ call[n] = "sent" /\ job[n] = "none" /\ Steady /\ Types
      /\ UNCHANGED <<puts, mapped, mem, reduced, stores, store, results, up>>
      /\ reads' = [reads EXCEPT ![n] = Partition(n)] /\ values' = [values EXCEPT ![n] = {}]
      /\ \/ Partition(n) = {} /\ call' = [call EXCEPT ![n] = "answered"] /\ job' = job
         \/ call' = [call EXCEPT ![n] = "running"] /\ job' = [job EXCEPT ![n] = "mapping"]
  BY DEF StartMap, Arrives, Turn, Steady, Safe, reducing
<1>2. Called(n) /\ ValuesFit(n) /\ (Calm => Undisturbed(n)) /\ plan.keys \subseteq Keys
  BY SafeFacts
<1>3. Types'
  BY <1>1, <1>2 DEF Types, Steady, Partition
<1>4. \A m \in Nodes \ {n} : SameAt(m)
  BY <1>1 DEF SameAt, Types
<1>5. /\ reads'[n] = Partition(n) /\ values'[n] = {} /\ mem'[n] = mem[n] /\ mapped'[n] = mapped[n]
      /\ \/ call'[n] = "answered" /\ job'[n] = "none"
         \/ call'[n] = "running" /\ job'[n] = "mapping"
  BY <1>1 DEF Types
<1>6. Called(n)'
  BY <1>1, <1>2, <1>5 DEF Called, Partition, Steady
<1>7. ValuesFit(n)'
  BY <1>1, <1>2, <1>5 DEF ValuesFit, Fits, OnePerKey, MadeBy, Own, HasOutput, Steady
<1>8. (Calm => Undisturbed(n))'
  BY <1>1, <1>2, <1>5 DEF Undisturbed, Calm, Steady
<1>9. \A m \in Nodes : call[m] = "answered" => call'[m] = "answered"
  BY <1>1 DEF Types
<1>10. QED BY <1>1, <1>3, <1>4, <1>6, <1>7, <1>8, <1>9, NodeStep, StoreKeeps, ResultsKeep DEF Local

LEMMA ReadSafe ==
  ASSUME Safe, NEW n \in Nodes, NEW k \in Keys, NEW ok \in BOOLEAN, Read(n, k, ok)
  PROVE  Safe'
<1> DEFINE new == {<<o, Item(k)>> : o \in Emits[k]}
<1>1. /\ job[n] = "mapping" /\ k \in reads[n] /\ Steady /\ Types
      /\ UNCHANGED <<call, job, puts, mapped, mem, reduced, stores, store, results, up>>
      /\ reads' = [reads EXCEPT ![n] = @ \ {k}]
      /\ values' = values \/ (Item(k) # {} /\ values' = [values EXCEPT ![n] = @ \cup new])
  BY DEF Read, Steady, Safe, reducing
<1>2. /\ Called(n) /\ ValuesFit(n) /\ (Calm => Undisturbed(n)) /\ plan \in Plans /\ plan.keys \subseteq Keys
      /\ round \in 0..(plan.rounds - 1) /\ round \in 0..plan.rounds /\ (~Calm => plan.rounds = 1)
  BY SafeFacts DEF Safe, Types
<1>3. k \in plan.keys /\ Emits[k] \subseteq Keys
  BY <1>1, <1>2, HomesAndEmits DEF Called, Partition
<1>4. Item(k) \subseteq Origins(plan)[round][k] /\ (Item(k) # {} => k \in Inputs(plan, round + 1))
  <2>1. ~Overwritten(round)
    <3>1. phase \in {"reduce", "done"} /\ Calm => FALSE
      BY <1>1, <1>2 DEF Undisturbed, Called
    <3>2. QED BY <1>2, <3>1 DEF Overwritten
  <2>2. StoreFits(round)
    BY <1>2 DEF Safe
  <2>3. QED BY <1>1, <1>2, <1>3, <2>1, <2>2 DEF StoreFits, Item, Inputs, Types
<1>5. new \subseteq Pairs /\ (Item(k) # {} => Fits(new, round + 1))
  <2>1. Item(k) \subseteq Keys
    <3>1. k \in Keys /\ store[round] \in [Keys -> SUBSET Keys]
      BY <1>1, <1>2 DEF Types
    <3>2. QED BY <3>1 DEF Item
  <2>2. ASSUME NEW o \in Emits[k], Item(k) # {} PROVE Item(k) \subseteq Origins(plan)[round + 1][o]
    BY <1>2, <1>4, <2>2, EmittedFits
  <2>3. QED BY <1>3, <2>1, <2>2 DEF Pairs, Fits
<1> HIDE DEF new
<1>6. /\ reads'[n] = reads[n] \ {k} /\ mem'[n] = mem[n] /\ mapped'[n] = mapped[n]
      /\ values'[n] = values[n] \/ (Item(k) # {} /\ values'[n] = values[n] \cup new)
      /\ values' \in [Nodes -> SUBSET Pairs]
      /\ \A m \in Nodes \ {n} : reads'[m] = reads[m] /\ values'[m] = values[m]
  BY <1>1, <1>5 DEF Types
<1>7. Types'
  BY <1>1, <1>6 DEF Types, Steady
<1>8. \A m \in Nodes \ {n} : SameAt(m)
  BY <1>1, <1>6 DEF SameAt
<1>9. Called(n)'
  BY <1>1, <1>2, <1>6 DEF Called, Partition, Steady
<1>10. ValuesFit(n)'
  BY <1>1, <1>2, <1>5, <1>6 DEF ValuesFit, Fits, OnePerKey, MadeBy, Own, HasOutput, Steady
<1>11. (Calm => Undisturbed(n))'
  BY <1>1, <1>2, <1>6 DEF Undisturbed, Calm, Steady
<1>12. QED BY <1>1, <1>7, <1>8, <1>9, <1>10, <1>11, NodeStep, StoreKeeps, ResultsKeep DEF Local

LEMMA EndMapSafe ==
  ASSUME Safe, NEW n \in Nodes, NEW ok \in BOOLEAN, EndMap(n, ok)
  PROVE  Safe'
<1>1. /\ job[n] = "mapping" /\ Steady /\ Types
      /\ UNCHANGED <<reads, puts, values, mem, reduced, stores, store, results, up>>
      /\ job' = [job EXCEPT ![n] = "none"] /\ (ok \/ plan.faulty)
      /\ mapped' = IF ok THEN [mapped EXCEPT ![n] = values[n]] ELSE mapped
      /\ call' = IF phase = "map" /\ call[n] = "running"
                 THEN [call EXCEPT ![n] = IF ok THEN "answered" ELSE "failed"] ELSE call
  BY DEF EndMap, Complete, Awaited, Steady, Safe, reducing
<1>2. Called(n) /\ ValuesFit(n) /\ (Calm => Undisturbed(n))
  BY SafeFacts
<1>3. /\ mapped'[n] = (IF ok THEN values[n] ELSE mapped[n]) /\ job'[n] = "none" /\ mem'[n] = mem[n]
      /\ call'[n] = IF phase = "map" /\ call[n] = "running" THEN IF ok THEN "answered" ELSE "failed" ELSE call[n]
      /\ \A m \in Nodes : call[m] = "answered" => call'[m] = "answered"
  BY <1>1 DEF Types
<1>4. Types'
  BY <1>1 DEF Types, Steady
<1>5. \A m \in Nodes \ {n} : SameAt(m)
  BY <1>1 DEF SameAt, Types
<1>6. Called(n)'
  BY <1>1, <1>2, <1>3 DEF Called, Partition, Steady
<1>7. ValuesFit(n)'
  BY <1>1, <1>2, <1>3 DEF ValuesFit, Fits, OnePerKey, MadeBy, Own, HasOutput, Steady
<1>8. (Calm => Undisturbed(n))'
  BY <1>1, <1>2, <1>3 DEF Undisturbed, Called, Calm, Steady
<1>9. QED BY <1>1, <1>3, <1>4, <1>5, <1>6, <1>7, <1>8, NodeStep, StoreKeeps, ResultsKeep DEF Local

LEMMA ClearSafe ==
  ASSUME Safe, NEW n \in Nodes, NEW r \in 0..round, Clear(n, r)
  PROVE  Safe'
<1>1. /\ Steady /\ Types
      /\ UNCHANGED <<call, job, reads, puts, values, mapped, mem, reduced, stores, results, up>>
      /\ store' = [store EXCEPT ![r] = [k \in Keys |-> IF Home[k] = n THEN {} ELSE @[k]]]
  BY DEF Clear, Steady, Safe, reducing
<1>2. round \in 0..(plan.rounds - 1) /\ plan.rounds \in Int
  BY <1>1, SafeFacts DEF Types
<1>3. \A q \in 0..plan.rounds, k \in Keys : store'[q][k] \subseteq store[q][k]
  BY <1>1, <1>2 DEF Types
<1>4. store' \in [0..plan.rounds -> [Keys -> SUBSET Keys]]
  <2>1. r \in 0..plan.rounds /\ store \in [0..plan.rounds -> [Keys -> SUBSET Keys]]
    BY <1>1, <1>2 DEF Types
  <2> DEFINE left == [k \in Keys |-> IF Home[k] = n THEN {} ELSE store[r][k]]
  <2>2. left \in [Keys -> SUBSET Keys] /\ store' = [store EXCEPT ![r] = left]
    BY <1>1, <2>1
  <2> HIDE DEF left
  <2>3. QED BY <2>1, <2>2
<1>5. Types'
  BY <1>1, <1>4 DEF Types, Steady
<1>6. (\A q \in 0..plan.rounds : StoreFits(q))'
  BY <1>1, <1>3 DEF Safe, StoreFits, Overwritten, Steady
<1>7. \A m \in Nodes : SameAt(m)
  BY <1>1 DEF SameAt
<1>8. Local(n)'
  BY <1>1, <1>7, LocalKeeps DEF Safe
<1>9. QED BY <1>1, <1>5, <1>6, <1>7, <1>8, NodeStep, ResultsKeep

LEMMA TimeOutSafe ==
  ASSUME Safe, NEW n \in Nodes, TimeOut(n)
  PROVE  Safe'
<1>1. /\ Steady /\ Types
      /\ UNCHANGED <<job, reads, puts, values, mapped, mem, reduced, stores, store, results, up>>
      /\ call[n] = "silent" \/ (plan.faulty /\ call[n] \in {"sent", "running"})
      /\ call' = [call EXCEPT ![n] = "failed"]
  BY DEF TimeOut, Turn, Steady, Safe, reducing
<1>2. Called(n) /\ ValuesFit(n) /\ (Calm => Undisturbed(n))
  BY SafeFacts
<1>3. Types' /\ call'[n] = "failed" /\ \A m \in Nodes : call[m] = "answered" => call'[m] = "answered"
  BY <1>1 DEF Types, Steady
<1>4. \A m \in Nodes \ {n} : SameAt(m)
  BY <1>1 DEF SameAt, Types
<1>5. Called(n)' /\ ValuesFit(n)'
  BY <1>1, <1>2, <1>3 DEF Called, Partition, ValuesFit, Fits, OnePerKey, MadeBy, Own, HasOutput, Steady
<1>6. (Calm => Undisturbed(n))'
  BY <1>1, <1>2, <1>3 DEF Undisturbed, Called, Calm, Steady
<1>7. QED BY <1>1, <1>3, <1>4, <1>5, <1>6, NodeStep, StoreKeeps, ResultsKeep DEF Local

LEMMA CrashSafe ==
  ASSUME Safe, NEW n \in Nodes, Crash(n)
  PROVE  Safe'
<1>1. /\ Steady /\ Types /\ UNCHANGED <<values, mapped, reduced, store, results>>
      /\ plan.faulty /\ up' = up \ {n} /\ job' = [job EXCEPT ![n] = "none"]
      /\ call' = [call EXCEPT ![n] = IF @ \in {"sent", "running", "silent"} THEN "failed" ELSE @]
      /\ stores' = [stores EXCEPT ![n] = {}]
      /\ reads' = [reads EXCEPT ![n] = {}] /\ puts' = [puts EXCEPT ![n] = {}]
      /\ mem' = [mem EXCEPT ![n] = Empty]
  BY DEF Crash, Steady, Safe
<1>2. Called(n) /\ ValuesFit(n)
  BY SafeFacts
<1>3. /\ job'[n] = "none" /\ reads'[n] = {} /\ stores'[n] = {} /\ (\A o \in Keys : mem'[n][o] = {})
      /\ call'[n] = IF call[n] \in {"sent", "running", "silent"} THEN "failed" ELSE call[n]
      /\ \A m \in Nodes : call[m] = "answered" => call'[m] = "answered"
  BY <1>1 DEF Types, Empty
<1>4. Types'
  BY <1>1 DEF Types, Steady, Empty
<1>5. \A m \in Nodes \ {n} : SameAt(m)
  BY <1>1 DEF SameAt, Types
<1>6. Called(n)'
  BY <1>1, <1>2, <1>3 DEF Called, Partition, Steady
<1>7. ValuesFit(n)'
  BY <1>1, <1>2, <1>3 DEF ValuesFit, Fits, Steady
<1>8. (Calm => Undisturbed(n))'
  BY <1>1 DEF Calm, Steady
<1>9. QED BY <1>1, <1>3, <1>4, <1>5, <1>6, <1>7, <1>8, NodeStep, StoreKeeps, ResultsKeep DEF Local

LEMMA StartShuffleSafe ==
  ASSUME Safe, NEW n \in Nodes, NEW ok \in BOOLEAN, StartShuffle(n, ok)
  PROVE  Safe'
<1>1. /\ phase = "shuffle" /\ call[n] = "sent" /\ job[n] \in {"none", "mapping"} /\ Steady /\ Types
      /\ UNCHANGED <<reads, values, mem, reduced, stores, store, results, up>>
      /\ mapped' = (IF ok THEN [mapped EXCEPT ![n] = {}] ELSE mapped) /\ (ok \/ plan.faulty)
      /\ \/ call' = [call EXCEPT ![n] = "answered"] /\ job' = job /\ puts' = puts
         \/ /\ mapped[n] # {} /\ call' = [call EXCEPT ![n] = "running"]
            /\ job' = [job EXCEPT ![n] = "shuffling"] /\ puts' = [puts EXCEPT ![n] = {v[1] : v \in mapped[n]}]
  BY DEF StartShuffle, Arrives, Turn, Steady, Safe, reducing
<1>2. Called(n) /\ ValuesFit(n) /\ (Calm => Undisturbed(n))
  BY SafeFacts
<1>3. {v[1] : v \in mapped[n]} \subseteq Keys
  BY <1>1 DEF Types, Pairs
<1>4. Types'
  <2>1. puts' \in [Nodes -> SUBSET Keys]
    BY <1>1, <1>3 DEF Types
  <2>2. QED BY <1>1, <2>1 DEF Types, Steady
<1>5. \A m \in Nodes \ {n} : SameAt(m)
  BY <1>1 DEF SameAt, Types
<1>6. /\ mapped'[n] = {} \/ (~ok /\ mapped'[n] = mapped[n])
      /\ \A m \in Nodes : call[m] = "answered" => call'[m] = "answered"
      /\ \/ call'[n] = "answered" /\ job'[n] = job[n]
         \/ mapped[n] # {} /\ call'[n] = "running" /\ job'[n] = "shuffling"
  BY <1>1 DEF Types
<1>7. Called(n)'
  BY <1>1, <1>2, <1>6 DEF Called, Partition, Steady
<1>8. ValuesFit(n)'
  BY <1>1, <1>2, <1>6 DEF ValuesFit, Fits, OnePerKey, MadeBy, Own, HasOutput, Steady
<1>9. (Calm => Undisturbed(n))'
  BY <1>1, <1>2, <1>6 DEF Undisturbed, Calm, Steady
<1>10. QED BY <1>1, <1>4, <1>5, <1>6, <1>7, <1>8, <1>9, NodeStep, StoreKeeps, ResultsKeep DEF Local

\* What node n puts under key o.
Sum(n, o) == UNION {v[2] : v \in {w \in values[n] : w[1] = o}}

\* A put of the shuffle, in terms of the values that it changes.
Spread(n, o, ok) ==
  /\ job[n] = "shuffling" /\ o \in puts[n] /\ Steady /\ (ok \/ plan.faulty)
  /\ UNCHANGED <<reads, values, mapped, reduced, stores, store, clears, results, up>>
  /\ puts'[n] = puts[n] \ {o} /\ (\A m \in Nodes \ {n} : puts'[m] = puts[m])
  /\ puts' \in [Nodes -> SUBSET Keys]
  /\ \/ puts[n] # {o} /\ job' = job /\ call' = call
     \/ /\ puts[n] = {o} /\ job' = [job EXCEPT ![n] = "none"]
        /\ call' = IF Awaited(n, "shuffle") THEN [call EXCEPT ![n] = "answered"] ELSE call
  /\ mem' \in [Nodes -> [Keys -> SUBSET Keys]]
  /\ \A m \in Nodes, p \in Keys :
       mem'[m][p] = IF m = Own(o) /\ p = o /\ Own(o) \in up /\ ok THEN mem[m][p] \cup Sum(n, o)
                    ELSE mem[m][p]

LEMMA PutShuffleEffect ==
  ASSUME Types, NEW n \in Nodes, NEW o \in Keys, NEW ok \in BOOLEAN, PutShuffle(n, o, ok)
  PROVE  Spread(n, o, ok)
<1>1. /\ job[n] = "shuffling" /\ o \in puts[n] /\ Steady /\ (ok \/ plan.faulty)
      /\ UNCHANGED <<reads, values, mapped, reduced, stores, store, clears, results, up>>
      /\ puts' = [puts EXCEPT ![n] = @ \ {o}]
      /\ \/ puts[n] # {o} /\ job' = job /\ call' = call
         \/ /\ puts[n] = {o} /\ job' = [job EXCEPT ![n] = "none"]
            /\ call' = IF Awaited(n, "shuffle") THEN [call EXCEPT ![n] = "answered"] ELSE call
  BY DEF PutShuffle, Complete, Steady, reducing
<1>2. /\ puts'[n] = puts[n] \ {o} /\ (\A m \in Nodes \ {n} : puts'[m] = puts[m])
      /\ puts' \in [Nodes -> SUBSET Keys]
  BY <1>1 DEF Types
<1>3. Sum(n, o) \subseteq Keys
  BY DEF Types, Pairs, Sum
<1>4. mem' = IF Own(o) \notin up \/ ~ok THEN mem
             ELSE [mem EXCEPT ![Own(o)] = [mem[Own(o)] EXCEPT ![o] = mem[Own(o)][o] \cup Sum(n, o)]]
  BY DEF PutShuffle, Owner, Own, Append, Sum
<1>5. /\ mem' \in [Nodes -> [Keys -> SUBSET Keys]]
      /\ \A m \in Nodes, p \in Keys :
           mem'[m][p] = IF m = Own(o) /\ p = o /\ Own(o) \in up /\ ok THEN mem[m][p] \cup Sum(n, o)
                        ELSE mem[m][p]
  <2>1. Own(o) \in Nodes /\ mem \in [Nodes -> [Keys -> SUBSET Keys]]
    BY OwnersOfRound DEF Types
  <2>2. CASE Own(o) \in up /\ ok
    <3> DEFINE after == [mem[Own(o)] EXCEPT ![o] = mem[Own(o)][o] \cup Sum(n, o)]
    <3>1. /\ after \in [Keys -> SUBSET Keys]
          /\ \A p \in Keys : after[p] = IF p = o THEN mem[Own(o)][p] \cup Sum(n, o) ELSE mem[Own(o)][p]
      <4> DEFINE held == mem[Own(o)]
      <4>1. held \in [Keys -> SUBSET Keys] /\ after = [held EXCEPT ![o] = held[o] \cup Sum(n, o)]
        BY <2>1
      <4> HIDE DEF held, after
      <4>2. /\ after \in [Keys -> SUBSET Keys]
            /\ \A p \in Keys : after[p] = IF p = o THEN held[p] \cup Sum(n, o) ELSE held[p]
        BY <1>3, <4>1
      <4>3. QED BY <4>2 DEF held
    <3>2. mem' = [mem EXCEPT ![Own(o)] = after]
      BY <1>4, <2>2
    <3> HIDE DEF after
    <3>3. mem' \in [Nodes -> [Keys -> SUBSET Keys]] /\ \A m \in Nodes : mem'[m] = IF m = Own(o) THEN after ELSE mem[m]
      BY <2>1, <3>1, <3>2
    <3>4. QED BY <2>2, <3>1, <3>3
  <2>3. CASE Own(o) \notin up \/ ~ok
    BY <1>4, <2>1, <2>3
  <2>4. QED BY <2>2, <2>3
<1>6. QED BY <1>1, <1>2, <1>5 DEF Spread

LEMMA PutShuffleSafe ==
  ASSUME Safe, NEW n \in Nodes, NEW o \in Keys, NEW ok \in BOOLEAN, PutShuffle(n, o, ok)
  PROVE  Safe'
<1>1. Types /\ Spread(n, o, ok)
  BY PutShuffleEffect DEF Safe
<1>2. /\ job[n] = "shuffling" /\ o \in puts[n] /\ Steady
      /\ UNCHANGED <<reads, values, mapped, reduced, stores, store, results, up>>
      /\ (\A m \in Nodes \ {n} : puts'[m] = puts[m]) /\ puts' \in [Nodes -> SUBSET Keys]
      /\ \/ job' = job /\ call' = call
         \/ /\ job' = [job EXCEPT ![n] = "none"]
            /\ call' = IF Awaited(n, "shuffle") THEN [call EXCEPT ![n] = "answered"] ELSE call
      /\ mem' \in [Nodes -> [Keys -> SUBSET Keys]]
      /\ \A m \in Nodes, p \in Keys :
           mem'[m][p] = IF m = Own(o) /\ p = o /\ Own(o) \in up /\ ok THEN mem[m][p] \cup Sum(n, o)
                        ELSE mem[m][p]
  BY <1>1 DEF Spread
<1>3. Sum(n, o) \subseteq Origins(plan)[round + 1][o]
  <2>1. Fits(values[n], round + 1)
    BY <1>2, SafeFacts DEF ValuesFit
  <2>2. QED BY <2>1 DEF Fits, Sum
<1>4. Calm => phase = "shuffle"
  BY <1>2, SafeFacts DEF Undisturbed, Called
<1>5. Types'
  BY <1>1, <1>2 DEF Types, Steady
<1>6. /\ \A m \in Nodes : \/ job'[m] = job[m] /\ call'[m] = call[m]
                          \/ job'[m] = "none" /\ call'[m] = IF Awaited(m, "shuffle") THEN "answered" ELSE call[m]
      /\ \A m \in Nodes : m # n => job'[m] = job[m] /\ call'[m] = call[m]
  BY <1>1, <1>2 DEF Types, Awaited
<1>7. ASSUME NEW m \in Nodes PROVE Local(m)'
  <2>1. Called(m) /\ ValuesFit(m) /\ (Calm => Undisturbed(m))
    BY SafeFacts
  <2>2. Called(m)'
    BY <1>2, <1>6, <2>1 DEF Called, Partition, Steady, Awaited
  <2>3. ValuesFit(m)'
    <3>1. (job'[m] # "none" \/ mapped'[m] # {}) => Fits(values[m], round + 1)'
      BY <1>2, <1>6, <2>1 DEF ValuesFit, Fits, Steady
    <3>3. (stores[m] # {} => /\ phase \in {"reduce", "done"} /\ HasOutput
                             /\ Fits(reduced[m], round + 1) /\ OnePerKey(reduced[m]) /\ MadeBy(m, reduced[m])
                             /\ \A p \in stores[m] : \E v \in reduced[m] : v[1] = p)'
      BY <1>2, <2>1 DEF ValuesFit, Steady, HasOutput, OnePerKey, Fits, MadeBy, Own
    <3>4. ASSUME NEW p \in Keys, mem'[m][p] # {}
          PROVE  Own(p) = m /\ mem'[m][p] \subseteq Origins(plan)[round + 1][p]
      <4>1. CASE m = Own(o) /\ p = o /\ Own(o) \in up /\ ok
        <5>1. mem'[m][p] = mem[m][p] \cup Sum(n, o)
          BY <1>2, <4>1
        <5>2. mem[m][p] # {} => mem[m][p] \subseteq Origins(plan)[round + 1][p]
          BY <2>1 DEF ValuesFit
        <5>3. QED BY <1>3, <4>1, <5>1, <5>2
      <4>2. CASE ~(m = Own(o) /\ p = o /\ Own(o) \in up /\ ok)
        <5>1. mem'[m][p] = mem[m][p]
          BY <1>2, <4>2
        <5>2. QED BY <2>1, <3>4, <5>1 DEF ValuesFit
      <4>3. QED BY <4>1, <4>2
    <3>5. (\A p \in Keys : mem[m][p] # {} =>
              Own(p) = m /\ mem[m][p] \subseteq Origins(plan)[round + 1][p])'
      BY <1>2, <3>4 DEF Steady, Own
    <3>6. QED BY <3>1, <3>3, <3>5 DEF ValuesFit
  <2>4. (Calm => Undisturbed(m))'
    BY <1>2, <1>4, <1>6, <2>1 DEF Undisturbed, Calm, Steady, Awaited
  <2>5. QED BY <2>2, <2>3, <2>4 DEF Local
<1>8. \A m \in Nodes : call[m] = "answered" => call'[m] = "answered"
  BY <1>6 DEF Awaited
<1>9. QED BY <1>2, <1>5, <1>7, <1>8, StoreKeeps, ResultsKeep DEF Safe

\* What the reduce of node n makes of the values in its memory.
Items(n) == {o \in Keys : mem[n][o] # {}}
Reduced(n) == {<<o, mem[n][o]>> : o \in {i \in Items(n) : plan.yields[i] = "pair"}}

LEMMA ReducedFits ==
  ASSUME Safe, NEW n \in Nodes
  PROVE  /\ Reduced(n) \subseteq Pairs /\ Fits(Reduced(n), round + 1) /\ OnePerKey(Reduced(n))
         /\ MadeBy(n, Reduced(n)) /\ {v[1] : v \in Reduced(n)} \subseteq Keys
<1>1. ValuesFit(n) /\ mem \in [Nodes -> [Keys -> SUBSET Keys]]
  BY SafeFacts DEF Safe, Types
<1>2. \A o \in Items(n) : /\ o \in Keys /\ mem[n][o] \subseteq Keys /\ Own(o) = n
                          /\ mem[n][o] \subseteq Origins(plan)[round + 1][o]
  BY <1>1 DEF ValuesFit, Items
<1>3. Reduced(n) \subseteq Pairs /\ Fits(Reduced(n), round + 1)
  <2>1. \A v \in Reduced(n) : \E o \in Items(n) : v = <<o, mem[n][o]>>
    BY DEF Reduced
  <2>2. QED BY <1>2, <2>1 DEF Pairs, Fits
<1>4. OnePerKey(Reduced(n)) /\ MadeBy(n, Reduced(n))
  <2>1. \A v \in Reduced(n) : \E o \in Items(n) : v = <<o, mem[n][o]>> /\ plan.yields[o] = "pair"
    BY DEF Reduced
  <2>2. QED BY <1>2, <2>1 DEF MadeBy, OnePerKey
<1>5. {v[1] : v \in Reduced(n)} \subseteq Keys
  BY <1>3 DEF Pairs
<1>6. QED BY <1>3, <1>4, <1>5

\* Results of a node that has not answered are the first for their keys.
LEMMA ResultsGrow ==
  ASSUME Safe, Steady, NEW n \in Nodes, NEW V, results' = results \cup V, phase = "reduce",
         call[n] # "answered", V \subseteq Pairs, Fits(V, round + 1), OnePerKey(V),
         MadeBy(n, V), call'[n] = "answered",
         \A m \in Nodes : call[m] = "answered" => call'[m] = "answered"
  PROVE  ResultsFit'
<1>1. results \subseteq Pairs /\ ResultsFit
  BY DEF Safe, Types
<1>2. \A v \in results : v[1] \in Keys /\ Own(v[1]) \in Nodes /\ call[Own(v[1])] = "answered"
  BY <1>1, OwnersOfRound DEF Safe, Types, Pairs, ResultsFit
<1>3. OnePerKey(results')
  BY <1>1, <1>2 DEF ResultsFit, OnePerKey, MadeBy
<1>4. Fits(results, round + 1)'
  BY <1>1 DEF ResultsFit, Fits, Steady
<1>5. \A v \in results' : call'[Own(v[1])'] = "answered" /\ plan.yields[v[1]] = "pair"
  <2>1. \A v : Own(v[1])' = Own(v[1])
    BY OwnersOfRound DEF Safe, Types
  <2>2. QED BY <1>1, <1>2, <2>1 DEF MadeBy, ResultsFit
<1>6. QED BY <1>3, <1>4, <1>5 DEF ResultsFit, OnePerKey, Steady

LEMMA StartReduceEffect ==
  ASSUME Types, NEW n \in Nodes, StartReduce(n)
  PROVE  /\ phase = "reduce" /\ call[n] = "sent" /\ Steady
         /\ UNCHANGED <<job, reads, puts, values, mapped, store, clears, up>>
         /\ mem' = [mem EXCEPT ![n] = Empty]
         /\ \/ /\ HasOutput /\ reduced' = [reduced EXCEPT ![n] = Reduced(n)]
               /\ stores' = [stores EXCEPT ![n] = {v[1] : v \in Reduced(n)}] /\ results' = results
               /\ \/ Reduced(n) = {} /\ call' = [call EXCEPT ![n] = "silent"]
                  \/ Reduced(n) # {} /\ call' = [call EXCEPT ![n] = "running"]
            \/ /\ call' = [call EXCEPT ![n] = "answered"] /\ results' = results \cup Reduced(n)
               /\ UNCHANGED <<reduced, stores>>
BY DEF StartReduce, Arrives, Turn, Steady, Items, Reduced, reducing

LEMMA StartReduceSafe ==
  ASSUME Safe, NEW n \in Nodes, StartReduce(n)
  PROVE  Safe'
<1> DEFINE First == /\ HasOutput /\ reduced' = [reduced EXCEPT ![n] = Reduced(n)]
                    /\ stores' = [stores EXCEPT ![n] = {v[1] : v \in Reduced(n)}] /\ results' = results
                    /\ \/ Reduced(n) = {} /\ call' = [call EXCEPT ![n] = "silent"]
                       \/ Reduced(n) # {} /\ call' = [call EXCEPT ![n] = "running"]
           Second == /\ call' = [call EXCEPT ![n] = "answered"] /\ results' = results \cup Reduced(n)
                     /\ UNCHANGED <<reduced, stores>>
<1>1. /\ Types /\ phase = "reduce" /\ call[n] = "sent" /\ Steady
      /\ UNCHANGED <<job, reads, puts, values, mapped, store, up>> /\ mem' = [mem EXCEPT ![n] = Empty]
      /\ First \/ Second
  <2>1. Types
    BY DEF Safe
  <2>2. QED BY <2>1, StartReduceEffect
<1>2. Called(n) /\ ValuesFit(n) /\ (Calm => Undisturbed(n))
  BY SafeFacts
<1>3. /\ Reduced(n) \subseteq Pairs /\ Fits(Reduced(n), round + 1) /\ OnePerKey(Reduced(n))
      /\ MadeBy(n, Reduced(n)) /\ {v[1] : v \in Reduced(n)} \subseteq Keys
  BY ReducedFits
<1>4. Types'
  <2>1. mem' \in [Nodes -> [Keys -> SUBSET Keys]]
    BY <1>1 DEF Types, Empty
  <2>2. reduced' \in [Nodes -> SUBSET Pairs] /\ stores' \in [Nodes -> SUBSET Keys]
    <3>1. /\ reduced \in [Nodes -> SUBSET Pairs] /\ stores \in [Nodes -> SUBSET Keys]
          /\ reduced' = reduced \/ reduced' = [reduced EXCEPT ![n] = Reduced(n)]
          /\ stores' = stores \/ stores' = [stores EXCEPT ![n] = {v[1] : v \in Reduced(n)}]
      BY <1>1 DEF Types
    <3>2. QED BY <1>3, <3>1
  <2>3. /\ call' \in [Nodes -> {"none", "sent", "running", "silent", "answered", "failed"}]
        /\ results' \subseteq Pairs
    BY <1>1, <1>3 DEF Types
  <2>4. QED BY <1>1, <2>1, <2>2, <2>3 DEF Types, Steady
<1>5. \A m \in Nodes \ {n} : SameAt(m)
  BY <1>1 DEF SameAt, Types
<1>6. /\ \A o \in Keys : mem'[n][o] = {}
      /\ \A m \in Nodes : call[m] = "answered" => call'[m] = "answered"
      /\ \/ /\ HasOutput /\ reduced'[n] = Reduced(n) /\ stores'[n] = {v[1] : v \in Reduced(n)}
            /\ \/ Reduced(n) = {} /\ call'[n] = "silent"
               \/ Reduced(n) # {} /\ call'[n] = "running"
         \/ call'[n] = "answered" /\ stores'[n] = stores[n] /\ reduced'[n] = reduced[n]
  BY <1>1 DEF Types, Empty
<1>7. Called(n)'
  <2>1. Reduced(n) # {} => {v[1] : v \in Reduced(n)} # {}
    OBVIOUS
  <2>2. QED BY <1>1, <1>2, <1>6, <2>1 DEF Called, Partition, Steady
<1>8. ValuesFit(n)'
  <2>1. CASE HasOutput /\ reduced'[n] = Reduced(n) /\ stores'[n] = {v[1] : v \in Reduced(n)}
    <3>1. \A o \in stores'[n] : \E v \in reduced'[n] : v[1] = o
      BY <2>1
    <3>2. QED
      BY <1>1, <1>2, <1>3, <1>6, <2>1, <3>1 DEF ValuesFit, Fits, OnePerKey, MadeBy, Own, HasOutput, Steady
  <2>2. CASE stores'[n] = stores[n] /\ reduced'[n] = reduced[n]
    BY <1>1, <1>2, <1>6, <2>2 DEF ValuesFit, Fits, OnePerKey, MadeBy, Own, HasOutput, Steady
  <2>3. QED BY <1>6, <2>1, <2>2
<1>9. (Calm => Undisturbed(n))'
  <2>1. Reduced(n) = {} => {v[1] : v \in Reduced(n)} = {}
    OBVIOUS
  <2>2. QED BY <1>1, <1>2, <1>6, <2>1 DEF Undisturbed, Calm, Steady
<1>10. ResultsFit'
  <2>1. CASE First
    BY <1>1, <1>6, <2>1, ResultsKeep
  <2>2. CASE Second
    <3>1. call'[n] = "answered" /\ call[n] # "answered"
      BY <1>1, <2>2 DEF Types
    <3>2. QED BY <1>1, <1>3, <1>6, <2>2, <3>1, ResultsGrow
  <2>3. QED BY <1>1, <2>1, <2>2
<1>11. QED BY <1>1, <1>4, <1>5, <1>7, <1>8, <1>9, <1>10, NodeStep, StoreKeeps DEF Local

\* A put to the output group, in terms of the values that it changes.
Stored(n, o) ==
  /\ o \in stores[n] /\ Steady
  /\ UNCHANGED <<job, reads, puts, values, mapped, mem, reduced, clears, up>>
  /\ stores' = [stores EXCEPT ![n] = @ \ {o}]
  /\ \/ stores[n] # {o} /\ UNCHANGED <<call, results>>
     \/ /\ stores[n] = {o}
        /\ call' = IF Awaited(n, "reduce") THEN [call EXCEPT ![n] = "answered"] ELSE call
        /\ results' = IF Awaited(n, "reduce") THEN results \cup reduced[n] ELSE results
  /\ store' \in [0..plan.rounds -> [Keys -> SUBSET Keys]]
  /\ \A r \in 0..plan.rounds, k \in Keys :
       \/ store'[r][k] = store[r][k]
       \/ r = Output /\ k = o /\ <<o, store'[r][k]>> \in reduced[n]

LEMMA PutOutputEffect ==
  ASSUME Safe, NEW n \in Nodes, NEW o \in Keys, NEW ok \in BOOLEAN, PutOutput(n, o, ok)
  PROVE  Stored(n, o)
<1>1. /\ o \in stores[n] /\ Steady
      /\ UNCHANGED <<job, reads, puts, values, mapped, mem, reduced, clears, up>>
      /\ stores' = [stores EXCEPT ![n] = @ \ {o}]
      /\ \/ stores[n] # {o} /\ UNCHANGED <<call, results>>
         \/ /\ stores[n] = {o}
            /\ call' = IF Awaited(n, "reduce") THEN [call EXCEPT ![n] = "answered"] ELSE call
            /\ results' = IF Awaited(n, "reduce") THEN results \cup reduced[n] ELSE results
  BY DEF PutOutput, Complete, Steady
<1>2. PICK v \in reduced[n] : v[1] = o
  BY <1>1, SafeFacts DEF ValuesFit
<1> DEFINE w == CHOOSE x \in reduced[n] : x[1] = o
<1>3. w \in reduced[n] /\ w[1] = o
  BY <1>2
<1> HIDE DEF w
<1>4. w = <<o, w[2]>> /\ w[2] \subseteq Keys
  BY <1>3 DEF Safe, Types, Pairs
<1>5. store' = store \/ store' = [store EXCEPT ![Output] = [store[Output] EXCEPT ![o] = w[2]]]
  BY DEF PutOutput, w
<1>6. Output \in 0..plan.rounds /\ store \in [0..plan.rounds -> [Keys -> SUBSET Keys]]
  <2>1. round \in Int /\ 0 <= round /\ round < plan.rounds /\ plan.rounds \in Int
    BY SafeFacts
  <2>2. QED BY <2>1 DEF Safe, Types, Output
<1> HIDE DEF Output
<1>7. store' \in [0..plan.rounds -> [Keys -> SUBSET Keys]]
  BY <1>4, <1>5, <1>6
<1>8. \A r \in 0..plan.rounds, k \in Keys : store'[r][k] = store[r][k] \/ (r = Output /\ k = o /\ store'[r][k] = w[2])
  <2>1. CASE store' = store
    BY <2>1
  <2>2. CASE store' = [store EXCEPT ![Output] = [store[Output] EXCEPT ![o] = w[2]]]
    <3>1. ASSUME NEW r \in 0..plan.rounds, NEW k \in Keys
          PROVE  store'[r][k] = IF r = Output /\ k = o THEN w[2] ELSE store[r][k]
      BY <1>6, <2>2
    <3>2. QED BY <3>1
  <2>3. QED BY <1>5, <2>1, <2>2
<1>9. QED BY <1>1, <1>3, <1>4, <1>7, <1>8 DEF Stored

LEMMA PutOutputSafe ==
  ASSUME Safe, NEW n \in Nodes, NEW o \in Keys, NEW ok \in BOOLEAN, PutOutput(n, o, ok)
  PROVE  Safe'
<1> DEFINE First == UNCHANGED <<call, results>>
           Second == /\ stores[n] = {o}
                     /\ call' = IF Awaited(n, "reduce") THEN [call EXCEPT ![n] = "answered"] ELSE call
                     /\ results' = IF Awaited(n, "reduce") THEN results \cup reduced[n] ELSE results
<1>1. /\ o \in stores[n] /\ Steady
      /\ UNCHANGED <<job, reads, puts, values, mapped, mem, reduced, up>>
      /\ stores' = [stores EXCEPT ![n] = @ \ {o}]
      /\ (First /\ stores[n] # {o}) \/ Second
      /\ store' \in [0..plan.rounds -> [Keys -> SUBSET Keys]]
      /\ \A r \in 0..plan.rounds, k \in Keys :
           \/ store'[r][k] = store[r][k]
           \/ r = Output /\ k = o /\ <<o, store'[r][k]>> \in reduced[n]
  <2>1. Stored(n, o)
    BY PutOutputEffect
  <2>2. QED BY <2>1 DEF Stored
<1>2. /\ Types /\ Called(n) /\ ValuesFit(n) /\ (Calm => Undisturbed(n))
      /\ round \in Int /\ plan.rounds \in Int /\ 0 <= round /\ round < plan.rounds
  BY SafeFacts DEF Safe
<1>3. Types'
  BY <1>1, <1>2 DEF Types, Steady
<1>4. \A m \in Nodes \ {n} : SameAt(m)
  BY <1>1, <1>2 DEF SameAt, Types
<1>5. /\ stores'[n] = stores[n] \ {o}
      /\ \A m \in Nodes : call[m] = "answered" => call'[m] = "answered"
      /\ \/ call'[n] = call[n] /\ (stores'[n] = {} => ~Awaited(n, "reduce"))
         \/ stores'[n] = {} /\ Awaited(n, "reduce") /\ call'[n] = "answered"
  <2>1. stores'[n] = stores[n] \ {o}
    BY <1>1, <1>2 DEF Types
  <2>2. CASE Second
    BY <1>2, <2>1, <2>2 DEF Types
  <2>3. CASE First /\ stores[n] # {o}
    BY <1>1, <1>2, <2>1, <2>3 DEF Types
  <2>4. QED BY <1>1, <2>2, <2>3
<1>6. Called(n)'
  BY <1>1, <1>2, <1>5 DEF Called, Partition, Steady, Awaited
<1>7. ValuesFit(n)'
  BY <1>1, <1>2, <1>5 DEF ValuesFit, Fits, OnePerKey, MadeBy, Own, HasOutput, Steady
<1>8. (Calm => Undisturbed(n))'
  BY <1>1, <1>2, <1>5 DEF Undisturbed, Calm, Steady, Awaited
<1>9. (\A r \in 0..plan.rounds : StoreFits(r))'
  <2>1. SUFFICES ASSUME NEW r \in 0..plan.rounds, ~Overwritten(r), NEW k \in Keys
                 PROVE  /\ store'[r][k] \subseteq Origins(plan)[r][k]
                        /\ store'[r][k] # {} => r = 0 \/ plan.yields[k] = "pair"
    BY <1>1 DEF StoreFits, Overwritten, Steady
  <2>2. CASE store'[r][k] = store[r][k]
    <3>1. StoreFits(r)
      BY DEF Safe
    <3>2. QED BY <2>1, <2>2, <3>1 DEF StoreFits
  <2>3. CASE r = Output /\ k = o /\ <<o, store'[r][k]>> \in reduced[n]
    <3>1. phase \in {"reduce", "done"} /\ HasOutput /\ Fits(reduced[n], round + 1) /\ MadeBy(n, reduced[n])
      BY <1>1, <1>2 DEF ValuesFit
    <3>2. r = round + 1
      BY <1>2, <2>1, <2>3, <3>1, Constants DEF Overwritten, Output, HasOutput
    <3>3. QED BY <2>3, <3>1, <3>2 DEF Fits, MadeBy
  <2>4. QED BY <1>1, <2>2, <2>3
<1>10. ResultsFit'
  <2>1. CASE results' = results
    BY <1>1, <1>5, <2>1, ResultsKeep
  <2>2. CASE Second /\ Awaited(n, "reduce")
    <3>1. /\ phase = "reduce" /\ call[n] # "answered" /\ call'[n] = "answered"
          /\ results' = results \cup reduced[n]
      BY <1>1, <1>2, <2>2 DEF Awaited, Types
    <3>2. /\ reduced[n] \subseteq Pairs /\ Fits(reduced[n], round + 1) /\ OnePerKey(reduced[n])
          /\ MadeBy(n, reduced[n])
      BY <1>1, <1>2 DEF ValuesFit, Types
    <3>3. QED BY <1>1, <1>5, <3>1, <3>2, ResultsGrow
  <2>3. QED BY <1>1, <2>1, <2>2
<1>11. QED BY <1>1, <1>3, <1>4, <1>6, <1>7, <1>8, <1>9, <1>10, NodeStep DEF Local

LEMMA NextPhaseSafe ==
  ASSUME Safe, NextPhase
  PROVE  Safe'
<1>1. /\ Types /\ plan' = plan /\ (\A n \in Nodes : call[n] \in {"answered", "failed"})
      /\ UNCHANGED <<job, reads, puts, values, mapped, mem, reduced, stores, store, up>>
      /\ call' = [n \in Nodes |-> IF phase = "reduce" THEN "none" ELSE Calls[n]]
  BY DEF NextPhase, Over, Safe, Calls, reducing
<1>2. \/ phase = "map" /\ phase' = "shuffle" /\ round' = round /\ results' = results
      \/ phase = "shuffle" /\ phase' = "reduce" /\ round' = round /\ results' = results
      \/ /\ phase = "reduce" /\ round < plan.rounds - 1 /\ phase' = "install"
         /\ round' = round + 1 /\ results' = {}
      \/ /\ phase = "reduce" /\ ~(round < plan.rounds - 1) /\ phase' = "done"
         /\ round' = round /\ results' = results
  <2>1. PICK n \in Nodes : TRUE
    BY MapReduceAssumption
  <2>2. phase \in {"map", "shuffle", "reduce"}
    BY <1>1, <2>1, SafeFacts DEF Called
  <2>3. CASE phase = "map"
    BY <2>3 DEF NextPhase
  <2>4. CASE phase = "shuffle"
    BY <2>4 DEF NextPhase
  <2>5. CASE phase = "reduce"
    BY <2>5 DEF NextPhase
  <2>6. QED BY <2>2, <2>3, <2>4, <2>5
<1>3. /\ plan \in Plans /\ round \in Int /\ 0 <= round /\ round < plan.rounds /\ plan.rounds \in Int
      /\ (~Calm => plan.rounds = 1)
  <2>1. PICK n \in Nodes : TRUE
    BY MapReduceAssumption
  <2>2. QED BY SafeFacts
<1>4. Types'
  BY <1>1, <1>2, <1>3 DEF Types, Calls
<1>5. ASSUME NEW n \in Nodes PROVE Local(n)'
  <2>1. Called(n) /\ ValuesFit(n) /\ (Calm => Undisturbed(n))
    BY SafeFacts
  <2>2. /\ call'[n] = IF phase = "reduce" THEN "none" ELSE IF n \in up /\ n # plan.at THEN "sent" ELSE "failed"
        /\ call[n] \in {"answered", "failed"}
    BY <1>1 DEF Calls
  <2>3. Calm => /\ job[n] = "none" /\ stores[n] = {} /\ n # plan.at /\ (phase # "map" => mapped[n] = {}) /\ n \in up
                        /\ \A o \in Keys : phase # "shuffle" => mem[n][o] = {}
    BY <1>1, <1>2, <2>1, <2>2 DEF Undisturbed, Calm
  <2>4. Called(n)'
    BY <1>1, <1>2, <2>1, <2>2 DEF Called, Partition
  <2>5. (Calm => Undisturbed(n))'
    BY <1>1, <1>2, <2>2, <2>3 DEF Undisturbed, Calm
  <2>6. ValuesFit(n)'
    <3>1. CASE round' = round
      <4>1. phase \in {"reduce", "done"} => phase' \in {"reduce", "done"}
        BY <1>2, <1>3, <3>1
      <4>2. (\A V : Fits(V, round + 1) <=> Fits(V, round + 1)') /\ (\A o : Own(o)' = Own(o)) /\ (HasOutput <=> HasOutput')
        BY <1>1, <3>1 DEF Fits, HasOutput, Own
      <4>3. QED BY <1>1, <2>1, <3>1, <4>1, <4>2 DEF ValuesFit, OnePerKey, MadeBy, Own, Fits, HasOutput
    <3>2. CASE round' # round
      <4>1. phase = "reduce" /\ Calm
        BY <1>2, <1>3, <3>2
      <4>2. QED BY <1>1, <2>3, <4>1 DEF ValuesFit
    <3>3. QED BY <3>1, <3>2
  <2>7. QED BY <2>4, <2>5, <2>6 DEF Local
<1>6. (\A r \in 0..plan.rounds : StoreFits(r))'
  BY <1>1, <1>2, <1>3 DEF Safe, StoreFits, Overwritten
<1>7. ResultsFit'
  <2>1. ResultsFit /\ results \subseteq Pairs
    BY DEF Safe, Types
  <2>2. CASE phase # "reduce"
    <3>1. results' = {} /\ phase' # "done"
      BY <1>2, <2>1, <2>2 DEF ResultsFit
    <3>2. QED BY <3>1 DEF ResultsFit, Fits, OnePerKey
  <2>3. CASE phase = "reduce" /\ results' = {} /\ phase' = "install"
    BY <2>3 DEF ResultsFit, Fits, OnePerKey
  <2>4. CASE phase = "reduce" /\ ~(round < plan.rounds - 1) /\ phase' = "done" /\ round' = round /\ results' = results
    <3>1. round = plan.rounds - 1
      BY <1>3, <2>4
    <3>2. QED BY <1>1, <2>1, <2>4, <3>1 DEF ResultsFit, Fits, OnePerKey
  <2>5. QED BY <1>2, <2>2, <2>3, <2>4
<1>8. QED BY <1>4, <1>5, <1>6, <1>7 DEF Safe

LEMMA UnchangedSafe ==
  ASSUME Safe, UNCHANGED vars
  PROVE  Safe'
<1>1. Steady /\ Types' /\ store' = store /\ results' = results /\ call' = call /\ \A m \in Nodes : SameAt(m)
  BY DEF vars, reducing, Safe, Types, Steady, SameAt
<1>2. ASSUME NEW m \in Nodes PROVE Local(m)'
  <2>1. Local(m)
    BY DEF Safe
  <2>2. QED BY <1>1, <2>1, LocalKeeps
<1>3. QED BY <1>1, <1>2, StoreKeeps, ResultsKeep DEF Safe

LEMMA NextSafe ==
  ASSUME Safe, [Next]_vars
  PROVE  Safe'
<1>1. CASE UNCHANGED vars
  BY <1>1, UnchangedSafe
<1>2. ASSUME NEW ok \in BOOLEAN, Install(ok) PROVE Safe'
  BY <1>2, InstallSafe
<1>3. CASE NextPhase
  BY <1>3, NextPhaseSafe
<1>4. ASSUME NEW n \in Nodes, StartMap(n) PROVE Safe'
  BY <1>4, StartMapSafe
<1>5. ASSUME NEW n \in Nodes, NEW k \in Keys, NEW ok \in BOOLEAN, Read(n, k, ok) PROVE Safe'
  BY <1>5, ReadSafe
<1>6. ASSUME NEW n \in Nodes, NEW ok \in BOOLEAN, EndMap(n, ok) PROVE Safe'
  BY <1>6, EndMapSafe
<1>7. ASSUME NEW n \in Nodes, NEW ok \in BOOLEAN, StartShuffle(n, ok) PROVE Safe'
  BY <1>7, StartShuffleSafe
<1>8. ASSUME NEW n \in Nodes, NEW o \in Keys, NEW ok \in BOOLEAN, PutShuffle(n, o, ok) PROVE Safe'
  BY <1>8, PutShuffleSafe
<1>9. ASSUME NEW n \in Nodes, NEW o \in Keys, NEW ok \in BOOLEAN, PutOutput(n, o, ok) PROVE Safe'
  BY <1>9, PutOutputSafe
<1>10. ASSUME NEW n \in Nodes, StartReduce(n) PROVE Safe'
  BY <1>10, StartReduceSafe
<1>11. ASSUME NEW n \in Nodes, NEW r \in 0..round, Clear(n, r) PROVE Safe'
  BY <1>11, ClearSafe
<1>12. ASSUME NEW n \in Nodes, TimeOut(n) \/ Crash(n) PROVE Safe'
  BY <1>12, TimeOutSafe, CrashSafe
<1>13. QED
  BY <1>1, <1>2, <1>3, <1>4, <1>5, <1>6, <1>7, <1>8, <1>9, <1>10, <1>11, <1>12 DEF Next, Work

\* Whatever fails or comes late, the values that the nodes and the
\* orchestrator hold belong to the keys they are held for.
THEOREM MapReduceInvariant == Spec => []Safe
BY InitSafe, NextSafe, PTL DEF Spec

----------------------------------------------------------------------------
(* The properties *)

\* The type invariant of a MapReduce execution (mr.js:42): also with faults a
\* node maps only the keys it holds itself, and gathers only those that the
\* shuffle's key hashes to it (mr.js:285).
THEOREM MapReduceTypeCorrect == Spec => []MapReduceTypeOK
<1>1. ASSUME Safe PROVE MapReduceTypeOK
  <2>1. Types /\ \A n \in Nodes : Called(n) /\ ValuesFit(n)
    BY <1>1 DEF Safe, Local
  <2>2. plan.keys \subseteq Keys
    BY <2>1, Constants DEF Types
  <2>3. ASSUME NEW n \in Nodes
        PROVE  /\ call[n] \in {"none", "sent", "running", "silent", "answered", "failed"}
               /\ job[n] \in {"none", "mapping", "shuffling"}
               /\ call[n] = "running" => IF phase = "reduce" THEN stores[n] # {} ELSE job[n] # "none"
               /\ reads[n] \subseteq {k \in Keys : Home[k] = n} /\ puts[n] \subseteq Keys
               /\ \A o \in Keys : mem[n][o] # {} => Owner(n, o) = n
    <3>1. call[n] = "running" => IF phase = "reduce" THEN stores[n] # {} ELSE job[n] # "none"
      BY <2>1 DEF Called
    <3>2. reads[n] \subseteq {k \in Keys : Home[k] = n}
      BY <2>1, <2>2 DEF Called, Partition
    <3>3. \A o \in Keys : mem[n][o] # {} => Owner(n, o) = n
      BY <2>1 DEF ValuesFit, Owner, Own
    <3>4. QED BY <2>1, <3>1, <3>2, <3>3 DEF Types
  <2>4. QED BY <2>1, <2>3 DEF MapReduceTypeOK, Types
<1>2. QED BY <1>1, MapReduceInvariant, PTL

\* Whatever fails or comes late, exec calls back with no value that does not
\* belong to its key and with no key twice (mr.js:299).
THEOREM PartialResultsAreRight == Spec => []PartialResults
<1>1. ASSUME Safe PROVE PartialResults
  <2>1. SUFFICES ASSUME phase = "done"
                 PROVE  /\ \A v \in results : v[2] \subseteq Expected[v[1]]
                        /\ \A v, w \in results : v[1] = w[1] => v = w
    BY DEF PartialResults
  <2>2. Types /\ ResultsFit
    BY <1>1 DEF Safe
  <2>3. round + 1 = plan.rounds
    <3>1. plan.rounds \in Nat /\ round = plan.rounds - 1
      BY <2>1, <2>2, Constants DEF Types, ResultsFit
    <3>2. QED BY <3>1
  <2>4. \A v \in results : v[1] \in Keys /\ plan.yields[v[1]] = "pair" /\ v[2] \subseteq Origins(plan)[plan.rounds][v[1]]
    BY <2>2, <2>3 DEF Types, Pairs, ResultsFit, Fits
  <2>5. QED BY <2>2, <2>4 DEF ResultsFit, OnePerKey, Expected
<1>2. QED BY <1>1, MapReduceInvariant, PTL

----------------------------------------------------------------------------
(* An execution that loses nothing *)

\* One round without faults, of an orchestrator outside the group, whose input,
\* if it is deleted, one node maps.
Lossless(p) ==
  /\ ~p.faulty /\ p.at \notin Nodes /\ p.rounds = 1
  /\ p.deleteInput => \E n \in Nodes : \A k \in p.keys : Home[k] = n

\* The input keys that belong to a key of the result.
Sources(o) == {k \in plan.keys : o \in Emits[k]}
\* What map makes of the keys of S.
Emitted(S) == {v \in Pairs : \E k \in S : v[1] \in Emits[k] /\ v[2] = {k}}
\* The results that belong to node n.
Result(v) == plan.yields[v[1]] = "pair" /\ v[2] = Sources(v[1]) /\ v[2] # {}
ResultOf(n) == {v \in Pairs : Own(v[1]) = n /\ Result(v)}

HoldsMapped(n) == mapped[n] = Emitted(Partition(n)) /\ (mapped[n] # {} => values[n] = mapped[n])
Mapping(n) ==
  /\ call[n] # "none"
  /\ call[n] = "running" => Partition(n) # {} /\ values[n] = Emitted(Partition(n) \ reads[n])
  /\ call[n] = "answered" => HoldsMapped(n)
Shuffling(n) ==
  /\ call[n] # "none"
  /\ call[n] = "sent" => HoldsMapped(n)
  /\ call[n] = "running" => values[n] = Emitted(Partition(n))
Reducing(n) ==
  /\ phase = "reduce" => call[n] # "none"
  /\ call[n] = "sent" => \A o \in Keys : Own(o) = n => mem[n][o] = Sources(o)
  /\ call[n] = "running" => reduced[n] = ResultOf(n)
  /\ (call[n] \in {"silent", "answered", "failed"} \/ phase = "done") => ResultOf(n) \subseteq results

\* What has reached the owner of a key while the nodes shuffle.
Sent(n, o) == call[n] = "answered" \/ (call[n] = "running" /\ o \notin puts[n])
Shuffled(o) == {k \in Sources(o) : Sent(Home[k], o)}

Unread(k) == phase = "install" \/ (phase = "map" /\ call[Home[k]] = "sent") \/ k \in reads[Home[k]]

MapWhole == phase = "map" => \A n \in Nodes : Mapping(n)
ShuffleWhole ==
  phase = "shuffle" => (\A n \in Nodes : Shuffling(n)) /\ \A o \in Keys : mem[Own(o)][o] = Shuffled(o)
ReduceWhole == phase \in {"reduce", "done"} => \A n \in Nodes : Reducing(n)
ResultsWhole == \A v \in results : Result(v)
\* No node is about to clear an input that is still to be read.
InputWhole ==
  \A k \in plan.keys : Unread(k) => store[0][k] = {k} /\ \A n \in Nodes : <<n, 0>> \notin clears
Whole == MapWhole /\ ShuffleWhole /\ ReduceWhole /\ ResultsWhole /\ InputWhole

LEMMA LosslessFacts ==
  ASSUME Safe, Lossless(plan), NEW n \in Nodes
  PROVE  /\ Types /\ plan \in Plans /\ plan.keys \subseteq Keys /\ round = 0 /\ plan.rounds = 1 /\ n \in up
         /\ call[n] \in {"none", "sent", "running", "answered"} \/ (phase = "reduce" /\ call[n] \in {"silent", "failed"})
         /\ job[n] = "mapping" => phase = "map" /\ call[n] = "running"
         /\ job[n] = "shuffling" => phase = "shuffle" /\ call[n] = "running"
         /\ stores[n] # {} => phase = "reduce" /\ call[n] = "running"
         /\ mapped[n] # {} => phase = "map" \/ (phase = "shuffle" /\ call[n] = "sent")
         /\ \A o \in Keys : mem[n][o] # {} =>
              Own(o) = n /\ (phase = "shuffle" \/ (phase = "reduce" /\ call[n] = "sent"))
<1>1. /\ plan \in Plans /\ round = 0 /\ plan.rounds = 1 /\ plan.keys \subseteq Keys
      /\ Called(n) /\ ValuesFit(n) /\ Undisturbed(n)
  BY SafeFacts DEF Lossless, Calm
<1>2. Types /\ call[n] \in {"none", "sent", "running", "silent", "answered", "failed"}
  BY DEF Safe, Types
<1>3. \A o \in Keys : mem[n][o] # {} =>
              Own(o) = n /\ (phase = "shuffle" \/ (phase = "reduce" /\ call[n] = "sent"))
  BY <1>1 DEF ValuesFit, Undisturbed
<1>4. QED BY <1>1, <1>2, <1>3 DEF Called, Undisturbed

LEMMA SourcesAreKeys ==
  ASSUME Safe, NEW k \in plan.keys
  PROVE  k \in Keys /\ Home[k] \in Nodes /\ Emits[k] \subseteq Keys /\ k \in Partition(Home[k])
<1>1. plan.keys \subseteq Keys
  BY Constants DEF Safe, Types
<1>2. QED BY <1>1, HomesAndEmits DEF Partition

\* A step that leaves a phase's part alone.
LEMMA PartsKeep ==
  ASSUME Steady, Whole
  PROVE  /\ phase # "map" => MapWhole'
         /\ phase # "shuffle" => ShuffleWhole'
         /\ phase \notin {"reduce", "done"} => ReduceWhole'
         /\ results' = results => ResultsWhole'
BY DEF Steady, Whole, MapWhole, ShuffleWhole, ReduceWhole, ResultsWhole, Result, Sources, Own

LEMMA MappingKeeps ==
  ASSUME Steady, NEW m \in Nodes, SameAt(m), Mapping(m)
  PROVE  Mapping(m)'
BY DEF Steady, SameAt, Mapping, HoldsMapped, Emitted, Partition

LEMMA InputKeeps ==
  ASSUME Safe, Steady, InputWhole, store' = store, clears' = clears, phase # "map" \/ UNCHANGED call,
         \A k \in plan.keys : k \in reads'[Home[k]] => k \in reads[Home[k]]
  PROVE  InputWhole'
BY DEF Steady, InputWhole, Unread

LEMMA InitWhole == Init => Whole
<1> SUFFICES ASSUME Init PROVE Whole
  OBVIOUS
<1>1. ASSUME NEW k \in plan.keys PROVE store[0][k] = {k} /\ \A n \in Nodes : <<n, 0>> \notin clears
  <2>1. plan \in Plans
    BY DEF Init
  <2>2. plan.rounds \in Nat /\ k \in Keys /\ k \in plan.keys
    BY <2>1, Constants
  <2>3. QED BY <2>2 DEF Init
<1>2. phase = "install" /\ results = {}
  BY DEF Init
<1>3. QED BY <1>1, <1>2 DEF Whole, MapWhole, ShuffleWhole, ReduceWhole, ResultsWhole, InputWhole

LEMMA InstallWhole ==
  ASSUME Safe, Lossless(plan), Whole, NEW ok \in BOOLEAN, Install(ok)
  PROVE  Whole'
<1>1. /\ phase = "install" /\ plan' = plan /\ UNCHANGED <<reads, store, clears, results>>
      /\ \/ phase' = "map" /\ call' = Calls
         \/ phase' = "error"
  BY DEF Install
<1>2. MapWhole'
  BY <1>1 DEF MapWhole, Mapping, Calls, Lossless
<1>3. InputWhole'
  BY <1>1 DEF Whole, InputWhole, Unread
<1>4. ResultsWhole'
  BY <1>1 DEF Whole, ResultsWhole, Result, Sources
<1>5. phase' \notin {"shuffle", "reduce", "done"}
  BY <1>1
<1>6. QED BY <1>2, <1>3, <1>4, <1>5 DEF Whole, ShuffleWhole, ReduceWhole

LEMMA StartMapWhole ==
  ASSUME Safe, Lossless(plan), Whole, NEW n \in Nodes, StartMap(n)
  PROVE  Whole'
<1>1. /\ phase = "map" /\ call[n] = "sent" /\ job[n] = "none" /\ Steady /\ Types
      /\ UNCHANGED <<puts, mapped, mem, reduced, stores, store, clears, results, up>>
      /\ reads' = [reads EXCEPT ![n] = Partition(n)] /\ values' = [values EXCEPT ![n] = {}]
      /\ \/ Partition(n) = {} /\ call' = [call EXCEPT ![n] = "answered"] /\ job' = job
         \/ /\ Partition(n) # {} /\ call' = [call EXCEPT ![n] = "running"]
            /\ job' = [job EXCEPT ![n] = "mapping"]
  BY DEF StartMap, Arrives, Turn, Steady, Safe, reducing
<1>2. \A m \in Nodes \ {n} : SameAt(m)
  BY <1>1 DEF SameAt, Types
<1>3. /\ reads'[n] = Partition(n) /\ values'[n] = {} /\ mapped'[n] = mapped[n]
      /\ \/ Partition(n) = {} /\ call'[n] = "answered"
         \/ Partition(n) # {} /\ call'[n] = "running"
  BY <1>1 DEF Types
<1>4. mapped[n] = {}
  <2>1. Undisturbed(n)
    BY SafeFacts DEF Lossless, Calm
  <2>2. QED BY <1>1, <2>1 DEF Undisturbed
<1>5. Mapping(n)'
  <2>1. Partition(n)' = Partition(n) /\ Emitted({}) = {}
    BY <1>1 DEF Partition, Steady, Emitted
  <2>2. Partition(n) \ reads'[n] = {}
    BY <1>3
  <2>3. (Emitted(Partition(n) \ reads[n]))' = Emitted({}) /\ (Emitted(Partition(n)))' = Emitted(Partition(n))
    BY <2>1, <2>2 DEF Emitted
  <2>4. QED BY <1>3, <1>4, <2>1, <2>3 DEF Mapping, HoldsMapped
<1>6. MapWhole'
  <2>1. ASSUME NEW m \in Nodes PROVE Mapping(m)'
    BY <1>1, <1>2, <1>5, MappingKeeps DEF Whole, MapWhole
  <2>2. QED BY <2>1 DEF MapWhole
<1>7. InputWhole'
  <2>1. ASSUME NEW k \in plan.keys, Unread(k)' PROVE Unread(k)
    <3>1. Home[k] \in Nodes /\ k \in Partition(Home[k])
      BY SourcesAreKeys
    <3>2. CASE Home[k] = n
      BY <1>1, <3>2 DEF Unread
    <3>3. CASE Home[k] # n
      BY <1>1, <1>2, <2>1, <3>1, <3>3 DEF Unread, SameAt, Steady
    <3>4. QED BY <3>2, <3>3
  <2>2. QED BY <1>1, <2>1 DEF Whole, InputWhole, Steady
<1>8. QED BY <1>1, <1>6, <1>7, PartsKeep DEF Whole

LEMMA ReadWhole ==
  ASSUME Safe, Lossless(plan), Whole, NEW n \in Nodes, NEW k \in Keys, NEW ok \in BOOLEAN, Read(n, k, ok)
  PROVE  Whole'
<1>1. /\ job[n] = "mapping" /\ k \in reads[n] /\ Steady /\ Types
      /\ UNCHANGED <<call, job, puts, mapped, mem, reduced, stores, store, clears, results, up>>
      /\ reads' = [reads EXCEPT ![n] = @ \ {k}]
      /\ values' = IF Item(k) = {} THEN values
                   ELSE [values EXCEPT ![n] = @ \cup {<<o, Item(k)>> : o \in Emits[k]}]
  BY DEF Read, Steady, Safe, Lossless, reducing
<1>2. phase = "map" /\ call[n] = "running" /\ round = 0 /\ plan.keys \subseteq Keys
  BY <1>1, LosslessFacts
<1>3. k \in plan.keys /\ k \in Partition(n) /\ Home[k] = n
  BY <1>1, SafeFacts DEF Called, Partition
<1>4. Item(k) = {k}
  BY <1>1, <1>2, <1>3 DEF Whole, InputWhole, Unread, Item
<1>5. /\ reads'[n] = reads[n] \ {k} /\ values'[n] = values[n] \cup {<<o, {k}>> : o \in Emits[k]}
      /\ \A m \in Nodes \ {n} : SameAt(m)
  BY <1>1, <1>4 DEF Types, SameAt
<1>6. Mapping(n)'
  <2>1. Mapping(n)
    BY <1>2 DEF Whole, MapWhole
  <2>2. Partition(n)' = Partition(n) /\ Partition(n) # {}
    BY <1>1, <1>3 DEF Partition, Steady
  <2>3. values'[n] = Emitted(Partition(n) \ reads'[n])
    <3>1. Partition(n) \ reads'[n] = (Partition(n) \ reads[n]) \cup {k}
      BY <1>3, <1>5
    <3>2. {<<o, {k}>> : o \in Emits[k]} = {v \in Pairs : v[1] \in Emits[k] /\ v[2] = {k}}
      <4>1. Emits[k] \subseteq Keys
        BY HomesAndEmits
      <4>2. QED BY <4>1 DEF Pairs
    <3>3. Emitted((Partition(n) \ reads[n]) \cup {k})
            = Emitted(Partition(n) \ reads[n]) \cup {v \in Pairs : v[1] \in Emits[k] /\ v[2] = {k}}
      BY DEF Emitted
    <3>4. values[n] = Emitted(Partition(n) \ reads[n])
      BY <1>2, <2>1 DEF Mapping
    <3>5. QED BY <1>5, <3>1, <3>2, <3>3, <3>4
  <2>4. QED BY <1>1, <1>2, <2>2, <2>3 DEF Mapping, Emitted
<1>7. MapWhole'
  <2>1. ASSUME NEW m \in Nodes PROVE Mapping(m)'
    BY <1>1, <1>2, <1>5, <1>6, MappingKeeps DEF Whole, MapWhole
  <2>2. QED BY <2>1 DEF MapWhole
<1>8. \A i \in plan.keys : i \in reads'[Home[i]] => i \in reads[Home[i]]
  BY <1>1, SourcesAreKeys DEF Types
<1>9. InputWhole'
  BY <1>1, <1>8, InputKeeps DEF Whole
<1>10. QED BY <1>1, <1>2, <1>7, <1>9, PartsKeep DEF Whole

LEMMA EndMapWhole ==
  ASSUME Safe, Lossless(plan), Whole, NEW n \in Nodes, NEW ok \in BOOLEAN, EndMap(n, ok)
  PROVE  Whole'
<1>1. /\ job[n] = "mapping" /\ reads[n] = {} /\ Steady /\ Types
      /\ UNCHANGED <<reads, puts, values, mem, reduced, stores, store, results, up>>
      /\ mapped' = [mapped EXCEPT ![n] = values[n]] /\ job' = [job EXCEPT ![n] = "none"]
      /\ call' = IF Awaited(n, "map") THEN [call EXCEPT ![n] = "answered"] ELSE call
      /\ clears' = clears \/ DeleteInput
  BY DEF EndMap, Complete, Steady, Safe, Lossless, reducing
<1>2. phase = "map" /\ call[n] = "running" /\ round = 0
  BY <1>1, LosslessFacts
<1>3. /\ call'[n] = "answered" /\ mapped'[n] = values[n]
      /\ \A m \in Nodes \ {n} : SameAt(m)
  BY <1>1, <1>2 DEF Types, SameAt, Awaited
<1>4. Partition(n) # {} /\ values[n] = Emitted(Partition(n) \ reads[n])
  BY <1>2 DEF Whole, MapWhole, Mapping
<1>5. Mapping(n)'
  <2>1. Partition(n) \ reads[n] = Partition(n)
    BY <1>1
  <2>2. mapped'[n] = Emitted(Partition(n)) /\ values'[n] = mapped'[n]
    BY <1>1, <1>3, <1>4, <2>1
  <2>3. HoldsMapped(n)'
    BY <1>1, <2>2 DEF HoldsMapped, Emitted, Partition, Steady
  <2>4. QED BY <1>3, <2>3 DEF Mapping
<1>6. MapWhole'
  <2>1. ASSUME NEW m \in Nodes PROVE Mapping(m)'
    BY <1>2, <1>1, <1>3, <1>5, MappingKeeps DEF Whole, MapWhole
  <2>2. QED BY <2>1 DEF MapWhole
<1>7. ASSUME NEW k \in plan.keys, Unread(k)' PROVE Unread(k) /\ clears' = clears
  <2>1. Home[k] \in Nodes /\ k \in Partition(Home[k])
    BY SourcesAreKeys
  <2>2. Home[k] # n
    BY <1>1, <1>2, <1>3, <1>7 DEF Unread, Steady
  <2>3. Unread(k)
    BY <1>1, <1>3, <1>7, <2>1, <2>2 DEF Unread, SameAt, Steady
  <2>4. ~DeleteInput
    <3>1. PICK i \in plan.keys : Home[i] = n
      BY <1>4 DEF Partition
    <3>2. ~plan.deleteInput
      BY <2>2, <3>1 DEF Lossless
    <3>3. QED BY <1>2, <3>2 DEF DeleteInput
  <2>5. QED BY <1>1, <2>3, <2>4
<1>8. InputWhole'
  BY <1>1, <1>7 DEF Whole, InputWhole, Steady
<1>9. QED BY <1>1, <1>2, <1>6, <1>8, PartsKeep DEF Whole

LEMMA ClearWhole ==
  ASSUME Safe, Lossless(plan), Whole, NEW n \in Nodes, NEW r \in 0..round, Clear(n, r)
  PROVE  Whole'
<1>1. /\ Steady /\ Types /\ UNCHANGED <<call, job, reads, puts, values, mapped, mem, reduced, stores, results, up>>
      /\ <<n, r>> \in clears /\ clears' \subseteq clears
      /\ store' = [store EXCEPT ![r] = [k \in Keys |-> IF Home[k] = n THEN {} ELSE @[k]]]
  BY DEF Clear, Steady, Safe, reducing
<1>2. r = 0 /\ plan.rounds = 1
  BY LosslessFacts
<1>3. \A k \in Keys : Home[k] # n => store'[0][k] = store[0][k]
  BY <1>1, <1>2 DEF Types
<1>4. InputWhole'
  <2>1. ASSUME NEW k \in plan.keys, Unread(k)'
        PROVE  store'[0][k] = {k} /\ \A m \in Nodes : <<m, 0>> \notin clears'
    <3>1. Unread(k)
      BY <1>1, <2>1 DEF Unread, Steady
    <3>2. store[0][k] = {k} /\ \A m \in Nodes : <<m, 0>> \notin clears
      BY <3>1 DEF Whole, InputWhole
    <3>3. FALSE
      BY <1>1, <1>2, <3>2
    <3>4. QED BY <3>3
  <2>2. QED BY <1>1, <2>1 DEF InputWhole, Steady
<1>5. MapWhole'
  BY <1>1 DEF Whole, MapWhole, Mapping, HoldsMapped, Emitted, Partition, Steady
<1>6. ShuffleWhole'
  BY <1>1 DEF Whole, ShuffleWhole, Shuffling, HoldsMapped, Emitted, Partition, Steady,
              Shuffled, Sources, Sent, Own
<1>7. ReduceWhole'
  BY <1>1 DEF Whole, ReduceWhole, Reducing, ResultOf, Result, Own, Sources, Steady
<1>8. QED BY <1>1, <1>4, <1>5, <1>6, <1>7, PartsKeep DEF Whole

LEMMA ShufflingKeeps ==
  ASSUME Steady, NEW m \in Nodes, SameAt(m), Shuffling(m)
  PROVE  Shuffling(m)'
BY DEF Steady, SameAt, Shuffling, HoldsMapped, Emitted, Partition

LEMMA StartShuffleWhole ==
  ASSUME Safe, Lossless(plan), Whole, NEW n \in Nodes, NEW ok \in BOOLEAN, StartShuffle(n, ok)
  PROVE  Whole'
<1>1. /\ phase = "shuffle" /\ call[n] = "sent" /\ Steady /\ Types
      /\ UNCHANGED <<reads, values, mem, reduced, stores, store, clears, results, up>>
      /\ mapped' = [mapped EXCEPT ![n] = {}]
      /\ \/ /\ mapped[n] = {} /\ call' = [call EXCEPT ![n] = "answered"] /\ job' = job /\ puts' = puts
         \/ /\ mapped[n] # {} /\ call' = [call EXCEPT ![n] = "running"]
            /\ job' = [job EXCEPT ![n] = "shuffling"] /\ puts' = [puts EXCEPT ![n] = {v[1] : v \in mapped[n]}]
  BY DEF StartShuffle, Arrives, Turn, Steady, Safe, Lossless, reducing
<1>2. \A m \in Nodes \ {n} : SameAt(m)
  BY <1>1 DEF SameAt, Types
<1>3. HoldsMapped(n)
  BY <1>1 DEF Whole, ShuffleWhole, Shuffling
<1>4. \/ mapped[n] = {} /\ call'[n] = "answered"
      \/ mapped[n] # {} /\ call'[n] = "running" /\ puts'[n] = {v[1] : v \in mapped[n]}
  BY <1>1 DEF Types
<1>5. Shuffling(n)'
  <2>1. values'[n] = values[n] /\ Emitted(Partition(n))' = Emitted(Partition(n))
    BY <1>1 DEF Emitted, Partition, Steady
  <2>2. QED BY <1>3, <1>4, <2>1 DEF Shuffling, HoldsMapped
<1>6. ASSUME NEW o \in Keys PROVE Shuffled(o)' = Shuffled(o)
  <2>1. ASSUME NEW k \in Sources(o) PROVE Sent(Home[k], o)' <=> Sent(Home[k], o)
    <3>1. k \in plan.keys /\ Home[k] \in Nodes /\ o \in Emits[k] /\ k \in Partition(Home[k]) /\ k \in Keys
      BY SourcesAreKeys DEF Sources
    <3>2. CASE Home[k] # n
      BY <1>2, <3>1, <3>2 DEF Sent, SameAt
    <3>3. CASE Home[k] = n
      <4>1. <<o, {k}>> \in Emitted(Partition(n)) /\ <<o, {k}>>[1] = o
        <5>1. <<o, {k}>> \in Pairs
          BY <3>1 DEF Pairs
        <5>2. QED BY <3>1, <3>3, <5>1 DEF Emitted
      <4>2. <<o, {k}>> \in mapped[n]
        BY <1>3, <4>1 DEF HoldsMapped
      <4>3. ~Sent(n, o)'
        BY <1>4, <4>1, <4>2 DEF Sent
      <4>4. ~Sent(n, o)
        BY <1>1 DEF Sent
      <4>5. QED BY <3>3, <4>3, <4>4
    <3>4. QED BY <3>2, <3>3
  <2>2. Sources(o)' = Sources(o)
    BY <1>1 DEF Sources, Steady
  <2>3. QED BY <2>1, <2>2 DEF Shuffled
<1>7. ShuffleWhole'
  <2>1. ASSUME NEW m \in Nodes PROVE Shuffling(m)'
    BY <1>1, <1>2, <1>5, ShufflingKeeps DEF Whole, ShuffleWhole
  <2>2. ASSUME NEW o \in Keys PROVE (mem[Own(o)][o] = Shuffled(o))'
    BY <1>1, <1>6 DEF Whole, ShuffleWhole, Steady, Own
  <2>3. QED BY <2>1, <2>2 DEF ShuffleWhole
<1>8. InputWhole'
  BY <1>1, InputKeeps DEF Whole
<1>9. QED BY <1>1, <1>7, <1>8, PartsKeep DEF Whole

LEMMA PutShuffleWhole ==
  ASSUME Safe, Lossless(plan), Whole, NEW n \in Nodes, NEW o \in Keys, NEW ok \in BOOLEAN, PutShuffle(n, o, ok)
  PROVE  Whole'
<1>1. /\ Types /\ job[n] = "shuffling" /\ o \in puts[n] /\ Steady /\ ok
      /\ UNCHANGED <<reads, values, mapped, reduced, stores, store, results, up>>
      /\ puts'[n] = puts[n] \ {o} /\ (\A m \in Nodes \ {n} : puts'[m] = puts[m])
      /\ \/ puts[n] # {o} /\ job' = job /\ call' = call
         \/ /\ puts[n] = {o} /\ job' = [job EXCEPT ![n] = "none"]
            /\ call' = IF Awaited(n, "shuffle") THEN [call EXCEPT ![n] = "answered"] ELSE call
      /\ \A m \in Nodes, p \in Keys :
           mem'[m][p] = IF m = Own(o) /\ p = o /\ Own(o) \in up THEN mem[m][p] \cup Sum(n, o)
                        ELSE mem[m][p]
  <2>1. Types /\ Spread(n, o, ok) /\ ~plan.faulty
    BY PutShuffleEffect DEF Safe, Lossless
  <2>2. QED BY <2>1 DEF Spread
<1>2. clears' = clears
  BY PutShuffleEffect DEF Spread, Safe
<1>3. phase = "shuffle" /\ call[n] = "running"
  BY <1>1, LosslessFacts
<1>4. values[n] = Emitted(Partition(n))
  BY <1>3 DEF Whole, ShuffleWhole, Shuffling
<1>5. /\ \A m \in Nodes \ {n} : call'[m] = call[m]
      /\ call'[n] = IF puts[n] = {o} THEN "answered" ELSE "running"
  BY <1>1, <1>3 DEF Types, Awaited
<1>6. ASSUME NEW m \in Nodes PROVE Shuffling(m)'
  <2>1. Shuffling(m) /\ (HoldsMapped(m)' <=> HoldsMapped(m)) /\ Emitted(Partition(m))' = Emitted(Partition(m))
    BY <1>1, <1>3 DEF Whole, ShuffleWhole, HoldsMapped, Emitted, Partition, Steady
  <2>2. CASE m = n
    BY <1>1, <1>4, <1>5, <2>1, <2>2 DEF Shuffling
  <2>3. CASE m # n
    BY <1>1, <1>5, <2>1, <2>3 DEF Shuffling
  <2>4. QED BY <2>2, <2>3
<1>7. Sum(n, o) = {k \in Sources(o) : Home[k] = n}
  <2>1. ASSUME NEW x \in Sum(n, o) PROVE x \in Sources(o) /\ Home[x] = n
    <3>1. PICK v \in values[n] : v[1] = o /\ x \in v[2]
      BY <2>1 DEF Sum
    <3>2. PICK k \in Partition(n) : v[1] \in Emits[k] /\ v[2] = {k}
      BY <1>4, <3>1 DEF Emitted
    <3>3. x = k
      BY <3>1, <3>2
    <3>4. QED BY <3>1, <3>2, <3>3 DEF Partition, Sources
  <2>2. ASSUME NEW x \in Sources(o), Home[x] = n PROVE x \in Sum(n, o)
    <3>1. x \in plan.keys /\ x \in Keys /\ o \in Emits[x] /\ x \in Partition(n)
      BY <2>2, SourcesAreKeys DEF Sources
    <3>2. <<o, {x}>> \in Emitted(Partition(n))
      <4>1. <<o, {x}>> \in Pairs
        BY <3>1 DEF Pairs
      <4>2. QED BY <3>1, <4>1 DEF Emitted
    <3>3. QED BY <1>4, <3>2 DEF Sum
  <2>3. QED BY <2>1, <2>2
<1>8. ASSUME NEW p \in Keys PROVE (mem[Own(p)][p] = Shuffled(p))'
  <2>1. mem[Own(p)][p] = Shuffled(p) /\ Own(p) \in Nodes /\ Own(p)' = Own(p)
    BY <1>1, <1>3, OwnersOfRound DEF Types, Whole, ShuffleWhole
  <2>2. Sources(p)' = Sources(p) /\ \A k \in Sources(p) : Home[k] \in Nodes
    BY <1>1, SourcesAreKeys DEF Sources, Steady
  <2>3. CASE p # o
    <3>1. mem'[Own(p)][p] = mem[Own(p)][p]
      BY <1>1, <2>1, <2>3
    <3>2. ASSUME NEW m \in Nodes PROVE Sent(m, p)' <=> Sent(m, p)
      BY <1>1, <1>3, <1>5, <2>3 DEF Sent
    <3>3. QED BY <2>1, <2>2, <3>1, <3>2 DEF Shuffled
  <2>4. CASE p = o
    <3>1. mem'[Own(o)][o] = Shuffled(o) \cup {k \in Sources(o) : Home[k] = n}
      <4>1. Own(o) \in up
        BY <2>1, <2>4, LosslessFacts
      <4>2. QED BY <1>1, <1>7, <2>1, <2>4, <4>1
    <3>2. ASSUME NEW m \in Nodes PROVE Sent(m, o)' <=> (Sent(m, o) \/ m = n)
      BY <1>1, <1>3, <1>5 DEF Sent
    <3>3. Shuffled(o)' = Shuffled(o) \cup {k \in Sources(o) : Home[k] = n}
      BY <2>2, <2>4, <3>2 DEF Shuffled
    <3>4. QED BY <2>1, <2>4, <3>1, <3>3
  <2>5. QED BY <2>3, <2>4
<1>9. ShuffleWhole'
  BY <1>6, <1>8 DEF ShuffleWhole
<1>10. InputWhole'
  BY <1>1, <1>2, <1>3, InputKeeps DEF Whole
<1>11. QED BY <1>1, <1>3, <1>9, <1>10, PartsKeep DEF Whole

LEMMA ReducingKeeps ==
  ASSUME Steady, NEW m \in Nodes, SameAt(m), results \subseteq results', Reducing(m)
  PROVE  Reducing(m)'
BY DEF Steady, SameAt, Reducing, ResultOf, Result, Own, Sources

LEMMA StartReduceWhole ==
  ASSUME Safe, Lossless(plan), Whole, NEW n \in Nodes, StartReduce(n)
  PROVE  Whole'
<1> DEFINE First == /\ reduced' = [reduced EXCEPT ![n] = Reduced(n)] /\ results' = results
                    /\ stores' = [stores EXCEPT ![n] = {v[1] : v \in Reduced(n)}]
                    /\ \/ Reduced(n) = {} /\ call' = [call EXCEPT ![n] = "silent"]
                       \/ Reduced(n) # {} /\ call' = [call EXCEPT ![n] = "running"]
           Second == /\ call' = [call EXCEPT ![n] = "answered"] /\ results' = results \cup Reduced(n)
                     /\ UNCHANGED <<reduced, stores>>
<1>1. /\ Types /\ phase = "reduce" /\ call[n] = "sent" /\ Steady
      /\ UNCHANGED <<job, reads, puts, values, mapped, store, clears, up>> /\ mem' = [mem EXCEPT ![n] = Empty]
      /\ First \/ Second
  <2>1. Types
    BY DEF Safe
  <2>2. QED BY <2>1, StartReduceEffect
<1>2. \A m \in Nodes \ {n} : SameAt(m)
  BY <1>1 DEF SameAt, Types
<1>3. \A o \in Keys : mem[n][o] = IF Own(o) = n THEN Sources(o) ELSE {}
  BY <1>1, LosslessFacts DEF Whole, ReduceWhole, Reducing
<1>4. Reduced(n) = ResultOf(n)
  <2>1. ASSUME NEW v \in Reduced(n) PROVE v \in ResultOf(n)
    <3>1. PICK o \in Items(n) : v = <<o, mem[n][o]>> /\ plan.yields[o] = "pair"
      BY <2>1 DEF Reduced
    <3>2. o \in Keys /\ Own(o) = n /\ mem[n][o] = Sources(o) /\ mem[n][o] # {}
      BY <1>3, <3>1 DEF Items, Result
    <3>3. v \in Pairs
      BY <2>1, ReducedFits
    <3>4. QED BY <3>1, <3>2, <3>3 DEF ResultOf, Result
  <2>2. ASSUME NEW v \in ResultOf(n) PROVE v \in Reduced(n)
    <3>1. v[1] \in Keys /\ v = <<v[1], v[2]>> /\ Own(v[1]) = n /\ Result(v)
      BY <2>2 DEF ResultOf, Pairs
    <3>2. v[1] \in Items(n) /\ v[2] = mem[n][v[1]]
      BY <1>3, <3>1 DEF Items, Result
    <3>3. QED BY <3>1, <3>2 DEF Reduced, Result
  <2>3. QED BY <2>1, <2>2
<1>5. \/ call'[n] = "running" /\ reduced'[n] = ResultOf(n) /\ results' = results
      \/ call'[n] = "silent" /\ ResultOf(n) = {} /\ results' = results
      \/ call'[n] = "answered" /\ results' = results \cup ResultOf(n)
  BY <1>1, <1>4 DEF Types
<1>6. ReduceWhole'
  <2>1. ASSUME NEW m \in Nodes PROVE Reducing(m)'
    <3>1. CASE m = n
      <4>1. ResultOf(n)' = ResultOf(n)
        BY <1>1 DEF ResultOf, Result, Own, Sources, Steady
      <4>2. QED BY <1>1, <1>5, <3>1, <4>1 DEF Reducing, Steady
    <3>2. CASE m # n
      <4>1. results \subseteq results' /\ Reducing(m)
        BY <1>1, <1>5 DEF Whole, ReduceWhole
      <4>2. QED BY <1>1, <1>2, <3>2, <4>1, ReducingKeeps
    <3>3. QED BY <3>1, <3>2
  <2>2. QED BY <2>1 DEF ReduceWhole
<1>7. ResultsWhole'
  <2>1. ASSUME NEW v \in results' PROVE Result(v)
    BY <1>5, <2>1 DEF Whole, ResultsWhole, ResultOf
  <2>2. QED BY <1>1, <2>1 DEF ResultsWhole, Result, Sources, Steady
<1>8. InputWhole'
  BY <1>1, InputKeeps DEF Whole
<1>9. QED BY <1>1, <1>6, <1>7, <1>8, PartsKeep DEF Whole

LEMMA PutOutputWhole ==
  ASSUME Safe, Lossless(plan), Whole, NEW n \in Nodes, NEW o \in Keys, NEW ok \in BOOLEAN, PutOutput(n, o, ok)
  PROVE  Whole'
<1>1. /\ o \in stores[n] /\ Steady /\ UNCHANGED <<job, reads, puts, values, mapped, mem, reduced, clears, up>>
      /\ stores' = [stores EXCEPT ![n] = @ \ {o}]
      /\ \/ UNCHANGED <<call, results>>
         \/ /\ call' = IF Awaited(n, "reduce") THEN [call EXCEPT ![n] = "answered"] ELSE call
            /\ results' = IF Awaited(n, "reduce") THEN results \cup reduced[n] ELSE results
      /\ \A r \in 0..plan.rounds, k \in Keys : store'[r][k] = store[r][k] \/ r = Output
  <2>1. Stored(n, o)
    BY PutOutputEffect
  <2>2. QED BY <2>1 DEF Stored
<1>2. Types /\ phase = "reduce" /\ call[n] = "running" /\ round = 0 /\ plan.rounds = 1
  BY <1>1, LosslessFacts
<1>3. \A k \in Keys : store'[0][k] = store[0][k]
  <2>1. Output = 1
    BY <1>1, <1>2, SafeFacts DEF ValuesFit, HasOutput, Output
  <2>2. QED BY <1>1, <1>2, <2>1
<1>4. reduced[n] = ResultOf(n)
  BY <1>2 DEF Whole, ReduceWhole, Reducing
<1>5. /\ \A m \in Nodes \ {n} : SameAt(m)
      /\ \/ call'[n] = "running" /\ results' = results
         \/ call'[n] = "answered" /\ results' = results \cup ResultOf(n)
  BY <1>1, <1>2, <1>4 DEF Types, SameAt, Awaited
<1>6. ReduceWhole'
  <2>1. ASSUME NEW m \in Nodes PROVE Reducing(m)'
    <3>1. CASE m = n
      <4>1. ResultOf(n)' = ResultOf(n)
        BY <1>1 DEF ResultOf, Result, Own, Sources, Steady
      <4>2. QED BY <1>1, <1>2, <1>4, <1>5, <3>1, <4>1 DEF Reducing, Steady
    <3>2. CASE m # n
      <4>1. results \subseteq results' /\ Reducing(m)
        BY <1>2, <1>5 DEF Whole, ReduceWhole
      <4>2. QED BY <1>1, <1>5, <3>2, <4>1, ReducingKeeps
    <3>3. QED BY <3>1, <3>2
  <2>2. QED BY <2>1 DEF ReduceWhole
<1>7. ResultsWhole'
  <2>1. ASSUME NEW v \in results' PROVE Result(v)
    BY <1>5, <2>1 DEF Whole, ResultsWhole, ResultOf
  <2>2. QED BY <1>1, <2>1 DEF ResultsWhole, Result, Sources, Steady
<1>8. InputWhole'
  <2>1. ASSUME NEW k \in plan.keys, Unread(k)'
        PROVE  store'[0][k] = {k} /\ \A m \in Nodes : <<m, 0>> \notin clears'
    <3>1. Unread(k)
      BY <1>1, <1>2, <2>1 DEF Unread, Steady
    <3>2. k \in Keys
      BY SourcesAreKeys
    <3>3. QED BY <1>1, <1>2, <1>3, <3>1, <3>2 DEF Whole, InputWhole
  <2>2. QED BY <1>1, <2>1 DEF InputWhole, Steady
<1>9. QED BY <1>1, <1>2, <1>6, <1>7, <1>8, PartsKeep DEF Whole

LEMMA NextPhaseWhole ==
  ASSUME Safe, Lossless(plan), Whole, NextPhase
  PROVE  Whole'
<1>1. /\ plan' = plan /\ (\A n \in Nodes : call[n] \in {"answered", "failed"})
      /\ UNCHANGED <<job, reads, puts, values, mapped, mem, reduced, stores, store, clears, up>>
      /\ call' = [n \in Nodes |-> IF phase = "reduce" THEN "none" ELSE Calls[n]]
  BY DEF NextPhase, Over, Calls, reducing
<1>2. PICK n0 \in Nodes : TRUE
  BY MapReduceAssumption
<1>3. plan.rounds = 1 /\ round = 0 /\ \A n \in Nodes : n \in up /\ (phase # "reduce" => call[n] = "answered")
  BY <1>1, <1>2, LosslessFacts
<1>4. phase \in {"map", "shuffle", "reduce"}
  BY <1>1, <1>2, SafeFacts DEF Called
<1>5. \/ phase = "map" /\ phase' = "shuffle" /\ results' = results
      \/ phase = "shuffle" /\ phase' = "reduce" /\ results' = results
      \/ phase = "reduce" /\ phase' = "done" /\ results' = results
  <2>1. CASE phase = "map"
    BY <2>1 DEF NextPhase
  <2>2. CASE phase = "shuffle"
    BY <2>2 DEF NextPhase
  <2>3. CASE phase = "reduce"
    BY <1>3, <2>3 DEF NextPhase
  <2>4. QED BY <1>4, <2>1, <2>2, <2>3
<1>6. \A n \in Nodes : call'[n] = IF phase = "reduce" THEN "none" ELSE "sent"
  BY <1>1, <1>3 DEF Calls, Lossless
<1>7. \A o \in Keys : Sources(o)' = Sources(o)
  BY <1>1 DEF Sources
<1>8. ShuffleWhole'
  <2>1. SUFFICES ASSUME phase = "map" PROVE ShuffleWhole'
    BY <1>5 DEF ShuffleWhole
  <2>2. ASSUME NEW n \in Nodes PROVE Shuffling(n)'
    <3>1. HoldsMapped(n)
      BY <1>3, <2>1 DEF Whole, MapWhole, Mapping
    <3>2. HoldsMapped(n)'
      BY <1>1, <3>1 DEF HoldsMapped, Emitted, Partition
    <3>3. call'[n] = "sent"
      BY <1>6, <2>1
    <3>4. QED BY <3>2, <3>3 DEF Shuffling
  <2>3. ASSUME NEW o \in Keys PROVE (mem[Own(o)][o] = Shuffled(o))'
    <3>1. Own(o) \in Nodes /\ Own(o)' = Own(o) /\ \A k \in Sources(o) : Home[k] \in Nodes
      <4>1. round' = round
        BY <1>5, <2>1 DEF NextPhase
      <4>2. QED BY <1>1, <4>1, OwnersOfRound, SourcesAreKeys DEF Safe, Types, Own, Sources
    <3>2. mem[Own(o)][o] = {}
      BY <2>1, <3>1, LosslessFacts
    <3>3. Shuffled(o)' = {}
      BY <1>6, <1>7, <2>1, <3>1 DEF Shuffled, Sent
    <3>4. QED BY <1>1, <3>1, <3>2, <3>3
  <2>4. QED BY <2>2, <2>3 DEF ShuffleWhole
<1>9. ReduceWhole'
  <2>1. ASSUME NEW n \in Nodes, phase = "shuffle" PROVE Reducing(n)'
    <3>1. ASSUME NEW o \in Keys, Own(o) = n PROVE mem'[n][o] = Sources(o)'
      <4>1. \A k \in Sources(o) : Sent(Home[k], o)
        BY <1>3, <2>1, SourcesAreKeys DEF Sources, Sent
      <4>2. mem[n][o] = Shuffled(o)
        BY <2>1, <3>1 DEF Whole, ShuffleWhole
      <4>3. QED BY <1>1, <1>7, <4>1, <4>2 DEF Shuffled
    <3>2. call'[n] = "sent" /\ phase' = "reduce"
      BY <1>5, <1>6, <2>1
    <3>3. round' = round
      BY <2>1 DEF NextPhase
    <3>4. QED BY <1>1, <3>1, <3>2, <3>3 DEF Reducing, Own
  <2>2. ASSUME NEW n \in Nodes, phase = "reduce" PROVE Reducing(n)'
    <3>1. ResultOf(n) \subseteq results
      BY <1>1, <2>2 DEF Whole, ReduceWhole, Reducing
    <3>2. ResultOf(n)' = ResultOf(n)
      <4>1. round' = round
        BY <1>3, <2>2 DEF NextPhase
      <4>2. QED BY <1>1, <4>1 DEF ResultOf, Result, Own, Sources
    <3>3. call'[n] = "none" /\ phase' = "done" /\ results' = results
      BY <1>5, <1>6, <2>2
    <3>4. QED BY <3>1, <3>2, <3>3 DEF Reducing
  <2>3. QED BY <1>5, <2>1, <2>2 DEF ReduceWhole
<1>10. ResultsWhole'
  BY <1>1, <1>5 DEF Whole, ResultsWhole, Result, Sources
<1>11. InputWhole'
  BY <1>1, <1>5 DEF Whole, InputWhole, Unread
<1>12. MapWhole'
  BY <1>5 DEF MapWhole
<1>13. QED BY <1>8, <1>9, <1>10, <1>11, <1>12 DEF Whole

LEMMA UnchangedWhole ==
  ASSUME Safe, Lossless(plan), Whole, UNCHANGED vars
  PROVE  Whole'
<1>1. Steady /\ results' = results /\ store' = store /\ clears' = clears /\ call' = call /\ reads' = reads
      /\ mem' = mem /\ puts' = puts /\ \A m \in Nodes : SameAt(m)
  BY DEF vars, reducing, Steady, SameAt
<1>2. MapWhole'
  BY <1>1, MappingKeeps DEF Whole, MapWhole, Steady
<1>3. ShuffleWhole'
  <2>1. ASSUME NEW m \in Nodes, phase = "shuffle" PROVE Shuffling(m)'
    BY <1>1, <2>1, ShufflingKeeps DEF Whole, ShuffleWhole
  <2>2. ASSUME NEW o \in Keys PROVE Shuffled(o)' = Shuffled(o)
    BY <1>1 DEF Shuffled, Sources, Sent, Steady
  <2>3. QED BY <1>1, <2>1, <2>2 DEF Whole, ShuffleWhole, Steady, Own
<1>4. ReduceWhole'
  BY <1>1, ReducingKeeps DEF Whole, ReduceWhole, Steady
<1>5. InputWhole'
  BY <1>1, InputKeeps DEF Whole
<1>6. QED BY <1>1, <1>2, <1>3, <1>4, <1>5, PartsKeep DEF Whole

\* Only a reduce that made nothing times out.
LEMMA TimeOutWhole ==
  ASSUME Safe, Lossless(plan), Whole, NEW n \in Nodes, TimeOut(n)
  PROVE  Whole'
<1>1. /\ Types /\ call[n] = "silent" /\ call' = [call EXCEPT ![n] = "failed"] /\ Steady
      /\ UNCHANGED <<job, reads, puts, values, mapped, mem, reduced, stores, store, clears, results, up>>
  BY DEF TimeOut, Turn, Steady, Safe, Lossless, reducing
<1>2. phase = "reduce"
  BY <1>1, SafeFacts DEF Called
<1>3. call'[n] = "failed" /\ \A m \in Nodes \ {n} : SameAt(m)
  BY <1>1 DEF Types, SameAt
<1>4. ReduceWhole'
  <2>1. ASSUME NEW m \in Nodes PROVE Reducing(m)'
    <3>1. Reducing(m)
      BY <1>2 DEF Whole, ReduceWhole
    <3>2. CASE m = n
      BY <1>1, <1>3, <3>1, <3>2 DEF Reducing, ResultOf, Result, Own, Sources, Steady
    <3>3. CASE m # n
      BY <1>1, <1>3, <3>1, <3>3, ReducingKeeps
    <3>4. QED BY <3>2, <3>3
  <2>2. QED BY <2>1 DEF ReduceWhole
<1>5. InputWhole'
  BY <1>1, <1>2, InputKeeps DEF Whole
<1>6. QED BY <1>1, <1>2, <1>4, <1>5, PartsKeep DEF Whole

WholeInv == Lossless(plan) => Whole

LEMMA NextWhole ==
  ASSUME Safe, WholeInv, [Next]_vars
  PROVE  WholeInv'
<1>1. plan' = plan
  <2>1. ASSUME NEW n \in Nodes, Work(n) PROVE plan' = plan
    <3>1. \A k \in Keys, ok \in BOOLEAN : Read(n, k, ok) => plan' = plan
      BY DEF Read
    <3>2. \A o \in Keys, ok \in BOOLEAN : (PutShuffle(n, o, ok) \/ PutOutput(n, o, ok)) => plan' = plan
      BY DEF PutShuffle, PutOutput
    <3>3. \A ok \in BOOLEAN : (EndMap(n, ok) \/ StartShuffle(n, ok)) => plan' = plan
      BY DEF EndMap, StartShuffle
    <3>4. (StartMap(n) \/ StartReduce(n)) => plan' = plan
      BY DEF StartMap, StartReduce
    <3>5. QED BY <2>1, <3>1, <3>2, <3>3, <3>4 DEF Work
  <2>2. CASE (\E ok \in BOOLEAN : Install(ok)) \/ NextPhase
    BY <2>2 DEF Install, NextPhase
  <2>3. CASE UNCHANGED vars
    BY <2>3 DEF vars
  <2>4. ASSUME NEW n \in Nodes, NEW r \in 0..round, Clear(n, r) PROVE plan' = plan
    BY <2>4 DEF Clear
  <2>5. ASSUME NEW n \in Nodes, TimeOut(n) \/ Crash(n) PROVE plan' = plan
    BY <2>5 DEF TimeOut, Crash
  <2>6. QED BY <2>1, <2>2, <2>3, <2>4, <2>5 DEF Next
<1>2. SUFFICES ASSUME Lossless(plan), Whole PROVE Whole'
  BY <1>1 DEF WholeInv
<1>3. CASE UNCHANGED vars
  BY <1>2, <1>3, UnchangedWhole
<1>4. ASSUME NEW ok \in BOOLEAN, Install(ok) PROVE Whole'
  BY <1>2, <1>4, InstallWhole
<1>5. CASE NextPhase
  BY <1>2, <1>5, NextPhaseWhole
<1>6. ASSUME NEW n \in Nodes, StartMap(n) PROVE Whole'
  BY <1>2, <1>6, StartMapWhole
<1>7. ASSUME NEW n \in Nodes, NEW k \in Keys, NEW ok \in BOOLEAN, Read(n, k, ok) PROVE Whole'
  BY <1>2, <1>7, ReadWhole
<1>8. ASSUME NEW n \in Nodes, NEW ok \in BOOLEAN, EndMap(n, ok) PROVE Whole'
  BY <1>2, <1>8, EndMapWhole
<1>9. ASSUME NEW n \in Nodes, NEW ok \in BOOLEAN, StartShuffle(n, ok) PROVE Whole'
  BY <1>2, <1>9, StartShuffleWhole
<1>10. ASSUME NEW n \in Nodes, NEW o \in Keys, NEW ok \in BOOLEAN, PutShuffle(n, o, ok) PROVE Whole'
  BY <1>2, <1>10, PutShuffleWhole
<1>11. ASSUME NEW n \in Nodes, NEW o \in Keys, NEW ok \in BOOLEAN, PutOutput(n, o, ok) PROVE Whole'
  BY <1>2, <1>11, PutOutputWhole
<1>12. ASSUME NEW n \in Nodes, StartReduce(n) PROVE Whole'
  BY <1>2, <1>12, StartReduceWhole
<1>13. ASSUME NEW n \in Nodes, NEW r \in 0..round, Clear(n, r) PROVE Whole'
  BY <1>2, <1>13, ClearWhole
<1>14. ASSUME NEW n \in Nodes, TimeOut(n) \/ Crash(n) PROVE Whole'
  <2>1. TimeOut(n)
    BY <1>2, <1>14 DEF Crash, Lossless
  <2>2. QED BY <1>2, <2>1, TimeOutWhole
<1>15. QED
  BY <1>3, <1>4, <1>5, <1>6, <1>7, <1>8, <1>9, <1>10, <1>11, <1>12, <1>13, <1>14 DEF Next, Work

\* An execution of one round without faults, from outside the group, calls back
\* with every key and every value that belongs to it (mr.js:36) and leaves
\* nothing in the memory of the nodes, whatever the order of the calls: provided
\* that it keeps its input or that one node maps it all.
THEOREM LosslessIsComplete == Spec => [](Lossless(plan) => ResultIsComplete)
<1>1. ASSUME Safe, WholeInv PROVE Lossless(plan) => ResultIsComplete
  <2>1. SUFFICES ASSUME Lossless(plan), phase = "done"
                 PROVE  /\ results = {<<o, Expected[o]>> : o \in {k \in Keys : Expected[k] # {}}}
                        /\ \A n \in Nodes : mem[n] = Empty /\ mapped[n] = {}
    BY DEF ResultIsComplete
  <2>2. Types /\ Whole /\ plan.rounds = 1 /\ plan \in Plans /\ plan.keys \subseteq Keys
    BY <1>1, <2>1, Constants DEF Safe, Types, WholeInv, Lossless
  <2>3. ASSUME NEW o \in Keys PROVE Expected[o] = IF plan.yields[o] = "pair" THEN Sources(o) ELSE {}
    <3>1. 0 \in 0..(plan.rounds - 1) /\ 0 + 1 = plan.rounds
      BY <2>2
    <3>2. Origins(plan)[plan.rounds][o] = UNION {Origins(plan)[0][k] : k \in {i \in plan.keys : o \in Emits[i]}}
      <4>1. Inputs(plan, 1) = plan.keys
        BY <2>2 DEF Inputs
      <4>2. QED BY <2>2, <3>1, <4>1, NextRound
    <3>3. \A k \in plan.keys : Origins(plan)[0][k] = {k}
      BY <2>2, InputFits
    <3>4. Origins(plan)[plan.rounds][o] = Sources(o)
      BY <3>2, <3>3 DEF Sources
    <3>5. QED BY <3>4 DEF Expected
  <2>4. results \subseteq {<<o, Expected[o]>> : o \in {k \in Keys : Expected[k] # {}}}
    <3>1. ASSUME NEW v \in results PROVE v \in {<<o, Expected[o]>> : o \in {k \in Keys : Expected[k] # {}}}
      <4>1. v \in Pairs /\ Result(v)
        BY <2>2 DEF Types, Whole, ResultsWhole
      <4>2. v[1] \in Keys /\ v = <<v[1], v[2]>>
        BY <4>1 DEF Pairs
      <4>3. QED BY <2>3, <4>1, <4>2 DEF Result
    <3>2. QED BY <3>1
  <2>5. ASSUME NEW o \in Keys, Expected[o] # {} PROVE <<o, Expected[o]>> \in results
    <3>1. /\ Own(o) \in Nodes /\ plan.yields[o] = "pair"
          /\ Expected[o] = Sources(o) /\ Sources(o) \subseteq Keys
      BY <2>2, <2>3, <2>5, OwnersOfRound DEF Types, Sources
    <3>2. <<o, Expected[o]>> \in ResultOf(Own(o))
      BY <2>5, <3>1 DEF ResultOf, Result, Pairs
    <3>3. ResultOf(Own(o)) \subseteq results
      BY <2>1, <2>2, <3>1 DEF Whole, ReduceWhole, Reducing
    <3>4. QED BY <3>2, <3>3
  <2>6. ASSUME NEW n \in Nodes PROVE mem[n] = Empty /\ mapped[n] = {}
    <3>1. mapped[n] = {} /\ \A o \in Keys : mem[n][o] = {}
      BY <1>1, <2>1, LosslessFacts
    <3>2. QED BY <2>2, <3>1 DEF Types, Empty
  <2>7. QED BY <2>4, <2>5, <2>6
<1>2. Init => WholeInv
  BY InitWhole DEF WholeInv
<1>3. QED BY <1>1, <1>2, InitSafe, NextSafe, NextWhole, PTL DEF Spec

=============================================================================
