-------------------------- MODULE Messaging_proofs --------------------------
(* What calls between nodes promise, for any nodes, operations, pages and   *)
(* payloads: a serialized graph comes back the same, a ranking is ordered   *)
(* and complete, every operation answers once, and a lookup finds what its  *)
(* terms have.  What is defined by recursion on numbers is proved by        *)
(* induction over sets of numbers: SetInduction, Stays and Recursion.       *)
EXTENDS Messaging, FiniteSetTheorems, FunctionTheorems, SequenceTheorems, WellFoundedInduction, TLAPS

----------------------------------------------------------------------------
(* Induction *)

\* Numbers: a set with 0 and the successor of each of its members has all.
LEMMA SetInduction ==
  ASSUME NEW P, 0 \in P, \A n \in Nat : n \in P => n + 1 \in P
  PROVE  Nat \subseteq P
<1> DEFINE T == {n \in Nat : n \notin P}
<1>1. SUFFICES ASSUME T # {} PROVE FALSE
  OBVIOUS
<1>2. T \subseteq Nat
  OBVIOUS
<1> HIDE DEF T
<1>3. PICK x \in T : \A y \in T : ~(<<y, x>> \in OpToRel(<, Nat))
  BY <1>1, <1>2, NatLessThanWellFounded, WFMin, Zenon
<1> USE DEF T
<1>4. x \in Nat /\ x \notin P /\ \A y \in T : ~(y < x)
  BY <1>3 DEF OpToRel
<1>5. x # 0 /\ x - 1 \in Nat /\ x - 1 < x
  BY <1>4
<1>6. x - 1 \in P
  BY <1>4, <1>5
<1>7. (x - 1) + 1 \in P
  BY <1>5, <1>6
<1>8. QED BY <1>4, <1>5, <1>7

\* What holds of a sequence of values at 0, and at each number if it holds at
\* the number before, holds up to the bound.
LEMMA Stays ==
  ASSUME NEW N \in Nat, NEW I, NEW f, f[0] \in I[0],
         \A i \in 1..N : f[i - 1] \in I[i - 1] => f[i] \in I[i]
  PROVE  \A i \in 0..N : f[i] \in I[i]
<1> DEFINE P == {n \in Nat : n <= N => f[n] \in I[n]}
<1>1. 0 \in P
  OBVIOUS
<1>2. ASSUME NEW n \in Nat, n \in P PROVE n + 1 \in P
  <2>1. SUFFICES ASSUME n + 1 <= N PROVE f[n + 1] \in I[n + 1]
    OBVIOUS
  <2>2. f[n] \in I[n] /\ n + 1 \in 1..N /\ (n + 1) - 1 = n
    BY <1>2, <2>1
  <2>3. QED BY <2>2
<1>3. Nat \subseteq P
  <2> HIDE DEF P
  <2>1. QED BY <1>1, <1>2, SetInduction
<1>4. QED BY <1>3

\* The functions that start with a and go on by the steps g, within the sets I.
Recursions(N, S, I, a, g) ==
  {f \in [0..N -> S] : /\ f[0] = a /\ \A i \in 1..N : f[i] = g[i][f[i - 1]]
                       /\ \A i \in 0..N : f[i] \in I[i]}

\* A function can be defined by recursion on the numbers up to a bound, when
\* its steps g stay within the sets I.
LEMMA Recursion ==
  ASSUME NEW N \in Nat, NEW S, NEW I, \A i \in 0..N : I[i] \subseteq S,
         NEW a \in I[0], NEW g, \A i \in 1..N : \A x \in I[i - 1] : g[i][x] \in I[i]
  PROVE  Recursions(N, S, I, a, g) # {}
<1> DEFINE Good(n, f) == /\ f = [i \in 0..n |-> IF i = 0 THEN a ELSE g[i][f[i - 1]]]
                         /\ \A i \in 0..n : f[i] \in I[i]
           P == {n \in Nat : n <= N => \E f : Good(n, f)}
<1>1. 0 \in P
  <2> DEFINE h == [i \in 0..0 |-> a]
  <2>1. h[0] = a /\ \A i \in 0..0 : i = 0
    OBVIOUS
  <2>2. h = [i \in 0..0 |-> IF i = 0 THEN a ELSE g[i][h[i - 1]]]
    OBVIOUS
  <2> HIDE DEF h
  <2>3. Good(0, h)
    BY <2>1, <2>2
  <2>4. QED BY <2>3
<1>2. ASSUME NEW n \in Nat, n \in P PROVE n + 1 \in P
  <2>1. SUFFICES ASSUME n + 1 <= N PROVE \E f : Good(n + 1, f)
    OBVIOUS
  <2>2. PICK f : Good(n, f)
    BY <1>2, <2>1
  <2> DEFINE h == [i \in 0..(n + 1) |-> IF i = n + 1 THEN g[n + 1][f[n]] ELSE f[i]]
  <2>3. n \in 0..n /\ n + 1 \in 1..N /\ (n + 1) - 1 = n /\ f[n] \in I[n]
    BY <2>1, <2>2
  <2>4. g[n + 1][f[n]] \in I[n + 1]
    BY <2>3
  <2>5. /\ DOMAIN h = 0..(n + 1) /\ h[n + 1] = g[n + 1][f[n]]
        /\ \A i \in 0..n : h[i] = f[i] /\ i \in 0..(n + 1)
        /\ h = [i \in 0..(n + 1) |-> h[i]]
    OBVIOUS
  <2> HIDE DEF h
  <2>6. ASSUME NEW i \in 0..(n + 1)
        PROVE  h[i] = (IF i = 0 THEN a ELSE g[i][h[i - 1]]) /\ h[i] \in I[i]
    <3>1. CASE i = n + 1
      <4>1. i # 0 /\ i - 1 = n
        BY <3>1
      <4>2. h[n] = f[n] /\ h[i] = g[i][f[n]] /\ h[i] \in I[i]
        BY <3>1, <2>3, <2>4, <2>5
      <4>3. h[i - 1] = f[n]
        BY <4>1, <4>2
      <4>4. QED BY <4>1, <4>2, <4>3
    <3>2. CASE i # n + 1
      <4>1. i \in 0..n /\ (i # 0 => i - 1 \in 0..n)
        BY <3>2
      <4>2. f[i] = (IF i = 0 THEN a ELSE g[i][f[i - 1]]) /\ f[i] \in I[i]
        BY <2>2, <4>1
      <4>3. QED BY <2>5, <4>1, <4>2
    <3>3. QED BY <3>1, <3>2
  <2>7. h = [i \in 0..(n + 1) |-> IF i = 0 THEN a ELSE g[i][h[i - 1]]]
    BY <2>5, <2>6
  <2>8. Good(n + 1, h)
    BY <2>6, <2>7
  <2>9. QED BY <2>8
<1>3. N \in P
  <2>1. Nat \subseteq P
    <3> HIDE DEF P
    <3>1. QED BY <1>1, <1>2, SetInduction
  <2>2. QED BY <2>1
<1>4. PICK f : Good(N, f)
  BY <1>3
<1>5. f = [i \in 0..N |-> f[i]] /\ \A i \in 0..N : f[i] \in S
  BY <1>4
<1>6. f \in [0..N -> S]
  BY <1>5
<1>7. f[0] = a /\ \A i \in 1..N : f[i] = g[i][f[i - 1]]
  <2>1. 0 \in 0..N /\ \A i \in 1..N : i \in 0..N /\ i # 0
    OBVIOUS
  <2>2. \A i \in 0..N : f[i] = IF i = 0 THEN a ELSE g[i][f[i - 1]]
    BY <1>4
  <2>3. QED BY <2>1, <2>2
<1>8. QED BY <1>4, <1>6, <1>7 DEF Recursions

----------------------------------------------------------------------------
(* Lists *)

Injective(s) == \A i, j \in 1..Len(s) : s[i] = s[j] => i = j

\* Only keeps the elements in the set, and nothing else.
LEMMA OnlyFacts ==
  ASSUME NEW T, NEW s \in Seq(T), NEW S
  PROVE  /\ Only(s, S) \in Seq(T) /\ ToSet(Only(s, S)) = ToSet(s) \cap S
         /\ Injective(s) => Injective(Only(s, S))
<1> DEFINE N == Len(s)
           Step(x, i) == IF s[i] \in S THEN Append(x, s[i]) ELSE x
           I == [i \in 0..N |-> {r \in Seq(T) :
                   /\ \A j \in 1..Len(r) : r[j] \in S /\ \E k \in 1..i : s[k] = r[j]
                   /\ \A k \in 1..i : s[k] \in S => \E j \in 1..Len(r) : r[j] = s[k]
                   /\ Injective(s) => Injective(r)}]
           g == [i \in 1..N |-> [x \in I[i - 1] |-> Step(x, i)]]
           Def(f) == f = [i \in 0..N |-> IF i = 0 THEN <<>> ELSE IF s[i] \in S THEN Append(f[i - 1], s[i]) ELSE f[i - 1]]
           kept == CHOOSE f : Def(f)
<1>1. N \in Nat /\ DOMAIN s = 1..N /\ \A i \in 1..N : s[i] \in T
  OBVIOUS
<1>2. <<>> \in I[0]
  BY <1>1 DEF Injective
<1>3. ASSUME NEW i \in 1..N, NEW x \in I[i - 1] PROVE Step(x, i) \in I[i]
  <2>1. i - 1 \in 0..N /\ i \in 0..N /\ \A k \in 1..i : k = i \/ k \in 1..(i - 1)
    BY <1>1
  <2>2. /\ x \in Seq(T) /\ \A j \in 1..Len(x) : x[j] \in S /\ \E k \in 1..(i - 1) : s[k] = x[j]
        /\ \A k \in 1..(i - 1) : s[k] \in S => \E j \in 1..Len(x) : x[j] = s[k]
        /\ Injective(s) => Injective(x)
    BY <2>1
  <2>3. CASE s[i] \notin S
    <3>1. Step(x, i) = x
      BY <2>3
    <3>2. /\ \A j \in 1..Len(x) : x[j] \in S /\ \E k \in 1..i : s[k] = x[j]
          /\ \A k \in 1..i : s[k] \in S => \E j \in 1..Len(x) : x[j] = s[k]
      BY <2>1, <2>2, <2>3
    <3>3. QED BY <2>1, <2>2, <3>1, <3>2
  <2>4. CASE s[i] \in S
    <3> DEFINE r == Append(x, s[i])
    <3>1. r \in Seq(T) /\ Len(r) = Len(x) + 1 /\ Len(x) \in Nat /\ r[Len(x) + 1] = s[i] /\ \A j \in 1..Len(x) : r[j] = x[j]
      BY <1>1, <2>2
    <3> HIDE DEF r
    <3>2. \A j \in 1..Len(r) : j = Len(x) + 1 \/ j \in 1..Len(x)
      BY <3>1
    <3>3. ASSUME NEW j \in 1..Len(r) PROVE r[j] \in S /\ \E k \in 1..i : s[k] = r[j]
      <4>1. CASE j = Len(x) + 1
        BY <2>1, <2>4, <3>1, <4>1
      <4>2. CASE j \in 1..Len(x)
        <5>1. x[j] \in S /\ r[j] = x[j]
          BY <2>2, <3>1, <4>2
        <5>2. PICK k \in 1..(i - 1) : s[k] = x[j]
          BY <2>2, <4>2
        <5>3. k \in 1..i
          BY <2>1
        <5>4. QED BY <5>1, <5>2, <5>3
      <4>3. QED BY <3>2, <4>1, <4>2
    <3>4. ASSUME NEW k \in 1..i, s[k] \in S PROVE \E j \in 1..Len(r) : r[j] = s[k]
      <4>1. CASE k = i
        <5>1. Len(x) + 1 \in 1..Len(r) /\ r[Len(x) + 1] = s[k]
          BY <3>1, <4>1
        <5>2. QED BY <5>1
      <4>2. CASE k \in 1..(i - 1)
        <5>1. PICK j \in 1..Len(x) : x[j] = s[k]
          BY <2>2, <3>4, <4>2
        <5>2. j \in 1..Len(r) /\ r[j] = s[k]
          BY <3>1, <5>1
        <5>3. QED BY <5>2
      <4>3. QED BY <2>1, <4>1, <4>2
    <3>5. ASSUME Injective(s) PROVE Injective(r)
      <4>1. \A j \in 1..Len(x) : r[j] # r[Len(x) + 1]
        <5>1. SUFFICES ASSUME NEW j \in 1..Len(x), x[j] = s[i] PROVE FALSE
          BY <3>1
        <5>2. PICK k \in 1..(i - 1) : s[k] = s[i]
          BY <2>2, <5>1
        <5>3. k \in 1..N /\ k # i
          BY <1>1
        <5>4. QED BY <3>5, <5>2, <5>3 DEF Injective
      <4>2. \A j, k \in 1..Len(x) : r[j] = r[k] => j = k
        BY <2>2, <3>1, <3>5 DEF Injective
      <4>3. QED BY <3>2, <4>1, <4>2 DEF Injective
    <3>6. Step(x, i) = r
      BY <2>4 DEF r
    <3>7. QED BY <2>1, <3>1, <3>3, <3>4, <3>5, <3>6
  <2>5. QED BY <2>3, <2>4
<1>4. \A i \in 1..N : \A x \in I[i - 1] : g[i][x] \in I[i] /\ g[i][x] = Step(x, i)
  BY <1>3
<1>5. Only(s, S) = kept[N]
  BY DEF Only
<1> HIDE DEF g, I, N
<1>6. PICK f \in [0..N -> Seq(T)] : /\ f[0] = <<>> /\ \A i \in 1..N : f[i] = g[i][f[i - 1]]
                                   /\ \A i \in 0..N : f[i] \in I[i]
  <2>1. \A i \in 1..N : \A x \in I[i - 1] : g[i][x] \in I[i]
    BY <1>4
  <2>2. \A i \in 0..N : I[i] \subseteq Seq(T)
    BY DEF I
  <2> DEFINE a == <<>>
  <2>3. a \in I[0]
    BY <1>2
  <2> HIDE DEF a
  <2>4. Recursions(N, Seq(T), I, a, g) # {}
    BY <1>1, <2>1, <2>2, <2>3, Recursion
  <2>5. QED BY <2>4 DEF a, Recursions
<1>7. Def(f)
  <2>1. \A i \in 0..N : i # 0 => i \in 1..N /\ i - 1 \in 0..N
    BY <1>1
  <2>2. \A i \in 0..N : i # 0 => g[i][f[i - 1]] = Step(f[i - 1], i)
    BY <1>4, <1>6, <2>1
  <2>3. QED BY <1>6, <2>1, <2>2
<1>8. Def(kept)
  BY <1>7
<1> HIDE DEF kept
<1>9. kept[0] = <<>> /\ \A i \in 1..N : kept[i] = Step(kept[i - 1], i)
  <2>1. 0 \in 0..N /\ \A i \in 1..N : i \in 0..N /\ i # 0
    BY <1>1
  <2>2. \A i \in 0..N : kept[i] = IF i = 0 THEN <<>> ELSE Step(kept[i - 1], i)
    BY <1>8
  <2>3. QED BY <2>1, <2>2
<1>10. \A i \in 0..N : kept[i] \in I[i]
  <2>1. \A i \in 1..N : kept[i - 1] \in I[i - 1] => kept[i] \in I[i]
    BY <1>3, <1>9
  <2>2. QED BY <1>1, <1>2, <1>9, <2>1, Stays
<1>11. Only(s, S) \in I[N] /\ N \in 0..N
  BY <1>1, <1>5, <1>10
<1> DEFINE r == Only(s, S)
<1> HIDE DEF r
<1>12. /\ r \in Seq(T) /\ \A j \in 1..Len(r) : r[j] \in S /\ \E k \in 1..N : s[k] = r[j]
       /\ \A k \in 1..N : s[k] \in S => \E j \in 1..Len(r) : r[j] = s[k]
       /\ Injective(s) => Injective(r)
  BY <1>11 DEF I, r
<1>13. DOMAIN r = 1..Len(r)
  BY <1>12
<1>14. ToSet(r) = ToSet(s) \cap S
  <2>1. ToSet(r) = {r[j] : j \in 1..Len(r)} /\ ToSet(s) = {s[k] : k \in 1..N}
    BY <1>1, <1>13 DEF ToSet
  <2>2. QED BY <1>12, <2>1
<1>15. QED BY <1>12, <1>14 DEF r

----------------------------------------------------------------------------
(* Paths in graphs *)

\* A set of values that the properties of objects do not leave.
Closed(g, S) ==
  /\ g.root \in S
  /\ \A v \in S : v[1] = "ref" => \A p \in DOMAIN g.heap[v[2]].props : g.heap[v[2]].props[p] \in S

\* The values along a path.
Along(f, g, path, nothing) ==
  f[0] = g.root /\ \A i \in 1..Len(path) : f[i] = Get(g, f[i - 1], path[i], nothing)

\* There are such values, in the set, and the walk is the last of them.
LEMMA WalkAlong ==
  ASSUME NEW g, NEW nothing, NEW S, Closed(g, S), nothing \in S, NEW T, NEW path \in Seq(T)
  PROVE  \E f : /\ Along(f, g, path, nothing) /\ Walk(g, path, nothing) = f[Len(path)]
                /\ \A i \in 0..Len(path) : f[i] \in S
<1> DEFINE N == Len(path)
           I == [i \in 0..N |-> S]
           a == g.root
           h == [i \in 1..N |-> [v \in S |-> Get(g, v, path[i], nothing)]]
           Def(f) == f = [i \in 0..N |-> IF i = 0 THEN g.root ELSE Get(g, f[i - 1], path[i], nothing)]
           at == CHOOSE f : Def(f)
<1>1. N \in Nat
  OBVIOUS
<1>2. \A v \in S : \A p : Get(g, v, p, nothing) \in S
  BY DEF Get, Closed
<1>3. a \in I[0] /\ \A i \in 0..N : I[i] = S
  BY <1>1 DEF Closed
<1>4. \A i \in 1..N : \A v \in I[i - 1] : h[i][v] = Get(g, v, path[i], nothing) /\ h[i][v] \in I[i]
  BY <1>1, <1>2, <1>3
<1>5. Walk(g, path, nothing) = at[N]
  BY DEF Walk
<1> HIDE DEF N, I, a, h
<1>6. PICK f \in [0..N -> S] : f[0] = a /\ \A i \in 1..N : f[i] = h[i][f[i - 1]]
  <2>1. Recursions(N, S, I, a, h) # {}
    <3>1. \A i \in 1..N : \A v \in I[i - 1] : h[i][v] \in I[i]
      BY <1>4
    <3>2. \A i \in 0..N : I[i] \subseteq S
      BY <1>3
    <3>3. QED BY <1>1, <1>3, <3>1, <3>2, Recursion
  <2>2. QED BY <2>1 DEF Recursions
<1>7. Def(f)
  <2>1. \A i \in 0..N : i # 0 => i \in 1..N /\ i - 1 \in 0..N
    BY <1>1
  <2>2. \A i \in 0..N : i # 0 => f[i] = Get(g, f[i - 1], path[i], nothing)
    BY <1>3, <1>4, <1>6, <2>1
  <2>3. \A i \in 0..N : f[i] = IF i = 0 THEN g.root ELSE Get(g, f[i - 1], path[i], nothing)
    BY <1>6, <2>2 DEF a
  <2>4. QED BY <1>6, <2>3
<1>8. Def(at)
  BY <1>7
<1> HIDE DEF at
<1>9. at[0] = g.root /\ \A i \in 1..N : at[i] = Get(g, at[i - 1], path[i], nothing)
  <2>1. 0 \in 0..N /\ \A i \in 1..N : i \in 0..N /\ i # 0
    BY <1>1
  <2>2. \A i \in 0..N : at[i] = IF i = 0 THEN g.root ELSE Get(g, at[i - 1], path[i], nothing)
    BY <1>8
  <2>3. QED BY <2>1, <2>2
<1>10. \A i \in 0..N : at[i] \in I[i]
  <2>1. \A i \in 1..N : i - 1 \in 0..N /\ i \in 0..N
    BY <1>1
  <2>2. \A i \in 1..N : at[i - 1] \in I[i - 1] => at[i] \in I[i]
    BY <1>2, <1>3, <1>9, <2>1
  <2>3. at[0] \in I[0]
    BY <1>3, <1>9 DEF a
  <2>4. QED BY <1>1, <2>2, <2>3, Stays
<1>11. Along(at, g, path, nothing) /\ Walk(g, path, nothing) = at[Len(path)]
  BY <1>5, <1>9 DEF Along, N
<1>12. \A i \in 0..Len(path) : at[i] \in S
  BY <1>3, <1>10 DEF N
<1>13. QED BY <1>11, <1>12

\* The walk begins at the root, and stays in the set.
LEMMA WalkFacts ==
  ASSUME NEW g, NEW nothing, NEW S, Closed(g, S), nothing \in S, NEW T, NEW path \in Seq(T)
  PROVE  Walk(g, <<>>, nothing) = g.root /\ Walk(g, path, nothing) \in S
<1>1. Walk(g, <<>>, nothing) = g.root
  <2> DEFINE empty == <<>>
  <2>1. empty \in Seq(T) /\ Len(empty) = 0
    OBVIOUS
  <2> HIDE DEF empty
  <2>2. PICK f : /\ Along(f, g, empty, nothing) /\ Walk(g, empty, nothing) = f[Len(empty)]
                 /\ \A i \in 0..Len(empty) : f[i] \in S
    BY <2>1, WalkAlong
  <2>3. Walk(g, empty, nothing) = g.root
    BY <2>1, <2>2 DEF Along
  <2>4. QED BY <2>3 DEF empty
<1>2. PICK f : Walk(g, path, nothing) = f[Len(path)] /\ \A i \in 0..Len(path) : f[i] \in S
  BY WalkAlong
<1>3. Len(path) \in 0..Len(path)
  OBVIOUS
<1>4. QED BY <1>1, <1>2, <1>3

\* A path with one more property leads one step further.
LEMMA WalkFurther ==
  ASSUME NEW g, NEW nothing, NEW S, Closed(g, S), nothing \in S, NEW T, NEW path \in Seq(T), NEW p \in T
  PROVE  Walk(g, Append(path, p), nothing) = Get(g, Walk(g, path, nothing), p, nothing)
<1> DEFINE N == Len(path)
           more == Append(path, p)
<1>2. N \in Nat /\ more \in Seq(T) /\ Len(more) = N + 1 /\ more[N + 1] = p /\ \A i \in 1..N : more[i] = path[i]
  OBVIOUS
<1> HIDE DEF N, more
<1>3. PICK f : Along(f, g, path, nothing) /\ Walk(g, path, nothing) = f[N] /\ \A i \in 0..N : f[i] \in S
  BY WalkAlong DEF N
<1>4. PICK h : Along(h, g, more, nothing) /\ Walk(g, more, nothing) = h[N + 1]
  BY <1>2, WalkAlong
<1> DEFINE I == [i \in 0..N |-> {f[i]}]
<1>5. \A i \in 0..N : h[i] \in I[i]
  <2>1. h[0] \in I[0]
    BY <1>2, <1>3, <1>4 DEF Along
  <2>2. ASSUME NEW i \in 1..N, h[i - 1] \in I[i - 1] PROVE h[i] \in I[i]
    <3>1. i \in 1..Len(more) /\ i - 1 \in 0..N /\ i \in 0..N /\ i \in 1..Len(path)
      BY <1>2 DEF N
    <3>2. h[i] = Get(g, h[i - 1], path[i], nothing) /\ f[i] = Get(g, f[i - 1], path[i], nothing)
      BY <1>2, <1>3, <1>4, <3>1 DEF Along
    <3>3. h[i - 1] = f[i - 1]
      BY <2>2, <3>1
    <3>4. QED BY <3>1, <3>2, <3>3
  <2> HIDE DEF I
  <2>3. QED BY <1>2, <2>1, <2>2, Stays
<1>6. h[N] = f[N]
  BY <1>2, <1>5
<1>7. h[N + 1] = Get(g, h[N], p, nothing)
  <2>1. N + 1 \in 1..Len(more) /\ (N + 1) - 1 = N
    BY <1>2
  <2>2. QED BY <1>2, <1>4, <2>1 DEF Along
<1>8. QED BY <1>3, <1>4, <1>6, <1>7 DEF more

----------------------------------------------------------------------------
(* encode *)

Names == STRING
Places == Seq(Names)

\* The values of a graph, and where a path leads among them.
ValuesOf(g) == {g.root} \cup UNION {{g.heap[o].props[p] : p \in DOMAIN g.heap[o].props} : o \in DOMAIN g.heap}
Nowhere == <<"none">>

\* What a graph is made of.
LEMMA GraphFacts ==
  ASSUME NEW g, IsGraph(g)
  PROVE  /\ \A v \in ValuesOf(g) : IsValue(g.heap, v)
         /\ \A o \in DOMAIN g.heap : /\ IsObject(g.heap, g.heap[o]) /\ DOMAIN g.heap[o].props \subseteq Names
                                     /\ \A p \in DOMAIN g.heap[o].props : g.heap[o].props[p] \in ValuesOf(g)
         /\ Closed(g, ValuesOf(g) \cup {Nowhere})
<1>1. \A v \in ValuesOf(g) : IsValue(g.heap, v)
  BY DEF ValuesOf, IsGraph, IsObject
<1>2. ASSUME NEW o \in DOMAIN g.heap
      PROVE  /\ IsObject(g.heap, g.heap[o]) /\ DOMAIN g.heap[o].props \subseteq Names
             /\ \A p \in DOMAIN g.heap[o].props : g.heap[o].props[p] \in ValuesOf(g)
  <2>1. IsObject(g.heap, g.heap[o])
    BY DEF IsGraph
  <2>2. g.heap[o].kind \in Kinds /\ DOMAIN g.heap[o].props \subseteq ToSet(PropertyOrder[g.heap[o].kind])
    BY <2>1 DEF IsObject
  <2>3. \A s \in Seq(STRING) : ToSet(s) \subseteq STRING
    BY DEF ToSet
  <2>4. DOMAIN g.heap[o].props \subseteq Names
    BY <2>2, <2>3, CodecAssumption DEF CodecAssumption, Names
  <2>5. \A p \in DOMAIN g.heap[o].props : g.heap[o].props[p] \in ValuesOf(g)
    BY DEF ValuesOf
  <2>6. QED BY <2>1, <2>4, <2>5
<1>3. Closed(g, ValuesOf(g) \cup {Nowhere})
  <2>1. \A v \in ValuesOf(g) : v[1] = "ref" => v[2] \in DOMAIN g.heap
    BY <1>1 DEF IsValue, IsLeaf
  <2>2. Nowhere[1] # "ref"
    BY DEF Nowhere
  <2>3. g.root \in ValuesOf(g)
    BY DEF ValuesOf
  <2>4. QED BY <1>2, <2>1, <2>2, <2>3 DEF Closed
<1>4. QED BY <1>1, <1>2, <1>3

\* Where paths lead in a graph.
LEMMA FollowFacts ==
  ASSUME NEW g, IsGraph(g), NEW q \in Places
  PROVE  /\ Follow(g, <<>>) = g.root
         /\ Follow(g, q) \in ValuesOf(g) \cup {Nowhere}
         /\ \A p \in Names : Follow(g, Append(q, p)) = Get(g, Follow(g, q), p, Nowhere)
<1> DEFINE S == ValuesOf(g) \cup {Nowhere}
<1>1. Closed(g, S) /\ Nowhere \in S /\ q \in Seq(Names)
  BY GraphFacts DEF Places
<1> HIDE DEF S
<1>2. Walk(g, <<>>, Nowhere) = g.root /\ Walk(g, q, Nowhere) \in S
  BY <1>1, WalkFacts
<1>3. \A p \in Names : Walk(g, Append(q, p), Nowhere) = Get(g, Walk(g, q, Nowhere), p, Nowhere)
  BY <1>1, WalkFurther
<1>4. QED BY <1>2, <1>3 DEF Follow, Nowhere, S

\* The path without steps leads to the root.
LEMMA FollowStart ==
  ASSUME NEW g, IsGraph(g)
  PROVE  Follow(g, <<>>) = g.root
<1> DEFINE q == <<>>
<1>1. \A S : q \in Seq(S)
  OBVIOUS
<1> HIDE DEF q
<1>2. q \in Places
  BY <1>1 DEF Places
<1>3. QED BY <1>2, FollowFacts

\* A reference among the values is one to an object of the graph.
LEMMA ValueFacts ==
  ASSUME NEW g, IsGraph(g), NEW v \in ValuesOf(g) \cup {Nowhere}
  PROVE  /\ v[1] = "ref" => v[2] \in DOMAIN g.heap /\ v = <<"ref", v[2]>>
         /\ v # Nowhere => IsLeaf(v) \/ v[1] = "ref"
<1>1. CASE v = Nowhere
  <2>1. v[1] = "none"
    BY <1>1 DEF Nowhere
  <2>2. QED BY <1>1, <2>1
<1>2. CASE v \in ValuesOf(g)
  <2>1. IsValue(g.heap, v)
    BY <1>2, GraphFacts
  <2>2. CASE IsLeaf(v)
    <3>1. v[1] = "leaf"
      BY <2>2 DEF IsLeaf
    <3>2. QED BY <2>2, <3>1
  <2>3. CASE ~IsLeaf(v)
    <3>1. PICK o \in DOMAIN g.heap : v = <<"ref", o>>
      BY <2>1, <2>3 DEF IsValue
    <3>2. v[1] = "ref" /\ v[2] = o
      BY <3>1
    <3>3. QED BY <3>1, <3>2
  <2>4. QED BY <2>2, <2>3
<1>3. QED BY <1>1, <1>2

----------------------------------------------------------------------------
(* The calls of encode that are due *)

\* The path of the root.
Start == <<>>

\* Paths grow by one property, and are the same only if both parts are.
LEMMA StartPlace == Start \in Places
BY DEF Start, Places

\* The path of a property is that of its object, and one name more.
LEMMA LongerPath ==
  ASSUME NEW q \in Places, NEW p \in Names
  PROVE  /\ Append(q, p) \in Places /\ Append(q, p) # Start
         /\ Len(Append(q, p)) = Len(q) + 1 /\ Len(q) \in Nat /\ Append(q, p)[Len(q) + 1] = p
         /\ \A i \in 1..Len(q) : Append(q, p)[i] = q[i]
<1>1. q \in Seq(Names) /\ Len(Start) = 0
  BY DEF Places, Start
<1>2. Append(q, p) \in Seq(Names) /\ Len(Append(q, p)) = Len(q) + 1 /\ Len(q) \in Nat
  BY <1>1
<1>3. Append(q, p)[Len(q) + 1] = p /\ \A i \in 1..Len(q) : Append(q, p)[i] = q[i]
  BY <1>1
<1>4. QED BY <1>1, <1>2, <1>3 DEF Places

\* Two properties with the same path have the same name in the same object.
LEMMA SamePaths ==
  ASSUME NEW q \in Places, NEW r \in Places, NEW p \in Names, NEW t \in Names, Append(q, p) = Append(r, t)
  PROVE  q = r /\ p = t
<1> DEFINE x == Append(q, p)
           y == Append(r, t)
<1>1. Len(x) = Len(q) + 1 /\ Len(q) \in Nat /\ x[Len(q) + 1] = p /\ \A i \in 1..Len(q) : x[i] = q[i]
  BY LongerPath
<1>2. Len(y) = Len(r) + 1 /\ Len(r) \in Nat /\ y[Len(r) + 1] = t /\ \A i \in 1..Len(r) : y[i] = r[i]
  BY LongerPath
<1>3. x = y
  OBVIOUS
<1> HIDE DEF x, y
<1>4. Len(q) = Len(r)
  BY <1>1, <1>2, <1>3
<1>5. p = t /\ \A i \in 1..Len(q) : q[i] = r[i]
  BY <1>1, <1>2, <1>3, <1>4
<1>6. q \in Seq(Names) /\ r \in Seq(Names)
  BY DEF Places
<1>7. QED BY <1>4, <1>5, <1>6

\* The calls of encode that are due, each for a path of its own.
PathsOf(due) == {due[i].path : i \in 1..Len(due)}
Distinct(due) == \A i, j \in 1..Len(due) : due[i].path = due[j].path => i = j

\* What is due after the first call.
LEMMA DueRest ==
  ASSUME NEW D, NEW due \in Seq(D), due # <<>>, Distinct(due)
  PROVE  /\ Head(due) \in D /\ Tail(due) \in Seq(D) /\ Distinct(Tail(due)) /\ Head(due).path \in PathsOf(due)
         /\ PathsOf(Tail(due)) = PathsOf(due) \ {Head(due).path}
         /\ \A d \in ToSet(Tail(due)) : d \in ToSet(due)
         /\ Head(due) \in ToSet(due)
<1> DEFINE rest == Tail(due)
<1>1. /\ Len(due) \in Nat /\ Len(due) > 0 /\ rest \in Seq(D) /\ Len(rest) = Len(due) - 1 /\ Head(due) = due[1]
      /\ \A i \in 1..Len(rest) : rest[i] = due[i + 1] /\ i + 1 \in 1..Len(due)
      /\ DOMAIN due = 1..Len(due) /\ DOMAIN rest = 1..Len(rest) /\ 1 \in 1..Len(due) /\ due[1] \in D
  OBVIOUS
<1> HIDE DEF rest
<1>2. Distinct(rest)
  <2>1. SUFFICES ASSUME NEW i \in 1..Len(rest), NEW j \in 1..Len(rest), rest[i].path = rest[j].path PROVE i = j
    BY DEF Distinct
  <2>2. i + 1 = j + 1
    BY <1>1, <2>1 DEF Distinct
  <2>3. QED BY <2>2
<1>3. \A i \in 1..Len(due) : i = 1 \/ (i - 1 \in 1..Len(rest) /\ rest[i - 1] = due[i])
  <2>1. \A i \in 1..Len(due) : i = 1 \/ (i - 1 \in 1..Len(rest) /\ (i - 1) + 1 = i)
    BY <1>1
  <2>2. QED BY <1>1, <2>1
<1>4. PathsOf(rest) = PathsOf(due) \ {due[1].path}
  <2>1. ASSUME NEW i \in 1..Len(rest) PROVE rest[i].path \in PathsOf(due) /\ rest[i].path # due[1].path
    <3>1. i + 1 # 1 /\ i + 1 \in 1..Len(due) /\ rest[i] = due[i + 1]
      BY <1>1
    <3>2. QED BY <1>1, <3>1 DEF Distinct, PathsOf
  <2>2. ASSUME NEW i \in 1..Len(due), due[i].path # due[1].path PROVE due[i].path \in PathsOf(rest)
    <3>1. i - 1 \in 1..Len(rest) /\ rest[i - 1] = due[i]
      BY <1>3, <2>2
    <3>2. QED BY <3>1 DEF PathsOf
  <2>3. QED BY <2>1, <2>2 DEF PathsOf
<1>5. ToSet(rest) \subseteq ToSet(due) /\ due[1] \in ToSet(due) /\ due[1].path \in PathsOf(due)
  BY <1>1 DEF ToSet, PathsOf
<1>6. QED BY <1>1, <1>2, <1>4, <1>5 DEF rest

\* What is due with some more calls.
LEMMA DueMore ==
  ASSUME NEW D, NEW a \in Seq(D), NEW b \in Seq(D), Distinct(a), Distinct(b), PathsOf(a) \cap PathsOf(b) = {}
  PROVE  /\ a \o b \in Seq(D) /\ Distinct(a \o b) /\ ToSet(a \o b) = ToSet(a) \cup ToSet(b)
         /\ PathsOf(a \o b) = PathsOf(a) \cup PathsOf(b)
<1> DEFINE c == a \o b
<1>1. /\ Len(a) \in Nat /\ Len(b) \in Nat /\ c \in Seq(D) /\ Len(c) = Len(a) + Len(b)
      /\ \A i \in 1..Len(a) : c[i] = a[i] /\ i \in 1..Len(c)
      /\ DOMAIN a = 1..Len(a) /\ DOMAIN b = 1..Len(b) /\ DOMAIN c = 1..Len(c)
  OBVIOUS
<1>2. \A i \in 1..Len(b) : c[i + Len(a)] = b[i] /\ i + Len(a) \in 1..Len(c)
  <2>1. ASSUME NEW i \in 1..Len(b) PROVE c[i + Len(a)] = b[i] /\ i + Len(a) \in 1..Len(c)
    <3>1. i + Len(a) \in 1..(Len(a) + Len(b)) /\ ~(i + Len(a) <= Len(a)) /\ (i + Len(a)) - Len(a) = i
      BY <1>1
    <3>2. c[i + Len(a)] = b[(i + Len(a)) - Len(a)]
      BY <1>1, <3>1
    <3>3. QED BY <1>1, <3>1, <3>2
  <2>2. QED BY <2>1
<1> HIDE DEF c
<1>3. \A i \in 1..Len(c) : \/ i \in 1..Len(a) /\ c[i] = a[i]
                           \/ i - Len(a) \in 1..Len(b) /\ c[i] = b[i - Len(a)]
  <2>1. \A i \in 1..Len(c) : i \in 1..Len(a) \/ (i - Len(a) \in 1..Len(b) /\ (i - Len(a)) + Len(a) = i)
    BY <1>1
  <2>2. QED BY <1>1, <1>2, <2>1
<1>4. ToSet(c) = ToSet(a) \cup ToSet(b)
  BY <1>1, <1>2, <1>3 DEF ToSet
<1>5. PathsOf(c) = PathsOf(a) \cup PathsOf(b)
  <2>1. \A i \in 1..Len(c) : c[i].path \in PathsOf(a) \cup PathsOf(b)
    BY <1>3 DEF PathsOf
  <2>2. \A i \in 1..Len(a) : a[i].path \in PathsOf(c)
    BY <1>1 DEF PathsOf
  <2>3. \A i \in 1..Len(b) : b[i].path \in PathsOf(c)
    BY <1>2 DEF PathsOf
  <2>4. QED BY <2>1, <2>2, <2>3 DEF PathsOf
<1>6. Distinct(c)
  <2>1. SUFFICES ASSUME NEW i \in 1..Len(c), NEW j \in 1..Len(c), c[i].path = c[j].path PROVE i = j
    BY DEF Distinct
  <2>2. CASE i \in 1..Len(a) /\ c[i] = a[i] /\ j \in 1..Len(a) /\ c[j] = a[j]
    BY <2>1, <2>2 DEF Distinct
  <2>3. CASE /\ i - Len(a) \in 1..Len(b) /\ c[i] = b[i - Len(a)]
             /\ j - Len(a) \in 1..Len(b) /\ c[j] = b[j - Len(a)]
    <3>1. i - Len(a) = j - Len(a)
      BY <2>1, <2>3 DEF Distinct
    <3>2. QED BY <1>1, <3>1
  <2>4. ASSUME NEW k \in 1..Len(a), NEW m \in 1..Len(b) PROVE a[k].path # b[m].path
    BY DEF PathsOf
  <2>5. QED BY <1>3, <2>1, <2>2, <2>3, <2>4
<1>7. QED BY <1>1, <1>4, <1>5, <1>6 DEF c

----------------------------------------------------------------------------
(* What the calls of encode do *)

\* The states of the encoder, and what it has done after n calls.
Labels(g) ==
  {EncodeLeaf(v) : v \in ValuesOf(g)} \cup [tag : {"r"}, path : Places] \cup [tag : Kinds, props : SUBSET Names]
\* The functions of some members of a set.
Partial(X, Y) == UNION {[D -> Y] : D \in SUBSET X}
Calls(g) == [value : ValuesOf(g), path : Places]
States(g) ==
  [due : Seq(Calls(g)), tree : Partial(Places, Labels(g)), seen : Partial(DOMAIN g.heap, Places)]

LabelOf(g, seen, q) ==
  LET v == Follow(g, q)
  IN IF v[1] = "leaf" THEN EncodeLeaf(v)
     ELSE IF seen[v[2]] = q THEN [tag |-> g.heap[v[2]].kind, props |-> DOMAIN g.heap[v[2]].props]
     ELSE [tag |-> "r", path |-> seen[v[2]]]
Labelled(g, tree, seen) ==
  \A q \in DOMAIN tree : /\ Follow(g, q) \in ValuesOf(g) /\ tree[q] = LabelOf(g, seen, q)
                         /\ Follow(g, q)[1] = "ref" => Follow(g, q)[2] \in DOMAIN seen
SeenInTree(g, tree, seen, reached) ==
  \A o \in DOMAIN seen : /\ seen[o] \in DOMAIN tree /\ Follow(g, seen[o]) = <<"ref", o>>
                         /\ \A p \in DOMAIN g.heap[o].props : Append(seen[o], p) \in reached
FromSeen(g, seen, reached) ==
  \A q \in reached : q = Start \/ \E o \in DOMAIN seen : \E p \in DOMAIN g.heap[o].props : q = Append(seen[o], p)
FromRoot(g, tree, seen, reached) ==
  /\ Start \in reached
  /\ Start \notin DOMAIN tree => DOMAIN seen = {}
  /\ Start \in DOMAIN tree /\ g.root[1] = "ref" => seen[g.root[2]] = Start
Encoded(g, s) ==
  LET reached == DOMAIN s.tree \cup PathsOf(s.due)
  IN /\ \A d \in ToSet(s.due) : Follow(g, d.path) = d.value /\ d.path \notin DOMAIN s.tree
     /\ Distinct(s.due)
     /\ Labelled(g, s.tree, s.seen)
     /\ SeenInTree(g, s.tree, s.seen, reached)
     /\ FromSeen(g, s.seen, reached)
     /\ FromRoot(g, s.tree, s.seen, reached)
Counted(s, n) == IsFiniteSet(DOMAIN s.tree) /\ (s.due # <<>> => Cardinality(DOMAIN s.tree) = n)

\* A function of some members, and with one more of them.
LEMMA PartialFacts ==
  ASSUME NEW X, NEW Y, NEW f \in Partial(X, Y)
  PROVE  DOMAIN f \subseteq X /\ f \in [DOMAIN f -> Y] /\ \A x \in DOMAIN f : x \in X /\ f[x] \in Y
BY DEF Partial

\* A function whose members and values are right is a partial function.
LEMMA IsPartial ==
  ASSUME NEW X, NEW Y, NEW f, f = [x \in DOMAIN f |-> f[x]], \A x \in DOMAIN f : x \in X /\ f[x] \in Y
  PROVE  f \in Partial(X, Y)
<1>1. DOMAIN f \in SUBSET X /\ f \in [DOMAIN f -> Y]
  OBVIOUS
<1>2. QED BY <1>1 DEF Partial

\* Fits is membership under a name that does not lead the provers to extend
\* a function again and again.
Fits(f, X, Y) == f \in Partial(X, Y)

\* With adds a member that fits to a function that fits.
LEMMA WithFits ==
  ASSUME NEW X, NEW Y, NEW f \in Partial(X, Y), NEW x \in X, NEW y \in Y
  PROVE  Fits(With(f, x, y), X, Y)
<1> DEFINE h == With(f, x, y)
<1>1. \A z \in DOMAIN f : z \in X /\ f[z] \in Y
  BY PartialFacts
<1>2. /\ DOMAIN h = DOMAIN f \cup {x} /\ h[x] = y /\ \A z \in DOMAIN f : z # x => h[z] = f[z]
      /\ h = [z \in DOMAIN h |-> h[z]]
  BY DEF With
<1> HIDE DEF h
<1>3. \A z \in DOMAIN h : z \in X /\ h[z] \in Y
  BY <1>1, <1>2
<1>4. h \in Partial(X, Y)
  BY <1>2, <1>3, IsPartial
<1>5. QED BY <1>4 DEF Fits, h

\* The call that is next: its path is new, and the others keep theirs.
LEMMA NextCall ==
  ASSUME NEW g, IsGraph(g), NEW s \in States(g), Encoded(g, s), s.due # <<>>
  PROVE  /\ Head(s.due).value \in ValuesOf(g) /\ Head(s.due).path \in Places
         /\ Follow(g, Head(s.due).path) = Head(s.due).value /\ Head(s.due).path \notin DOMAIN s.tree
         /\ Head(s.due).path \in PathsOf(s.due)
         /\ Tail(s.due) \in Seq(Calls(g)) /\ Distinct(Tail(s.due))
         /\ PathsOf(Tail(s.due)) = PathsOf(s.due) \ {Head(s.due).path}
         /\ \A d \in ToSet(Tail(s.due)) : /\ Follow(g, d.path) = d.value
                                          /\ d.path \notin DOMAIN s.tree /\ d.path # Head(s.due).path
<1>1. s.due \in Seq(Calls(g)) /\ Distinct(s.due)
  BY DEF States, Encoded
<1>2. /\ Head(s.due) \in Calls(g) /\ Tail(s.due) \in Seq(Calls(g)) /\ Distinct(Tail(s.due))
      /\ PathsOf(Tail(s.due)) = PathsOf(s.due) \ {Head(s.due).path}
      /\ \A d \in ToSet(Tail(s.due)) : d \in ToSet(s.due)
      /\ Head(s.due) \in ToSet(s.due) /\ Head(s.due).path \in PathsOf(s.due)
  BY <1>1, DueRest
<1>3. \A d \in ToSet(Tail(s.due)) : d.path \in PathsOf(Tail(s.due))
  BY <1>2 DEF ToSet, PathsOf
<1>4. \A d \in ToSet(s.due) : Follow(g, d.path) = d.value /\ d.path \notin DOMAIN s.tree
  BY DEF Encoded
<1>5. Head(s.due).value \in ValuesOf(g) /\ Head(s.due).path \in Places
  BY <1>2 DEF Calls
<1>6. QED BY <1>2, <1>3, <1>4, <1>5

\* A state of the encoder after n calls.
After(g, e, n) == e \in States(g) /\ Encoded(g, e) /\ Counted(e, n)

\* A leaf, or an object that was seen: the tree gets one label.
LEMMA EncodeLabel ==
  ASSUME NEW g, IsGraph(g), NEW s \in States(g), Encoded(g, s), s.due # <<>>,
         NEW path, path = Head(s.due).path, NEW label \in Labels(g), label = LabelOf(g, s.seen, path),
         Head(s.due).value[1] = "ref" => Head(s.due).value[2] \in DOMAIN s.seen,
         NEW n \in Nat, Counted(s, n),
         NEW e, e = [due |-> Tail(s.due), tree |-> With(s.tree, path, label), seen |-> s.seen]
  PROVE  After(g, e, n + 1)
<1> DEFINE v == Head(s.due).value
           rest == Tail(s.due)
           reached == DOMAIN s.tree \cup PathsOf(s.due)
           more == DOMAIN e.tree \cup PathsOf(e.due)
<1>1. /\ v \in ValuesOf(g) /\ path \in Places /\ Follow(g, path) = v /\ path \notin DOMAIN s.tree
      /\ path \in PathsOf(s.due) /\ rest \in Seq(Calls(g)) /\ Distinct(rest)
      /\ PathsOf(rest) = PathsOf(s.due) \ {path}
      /\ \A d \in ToSet(rest) : Follow(g, d.path) = d.value /\ d.path \notin DOMAIN s.tree /\ d.path # path
  BY NextCall
<1>2. s.tree \in Partial(Places, Labels(g))
  BY DEF States
<1>3. e.due = rest /\ e.seen = s.seen /\ e.tree = With(s.tree, path, label)
  OBVIOUS
<1>4. /\ DOMAIN e.tree = DOMAIN s.tree \cup {path} /\ e.tree[path] = label
      /\ \A q \in DOMAIN s.tree : e.tree[q] = s.tree[q]
      /\ e.tree \in Partial(Places, Labels(g))
  <2>1. path \in Places /\ label \in Labels(g) /\ \A q \in DOMAIN s.tree : q # path
    BY <1>1
  <2>2. /\ DOMAIN With(s.tree, path, label) = DOMAIN s.tree \cup {path} /\ With(s.tree, path, label)[path] = label
        /\ \A q \in DOMAIN s.tree : q # path => With(s.tree, path, label)[q] = s.tree[q]
        /\ With(s.tree, path, label) \in Partial(Places, Labels(g))
    <3>1. path \in Places /\ label \in Labels(g)
      BY <1>1
    <3>2. With(s.tree, path, label) \in Partial(Places, Labels(g))
      <4>1. Fits(With(s.tree, path, label), Places, Labels(g))
        BY <1>2, <3>1, WithFits
      <4>2. QED BY <4>1 DEF Fits
    <3>3. QED BY <3>2 DEF With
  <2>3. QED BY <1>3, <2>1, <2>2
<1>5. e \in States(g)
  <2>1. e = [due |-> e.due, tree |-> e.tree, seen |-> e.seen]
    BY DEF States
  <2>2. e.due \in Seq(Calls(g)) /\ e.seen \in Partial(DOMAIN g.heap, Places)
    BY <1>1, <1>3 DEF States
  <2>3. QED BY <1>4, <2>1, <2>2 DEF States
<1>6. more = reached
  BY <1>1, <1>3, <1>4
<1> HIDE DEF more, reached, rest, v
<1>7. Labelled(g, e.tree, e.seen)
  <2>1. Labelled(g, s.tree, s.seen)
    BY DEF Encoded
  <2>2. ASSUME NEW q \in DOMAIN e.tree
        PROVE  /\ Follow(g, q) \in ValuesOf(g) /\ e.tree[q] = LabelOf(g, e.seen, q)
               /\ Follow(g, q)[1] = "ref" => Follow(g, q)[2] \in DOMAIN e.seen
    <3>1. CASE q = path
      BY <1>1, <1>3, <1>4, <3>1 DEF v
    <3>2. CASE q \in DOMAIN s.tree
      BY <1>3, <1>4, <2>1, <3>2 DEF Labelled
    <3>3. QED BY <1>4, <3>1, <3>2
  <2>3. QED BY <2>2 DEF Labelled
<1>8. SeenInTree(g, e.tree, e.seen, more)
  <2>1. SeenInTree(g, s.tree, s.seen, reached)
    BY DEF Encoded, reached
  <2>2. QED BY <1>3, <1>4, <1>6, <2>1 DEF SeenInTree
<1>9. FromSeen(g, e.seen, more)
  BY <1>3, <1>6 DEF Encoded, reached
<1>10. FromRoot(g, e.tree, e.seen, more)
  <2>1. FromRoot(g, s.tree, s.seen, reached)
    BY DEF Encoded, reached
  <2>2. CASE path = Start
    <3>1. DOMAIN s.seen = {}
      BY <1>1, <2>1, <2>2 DEF FromRoot
    <3>2. Follow(g, Start) = g.root
      BY FollowStart DEF Start
    <3>3. g.root[1] # "ref"
      BY <1>1, <2>2, <3>1, <3>2 DEF v
    <3>4. QED BY <1>4, <1>6, <2>1, <2>2, <3>3 DEF FromRoot
  <2>3. CASE path # Start
    BY <1>3, <1>4, <1>6, <2>1, <2>3 DEF FromRoot
  <2>4. QED BY <2>2, <2>3
<1>11. \A d \in ToSet(e.due) : Follow(g, d.path) = d.value /\ d.path \notin DOMAIN e.tree
  BY <1>1, <1>3, <1>4 DEF rest
<1>12. Encoded(g, e)
  BY <1>1, <1>3, <1>7, <1>8, <1>9, <1>10, <1>11 DEF Encoded, more, rest
<1>13. Counted(e, n + 1)
  <2>1. IsFiniteSet(DOMAIN s.tree) /\ Cardinality(DOMAIN s.tree) = n
    BY DEF Counted
  <2>2. IsFiniteSet(DOMAIN s.tree \cup {path}) /\ Cardinality(DOMAIN s.tree \cup {path}) = n + 1
    BY <1>1, <2>1, FS_AddElement
  <2>3. QED BY <1>4, <2>2 DEF Counted
<1>14. QED BY <1>5, <1>12, <1>13 DEF After

\* The calls for the properties of an object.
PropertyCalls(g, o, path) ==
  LET names == Only(PropertyOrder[g.heap[o].kind], DOMAIN g.heap[o].props)
  IN [i \in DOMAIN names |-> [value |-> g.heap[o].props[names[i]], path |-> Append(path, names[i])]]

\* Calls for the paths one step further than a path, each once.
CallsFrom(g, props, path, calls) ==
  /\ calls \in Seq(Calls(g)) /\ Distinct(calls)
  /\ PathsOf(calls) = {Append(path, p) : p \in DOMAIN props}
  /\ \A d \in ToSet(calls) : /\ Follow(g, d.path) = d.value
                             /\ \E p \in DOMAIN props : d.path = Append(path, p)

\* The calls for the properties of an object are such calls.
LEMMA PropertyCallsFacts ==
  ASSUME NEW g, IsGraph(g), NEW o \in DOMAIN g.heap, NEW path \in Places, Follow(g, path) = <<"ref", o>>
  PROVE  CallsFrom(g, g.heap[o].props, path, PropertyCalls(g, o, path))
<1> DEFINE props == g.heap[o].props
           order == PropertyOrder[g.heap[o].kind]
           names == Only(order, DOMAIN props)
           calls == PropertyCalls(g, o, path)
<1>1. /\ g.heap[o].kind \in Kinds /\ DOMAIN props \subseteq ToSet(order) /\ DOMAIN props \subseteq Names
      /\ \A p \in DOMAIN props : props[p] \in ValuesOf(g)
  BY GraphFacts DEF IsObject
<1>2. order \in Seq(Names) /\ Injective(order)
  <2>1. order \in Seq(STRING) /\ \A i, j \in DOMAIN order : order[i] = order[j] => i = j
    BY <1>1, CodecAssumption DEF CodecAssumption
  <2> HIDE DEF order
  <2>2. QED BY <2>1 DEF Names, Injective
<1>3. names \in Seq(Names) /\ ToSet(names) = DOMAIN props /\ Injective(names)
  <2> HIDE DEF order, props
  <2>1. names \in Seq(Names) /\ ToSet(names) = ToSet(order) \cap DOMAIN props /\ Injective(names)
    BY <1>2, OnlyFacts
  <2>2. QED BY <1>1, <2>1
<1>4. calls = [i \in DOMAIN names |-> [value |-> props[names[i]], path |-> Append(path, names[i])]]
  BY DEF PropertyCalls
<1> HIDE DEF names, calls, order
<1>5. DOMAIN names = 1..Len(names) /\ Len(names) \in Nat /\ \A i \in 1..Len(names) : names[i] \in DOMAIN props
  BY <1>3 DEF ToSet
<1>6. \A p \in DOMAIN props : \E i \in 1..Len(names) : names[i] = p
  BY <1>3, <1>5 DEF ToSet
<1>7. \A p \in DOMAIN props : Append(path, p) \in Places /\ Follow(g, Append(path, p)) = props[p]
  <2>1. ASSUME NEW p \in DOMAIN props PROVE Append(path, p) \in Places /\ Follow(g, Append(path, p)) = props[p]
    <3>1. p \in Names /\ p \in DOMAIN g.heap[o].props
      BY <1>1
    <3>2. Append(path, p) \in Places
      BY <3>1, LongerPath
    <3>3. Follow(g, Append(path, p)) = Get(g, Follow(g, path), p, Nowhere)
      BY <3>1, FollowFacts
    <3>4. QED BY <3>1, <3>2, <3>3 DEF Get
  <2>2. QED BY <2>1
<1>8. /\ calls \in Seq(Calls(g)) /\ Len(calls) = Len(names) /\ DOMAIN calls = 1..Len(names)
      /\ \A i \in 1..Len(names) : calls[i].path = Append(path, names[i]) /\ calls[i].value = props[names[i]]
  <2>1. \A i \in 1..Len(names) : [value |-> props[names[i]], path |-> Append(path, names[i])] \in Calls(g)
    BY <1>1, <1>5, <1>7 DEF Calls
  <2>2. calls \in [1..Len(names) -> Calls(g)]
    BY <1>4, <1>5, <2>1
  <2>3. calls \in Seq(Calls(g)) /\ Len(calls) = Len(names)
    BY <1>5, <2>2
  <2>4. QED BY <1>4, <1>5, <2>3
<1>9. Distinct(calls)
  <2>1. SUFFICES ASSUME NEW i \in 1..Len(names), NEW j \in 1..Len(names), calls[i].path = calls[j].path PROVE i = j
    BY <1>8 DEF Distinct
  <2>2. names[i] = names[j]
    <3>1. names[i] \in Names /\ names[j] \in Names
      BY <1>1, <1>5
    <3>2. Append(path, names[i]) = Append(path, names[j])
      BY <1>8, <2>1
    <3>3. QED BY <3>1, <3>2, SamePaths
  <2>3. QED BY <1>3, <2>2 DEF Injective
<1>10. PathsOf(calls) = {Append(path, p) : p \in DOMAIN props}
  <2>1. \A i \in 1..Len(names) : calls[i].path \in {Append(path, p) : p \in DOMAIN props}
    BY <1>5, <1>8
  <2>2. ASSUME NEW p \in DOMAIN props PROVE Append(path, p) \in PathsOf(calls)
    <3>1. PICK i \in 1..Len(names) : names[i] = p
      BY <1>6
    <3>2. QED BY <1>8, <3>1 DEF PathsOf
  <2>3. PathsOf(calls) = {calls[i].path : i \in 1..Len(names)}
    BY <1>8 DEF PathsOf
  <2>4. QED BY <2>1, <2>2, <2>3
<1>11. \A d \in ToSet(calls) : /\ Follow(g, d.path) = d.value /\ \E p \in DOMAIN props : d.path = Append(path, p)
  <2>1. ASSUME NEW i \in 1..Len(names)
        PROVE  Follow(g, calls[i].path) = calls[i].value /\ \E p \in DOMAIN props : calls[i].path = Append(path, p)
    <3>1. names[i] \in DOMAIN props /\ calls[i].path = Append(path, names[i]) /\ calls[i].value = props[names[i]]
      BY <1>5, <1>8
    <3>2. Follow(g, Append(path, names[i])) = props[names[i]]
      BY <1>7, <3>1
    <3>3. Follow(g, calls[i].path) = calls[i].value
      BY <3>1, <3>2
    <3>4. QED BY <3>1, <3>3
  <2>2. DOMAIN calls = 1..Len(names)
    BY <1>8
  <2>3. ASSUME NEW d \in ToSet(calls)
        PROVE  Follow(g, d.path) = d.value /\ \E p \in DOMAIN props : d.path = Append(path, p)
    <3>1. PICK i \in 1..Len(names) : d = calls[i]
      BY <2>2 DEF ToSet
    <3>2. QED BY <2>1, <3>1
  <2>4. QED BY <2>3
<1>12. CallsFrom(g, props, path, calls)
  BY <1>8, <1>9, <1>10, <1>11 DEF CallsFrom
<1>13. QED BY <1>12 DEF calls

\* An object that was not seen before.
LEMMA EncodeObject ==
  ASSUME NEW g, IsGraph(g), NEW s \in States(g), Encoded(g, s), s.due # <<>>,
         NEW path, path = Head(s.due).path,
         NEW o \in DOMAIN g.heap, o \notin DOMAIN s.seen, Head(s.due).value = <<"ref", o>>,
         NEW n \in Nat, Counted(s, n),
         NEW e, e = [due |-> PropertyCalls(g, o, path) \o Tail(s.due),
                     tree |-> With(s.tree, path, [tag |-> g.heap[o].kind, props |-> DOMAIN g.heap[o].props]),
                     seen |-> With(s.seen, o, path)]
  PROVE  After(g, e, n + 1)
<1> DEFINE rest == Tail(s.due)
           calls == PropertyCalls(g, o, path)
           props == g.heap[o].props
           label == [tag |-> g.heap[o].kind, props |-> DOMAIN props]
           reached == DOMAIN s.tree \cup PathsOf(s.due)
           more == DOMAIN e.tree \cup PathsOf(e.due)
<1>1. /\ path \in Places /\ Follow(g, path) = <<"ref", o>> /\ path \notin DOMAIN s.tree
      /\ path \in PathsOf(s.due) /\ rest \in Seq(Calls(g)) /\ Distinct(rest)
      /\ PathsOf(rest) = PathsOf(s.due) \ {path}
      /\ \A d \in ToSet(rest) : Follow(g, d.path) = d.value /\ d.path \notin DOMAIN s.tree /\ d.path # path
      /\ <<"ref", o>> \in ValuesOf(g)
  <2>1. /\ Head(s.due).value \in ValuesOf(g) /\ path \in Places
        /\ Follow(g, path) = Head(s.due).value /\ path \notin DOMAIN s.tree
        /\ path \in PathsOf(s.due) /\ rest \in Seq(Calls(g)) /\ Distinct(rest)
        /\ PathsOf(rest) = PathsOf(s.due) \ {path}
        /\ \A d \in ToSet(rest) : Follow(g, d.path) = d.value /\ d.path \notin DOMAIN s.tree /\ d.path # path
    BY NextCall
  <2> HIDE DEF rest
  <2>2. QED BY <2>1
<1>2. s.tree \in Partial(Places, Labels(g))
  BY DEF States
<1>3. s.seen \in Partial(DOMAIN g.heap, Places)
  BY DEF States
<1>4. e.due = calls \o rest /\ e.tree = With(s.tree, path, label) /\ e.seen = With(s.seen, o, path)
  OBVIOUS
<1>5. label \in Labels(g) /\ DOMAIN props \subseteq Names
  BY GraphFacts DEF Labels, IsObject
<1> HIDE DEF label
<1>6. /\ DOMAIN e.tree = DOMAIN s.tree \cup {path} /\ e.tree[path] = label
      /\ \A q \in DOMAIN s.tree : e.tree[q] = s.tree[q]
      /\ e.tree \in Partial(Places, Labels(g))
  <2>1. path \in Places /\ \A q \in DOMAIN s.tree : q # path
    BY <1>1
  <2>2. /\ DOMAIN With(s.tree, path, label) = DOMAIN s.tree \cup {path} /\ With(s.tree, path, label)[path] = label
        /\ \A q \in DOMAIN s.tree : q # path => With(s.tree, path, label)[q] = s.tree[q]
        /\ With(s.tree, path, label) \in Partial(Places, Labels(g))
    <3>1. With(s.tree, path, label) \in Partial(Places, Labels(g))
      <4>1. Fits(With(s.tree, path, label), Places, Labels(g))
        BY <1>2, <1>5, <2>1, WithFits
      <4>2. QED BY <4>1 DEF Fits
    <3>2. QED BY <3>1 DEF With
  <2>3. QED BY <1>4, <2>1, <2>2
<1>7. /\ DOMAIN e.seen = DOMAIN s.seen \cup {o} /\ e.seen[o] = path
      /\ \A x \in DOMAIN s.seen : e.seen[x] = s.seen[x]
      /\ e.seen \in Partial(DOMAIN g.heap, Places)
  <2>1. path \in Places /\ \A x \in DOMAIN s.seen : x # o
    BY <1>1
  <2>2. /\ DOMAIN With(s.seen, o, path) = DOMAIN s.seen \cup {o} /\ With(s.seen, o, path)[o] = path
        /\ \A x \in DOMAIN s.seen : x # o => With(s.seen, o, path)[x] = s.seen[x]
        /\ With(s.seen, o, path) \in Partial(DOMAIN g.heap, Places)
    <3>1. With(s.seen, o, path) \in Partial(DOMAIN g.heap, Places)
      <4>1. Fits(With(s.seen, o, path), DOMAIN g.heap, Places)
        BY <1>3, <2>1, WithFits
      <4>2. QED BY <4>1 DEF Fits
    <3>2. QED BY <3>1 DEF With
  <2>3. QED BY <1>4, <2>1, <2>2
<1>8. /\ calls \in Seq(Calls(g)) /\ Distinct(calls)
      /\ PathsOf(calls) = {Append(path, p) : p \in DOMAIN props}
      /\ \A d \in ToSet(calls) : Follow(g, d.path) = d.value /\ \E p \in DOMAIN props : d.path = Append(path, p)
  <2>1. path \in Places /\ Follow(g, path) = <<"ref", o>>
    BY <1>1
  <2>2. /\ calls \in Seq(Calls(g)) /\ Distinct(calls)
        /\ PathsOf(calls) = {Append(path, p) : p \in DOMAIN props}
        /\ \A d \in ToSet(calls) : /\ Follow(g, d.path) = d.value
                                   /\ \E p \in DOMAIN props : d.path = Append(path, p)
    <3>1. CallsFrom(g, props, path, calls)
      BY <2>1, PropertyCallsFacts
    <3>2. QED BY <3>1 DEF CallsFrom
  <2> HIDE DEF calls
  <2>3. QED BY <2>2
<1> HIDE DEF calls, rest
<1>9. FromSeen(g, s.seen, reached) /\ SeenInTree(g, s.tree, s.seen, reached) /\ FromRoot(g, s.tree, s.seen, reached)
  BY DEF Encoded
<1>10. \A p \in DOMAIN props : Append(path, p) \notin reached
  <2>1. SUFFICES ASSUME NEW p \in DOMAIN props, Append(path, p) \in reached PROVE FALSE
    OBVIOUS
  <2>2. Append(path, p) # Start /\ p \in Names
    BY <1>1, <1>5, LongerPath
  <2>3. PICK x \in DOMAIN s.seen : \E t \in DOMAIN g.heap[x].props : Append(path, p) = Append(s.seen[x], t)
    BY <1>9, <2>1, <2>2 DEF FromSeen
  <2> PICK t \in DOMAIN g.heap[x].props : Append(path, p) = Append(s.seen[x], t)
    BY <2>3
  <2>4. x \in DOMAIN g.heap /\ s.seen[x] \in Places
    BY <1>3, PartialFacts
  <2>5. t \in Names
    BY <2>4, GraphFacts
  <2>6. path = s.seen[x]
    <3>1. Append(path, p) = Append(s.seen[x], t)
      OBVIOUS
    <3>2. path \in Places
      BY <1>1
    <3> DEFINE y == s.seen[x]
    <3>3. \A q, r \in Places : \A a, b \in Names : Append(q, a) = Append(r, b) => q = r
      BY SamePaths
    <3>4. y \in Places /\ Append(path, p) = Append(y, t) /\ p \in Names
      BY <2>2, <2>4, <3>1
    <3> HIDE DEF y
    <3>5. path = y
      BY <2>5, <3>2, <3>3, <3>4
    <3>6. QED BY <3>5 DEF y
  <2>7. QED BY <1>1, <1>9, <2>6 DEF SeenInTree
<1>11. PathsOf(calls) \cap PathsOf(rest) = {}
  BY <1>1, <1>8, <1>10
<1>12. /\ e.due \in Seq(Calls(g)) /\ Distinct(e.due) /\ ToSet(e.due) = ToSet(calls) \cup ToSet(rest)
       /\ PathsOf(e.due) = PathsOf(calls) \cup PathsOf(rest)
  <2>1. calls \in Seq(Calls(g)) /\ rest \in Seq(Calls(g)) /\ Distinct(calls) /\ Distinct(rest)
    BY <1>1, <1>8
  <2>2. /\ calls \o rest \in Seq(Calls(g)) /\ Distinct(calls \o rest)
        /\ ToSet(calls \o rest) = ToSet(calls) \cup ToSet(rest)
        /\ PathsOf(calls \o rest) = PathsOf(calls) \cup PathsOf(rest)
    BY <1>11, <2>1, DueMore
  <2>3. QED BY <1>4, <2>2
<1>13. e \in States(g)
  BY <1>6, <1>7, <1>12 DEF States
<1>14. more = reached \cup PathsOf(calls)
  BY <1>1, <1>6, <1>12
<1> HIDE DEF more, reached
<1>15. \A q \in DOMAIN s.tree : Follow(g, q)[1] = "ref" => Follow(g, q)[2] # o
  BY DEF Encoded, Labelled
<1>16. Labelled(g, e.tree, e.seen)
  <2>1. Labelled(g, s.tree, s.seen)
    BY DEF Encoded
  <2>2. ASSUME NEW q \in DOMAIN e.tree
        PROVE  /\ Follow(g, q) \in ValuesOf(g) /\ e.tree[q] = LabelOf(g, e.seen, q)
               /\ Follow(g, q)[1] = "ref" => Follow(g, q)[2] \in DOMAIN e.seen
    <3>1. CASE q = path
      <4>1. Follow(g, path) = <<"ref", o>> /\ <<"ref", o>> \in ValuesOf(g) /\ e.tree[path] = label
        BY <1>1, <1>6
      <4>2. o \in DOMAIN e.seen /\ e.seen[o] = path
        BY <1>7
      <4>3. label = LabelOf(g, e.seen, path)
        <5> DEFINE v == <<"ref", o>>
        <5>1. v[1] # "leaf" /\ v[2] = o
          OBVIOUS
        <5>2. e.seen[v[2]] = path
          BY <4>2, <5>1
        <5>3. Follow(g, path) = v
          BY <4>1
        <5> HIDE DEF v
        <5>4. QED BY <5>1, <5>2, <5>3 DEF LabelOf, label
      <4>4. QED BY <3>1, <4>1, <4>2, <4>3
    <3>2. CASE q \in DOMAIN s.tree
      <4>1. /\ Follow(g, q) \in ValuesOf(g) /\ s.tree[q] = LabelOf(g, s.seen, q)
            /\ Follow(g, q)[1] = "ref" => Follow(g, q)[2] \in DOMAIN s.seen
        BY <2>1, <3>2 DEF Labelled
      <4>2. Follow(g, q)[1] = "leaf" \/ Follow(g, q)[1] = "ref"
        <5>1. IsValue(g.heap, Follow(g, q))
          BY <4>1, GraphFacts
        <5>2. QED BY <5>1 DEF IsValue, IsLeaf
      <4>3. LabelOf(g, e.seen, q) = LabelOf(g, s.seen, q)
        BY <1>7, <4>1, <4>2 DEF LabelOf
      <4>4. QED BY <1>6, <1>7, <3>2, <4>1, <4>3
    <3>3. QED BY <1>6, <3>1, <3>2
  <2>3. QED BY <2>2 DEF Labelled
<1>17. SeenInTree(g, e.tree, e.seen, more)
  <2>1. ASSUME NEW x \in DOMAIN e.seen
        PROVE  /\ e.seen[x] \in DOMAIN e.tree /\ Follow(g, e.seen[x]) = <<"ref", x>>
               /\ \A p \in DOMAIN g.heap[x].props : Append(e.seen[x], p) \in more
    <3>1. CASE x = o
      BY <1>1, <1>6, <1>7, <1>8, <1>14, <3>1
    <3>2. CASE x \in DOMAIN s.seen
      BY <1>6, <1>7, <1>9, <1>14, <3>2 DEF SeenInTree
    <3>3. QED BY <1>7, <3>1, <3>2
  <2>2. QED BY <2>1 DEF SeenInTree
<1>18. FromSeen(g, e.seen, more)
  <2>1. ASSUME NEW q \in more, q # Start
        PROVE  \E x \in DOMAIN e.seen : \E p \in DOMAIN g.heap[x].props : q = Append(e.seen[x], p)
    <3>1. CASE q \in PathsOf(calls)
      <4>1. PICK p \in DOMAIN props : q = Append(path, p)
        BY <1>8, <3>1
      <4>2. o \in DOMAIN e.seen /\ e.seen[o] = path
        BY <1>7
      <4>3. QED BY <4>1, <4>2
    <3>2. CASE q \in reached
      <4>1. PICK x \in DOMAIN s.seen : \E p \in DOMAIN g.heap[x].props : q = Append(s.seen[x], p)
        BY <1>9, <2>1, <3>2 DEF FromSeen
      <4>2. x \in DOMAIN e.seen /\ e.seen[x] = s.seen[x]
        BY <1>7
      <4>3. QED BY <4>1, <4>2
    <3>3. QED BY <1>14, <2>1, <3>1, <3>2
  <2>2. QED BY <2>1 DEF FromSeen
<1>19. FromRoot(g, e.tree, e.seen, more)
  <2>1. Start \in more
    BY <1>9, <1>14 DEF FromRoot
  <2>2. CASE path = Start
    <3>1. g.root = <<"ref", o>>
      BY <1>1, <2>2, FollowStart DEF Start
    <3>2. QED BY <1>6, <1>7, <2>1, <2>2, <3>1 DEF FromRoot
  <2>3. CASE path # Start
    <3>1. Start \in DOMAIN s.tree
      <4>1. SUFFICES ASSUME Start \notin DOMAIN s.tree PROVE FALSE
        OBVIOUS
      <4>2. path \in reached /\ DOMAIN s.seen = {}
        BY <1>1, <1>9, <4>1 DEF FromRoot, reached
      <4>3. QED BY <1>9, <2>3, <4>2 DEF FromSeen
    <3>2. ASSUME g.root[1] = "ref" PROVE e.seen[g.root[2]] = Start
      <4>1. s.seen[g.root[2]] = Start
        BY <1>9, <3>1, <3>2 DEF FromRoot
      <4>2. Follow(g, Start) = g.root
        BY FollowStart DEF Start
      <4>3. g.root[2] \in DOMAIN s.seen
        BY <3>1, <3>2, <4>2 DEF Encoded, Labelled
      <4>4. QED BY <1>7, <4>1, <4>3
    <3>3. QED BY <1>6, <2>1, <3>1, <3>2 DEF FromRoot
  <2>4. QED BY <2>2, <2>3
<1>20. \A d \in ToSet(e.due) : Follow(g, d.path) = d.value /\ d.path \notin DOMAIN e.tree
  <2>1. ASSUME NEW d \in ToSet(calls) PROVE d.path \notin DOMAIN e.tree
    <3>1. PICK p \in DOMAIN props : d.path = Append(path, p)
      BY <1>8
    <3>2. d.path \notin reached
      BY <1>10, <3>1
    <3>3. d.path # path
      BY <1>1, <3>2 DEF reached
    <3>4. QED BY <1>6, <3>2, <3>3 DEF reached
  <2>2. QED BY <1>1, <1>6, <1>8, <1>12, <2>1
<1>21. Encoded(g, e)
  BY <1>12, <1>16, <1>17, <1>18, <1>19, <1>20 DEF Encoded, more
<1>22. Counted(e, n + 1)
  <2>1. IsFiniteSet(DOMAIN s.tree) /\ Cardinality(DOMAIN s.tree) = n
    BY DEF Counted
  <2>2. IsFiniteSet(DOMAIN s.tree \cup {path}) /\ Cardinality(DOMAIN s.tree \cup {path}) = n + 1
    BY <1>1, <2>1, FS_AddElement
  <2>3. QED BY <1>6, <2>2 DEF Counted
<1>23. QED BY <1>13, <1>21, <1>22 DEF After

\* One call of encode: a leaf, an object that was seen, or one that was not.
LEMMA EncodeStep ==
  ASSUME NEW g, IsGraph(g), NEW s \in States(g), Encoded(g, s), s.due # <<>>, NEW n \in Nat, Counted(s, n)
  PROVE  After(g, Encode(g.heap, s), n + 1)
<1> DEFINE v == Head(s.due).value
           path == Head(s.due).path
           rest == Tail(s.due)
           e == Encode(g.heap, s)
<1>1. v \in ValuesOf(g) /\ path \in Places /\ Follow(g, path) = v
  BY NextCall
<1>2. v[1] = "leaf" \/ \E o \in DOMAIN g.heap : v = <<"ref", o>>
  BY <1>1, GraphFacts DEF IsValue, IsLeaf
<1>3. CASE v[1] = "leaf"
  <2>1. e = [s EXCEPT !.due = rest, !.tree = With(@, path, EncodeLeaf(v))]
    BY <1>3 DEF Encode
  <2>2. EncodeLeaf(v) \in Labels(g)
    BY <1>1 DEF Labels
  <2>3. EncodeLeaf(v) = LabelOf(g, s.seen, path) /\ v[1] # "ref"
    BY <1>1, <1>3 DEF LabelOf
  <2> HIDE DEF e
  <2> DEFINE label == EncodeLeaf(v)
  <2>4. e = [due |-> Tail(s.due), tree |-> With(s.tree, path, label), seen |-> s.seen]
    BY <2>1 DEF States
  <2>5. label \in Labels(g) /\ label = LabelOf(g, s.seen, path) /\ ~(Head(s.due).value[1] = "ref")
    BY <2>2, <2>3
  <2> HIDE DEF label
  <2>6. After(g, e, n + 1)
    BY <2>4, <2>5, EncodeLabel
  <2>7. QED BY <2>6 DEF e
<1>4. CASE \E o \in DOMAIN g.heap : v = <<"ref", o>>
  <2>1. PICK o \in DOMAIN g.heap : v = <<"ref", o>>
    BY <1>4
  <2>2. v[1] = "ref" /\ v[1] # "leaf" /\ v[2] = o
    BY <2>1
  <2>3. CASE o \in DOMAIN s.seen
    <3> DEFINE label == [tag |-> "r", path |-> s.seen[o]]
    <3>1. e = [due |-> rest, tree |-> With(s.tree, path, label), seen |-> s.seen]
      <4>1. v[1] # "leaf" /\ v[2] = o /\ v[2] \in DOMAIN s.seen
        BY <2>2, <2>3
      <4>2. s = [due |-> s.due, tree |-> s.tree, seen |-> s.seen]
        BY DEF States
      <4> HIDE DEF v
      <4>3. Encode(g.heap, s) = [s EXCEPT !.due = rest, !.tree = With(@, path, [tag |-> "r", path |-> s.seen[v[2]]])]
        BY <4>1 DEF Encode, v
      <4>4. Encode(g.heap, s) = [due |-> rest, seen |-> s.seen,
                                 tree |-> With(s.tree, path, [tag |-> "r", path |-> s.seen[v[2]]])]
        BY <4>2, <4>3
      <4>5. QED BY <4>1, <4>4
    <3>2. s.seen[o] \in Places /\ s.seen[o] \in DOMAIN s.tree
      <4>1. s.seen \in Partial(DOMAIN g.heap, Places) /\ SeenInTree(g, s.tree, s.seen, DOMAIN s.tree \cup PathsOf(s.due))
        BY DEF States, Encoded
      <4>2. s.seen[o] \in Places
        BY <2>3, <4>1, PartialFacts
      <4>3. QED BY <2>3, <4>1, <4>2 DEF SeenInTree
    <3>3. label \in Labels(g)
      BY <3>2 DEF Labels
    <3>4. path \notin DOMAIN s.tree
      BY NextCall
    <3>5. label = LabelOf(g, s.seen, path)
      BY <1>1, <2>2, <3>2, <3>4 DEF LabelOf
    <3>6. label \in Labels(g) /\ label = LabelOf(g, s.seen, path) /\ Head(s.due).value[2] \in DOMAIN s.seen
      BY <2>2, <2>3, <3>3, <3>5
    <3> HIDE DEF e, label
    <3>7. After(g, e, n + 1)
      BY <3>1, <3>6, EncodeLabel
    <3>8. QED BY <3>7 DEF e
  <2>4. CASE o \notin DOMAIN s.seen
    <3>1. e = [due |-> PropertyCalls(g, o, path) \o rest,
               tree |-> With(s.tree, path, [tag |-> g.heap[o].kind, props |-> DOMAIN g.heap[o].props]),
               seen |-> With(s.seen, o, path)]
      BY <2>2, <2>4 DEF Encode, PropertyCalls
    <3> HIDE DEF e
    <3>2. After(g, e, n + 1)
      BY <2>1, <2>4, <3>1, EncodeObject
    <3>3. QED BY <3>2 DEF e
  <2>5. QED BY <2>3, <2>4
<1>5. QED BY <1>2, <1>3, <1>4

\* The values of a function on a finite set are no more than the set.
LEMMA ImageFinite ==
  ASSUME NEW S, IsFiniteSet(S), NEW I, NEW f \in [S -> I], \A y \in I : \E x \in S : f[x] = y
  PROVE  /\ IsFiniteSet(I) /\ Cardinality(I) <= Cardinality(S)
         /\ Cardinality(I) = Cardinality(S) => \A x, y \in S : f[x] = f[y] => x = y
<1>1. f \in Surjection(S, I)
  BY DEF Surjection
<1>2. IsFiniteSet(I) /\ Cardinality(I) <= Cardinality(S) /\ (Cardinality(I) = Cardinality(S) <=> f \in Injection(S, I))
  BY <1>1, FS_Surjection
<1>3. f \in Injection(S, I) => \A x, y \in S : f[x] = f[y] => x = y
  BY DEF Injection, IsInjective
<1>4. QED BY <1>2, <1>3

\* The numbers from one to another.
LEMMA SpanFinite ==
  ASSUME NEW n \in Nat
  PROVE  IsFiniteSet(1..n) /\ Cardinality(1..n) = n
<1>1. 1 \in Int /\ n \in Int /\ (1 > n <=> n = 0) /\ (n - 1) + 1 = n
  OBVIOUS
<1>2. IsFiniteSet(1..n) /\ Cardinality(1..n) = IF 1 > n THEN 0 ELSE n - 1 + 1
  BY <1>1, FS_Interval
<1>3. QED BY <1>1, <1>2

\* So a sequence has no more members than its length.
LEMMA ToSetFinite ==
  ASSUME NEW T, NEW s \in Seq(T)
  PROVE  IsFiniteSet(ToSet(s)) /\ Cardinality(ToSet(s)) <= Len(s)
<1> DEFINE n == Len(s)
           D == 1..n
<1>1. s \in [D -> T] /\ n \in Nat /\ DOMAIN s = D
  OBVIOUS
<1> HIDE DEF n
<1>2. IsFiniteSet(D) /\ Cardinality(D) = n
  BY <1>1, SpanFinite
<1> DEFINE I == ToSet(s)
<1>3. s \in [D -> I] /\ \A y \in I : \E x \in D : s[x] = y
  BY <1>1 DEF ToSet
<1> HIDE DEF D, I
<1>4. IsFiniteSet(I) /\ Cardinality(I) <= Cardinality(D)
  BY <1>2, <1>3, ImageFinite
<1>5. QED BY <1>2, <1>4 DEF n, I

\* A finite heap has finitely many properties.
LEMMA PropertiesFinite ==
  ASSUME NEW g, IsGraph(g)
  PROVE  IsFiniteSet(Properties(g.heap))
<1> DEFINE Of(o) == {o} \X DOMAIN g.heap[o].props
           All == {Of(o) : o \in DOMAIN g.heap}
<1>1. IsFiniteSet(All)
  <2> DEFINE S == DOMAIN g.heap
             f == [o \in S |-> Of(o)]
  <2>1. f \in [S -> All] /\ (\A y \in All : \E x \in S : f[x] = y) /\ IsFiniteSet(S)
    BY DEF IsGraph
  <2> HIDE DEF f, All, S
  <2>2. QED BY <2>1, ImageFinite
<1>2. ASSUME NEW o \in DOMAIN g.heap PROVE IsFiniteSet(Of(o))
  <2>1. DOMAIN g.heap[o].props \subseteq ToSet(PropertyOrder[g.heap[o].kind]) /\ PropertyOrder[g.heap[o].kind] \in Seq(STRING)
    BY GraphFacts, CodecAssumption DEF IsObject, CodecAssumption
  <2>2. IsFiniteSet(DOMAIN g.heap[o].props)
    BY <2>1, ToSetFinite, FS_Subset
  <2>3. IsFiniteSet({o})
    BY FS_Singleton
  <2>4. QED BY <2>2, <2>3, FS_Product
<1>3. Properties(g.heap) = UNION All
  BY DEF Properties
<1>4. \A T \in All : IsFiniteSet(T)
  BY <1>2
<1> HIDE DEF All
<1>5. QED BY <1>1, <1>3, <1>4, FS_UNION

\* Each path that is reached but the first belongs to a property of its own.
LEMMA AllEncoded ==
  ASSUME NEW g, IsGraph(g), NEW s \in States(g), Encoded(g, s), Counted(s, Cardinality(Properties(g.heap)) + 1)
  PROVE  s.due = <<>>
<1> DEFINE P == Properties(g.heap)
           R == {x \in P : x[1] \in DOMAIN s.seen}
           f == [x \in R |-> Append(s.seen[x[1]], x[2])]
           I == {f[x] : x \in R}
           reached == DOMAIN s.tree \cup PathsOf(s.due)
<1>1. SUFFICES ASSUME s.due # <<>> PROVE FALSE
  OBVIOUS
<1>2. IsFiniteSet(P) /\ Cardinality(P) \in Nat
  <2>1. IsFiniteSet(Properties(g.heap))
    BY PropertiesFinite
  <2> HIDE DEF P
  <2>2. IsFiniteSet(P)
    BY <2>1 DEF P
  <2>3. QED BY <2>2, FS_CardinalityType
<1>3. R \subseteq P
  OBVIOUS
<1>4. ASSUME NEW o \in DOMAIN s.seen, NEW p \in DOMAIN g.heap[o].props PROVE <<o, p>> \in R
  <2>1. s.seen \in Partial(DOMAIN g.heap, Places)
    BY DEF States
  <2>2. o \in DOMAIN g.heap
    BY <2>1, PartialFacts
  <2>3. <<o, p>> \in P
    BY <2>2 DEF Properties
  <2>4. QED BY <2>3
<1>5. IsFiniteSet(R) /\ Cardinality(R) <= Cardinality(P) /\ Cardinality(R) \in Nat
  <2> HIDE DEF P, R
  <2>1. IsFiniteSet(R) /\ Cardinality(R) <= Cardinality(P)
    BY <1>2, <1>3, FS_Subset
  <2>2. QED BY <2>1, FS_CardinalityType
<1> HIDE DEF P, R
<1>6. f \in [R -> I] /\ (\A y \in I : \E x \in R : f[x] = y) /\ \A x \in R : f[x] = Append(s.seen[x[1]], x[2])
  OBVIOUS
<1> HIDE DEF f
<1>7. reached \subseteq I \cup {Start}
  <2>1. ASSUME NEW o \in DOMAIN s.seen, NEW p \in DOMAIN g.heap[o].props PROVE Append(s.seen[o], p) \in I
    <3> DEFINE x == <<o, p>>
    <3>1. x \in R /\ x[1] = o /\ x[2] = p
      BY <1>4
    <3> HIDE DEF x
    <3>2. f[x] = Append(s.seen[o], p) /\ f[x] \in I
      BY <1>6, <3>1
    <3>3. QED BY <3>2
  <2> HIDE DEF I, reached
  <2>2. FromSeen(g, s.seen, reached)
    BY DEF Encoded, reached
  <2>3. ASSUME NEW q \in reached PROVE q = Start \/ q \in I
    <3>1. q = Start \/ \E o \in DOMAIN s.seen : \E p \in DOMAIN g.heap[o].props : q = Append(s.seen[o], p)
      BY <2>2 DEF FromSeen
    <3>2. QED BY <2>1, <3>1
  <2>4. QED BY <2>3
<1>8. IsFiniteSet(I) /\ Cardinality(I) <= Cardinality(R) /\ Cardinality(I) \in Nat
  <2> HIDE DEF I
  <2>1. IsFiniteSet(I) /\ Cardinality(I) <= Cardinality(R)
    <3>1. f \in [R -> I] /\ \A y \in I : \E x \in R : f[x] = y
      BY <1>6
    <3>2. IsFiniteSet(R)
      BY <1>5
    <3>3. QED BY <3>1, <3>2, ImageFinite
  <2>2. QED BY <2>1, FS_CardinalityType
<1> HIDE DEF I
<1> DEFINE root == Start
<1>9. IsFiniteSet(I \cup {Start}) /\ Cardinality(I \cup {Start}) <= Cardinality(I) + 1
  <2>1. root = Start
    OBVIOUS
  <2> HIDE DEF root
  <2>2. IsFiniteSet(I \cup {root}) /\ (root \in I \/ Cardinality(I \cup {root}) = Cardinality(I) + 1)
    BY <1>8, FS_AddElement
  <2>3. root \in I => I \cup {root} = I
    OBVIOUS
  <2>4. Cardinality(I \cup {root}) <= Cardinality(I) + 1
    BY <1>8, <2>2, <2>3
  <2>5. QED BY <2>1, <2>2, <2>4
<1>10. /\ Head(s.due).path \notin DOMAIN s.tree /\ Head(s.due).path \in PathsOf(s.due)
  BY <1>1, NextCall
<1> DEFINE T == DOMAIN s.tree \cup {Head(s.due).path}
<1>11. T \subseteq I \cup {Start}
  BY <1>7, <1>10
<1>12. IsFiniteSet(T) /\ Cardinality(T) = Cardinality(P) + 2
  <2> DEFINE tree == DOMAIN s.tree
             path == Head(s.due).path
  <2>1. IsFiniteSet(tree) /\ Cardinality(tree) = Cardinality(P) + 1 /\ path \notin tree /\ T = tree \cup {path}
    BY <1>1, <1>10 DEF Counted, P
  <2> HIDE DEF tree, path, T
  <2>2. IsFiniteSet(tree \cup {path}) /\ Cardinality(tree \cup {path}) = Cardinality(tree) + 1
    BY <2>1, FS_AddElement
  <2>3. QED BY <1>2, <2>1, <2>2
<1> HIDE DEF T
<1>13. Cardinality(T) <= Cardinality(I \cup {Start})
  BY <1>9, <1>11, FS_Subset
<1>14. Cardinality(I \cup {Start}) \in Nat
  BY <1>9, FS_CardinalityType
<1>15. QED BY <1>2, <1>5, <1>8, <1>9, <1>12, <1>13, <1>14

\* The tree of a graph is that of a state of the encoder with no call due.
LEMMA SerializeFacts ==
  ASSUME NEW g, IsGraph(g)
  PROVE  \E s \in States(g) : Encoded(g, s) /\ s.due = <<>> /\ Serialize(g) = s.tree
<1> DEFINE N == Cardinality(Properties(g.heap)) + 1
           first == [due |-> <<[value |-> g.root, path |-> <<>>]>>, tree |-> <<>>, seen |-> <<>>]
           Step(s) == IF s.due = <<>> THEN s ELSE Encode(g.heap, s)
           I == [i \in 0..N |-> {s \in States(g) : Encoded(g, s) /\ Counted(s, i)}]
           h == [i \in 1..N |-> [s \in States(g) |-> Step(s)]]
           Def(f) == f = [i \in 0..N |-> IF i = 0 THEN first ELSE Step(f[i - 1])]
           after == CHOOSE f : Def(f)
<1>1. N \in Nat /\ N - 1 = Cardinality(Properties(g.heap)) /\ N \in 0..N
  BY PropertiesFinite, FS_CardinalityType
<1>2. first \in I[0]
  <2> DEFINE d == [value |-> g.root, path |-> Start]
             due == <<d>>
  <2>1. d \in Calls(g) /\ d.path = Start /\ d.value = g.root
    BY StartPlace DEF Calls, ValuesOf
  <2> HIDE DEF d
  <2>2. due \in Seq(Calls(g)) /\ Len(due) = 1 /\ due[1] = d /\ DOMAIN due = 1..1 /\ due # <<>>
    BY <2>1
  <2>3. \A i \in 1..Len(due) : i = 1
    BY <2>2
  <2>4. first = [due |-> due, tree |-> <<>>, seen |-> <<>>]
    BY DEF Start, d
  <2> HIDE DEF due, first
  <2>5. ToSet(due) = {d} /\ Distinct(due) /\ PathsOf(due) = {Start}
    <3>1. ToSet(due) = {d}
      BY <2>2, <2>3 DEF ToSet
    <3>2. Distinct(due)
      BY <2>3 DEF Distinct
    <3>3. PathsOf(due) = {Start}
      BY <2>1, <2>2, <2>3 DEF PathsOf
    <3>4. QED BY <3>1, <3>2, <3>3
  <2> DEFINE empty == <<>>
  <2>6. DOMAIN empty = {} /\ (\A X : empty \in [{} -> X])
    OBVIOUS
  <2> HIDE DEF empty
  <2>7. first.due = due /\ first.tree = empty /\ first.seen = empty /\ first = [due |-> due, tree |-> empty, seen |-> empty]
    BY <2>4 DEF empty
  <2>8. ASSUME NEW X, NEW Y PROVE empty \in Partial(X, Y)
    <3>1. empty \in [{} -> Y] /\ {} \in SUBSET X
      BY <2>6
    <3>2. QED BY <3>1 DEF Partial
  <2>9. first \in States(g)
    <3>1. empty \in Partial(Places, Labels(g)) /\ empty \in Partial(DOMAIN g.heap, Places) /\ due \in Seq(Calls(g))
      BY <2>2, <2>8
    <3>2. QED BY <2>7, <3>1 DEF States
  <2>10. Encoded(g, first)
    <3>1. Follow(g, Start) = g.root
      BY FollowStart DEF Start
    <3>2. QED BY <2>1, <2>5, <2>6, <2>7, <3>1 DEF Encoded, Labelled, SeenInTree, FromSeen, FromRoot
  <2>11. Counted(first, 0)
    BY <2>6, <2>7, FS_EmptySet DEF Counted
  <2>12. QED BY <1>1, <2>9, <2>10, <2>11
<1>3. ASSUME NEW i \in 1..N, NEW s \in I[i - 1] PROVE h[i][s] = Step(s) /\ Step(s) \in I[i] /\ s \in States(g)
  <2>1. i - 1 \in 0..N /\ i \in 0..N /\ i - 1 \in Nat /\ (i - 1) + 1 = i
    BY <1>1
  <2>2. s \in States(g) /\ Encoded(g, s) /\ Counted(s, i - 1)
    BY <2>1
  <2>3. CASE s.due = <<>>
    <3>1. Counted(s, i)
      BY <2>2, <2>3 DEF Counted
    <3>2. QED BY <2>1, <2>2, <2>3, <3>1
  <2>4. CASE s.due # <<>>
    <3>1. After(g, Encode(g.heap, s), (i - 1) + 1)
      BY <2>1, <2>2, <2>4, EncodeStep
    <3>2. Encode(g.heap, s) \in States(g) /\ Encoded(g, Encode(g.heap, s)) /\ Counted(Encode(g.heap, s), i)
      BY <2>1, <3>1 DEF After
    <3>3. QED BY <2>1, <2>2, <2>4, <3>2
  <2>5. QED BY <2>3, <2>4
<1>4. \A i \in 0..N : I[i] \subseteq States(g)
  OBVIOUS
<1>5. Serialize(g) = after[N].tree
  BY DEF Serialize
<1>6. I[N] = {s \in States(g) : Encoded(g, s) /\ Counted(s, N)}
  BY <1>1
<1> HIDE DEF h, I, first
<1>7. PICK f \in [0..N -> States(g)] : f[0] = first /\ \A i \in 1..N : f[i] = h[i][f[i - 1]] /\ f[i - 1] \in I[i - 1]
  <2>1. \A i \in 1..N : \A s \in I[i - 1] : h[i][s] \in I[i]
    BY <1>3
  <2>2. Recursions(N, States(g), I, first, h) # {}
    <3> HIDE DEF N
    <3>1. QED BY <1>1, <1>2, <1>4, <2>1, Recursion
  <2>3. \A i \in 1..N : i - 1 \in 0..N
    BY <1>1
  <2>4. QED BY <2>2, <2>3 DEF Recursions
<1> HIDE DEF N
<1>8. Def(f)
  <2>1. \A i \in 0..N : i # 0 => i \in 1..N
    BY <1>1
  <2>2. \A i \in 0..N : i # 0 => f[i] = Step(f[i - 1])
    BY <1>3, <1>7, <2>1
  <2>3. \A i \in 0..N : f[i] = IF i = 0 THEN first ELSE Step(f[i - 1])
    BY <1>7, <2>2
  <2>4. QED BY <1>7, <2>3
<1>9. Def(after)
  BY <1>8
<1> HIDE DEF after
<1>10. after[0] = first /\ \A i \in 1..N : after[i] = Step(after[i - 1])
  <2>1. 0 \in 0..N /\ \A i \in 1..N : i \in 0..N /\ i # 0
    BY <1>1
  <2>2. \A i \in 0..N : after[i] = IF i = 0 THEN first ELSE Step(after[i - 1])
    BY <1>9
  <2>3. QED BY <2>1, <2>2
<1>11. \A i \in 0..N : after[i] \in I[i]
  <2>1. \A i \in 1..N : after[i - 1] \in I[i - 1] => after[i] \in I[i]
    BY <1>3, <1>10
  <2>2. after[0] \in I[0]
    BY <1>2, <1>10
  <2>3. QED BY <1>1, <2>1, <2>2, Stays
<1>12. after[N] \in States(g) /\ Encoded(g, after[N]) /\ Counted(after[N], N)
  BY <1>1, <1>6, <1>11
<1>13. after[N].due = <<>>
  BY <1>12, AllEncoded DEF N
<1>14. QED BY <1>5, <1>12, <1>13

----------------------------------------------------------------------------
(* decode and resolveReferences *)

\* The tree of a graph, with the paths at which its objects were seen.
TreeOf(g, tree, seen) ==
  /\ DOMAIN tree \subseteq Places /\ DOMAIN seen \subseteq DOMAIN g.heap
  /\ Labelled(g, tree, seen) /\ SeenInTree(g, tree, seen, DOMAIN tree) /\ FromSeen(g, seen, DOMAIN tree)
  /\ FromRoot(g, tree, seen, DOMAIN tree)

\* The tree of a graph, with the paths at which its objects are written out.
LEMMA SerializedTree ==
  ASSUME NEW g, IsGraph(g)
  PROVE  \E seen : TreeOf(g, Serialize(g), seen)
<1>1. PICK s \in States(g) : Encoded(g, s) /\ s.due = <<>> /\ Serialize(g) = s.tree
  BY SerializeFacts
<1>2. PathsOf(s.due) = {}
  <2> DEFINE empty == <<>>
  <2>1. Len(empty) = 0
    OBVIOUS
  <2> HIDE DEF empty
  <2>2. s.due = empty /\ 1..Len(empty) = {}
    BY <1>1, <2>1 DEF empty
  <2>3. QED BY <2>2 DEF PathsOf
<1>3. DOMAIN s.tree \cup PathsOf(s.due) = DOMAIN s.tree
  BY <1>2
<1>4. DOMAIN s.tree \subseteq Places /\ DOMAIN s.seen \subseteq DOMAIN g.heap
  <2>1. s.tree \in Partial(Places, Labels(g)) /\ s.seen \in Partial(DOMAIN g.heap, Places)
    BY DEF States
  <2>2. QED BY <2>1, PartialFacts
<1>5. TreeOf(g, s.tree, s.seen)
  BY <1>1, <1>3, <1>4 DEF TreeOf, Encoded
<1>6. QED BY <1>1, <1>5

\* A leaf is decoded as it was encoded.
LEMMA LeafFacts ==
  ASSUME NEW v, IsLeaf(v)
  PROVE  /\ DecodeLeaf(EncodeLeaf(v)) = v /\ EncodeLeaf(v).tag \notin Kinds \cup {"r"}
         /\ v[1] = "leaf"
<1>1. v[2] \in DOMAIN Tags /\ v = <<"leaf", v[2], v[3]>> /\ v # Zero /\ v[1] = "leaf"
  BY DEF IsLeaf
<1>2. EncodeLeaf(v) = [tag |-> Tags[v[2]], text |-> v[3]]
  BY <1>1 DEF EncodeLeaf
<1>3. DOMAIN Tags = {"undefined", "null", "number", "boolean", "string", "date", "native"}
  BY DEF Tags
<1>4. \A t, u \in DOMAIN Tags : Tags[t] = Tags[u] => t = u
  BY DEF Tags
<1>5. (CHOOSE t \in DOMAIN Tags : Tags[t] = Tags[v[2]]) = v[2]
  BY <1>1, <1>4
<1>6. DecodeLeaf(EncodeLeaf(v)) = v
  BY <1>1, <1>2, <1>5 DEF DecodeLeaf
<1>7. Tags[v[2]] \notin Kinds \cup {"r"}
  BY <1>1, <1>3, CodecAssumption DEF Tags, CodecAssumption
<1>8. QED BY <1>1, <1>2, <1>6, <1>7

\* What is decoded at each path of the tree.
LEMMA DecodeFacts ==
  ASSUME NEW g, IsGraph(g), NEW tree, NEW seen, TreeOf(g, tree, seen), NEW q \in DOMAIN tree
  PROVE  \/ /\ IsLeaf(Follow(g, q)) /\ Decode(tree, q) = Follow(g, q) /\ q \notin Objects(tree)
            /\ tree[q] = EncodeLeaf(Follow(g, q)) /\ tree[q].tag \notin Kinds \cup {"r"}
         \/ \E o \in DOMAIN seen :
              /\ Follow(g, q) = <<"ref", o>>
              /\ \/ /\ q = seen[o] /\ Decode(tree, q) = <<"ref", q>> /\ q \in Objects(tree)
                    /\ tree[q].tag = g.heap[o].kind /\ tree[q].props = DOMAIN g.heap[o].props
                 \/ q # seen[o] /\ Decode(tree, q) = <<"mark", seen[o]>> /\ q \notin Objects(tree) /\ tree[q].tag = "r"
<1> DEFINE v == Follow(g, q)
<1>1. v \in ValuesOf(g) /\ tree[q] = LabelOf(g, seen, q) /\ (v[1] = "ref" => v[2] \in DOMAIN seen)
  BY DEF TreeOf, Labelled
<1>2. CASE IsLeaf(v)
  <2>1. tree[q] = EncodeLeaf(v)
    BY <1>1, <1>2, LeafFacts DEF LabelOf
  <2>2. tree[q].tag \notin Kinds \cup {"r"} /\ DecodeLeaf(tree[q]) = v
    BY <1>2, <2>1, LeafFacts
  <2>3. Decode(tree, q) = v /\ q \notin Objects(tree)
    BY <2>2 DEF Decode, Objects
  <2>4. QED BY <1>2, <2>1, <2>2, <2>3
<1>3. CASE \E o \in DOMAIN g.heap : v = <<"ref", o>>
  <2>1. PICK o \in DOMAIN g.heap : v = <<"ref", o>>
    BY <1>3
  <2>2. o \in DOMAIN seen /\ v[1] # "leaf" /\ v[2] = o
    BY <1>1, <2>1
  <2>3. g.heap[o].kind \in Kinds /\ "r" \notin Kinds
    BY GraphFacts, CodecAssumption DEF IsObject, CodecAssumption
  <2>4. CASE q = seen[o]
    <3>1. tree[q] = [tag |-> g.heap[o].kind, props |-> DOMAIN g.heap[o].props]
      BY <1>1, <2>2, <2>4 DEF LabelOf
    <3>2. QED BY <2>1, <2>2, <2>3, <2>4, <3>1 DEF Decode, Objects
  <2>5. CASE q # seen[o]
    <3>1. tree[q] = [tag |-> "r", path |-> seen[o]]
      BY <1>1, <2>2, <2>5 DEF LabelOf
    <3>2. QED BY <2>1, <2>2, <2>3, <2>5, <3>1 DEF Decode, Objects
  <2>6. QED BY <2>4, <2>5
<1>4. QED BY <1>1, <1>2, <1>3, GraphFacts DEF IsValue

\* The paths of the objects, and what is decoded below them.
LEMMA DecodeObjects ==
  ASSUME NEW g, IsGraph(g), NEW tree, NEW seen, TreeOf(g, tree, seen)
  PROVE  /\ Objects(tree) = {seen[o] : o \in DOMAIN seen}
         /\ \A o, x \in DOMAIN seen : seen[o] = seen[x] => o = x
         /\ \A o \in DOMAIN seen :
              /\ seen[o] \in Places /\ seen[o] \in DOMAIN tree /\ Decode(tree, seen[o]) = <<"ref", seen[o]>>
              /\ tree[seen[o]].tag = g.heap[o].kind /\ tree[seen[o]].props = DOMAIN g.heap[o].props
              /\ \A p \in DOMAIN g.heap[o].props :
                   /\ Append(seen[o], p) \in DOMAIN tree /\ Follow(g, Append(seen[o], p)) = g.heap[o].props[p]
                   /\ DecodeProperty(tree, seen[o], p) = Decode(tree, Append(seen[o], p))
<1>1. \A o \in DOMAIN seen : seen[o] \in DOMAIN tree /\ Follow(g, seen[o]) = <<"ref", o>> /\ seen[o] \in Places /\ o \in DOMAIN g.heap
  BY DEF TreeOf, SeenInTree
<1>2. \A o, x \in DOMAIN seen : seen[o] = seen[x] => o = x
  <2>1. SUFFICES ASSUME NEW o \in DOMAIN seen, NEW x \in DOMAIN seen, seen[o] = seen[x] PROVE o = x
    OBVIOUS
  <2>2. <<"ref", o>> = <<"ref", x>>
    BY <1>1, <2>1
  <2>3. QED BY <2>2
<1>3. ASSUME NEW o \in DOMAIN seen
      PROVE  /\ Decode(tree, seen[o]) = <<"ref", seen[o]>> /\ seen[o] \in Objects(tree)
             /\ tree[seen[o]].tag = g.heap[o].kind /\ tree[seen[o]].props = DOMAIN g.heap[o].props
  <2>1. ~IsLeaf(Follow(g, seen[o])) /\ \A x : Follow(g, seen[o]) = <<"ref", x>> => x = o
    BY <1>1 DEF IsLeaf
  <2>2. QED BY <1>1, <2>1, DecodeFacts
<1>4. Objects(tree) \subseteq {seen[o] : o \in DOMAIN seen}
  <2>1. SUFFICES ASSUME NEW q \in Objects(tree) PROVE \E o \in DOMAIN seen : q = seen[o]
    OBVIOUS
  <2>2. q \in DOMAIN tree
    BY DEF Objects
  <2>3. QED BY <2>2, DecodeFacts
<1>5. ASSUME NEW o \in DOMAIN seen, NEW p \in DOMAIN g.heap[o].props
      PROVE  /\ Append(seen[o], p) \in DOMAIN tree /\ Follow(g, Append(seen[o], p)) = g.heap[o].props[p]
             /\ DecodeProperty(tree, seen[o], p) = Decode(tree, Append(seen[o], p))
  <2>1. Append(seen[o], p) \in DOMAIN tree
    BY DEF TreeOf, SeenInTree
  <2>2. p \in Names /\ IsObject(g.heap, g.heap[o])
    BY <1>1, GraphFacts
  <2>3. Follow(g, Append(seen[o], p)) = Get(g, <<"ref", o>>, p, Nowhere)
    BY <1>1, <2>2, FollowFacts
  <2>4. Follow(g, Append(seen[o], p)) = g.heap[o].props[p]
    BY <2>3 DEF Get
  <2>5. CASE tree[seen[o]].tag = "error" /\ p = "message"
    <3>1. IsLeaf(g.heap[o].props[p])
      BY <1>3, <2>2, <2>5 DEF IsObject
    <3>2. \A x : g.heap[o].props[p] # <<"ref", x>>
      BY <3>1 DEF IsLeaf
    <3>3. Decode(tree, Append(seen[o], p)) = g.heap[o].props[p]
      BY <2>1, <2>4, <3>2, DecodeFacts
    <3>4. QED BY <2>1, <2>4, <3>1, <3>3 DEF DecodeProperty, IsLeaf
  <2>6. CASE ~(tree[seen[o]].tag = "error" /\ p = "message")
    BY <2>1, <2>4, <2>6 DEF DecodeProperty
  <2>7. QED BY <2>5, <2>6
<1>6. Objects(tree) = {seen[o] : o \in DOMAIN seen}
  BY <1>3, <1>4
<1>7. QED BY <1>1, <1>2, <1>3, <1>5, <1>6

\* The same for one object, under a name that keeps the provers from looking
\* for objects at ever longer paths.
DecodedObject(g, tree, seen, o) ==
  /\ seen[o] \in Places /\ seen[o] \in DOMAIN tree /\ Decode(tree, seen[o]) = <<"ref", seen[o]>>
  /\ seen[o] \in Objects(tree) /\ tree[seen[o]].tag = g.heap[o].kind /\ tree[seen[o]].props = DOMAIN g.heap[o].props
  /\ \A p \in DOMAIN g.heap[o].props :
       /\ Append(seen[o], p) \in DOMAIN tree /\ Follow(g, Append(seen[o], p)) = g.heap[o].props[p]
       /\ DecodeProperty(tree, seen[o], p) = Decode(tree, Append(seen[o], p))

\* An object that the encoder reached decodes to itself, with its properties.
LEMMA ObjectDecoded ==
  ASSUME NEW g, IsGraph(g), NEW tree, NEW seen, TreeOf(g, tree, seen), NEW o \in DOMAIN seen
  PROVE  DecodedObject(g, tree, seen, o)
<1>1. seen[o] \in Objects(tree)
  BY DecodeObjects
<1>2. QED BY <1>1, DecodeObjects DEF DecodedObject

\* A path of more than one step is a path and a step.
LEMMA PathFront ==
  ASSUME NEW q \in Places, NEW n \in Nat, Len(q) = n + 1
  PROVE  \E r \in Places : \E p \in Names : q = Append(r, p) /\ Len(r) = n
<1> DEFINE r == SubSeq(q, 1, n)
           p == q[n + 1]
<1>1. q \in Seq(Names)
  BY DEF Places
<1>2. p \in Names /\ r \in Seq(Names) /\ Len(r) = n /\ \A i \in 1..n : r[i] = q[i]
  BY <1>1
<1> HIDE DEF p, r
<1>3. /\ Append(r, p) \in Seq(Names) /\ Len(Append(r, p)) = n + 1 /\ Append(r, p)[n + 1] = p
      /\ \A i \in 1..n : Append(r, p)[i] = r[i]
  BY <1>2
<1>4. \A i \in 1..(n + 1) : Append(r, p)[i] = q[i]
  <2>1. \A i \in 1..(n + 1) : i = n + 1 \/ i \in 1..n
    OBVIOUS
  <2>2. QED BY <1>2, <1>3, <2>1 DEF p
<1>5. q = Append(r, p)
  BY <1>1, <1>3, <1>4
<1>6. QED BY <1>2, <1>5 DEF Places

\* In the decoded graph the path of a node leads to what was decoded there.
LEMMA WalkDecoded ==
  ASSUME NEW g, IsGraph(g), NEW tree, NEW seen, TreeOf(g, tree, seen)
  PROVE  \A q \in DOMAIN tree : Walk(DecodeAll(tree), q, Undefined) = Decode(tree, q)
<1> DEFINE d == DecodeAll(tree)
           S == {Decode(tree, q) : q \in DOMAIN tree} \cup {Undefined}
           P == {n \in Nat : \A q \in DOMAIN tree : Len(q) = n => Walk(d, q, Undefined) = Decode(tree, q)}
<1>1. DOMAIN tree \subseteq Places /\ Start \in DOMAIN tree /\ FromSeen(g, seen, DOMAIN tree) /\ DOMAIN seen \subseteq DOMAIN g.heap
  BY DEF TreeOf, FromRoot
<1>2. /\ d.root = Decode(tree, Start) /\ DOMAIN d.heap = Objects(tree)
      /\ \A s \in Objects(tree) : /\ DOMAIN d.heap[s].props = tree[s].props
                                  /\ \A p \in tree[s].props : d.heap[s].props[p] = DecodeProperty(tree, s, p)
  BY DEF DecodeAll, Start
<1> HIDE DEF d
<1>3. \A o \in DOMAIN seen : /\ DOMAIN d.heap[seen[o]].props = DOMAIN g.heap[o].props
                             /\ \A p \in DOMAIN g.heap[o].props :
                                  /\ Append(seen[o], p) \in DOMAIN tree
                                  /\ d.heap[seen[o]].props[p] = Decode(tree, Append(seen[o], p))
  BY <1>2, DecodeObjects
<1>4. Closed(d, S)
  <2>1. ASSUME NEW v \in S, v[1] = "ref", NEW p \in DOMAIN d.heap[v[2]].props PROVE d.heap[v[2]].props[p] \in S
    <3>1. PICK q \in DOMAIN tree : v = Decode(tree, q)
      <4>1. Undefined[1] # "ref"
        BY DEF Undefined
      <4>2. v # Undefined
        BY <2>1, <4>1
      <4>3. QED BY <4>2
    <3>2. \E o \in DOMAIN seen : q = seen[o] /\ v = <<"ref", seen[o]>>
      BY <2>1, <3>1, DecodeFacts DEF IsLeaf
    <3>3. PICK o \in DOMAIN seen : v[2] = seen[o]
      BY <3>2
    <3>4. QED BY <1>3, <2>1, <3>3
  <2>2. d.root \in S
    BY <1>1, <1>2
  <2> HIDE DEF S
  <2>3. QED BY <2>1, <2>2 DEF Closed
<1>5. /\ Walk(d, Start, Undefined) = d.root
      /\ \A q \in Places : \A p \in Names : Walk(d, Append(q, p), Undefined) = Get(d, Walk(d, q, Undefined), p, Undefined)
  <2>1. Undefined \in S
    OBVIOUS
  <2> HIDE DEF S
  <2>2. ASSUME NEW q \in Places
        PROVE  /\ Walk(d, <<>>, Undefined) = d.root
               /\ \A p \in Names : Walk(d, Append(q, p), Undefined) = Get(d, Walk(d, q, Undefined), p, Undefined)
    <3>1. q \in Seq(Names)
      BY DEF Places
    <3>2. QED BY <1>4, <2>1, <3>1, WalkFacts, WalkFurther
  <2>3. QED BY <2>2, StartPlace DEF Start
<1> HIDE DEF S
<1>6. 0 \in P
  <2>1. SUFFICES ASSUME NEW q \in DOMAIN tree, Len(q) = 0 PROVE Walk(d, q, Undefined) = Decode(tree, q)
    OBVIOUS
  <2>2. q = Start
    <3>1. q \in Seq(Names)
      BY <1>1 DEF Places
    <3>2. QED BY <2>1, <3>1 DEF Start
  <2>3. QED BY <1>2, <1>5, <2>2
<1>7. ASSUME NEW n \in Nat, n \in P PROVE n + 1 \in P
  <2>1. SUFFICES ASSUME NEW q \in DOMAIN tree, Len(q) = n + 1 PROVE Walk(d, q, Undefined) = Decode(tree, q)
    OBVIOUS
  <2>2. q # Start
    <3>1. Len(Start) = 0
      BY DEF Start
    <3>2. QED BY <2>1, <3>1
  <2>3. PICK o \in DOMAIN seen : \E p \in DOMAIN g.heap[o].props : q = Append(seen[o], p)
    BY <1>1, <2>2 DEF FromSeen
  <2> PICK p \in DOMAIN g.heap[o].props : q = Append(seen[o], p)
    BY <2>3
  <2>4. seen[o] \in Places /\ seen[o] \in DOMAIN tree /\ Decode(tree, seen[o]) = <<"ref", seen[o]>> /\ p \in Names
    <3>1. DecodedObject(g, tree, seen, o) /\ o \in DOMAIN g.heap
      BY <1>1, ObjectDecoded
    <3>2. p \in Names
      BY <3>1, GraphFacts
    <3>3. QED BY <3>1, <3>2 DEF DecodedObject
  <2>5. Len(seen[o]) = n
    <3>1. seen[o] \in Seq(Names)
      BY <2>4 DEF Places
    <3>2. Len(Append(seen[o], p)) = Len(seen[o]) + 1 /\ Len(seen[o]) \in Nat
      BY <2>4, <3>1
    <3>3. QED BY <2>1, <3>2
  <2>6. Walk(d, seen[o], Undefined) = <<"ref", seen[o]>>
    BY <1>7, <2>4, <2>5
  <2>7. Walk(d, q, Undefined) = Get(d, <<"ref", seen[o]>>, p, Undefined)
    BY <1>5, <2>4, <2>6
  <2>8. QED BY <1>3, <2>7 DEF Get
<1>8. Nat \subseteq P
  <2> HIDE DEF P
  <2>1. QED BY <1>6, <1>7, SetInduction
<1>9. \A q \in DOMAIN tree : Len(q) \in Nat
  BY <1>1 DEF Places
<1>10. QED BY <1>8, <1>9 DEF d

\* A graph d is the image of g when each object that is seen has a copy.
Image(seen, v) == IF v[1] = "ref" THEN <<"ref", seen[v[2]]>> ELSE v
Copied(seen, v) == v[1] = "ref" => v[2] \in DOMAIN seen
Mirrors(g, d, seen) ==
  /\ DOMAIN seen \subseteq DOMAIN g.heap /\ \A o, x \in DOMAIN seen : seen[o] = seen[x] => o = x
  /\ d.root = Image(seen, g.root) /\ Copied(seen, g.root)
  /\ \A o \in DOMAIN seen :
       /\ d.heap[seen[o]].kind = g.heap[o].kind /\ DOMAIN d.heap[seen[o]].props = DOMAIN g.heap[o].props
       /\ \A p \in DOMAIN g.heap[o].props : /\ d.heap[seen[o]].props[p] = Image(seen, g.heap[o].props[p])
                                            /\ Copied(seen, g.heap[o].props[p])

\* What is decoded and resolved is such an image.
LEMMA DecodedMirrors ==
  ASSUME NEW g, IsGraph(g), NEW tree, NEW seen, TreeOf(g, tree, seen)
  PROVE  Mirrors(g, ResolveReferences(DecodeAll(tree)), seen)
<1> DEFINE d == DecodeAll(tree)
           r == ResolveReferences(d)
<1>1. DOMAIN seen \subseteq DOMAIN g.heap /\ Start \in DOMAIN tree /\ (g.root[1] = "ref" => seen[g.root[2]] = Start)
  BY DEF TreeOf, FromRoot
<1>2. \A o, x \in DOMAIN seen : seen[o] = seen[x] => o = x
  BY DecodeObjects
<1>3. Follow(g, Start) = g.root
  BY FollowStart DEF Start
<1>4. /\ d.root = Decode(tree, Start) /\ DOMAIN d.heap = Objects(tree) /\ d = [heap |-> d.heap, root |-> d.root]
      /\ \A s \in Objects(tree) : /\ d.heap[s].kind = tree[s].tag /\ DOMAIN d.heap[s].props = tree[s].props
                                  /\ \A p \in tree[s].props : d.heap[s].props[p] = DecodeProperty(tree, s, p)
                                  /\ d.heap[s] = [kind |-> d.heap[s].kind, props |-> d.heap[s].props]
  BY DEF DecodeAll, Start
<1> HIDE DEF d
<1>5. /\ r.root = d.root
      /\ \A s \in Objects(tree) :
           /\ r.heap[s].kind = tree[s].tag /\ DOMAIN r.heap[s].props = tree[s].props
           /\ \A p \in tree[s].props :
                r.heap[s].props[p] = IF d.heap[s].props[p][1] = "mark" THEN Walk(d, d.heap[s].props[p][2], Undefined)
                                     ELSE d.heap[s].props[p]
  <2> DEFINE To(s) == [p \in DOMAIN d.heap[s].props |->
                         IF d.heap[s].props[p][1] = "mark" THEN Walk(d, d.heap[s].props[p][2], Undefined)
                         ELSE d.heap[s].props[p]]
  <2>1. r = [d EXCEPT !.heap = [s \in DOMAIN d.heap |-> [d.heap[s] EXCEPT !.props = To(s)]]]
    BY DEF ResolveReferences, ResolvePath
  <2>2. \A s \in Objects(tree) : /\ DOMAIN To(s) = tree[s].props
                                 /\ \A p \in tree[s].props :
                                      To(s)[p] = IF d.heap[s].props[p][1] = "mark"
                                                 THEN Walk(d, d.heap[s].props[p][2], Undefined)
                                                 ELSE d.heap[s].props[p]
    BY <1>4
  <2> HIDE DEF To, r
  <2>3. r = [heap |-> [s \in DOMAIN d.heap |-> [d.heap[s] EXCEPT !.props = To(s)]], root |-> d.root]
    BY <1>4, <2>1
  <2>4. \A s \in Objects(tree) : r.heap[s] = [d.heap[s] EXCEPT !.props = To(s)] /\ r.root = d.root
    BY <1>4, <2>3
  <2>5. r.root = d.root
    BY <2>3
  <2>6. ASSUME NEW s \in Objects(tree) PROVE r.heap[s].kind = tree[s].tag /\ r.heap[s].props = To(s)
    BY <1>4, <2>4
  <2>7. QED BY <2>2, <2>5, <2>6
<1> HIDE DEF r
<1>6. r.root = Image(seen, g.root) /\ Copied(seen, g.root)
  <2>1. CASE IsLeaf(g.root)
    <3>1. g.root[1] = "leaf" /\ \A x : g.root # <<"ref", x>>
      BY <2>1 DEF IsLeaf
    <3>2. Decode(tree, Start) = g.root
      BY <1>1, <1>3, <3>1, DecodeFacts
    <3>3. QED BY <1>4, <1>5, <3>1, <3>2 DEF Image, Copied
  <2>2. CASE ~IsLeaf(g.root)
    <3>1. PICK o \in DOMAIN seen : g.root = <<"ref", o>>
      BY <1>1, <1>3, <2>2, DecodeFacts
    <3>2. seen[o] = Start
      BY <1>1, <3>1
    <3>3. Decode(tree, Start) = <<"ref", Start>>
      BY <3>2, DecodeObjects
    <3>4. QED BY <1>4, <1>5, <3>1, <3>2, <3>3 DEF Image, Copied
  <2>3. QED BY <2>1, <2>2
<1>7. ASSUME NEW o \in DOMAIN seen
      PROVE  /\ r.heap[seen[o]].kind = g.heap[o].kind /\ DOMAIN r.heap[seen[o]].props = DOMAIN g.heap[o].props
             /\ \A p \in DOMAIN g.heap[o].props : /\ r.heap[seen[o]].props[p] = Image(seen, g.heap[o].props[p])
                                                  /\ Copied(seen, g.heap[o].props[p])
  <2>1. seen[o] \in Objects(tree) /\ tree[seen[o]].tag = g.heap[o].kind /\ tree[seen[o]].props = DOMAIN g.heap[o].props
    BY DecodeObjects
  <2>2. r.heap[seen[o]].kind = g.heap[o].kind /\ DOMAIN r.heap[seen[o]].props = DOMAIN g.heap[o].props
    BY <1>5, <2>1
  <2>3. ASSUME NEW p \in DOMAIN g.heap[o].props
        PROVE  r.heap[seen[o]].props[p] = Image(seen, g.heap[o].props[p]) /\ Copied(seen, g.heap[o].props[p])
    <3> DEFINE v == g.heap[o].props[p]
               q == Append(seen[o], p)
    <3>1. q \in DOMAIN tree /\ Follow(g, q) = v /\ d.heap[seen[o]].props[p] = Decode(tree, q)
      <4>1. DecodedObject(g, tree, seen, o)
        BY ObjectDecoded
      <4>2. QED BY <1>4, <4>1 DEF DecodedObject
    <3>2. r.heap[seen[o]].props[p] = IF Decode(tree, q)[1] = "mark" THEN Walk(d, Decode(tree, q)[2], Undefined) ELSE Decode(tree, q)
      BY <1>5, <2>1, <3>1
    <3> HIDE DEF v, q
    <3>3. CASE IsLeaf(v) /\ Decode(tree, q) = v
      <4>1. v[1] = "leaf"
        BY <3>3 DEF IsLeaf
      <4>2. QED BY <3>2, <3>3, <4>1 DEF Image, Copied, v
    <3>4. ASSUME NEW x \in DOMAIN seen, v = <<"ref", x>>,
                 \/ q = seen[x] /\ Decode(tree, q) = <<"ref", q>>
                 \/ Decode(tree, q) = <<"mark", seen[x]>>
          PROVE  r.heap[seen[o]].props[p] = Image(seen, v) /\ Copied(seen, v)
      <4>1. Image(seen, v) = <<"ref", seen[x]>> /\ Copied(seen, v)
        BY <3>4 DEF Image, Copied
      <4>2. CASE q = seen[x] /\ Decode(tree, q) = <<"ref", q>>
        BY <3>2, <4>1, <4>2
      <4>3. CASE Decode(tree, q) = <<"mark", seen[x]>>
        <5>1. seen[x] \in DOMAIN tree /\ Decode(tree, seen[x]) = <<"ref", seen[x]>>
          BY DecodeObjects
        <5>2. Walk(d, seen[x], Undefined) = <<"ref", seen[x]>>
          BY <5>1, WalkDecoded DEF d
        <5>3. QED BY <3>2, <4>1, <4>3, <5>2
      <4>4. QED BY <3>4, <4>2, <4>3
    <3>5. QED BY <3>1, <3>3, <3>4, DecodeFacts DEF v
  <2>4. QED BY <2>2, <2>3
<1>8. QED BY <1>1, <1>2, <1>6, <1>7 DEF Mirrors, r, d

\* A path leads in the copy to the copy of what it leads to.
LEMMA MirrorFollow ==
  ASSUME NEW g, IsGraph(g), NEW d, NEW seen, Mirrors(g, d, seen)
  PROVE  \A q \in Places : Follow(d, q) = Image(seen, Follow(g, q)) /\ Copied(seen, Follow(g, q))
<1> DEFINE V == {v \in ValuesOf(g) : Copied(seen, v)}
           S == {Image(seen, v) : v \in V} \cup {Nowhere}
           P == {n \in Nat : \A q \in Places : Len(q) = n =>
                   Follow(d, q) = Image(seen, Follow(g, q)) /\ Copied(seen, Follow(g, q))}
<1>1. DOMAIN seen \subseteq DOMAIN g.heap
  BY DEF Mirrors
<1>2. \A o \in DOMAIN g.heap : \A p \in DOMAIN g.heap[o].props : p \in Names /\ g.heap[o].props[p] \in ValuesOf(g)
  BY GraphFacts
<1>3. \A v \in ValuesOf(g) \cup {Nowhere} : v[1] = "ref" => v[2] \in DOMAIN g.heap /\ v = <<"ref", v[2]>>
  BY ValueFacts
<1>4. Nowhere[1] # "ref" /\ Image(seen, Nowhere) = Nowhere /\ Copied(seen, Nowhere)
  BY DEF Nowhere, Image, Copied
<1>5. Closed(d, S)
  <2>1. d.root \in S
    BY DEF Mirrors, ValuesOf
  <2>2. ASSUME NEW v \in S, v[1] = "ref", NEW p \in DOMAIN d.heap[v[2]].props PROVE d.heap[v[2]].props[p] \in S
    <3>1. PICK u \in V : v = Image(seen, u)
      BY <1>4, <2>2
    <3>2. u[1] = "ref" /\ u[2] \in DOMAIN seen /\ v[2] = seen[u[2]]
      BY <2>2, <3>1 DEF Image, Copied
    <3>3. p \in DOMAIN g.heap[u[2]].props /\ u[2] \in DOMAIN g.heap
      BY <1>1, <2>2, <3>2 DEF Mirrors
    <3>4. /\ d.heap[v[2]].props[p] = Image(seen, g.heap[u[2]].props[p])
          /\ Copied(seen, g.heap[u[2]].props[p])
      BY <3>2, <3>3 DEF Mirrors
    <3>5. QED BY <1>2, <3>3, <3>4
  <2> HIDE DEF S
  <2>3. QED BY <2>1, <2>2 DEF Closed
<1>6. /\ Follow(d, Start) = d.root
      /\ \A q \in Places : \A p \in Names : Follow(d, Append(q, p)) = Get(d, Follow(d, q), p, Nowhere)
  <2>1. Nowhere \in S
    OBVIOUS
  <2> HIDE DEF S
  <2>2. ASSUME NEW q \in Places
        PROVE  /\ Walk(d, <<>>, Nowhere) = d.root
               /\ \A p \in Names : Walk(d, Append(q, p), Nowhere) = Get(d, Walk(d, q, Nowhere), p, Nowhere)
    <3>1. q \in Seq(Names)
      BY DEF Places
    <3>2. QED BY <1>5, <2>1, <3>1, WalkFacts, WalkFurther
  <2>3. QED BY <2>2, StartPlace DEF Start, Follow, Nowhere
<1> HIDE DEF S
<1>7. 0 \in P
  <2>1. SUFFICES ASSUME NEW q \in Places, Len(q) = 0
                 PROVE  Follow(d, q) = Image(seen, Follow(g, q)) /\ Copied(seen, Follow(g, q))
    OBVIOUS
  <2>2. q = Start
    <3>1. q \in Seq(Names)
      BY DEF Places
    <3>2. QED BY <2>1, <3>1 DEF Start
  <2>3. Follow(g, Start) = g.root
    BY FollowStart DEF Start
  <2>4. QED BY <1>6, <2>2, <2>3 DEF Mirrors
<1>8. ASSUME NEW n \in Nat, n \in P PROVE n + 1 \in P
  <2>1. SUFFICES ASSUME NEW q \in Places, Len(q) = n + 1
                 PROVE  Follow(d, q) = Image(seen, Follow(g, q)) /\ Copied(seen, Follow(g, q))
    OBVIOUS
  <2>2. PICK r \in Places : \E p \in Names : q = Append(r, p) /\ Len(r) = n
    BY <2>1, PathFront
  <2> PICK p \in Names : q = Append(r, p) /\ Len(r) = n
    BY <2>2
  <2> DEFINE v == Follow(g, r)
  <2>3. Follow(d, r) = Image(seen, v) /\ Copied(seen, v) /\ v \in ValuesOf(g) \cup {Nowhere}
    BY <1>8, FollowFacts
  <2>4. Follow(g, q) = Get(g, v, p, Nowhere) /\ Follow(d, q) = Get(d, Image(seen, v), p, Nowhere)
    BY <1>6, <2>3, FollowFacts
  <2> HIDE DEF v
  <2>5. CASE v[1] = "ref"
    <3>1. v[2] \in DOMAIN seen /\ Image(seen, v) = <<"ref", seen[v[2]]>>
      BY <2>3, <2>5 DEF Image, Copied
    <3>2. DOMAIN d.heap[seen[v[2]]].props = DOMAIN g.heap[v[2]].props
      BY <3>1 DEF Mirrors
    <3>3. CASE p \in DOMAIN g.heap[v[2]].props
      <4>1. Follow(g, q) = g.heap[v[2]].props[p] /\ Follow(d, q) = d.heap[seen[v[2]]].props[p]
        BY <2>4, <2>5, <3>1, <3>2, <3>3 DEF Get
      <4>2. QED BY <3>1, <3>3, <4>1 DEF Mirrors
    <3>4. CASE p \notin DOMAIN g.heap[v[2]].props
      <4>1. Follow(g, q) = Nowhere /\ Follow(d, q) = Nowhere
        BY <2>4, <2>5, <3>1, <3>2, <3>4 DEF Get
      <4>2. QED BY <1>4, <4>1
    <3>5. QED BY <3>3, <3>4
  <2>6. CASE v[1] # "ref"
    <3>1. Image(seen, v) = v
      BY <2>6 DEF Image
    <3>2. Follow(g, q) = Nowhere /\ Follow(d, q) = Nowhere
      BY <2>4, <2>6, <3>1 DEF Get
    <3>3. QED BY <1>4, <3>2
  <2>7. QED BY <2>5, <2>6
<1>9. Nat \subseteq P
  <2> HIDE DEF P
  <2>1. QED BY <1>7, <1>8, SetInduction
<1>10. \A q \in Places : Len(q) \in Nat
  BY DEF Places
<1>11. QED BY <1>9, <1>10

\* The paths of a graph are sequences of names.
LEMMA PathsInPlaces ==
  ASSUME NEW g, IsGraph(g), NEW depth \in Nat
  PROVE  Paths(g, depth) \subseteq Places
<1> DEFINE Longer(s) == LET v == Follow(g, s)
                        IN IF v[1] = "ref" THEN {Append(s, p) : p \in DOMAIN g.heap[v[2]].props} ELSE {}
           Step(S) == S \cup UNION {Longer(s) : s \in S}
           I == [i \in 0..depth |-> SUBSET Places]
           h == [i \in 1..depth |-> [S \in SUBSET Places |-> Step(S)]]
           a == {Start}
           Def(f) == f = [i \in 0..depth |-> IF i = 0 THEN a ELSE Step(f[i - 1])]
           paths == CHOOSE f : Def(f)
<1>1. ASSUME NEW s \in Places PROVE Longer(s) \subseteq Places
  <2>1. Follow(g, s)[1] = "ref" => Follow(g, s)[2] \in DOMAIN g.heap
    <3>1. Follow(g, s) \in ValuesOf(g) \cup {Nowhere}
      BY FollowFacts
    <3>2. QED BY <3>1, ValueFacts
  <2>2. ASSUME Follow(g, s)[1] = "ref", NEW p \in DOMAIN g.heap[Follow(g, s)[2]].props PROVE Append(s, p) \in Places
    <3>1. p \in Names
      BY <2>1, <2>2, GraphFacts
    <3>2. QED BY <3>1, LongerPath
  <2>3. QED BY <2>2
<1>2. \A S \in SUBSET Places : Step(S) \in SUBSET Places
  BY <1>1
<1>3. Paths(g, depth) = paths[depth]
  BY DEF Paths, Start
<1>4. a \in I[0] /\ \A i \in 0..depth : I[i] \subseteq SUBSET Places
  BY StartPlace
<1>5. \A i \in 1..depth : \A S \in I[i - 1] : h[i][S] \in I[i] /\ h[i][S] = Step(S)
  BY <1>2
<1>6. \A i \in 0..depth : I[i] = SUBSET Places
  OBVIOUS
<1> HIDE DEF I, h, a, Step
<1>7. PICK f \in [0..depth -> SUBSET Places] : f[0] = a /\ \A i \in 1..depth : f[i] = h[i][f[i - 1]]
  <2>1. \A i \in 1..depth : \A S \in I[i - 1] : h[i][S] \in I[i]
    BY <1>5
  <2>2. Recursions(depth, SUBSET Places, I, a, h) # {}
    BY <1>4, <2>1, Recursion
  <2>3. QED BY <2>2 DEF Recursions
<1>8. Def(f)
  <2>1. \A i \in 0..depth : i # 0 => i \in 1..depth /\ i - 1 \in 0..depth
    OBVIOUS
  <2>2. \A i \in 0..depth : i # 0 => f[i] = Step(f[i - 1])
    BY <1>5, <1>6, <1>7, <2>1
  <2>3. \A i \in 0..depth : f[i] = IF i = 0 THEN a ELSE Step(f[i - 1])
    BY <1>7, <2>2
  <2>4. QED BY <1>7, <2>3
<1>9. Def(paths)
  BY <1>8
<1> HIDE DEF paths
<1>10. paths[0] = a /\ \A i \in 1..depth : paths[i] = Step(paths[i - 1])
  <2>1. 0 \in 0..depth /\ \A i \in 1..depth : i \in 0..depth /\ i # 0
    OBVIOUS
  <2>2. \A i \in 0..depth : paths[i] = IF i = 0 THEN a ELSE Step(paths[i - 1])
    BY <1>9
  <2>3. QED BY <2>1, <2>2
<1>11. \A i \in 0..depth : paths[i] \in I[i]
  <2>1. \A i \in 1..depth : i - 1 \in 0..depth /\ i \in 0..depth
    OBVIOUS
  <2>2. \A i \in 1..depth : paths[i - 1] \in I[i - 1] => paths[i] \in I[i]
    BY <1>2, <1>6, <1>10, <2>1
  <2>3. QED BY <1>4, <1>10, <2>2, Stays
<1>12. QED BY <1>3, <1>6, <1>11

\* A copy is the same graph.
LEMMA MirrorsAreTheSame ==
  ASSUME NEW g, IsGraph(g), NEW d, NEW seen, Mirrors(g, d, seen), NEW depth \in Nat
  PROVE  SameGraph(g, d, depth)
<1>1. Paths(g, depth) \subseteq Places
  BY PathsInPlaces
<1>2. ASSUME NEW s \in Places
      PROVE  /\ Follow(d, s) = Image(seen, Follow(g, s)) /\ Copied(seen, Follow(g, s))
             /\ Follow(g, s)[1] = "ref" => Follow(g, s) = <<"ref", Follow(g, s)[2]>>
  <2>1. Follow(g, s) \in ValuesOf(g) \cup {Nowhere}
    BY FollowFacts
  <2>2. Follow(g, s)[1] = "ref" => Follow(g, s) = <<"ref", Follow(g, s)[2]>>
    BY <2>1, ValueFacts
  <2>3. QED BY <2>2, MirrorFollow
<1>3. ASSUME NEW s \in Places PROVE Shape(g, Follow(g, s)) = Shape(d, Follow(d, s))
  <2>1. CASE Follow(g, s)[1] = "ref"
    <3> DEFINE o == Follow(g, s)[2]
    <3>1. o \in DOMAIN seen /\ Follow(d, s) = <<"ref", seen[o]>>
      BY <1>2, <2>1 DEF Image, Copied
    <3>2. QED BY <2>1, <3>1 DEF Shape, Mirrors
  <2>2. CASE Follow(g, s)[1] # "ref"
    BY <1>2, <2>2 DEF Shape, Image
  <2>3. QED BY <2>1, <2>2
<1>4. ASSUME NEW s \in Places, NEW t \in Places, Follow(g, s)[1] = "ref", Follow(g, t)[1] = "ref"
      PROVE  Follow(g, s) = Follow(g, t) <=> Follow(d, s) = Follow(d, t)
  <2> DEFINE o == Follow(g, s)[2]
             x == Follow(g, t)[2]
  <2>1. /\ o \in DOMAIN seen /\ x \in DOMAIN seen /\ Follow(g, s) = <<"ref", o>> /\ Follow(g, t) = <<"ref", x>>
        /\ Follow(d, s) = <<"ref", seen[o]>> /\ Follow(d, t) = <<"ref", seen[x]>>
    BY <1>2, <1>4 DEF Image, Copied
  <2> HIDE DEF o, x
  <2>2. seen[o] = seen[x] => o = x
    BY <2>1 DEF Mirrors
  <2>3. QED BY <2>1, <2>2
<1>5. QED BY <1>1, <1>3, <1>4 DEF SameGraph

\* What is serialized and deserialized again is the same graph, however deep
\* one looks: the same paths lead to the same leaves and kinds, and objects
\* that were shared or circular are again (serialize and deserialize of
\* util/serialization.js).
THEOREM CodecRoundTrip ==
  ASSUME NEW g, IsGraph(g), NEW depth \in Nat, Deserialize(Serialize(g)) # Failure
  PROVE  SameGraph(g, Deserialize(Serialize(g)), depth)
<1>1. PICK seen : TreeOf(g, Serialize(g), seen)
  BY SerializedTree
<1> DEFINE tree == Serialize(g)
<1> HIDE DEF tree
<1>2. Deserialize(tree) = ResolveReferences(DecodeAll(tree))
  BY DEF Deserialize, tree
<1>3. Mirrors(g, ResolveReferences(DecodeAll(tree)), seen)
  BY <1>1, DecodedMirrors DEF tree
<1>4. QED BY <1>2, <1>3, MirrorsAreTheSame DEF tree

\* What a path leads to that cannot be decoded: an invalid date, a native
\* object without an end that is a property, the text of a method.
Undecodable(g, path) ==
  \/ Follow(g, path) = Invalid
  \/ path # <<>> /\ Follow(g, path) = Endless
  \/ \E o \in DOMAIN g.heap : Follow(g, path) = <<"ref", o>> /\ g.heap[o].kind = "method"

\* Deserializing fails for nothing but one of these three that a path leads to
\* (the throws of decode and of resolveReferences in util/serialization.js).
THEOREM OnlyUndecodableFails ==
  ASSUME NEW g, IsGraph(g), Deserialize(Serialize(g)) = Failure
  PROVE  \E path \in Places : Undecodable(g, path)
<1>1. PICK seen : TreeOf(g, Serialize(g), seen)
  BY SerializedTree
<1> DEFINE tree == Serialize(g)
<1> HIDE DEF tree
<1>2. Fails(tree)
  <2>1. SUFFICES ASSUME ~Fails(tree) PROVE FALSE
    OBVIOUS
  <2>2. DecodeAll(tree).root[1] = "fails"
    <3>1. ResolveReferences(DecodeAll(tree)).root = DecodeAll(tree).root
      BY DEF ResolveReferences, DecodeAll
    <3>2. QED BY <2>1, <3>1 DEF Deserialize, Failure, tree
  <2>3. Mirrors(g, ResolveReferences(DecodeAll(tree)), seen)
    BY <1>1, DecodedMirrors DEF tree
  <2>4. ResolveReferences(DecodeAll(tree)).root = DecodeAll(tree).root
    BY DEF ResolveReferences, DecodeAll
  <2>5. g.root[1] \in {"leaf", "ref"}
    BY DEF IsGraph, IsValue, IsLeaf
  <2>6. QED BY <2>2, <2>3, <2>4, <2>5 DEF Mirrors, Image
<1>3. \A q \in DOMAIN tree : tree[q].tag \notin Kinds \cup {"r"} => tree[q] = EncodeLeaf(Follow(g, q)) /\ IsLeaf(Follow(g, q))
  <2>1. ASSUME NEW q \in DOMAIN tree, tree[q].tag \notin Kinds \cup {"r"}
        PROVE  tree[q] = EncodeLeaf(Follow(g, q)) /\ IsLeaf(Follow(g, q))
    <3>1. \A o \in DOMAIN seen : g.heap[o].kind \in Kinds
      BY <1>1, GraphFacts DEF TreeOf, IsObject
    <3>2. QED BY <1>1, <2>1, <3>1, DecodeFacts DEF tree
  <2>2. QED BY <2>1
<1>4. \A s \in Objects(tree) : ~BadError(tree, s)
  <2>1. SUFFICES ASSUME NEW s \in Objects(tree), BadError(tree, s) PROVE FALSE
    OBVIOUS
  <2>2. PICK o \in DOMAIN seen : s = seen[o]
    BY <1>1, DecodeObjects DEF tree
  <2>3. g.heap[o].kind = "error" /\ tree[Append(s, "name")].tag \in Kinds \cup {"r"}
    BY <1>1, <2>1, <2>2, DecodeObjects DEF BadError, tree
  <2>4. "name" \in DOMAIN g.heap[o].props /\ IsLeaf(g.heap[o].props["name"])
    BY <1>1, <2>3, GraphFacts DEF IsObject, TreeOf
  <2>5. Append(s, "name") \in DOMAIN tree /\ Follow(g, Append(s, "name")) = g.heap[o].props["name"]
    BY <1>1, <2>2, <2>4, DecodeObjects DEF tree
  <2>6. \A x : g.heap[o].props["name"] # <<"ref", x>>
    BY <2>4 DEF IsLeaf
  <2>7. tree[Append(s, "name")].tag \notin Kinds \cup {"r"}
    BY <1>1, <2>5, <2>6, DecodeFacts DEF tree
  <2>8. QED BY <2>3, <2>7
<1>5. DOMAIN tree \subseteq Places
  BY <1>1 DEF TreeOf, tree
<1>6. ASSUME NEW q \in DOMAIN tree, tree[q].tag \notin Kinds \cup {"r"},
             DecodeLeaf(tree[q]) \in {Invalid} \cup (IF q = <<>> THEN {} ELSE {Endless})
      PROVE  Undecodable(g, q)
  <2>1. Follow(g, q) = DecodeLeaf(tree[q])
    BY <1>3, <1>6, LeafFacts
  <2>2. QED BY <1>6, <2>1 DEF Undecodable
<1>7. ASSUME NEW q \in Objects(tree), tree[q].tag = "method" PROVE Undecodable(g, q)
  <2>1. PICK o \in DOMAIN seen : q = seen[o]
    BY <1>1, DecodeObjects DEF tree
  <2>2. g.heap[o].kind = "method"
    BY <1>1, <1>7, <2>1, DecodeObjects DEF tree
  <2>3. o \in DOMAIN g.heap /\ Follow(g, q) = <<"ref", o>>
    BY <1>1, <2>1 DEF TreeOf, SeenInTree, tree
  <2>4. QED BY <2>2, <2>3 DEF Undecodable
<1>8. Objects(tree) \subseteq DOMAIN tree
  BY DEF Objects
<1>9. QED BY <1>2, <1>4, <1>5, <1>6, <1>7, <1>8 DEF Fails

----------------------------------------------------------------------------
(* The ranking of pages *)

\* Scores are fractions; those of a term that many pages have are negative.
Scores == [num : Int, den : Nat \ {0}]
Entries == [url : Pages, score : Scores]

\* Multiplication by positive numbers keeps the order.
LEMMA Multiplied ==
  ASSUME NEW x \in Int, NEW y \in Int, NEW k \in Nat \ {0}
  PROVE  x <= y <=> x * k <= y * k
OBVIOUS

\* A score that is no less than another one, which is no less than a third.
LEMMA NotLess ==
  ASSUME NEW a \in Scores, NEW b \in Scores, NEW c \in Scores, ~Less(a, b), ~Less(b, c)
  PROVE  ~Less(a, c)
<1>1. /\ a.num \in Int /\ a.den \in Nat \ {0} /\ b.num \in Int /\ b.den \in Nat \ {0}
      /\ c.num \in Int /\ c.den \in Nat \ {0}
  BY DEF Scores
<1> DEFINE an == a.num
           ad == a.den
           bn == b.num
           bd == b.den
           cn == c.num
           cd == c.den
<1>2. bn * ad <= an * bd /\ cn * bd <= bn * cd
  BY <1>1 DEF Less
<1>3. SUFFICES cn * ad <= an * cd
  BY <1>1 DEF Less
<1>4. an \in Int /\ ad \in Nat \ {0} /\ bn \in Int /\ bd \in Nat \ {0} /\ cn \in Int /\ cd \in Nat \ {0}
  BY <1>1
<1> HIDE DEF an, ad, bn, bd, cn, cd
<1>5. bn * ad \in Int /\ an * bd \in Int /\ cn * bd \in Int /\ bn * cd \in Int /\ cn * ad \in Int /\ an * cd \in Int
  BY <1>4
<1>6. (bn * ad) * cd <= (an * bd) * cd
  BY <1>2, <1>4, <1>5, Multiplied
<1>7. (cn * bd) * ad <= (bn * cd) * ad
  BY <1>2, <1>4, <1>5, Multiplied
<1>8. (bn * ad) * cd = (bn * cd) * ad /\ (an * bd) * cd = (an * cd) * bd /\ (cn * bd) * ad = (cn * ad) * bd
  BY <1>4
<1>9. (cn * ad) * bd <= (an * cd) * bd
  <2>1. (bn * cd) * ad \in Int /\ (an * cd) * bd \in Int /\ (cn * ad) * bd \in Int
    BY <1>4, <1>5
  <2>2. QED BY <1>6, <1>7, <1>8, <2>1
<1>10. QED BY <1>4, <1>5, <1>9, Multiplied

\* Of two scores one is no less than the other.
LEMMA OneIsNotLess ==
  ASSUME NEW a \in Scores, NEW b \in Scores
  PROVE  Less(a, b) => ~Less(b, a)
<1>1. a.num * b.den \in Int /\ b.num * a.den \in Int
  BY DEF Scores
<1>2. QED BY <1>1 DEF Less

\* Before orders the pages of a list.
LEMMA BeforeIsOrder ==
  ASSUME NEW pages \in Seq(Entries), NEW i \in DOMAIN pages, NEW j \in DOMAIN pages, NEW k \in DOMAIN pages
  PROVE  /\ ~Before(pages, i, i) /\ (i # j => Before(pages, i, j) \/ Before(pages, j, i))
         /\ Before(pages, i, j) => ~Before(pages, j, i) /\ ~Less(pages[i].score, pages[j].score)
         /\ Before(pages, i, j) /\ Before(pages, j, k) => Before(pages, i, k)
<1> DEFINE W(x, y) == ~Less(pages[x].score, pages[y].score)
<1>1. i \in Nat /\ j \in Nat /\ k \in Nat /\ \A x \in DOMAIN pages : pages[x].score \in Scores
  <2>1. DOMAIN pages = 1..Len(pages) /\ Len(pages) \in Nat /\ \A x \in DOMAIN pages : pages[x] \in Entries
    OBVIOUS
  <2>2. QED BY <2>1 DEF Entries
<1>2. \A x, y \in DOMAIN pages : W(x, y) \/ W(y, x)
  BY <1>1, OneIsNotLess
<1>3. \A x, y, z \in DOMAIN pages : W(x, y) /\ W(y, z) => W(x, z)
  BY <1>1, NotLess
<1>4. \A x, y \in DOMAIN pages : Before(pages, x, y) <=> ~W(y, x) \/ (W(x, y) /\ x < y)
  BY DEF Before
<1>5. W(i, i) /\ W(j, j)
  BY <1>2
<1> HIDE DEF W
<1>6. ~Before(pages, i, i) /\ (i # j => Before(pages, i, j) \/ Before(pages, j, i))
  BY <1>1, <1>2, <1>4, <1>5
<1>7. Before(pages, i, j) => ~Before(pages, j, i) /\ W(i, j)
  BY <1>1, <1>2, <1>4
<1>8. Before(pages, i, j) /\ Before(pages, j, k) => Before(pages, i, k)
  BY <1>1, <1>2, <1>3, <1>4
<1>9. QED BY <1>6, <1>7, <1>8 DEF W

\* Each page of a list has a rank of its own, and every rank has a page.
LEMMA RankFacts ==
  ASSUME NEW pages \in Seq(Entries)
  PROVE  LET D == 1..Len(pages)
         IN /\ \A i \in D : Rank(pages, i) \in D
            /\ \A i, j \in D : Before(pages, i, j) => Rank(pages, i) < Rank(pages, j)
            /\ \A i, j \in D : Rank(pages, i) = Rank(pages, j) => i = j
            /\ \A k \in D : \E i \in D : Rank(pages, i) = k
<1> DEFINE N == Len(pages)
           D == 1..N
           B(i) == {j \in D : Before(pages, j, i)}
<1>1. N \in Nat /\ DOMAIN pages = D /\ IsFiniteSet(D) /\ Cardinality(D) = N
  <2>1. N \in Nat /\ DOMAIN pages = D
    OBVIOUS
  <2>2. QED BY <2>1, FS_Interval
<1> HIDE DEF N
<1>2. \A i \in D : Rank(pages, i) = 1 + Cardinality(B(i))
  BY <1>1 DEF Rank
<1>3. \A i \in D : B(i) \subseteq D \ {i} /\ i \notin B(i)
  BY <1>1, BeforeIsOrder
<1>4. \A i, j \in D : Before(pages, i, j) => B(i) \subseteq B(j) /\ i \in B(j)
  BY <1>1, BeforeIsOrder
<1>5. \A i, j \in D : i # j => Before(pages, i, j) \/ Before(pages, j, i)
  BY <1>1, BeforeIsOrder
<1> HIDE DEF B
<1>6. \A i \in D : IsFiniteSet(B(i)) /\ Cardinality(B(i)) \in Nat /\ Cardinality(B(i)) <= N
  <2>1. ASSUME NEW i \in D PROVE IsFiniteSet(B(i)) /\ Cardinality(B(i)) <= N
    BY <1>1, <1>3, FS_Subset
  <2>2. QED BY <2>1, FS_CardinalityType
<1>7. \A i \in D : Cardinality(B(i)) < N
  <2>1. SUFFICES ASSUME NEW i \in D, Cardinality(B(i)) = N PROVE FALSE
    BY <1>1, <1>6
  <2>2. B(i) = D
    <3>1. B(i) \in SUBSET D
      BY <1>3
    <3>2. QED BY <1>1, <2>1, <3>1, FS_Subset
  <2>3. QED BY <1>3, <2>2
<1>8. \A i \in D : Rank(pages, i) \in D
  BY <1>1, <1>2, <1>6, <1>7
<1>9. ASSUME NEW i \in D, NEW j \in D, Before(pages, i, j) PROVE Rank(pages, i) < Rank(pages, j)
  <2>1. B(i) \in SUBSET B(j) /\ B(i) # B(j)
    BY <1>3, <1>4, <1>9
  <2>2. Cardinality(B(i)) <= Cardinality(B(j)) /\ Cardinality(B(i)) # Cardinality(B(j))
    BY <1>6, <2>1, FS_Subset
  <2>3. QED BY <1>2, <1>6, <2>2
<1>10. \A i, j \in D : Rank(pages, i) = Rank(pages, j) => i = j
  <2>1. SUFFICES ASSUME NEW i \in D, NEW j \in D, Rank(pages, i) = Rank(pages, j), i # j PROVE FALSE
    OBVIOUS
  <2>2. Rank(pages, i) \in Int /\ Rank(pages, j) \in Int
    BY <1>8
  <2>3. QED BY <1>5, <1>9, <2>1, <2>2
<1>11. \A k \in D : \E i \in D : Rank(pages, i) = k
  <2> DEFINE f == [i \in D |-> Rank(pages, i)]
  <2>1. f \in Injection(D, D)
    BY <1>8, <1>10 DEF Injection, IsInjective
  <2>2. f \in Surjection(D, D)
    <3> HIDE DEF f
    <3>1. QED BY <1>1, <2>1, FS_Injection
  <2>3. QED BY <2>2 DEF Surjection
<1>12. QED BY <1>8, <1>9, <1>10, <1>11 DEF N

\* Sorting keeps the pages, each in one place, with the better ones first.
LEMMA SortedFacts ==
  ASSUME NEW pages \in Seq(Entries)
  PROVE  LET s == Sorted(pages)
             D == 1..Len(pages)
         IN /\ s \in Seq(Entries) /\ Len(s) = Len(pages)
            /\ \A i \in D : \E k \in D : s[k] = pages[i]
            /\ \A k \in D : \E i \in D : s[k] = pages[i]
            /\ \A k, l \in D : k < l => ~Less(s[k].score, s[l].score)
                                        /\ \E i, j \in D : i # j /\ s[k] = pages[i] /\ s[l] = pages[j]
<1> DEFINE N == Len(pages)
           D == 1..N
           At(k) == CHOOSE i \in D : Rank(pages, i) = k
           s == Sorted(pages)
<1>1. N \in Nat /\ DOMAIN pages = D /\ \A i \in D : pages[i] \in Entries
  OBVIOUS
<1>2. s = [k \in D |-> pages[At(k)]]
  BY <1>1 DEF Sorted
<1>3. \A k \in D : At(k) \in D /\ Rank(pages, At(k)) = k
  BY RankFacts
<1>4. \A i \in D : Rank(pages, i) \in D /\ At(Rank(pages, i)) = i
  BY RankFacts, <1>3
<1> HIDE DEF At, s, N
<1>5. s \in Seq(Entries) /\ Len(s) = N
  BY <1>1, <1>2, <1>3
<1>6. \A k \in D : s[k] = pages[At(k)]
  BY <1>2
<1>7. ASSUME NEW k \in D, NEW l \in D, k < l
      PROVE  At(k) # At(l) /\ ~Less(s[k].score, s[l].score)
  <2>1. At(k) \in D /\ At(l) \in D /\ Rank(pages, At(k)) = k /\ Rank(pages, At(l)) = l /\ k # l /\ ~(l < k)
    BY <1>3, <1>7
  <2>2. ~Before(pages, At(l), At(k))
    BY <2>1, RankFacts DEF N
  <2>3. Before(pages, At(k), At(l))
    BY <1>1, <2>1, <2>2, BeforeIsOrder
  <2>4. ~Less(pages[At(k)].score, pages[At(l)].score)
    BY <1>1, <2>1, <2>3, BeforeIsOrder
  <2>5. QED BY <1>6, <2>1, <2>4
<1>8. QED BY <1>3, <1>4, <1>5, <1>6, <1>7 DEF s, N

\* A total of natural numbers is one, and no less than each of them.
LEMMA TotalFacts ==
  ASSUME NEW s \in Seq(Nat)
  PROVE  Total(s) \in Nat /\ \A i \in 1..Len(s) : s[i] <= Total(s)
<1> DEFINE N == Len(s)
           I == [i \in 0..N |-> {x \in Nat : \A k \in 1..i : s[k] <= x}]
           h == [i \in 1..N |-> [x \in Nat |-> x + s[i]]]
           Def(f) == f = [i \in 0..N |-> IF i = 0 THEN 0 ELSE f[i - 1] + s[i]]
           sum == CHOOSE f : Def(f)
<1>1. N \in Nat /\ \A i \in 1..N : s[i] \in Nat
  OBVIOUS
<1>2. Total(s) = sum[N]
  BY DEF Total
<1> HIDE DEF N
<1>3. 0 \in I[0] /\ \A i \in 0..N : I[i] \subseteq Nat
  BY <1>1
<1>4. ASSUME NEW i \in 1..N, NEW x \in I[i - 1] PROVE h[i][x] = x + s[i] /\ x + s[i] \in I[i]
  <2>1. i - 1 \in 0..N /\ i \in 0..N /\ \A k \in 1..i : k = i \/ k \in 1..(i - 1)
    BY <1>1
  <2>2. x \in Nat /\ s[i] \in Nat /\ \A k \in 1..(i - 1) : s[k] <= x /\ s[k] \in Nat
    BY <1>1, <2>1
  <2>3. \A k \in 1..i : s[k] <= x + s[i]
    BY <2>1, <2>2
  <2>4. QED BY <2>1, <2>2, <2>3
<1>5. I[N] = {x \in Nat : \A k \in 1..N : s[k] <= x}
  BY <1>1
<1> HIDE DEF I, h
<1>6. PICK f \in [0..N -> Nat] : f[0] = 0 /\ \A i \in 1..N : f[i] = h[i][f[i - 1]] /\ f[i - 1] \in I[i - 1]
  <2>1. \A i \in 1..N : \A x \in I[i - 1] : h[i][x] \in I[i]
    BY <1>4
  <2>2. Recursions(N, Nat, I, 0, h) # {}
    BY <1>1, <1>3, <2>1, Recursion
  <2>3. \A i \in 1..N : i - 1 \in 0..N
    BY <1>1
  <2>4. QED BY <2>2, <2>3 DEF Recursions
<1>7. Def(f)
  <2>1. \A i \in 0..N : i # 0 => i \in 1..N
    BY <1>1
  <2>2. \A i \in 0..N : i # 0 => f[i] = f[i - 1] + s[i]
    BY <1>4, <1>6, <2>1
  <2>3. QED BY <1>6, <2>2
<1>8. Def(sum)
  BY <1>7
<1> HIDE DEF sum
<1>9. sum[0] = 0 /\ \A i \in 1..N : sum[i] = sum[i - 1] + s[i]
  <2>1. 0 \in 0..N /\ \A i \in 1..N : i \in 0..N /\ i # 0
    BY <1>1
  <2>2. \A i \in 0..N : sum[i] = IF i = 0 THEN 0 ELSE sum[i - 1] + s[i]
    BY <1>8
  <2>3. QED BY <2>1, <2>2
<1>10. \A i \in 0..N : sum[i] \in I[i]
  <2>1. \A i \in 1..N : sum[i - 1] \in I[i - 1] => sum[i] \in I[i]
    BY <1>4, <1>9
  <2>2. QED BY <1>1, <1>3, <1>9, <2>1, Stays
<1>11. QED BY <1>1, <1>2, <1>5, <1>10 DEF N

\* The terms of a length in a line.
LEMMA GramsFacts ==
  ASSUME NEW p \in DOMAIN Content, NEW l \in DOMAIN Lines(p), NEW n \in Nat
  PROVE  /\ Grams(p, n)[l] = NGrams(Keywords(Lines(p)[l]), n)
         /\ Len(Grams(p, n)[l]) \in Nat /\ DOMAIN Grams(p, n)[l] = 1..Len(Grams(p, n)[l])
         /\ \A s \in DOMAIN Grams(p, n)[l] : Len(Grams(p, n)[l][s]) = n
<1> DEFINE line == Lines(p)[l]
           words == Keywords(line)
           grams == NGrams(words, n)
<1>1. Content[p].title \in Seq(STRING) /\ Content[p].lines \in Seq(Seq(STRING))
  BY QueryAssumption DEF QueryAssumption
<1>2. Lines(p) \in Seq(Seq(STRING))
  BY <1>1 DEF Lines
<1>3. line \in Seq(STRING)
  BY <1>2
<1>4. words = Only(line, ToSet(line) \ Stopwords)
  BY DEF Keywords
<1> HIDE DEF line
<1>5. words \in Seq(STRING)
  BY <1>3, <1>4, OnlyFacts
<1> HIDE DEF words
<1>6. grams = [s \in 1..(Len(words) - n + 1) |-> SubSeq(words, s, s + n - 1)] /\ Len(words) \in Nat
  BY <1>5 DEF NGrams
<1>7. Len(grams) \in Nat /\ DOMAIN grams = 1..Len(grams)
  <2>1. CASE Len(words) - n + 1 >= 0
    <3>1. Len(words) - n + 1 \in Nat
      BY <1>6, <2>1
    <3> DEFINE m == Len(words) - n + 1
    <3>2. m \in Nat /\ grams = [s \in 1..m |-> SubSeq(words, s, s + n - 1)]
      BY <1>6, <3>1
    <3> HIDE DEF m
    <3>3. Len(grams) = m /\ DOMAIN grams = 1..m
      BY <3>2
    <3>4. QED BY <3>2, <3>3
  <2>2. CASE Len(words) - n + 1 < 0
    <3>1. 1..(Len(words) - n + 1) = {} /\ 1..0 = {}
      BY <1>6, <2>2
    <3>2. DOMAIN grams = {} /\ grams = [s \in {} |-> SubSeq(words, s, s + n - 1)]
      BY <1>6, <3>1
    <3>3. grams = [s \in 1..0 |-> SubSeq(words, s, s + n - 1)]
      BY <3>1, <3>2
    <3>4. Len(grams) = 0
      BY <3>3
    <3>5. QED BY <3>1, <3>2, <3>4
  <2>3. Len(words) - n + 1 >= 0 \/ Len(words) - n + 1 < 0
    BY <1>6
  <2> HIDE DEF grams
  <2>4. QED BY <2>1, <2>2, <2>3
<1>8. ASSUME NEW s \in DOMAIN grams PROVE Len(grams[s]) = n
  <2>1. s \in 1..(Len(words) - n + 1) /\ grams[s] = SubSeq(words, s, s + n - 1)
    BY <1>6
  <2>2. s \in Int /\ s + n - 1 \in Int /\ (s + n - 1) - s + 1 = n
    BY <1>6, <2>1
  <2>3. s >= 1 /\ s + n - 1 <= Len(words)
    BY <1>6, <2>1
  <2>4. QED BY <1>5, <2>1, <2>2, <2>3
<1>9. Grams(p, n)[l] = grams
  BY DEF Grams, line, words
<1>10. QED BY <1>7, <1>8, <1>9 DEF words, line

\* The product of positive numbers.
LEMMA Product ==
  ASSUME NEW x \in Nat, NEW y \in Nat
  PROVE  x * y \in Nat /\ (x > 0 /\ y > 0 => x * y > 0)
OBVIOUS

\* A term of a page has a positive score in it: it is found in a line, so the
\* number of terms of its length, by which the score is divided, is positive.
LEMMA ScorePositive ==
  ASSUME NEW p \in DOMAIN Content, NEW t \in Terms(p)
  PROVE  score(p, t) \in Scores /\ score(p, t).num > 0
<1> DEFINE L == Lines(p)
           n == Len(t)
           lens == [l \in DOMAIN L |-> Len(Grams(p, n)[l])]
           worth == [l \in DOMAIN L |-> Weight(p, l) * Occurrences(Grams(p, n)[l], t)]
<1>1. NGRAM_LEN \in Nat /\ Content[p].title \in Seq(STRING) /\ Content[p].lines \in Seq(Seq(STRING))
  BY QueryAssumption DEF QueryAssumption
<1>2. L \in Seq(Seq(STRING)) /\ Len(L) \in Nat /\ DOMAIN L = 1..Len(L)
  <2>1. L \in Seq(Seq(STRING))
    BY <1>1 DEF Lines
  <2> HIDE DEF L
  <2>2. QED BY <2>1
<1>3. PICK k \in 1..NGRAM_LEN : \E l \in DOMAIN L : t \in ToSet(Grams(p, k)[l])
  BY DEF Terms
<1>4. PICK l \in DOMAIN L : t \in ToSet(Grams(p, k)[l])
  BY <1>3
<1>5. PICK s \in DOMAIN Grams(p, k)[l] : Grams(p, k)[l][s] = t
  BY <1>4 DEF ToSet
<1>6. k \in Nat /\ n = k
  <2>1. k \in Nat
    BY <1>1
  <2>2. QED BY <1>5, <2>1, GramsFacts
<1>7. \A x \in DOMAIN L : Len(Grams(p, n)[x]) \in Nat /\ DOMAIN Grams(p, n)[x] = 1..Len(Grams(p, n)[x])
  BY <1>6, GramsFacts
<1> HIDE DEF L, n
<1>8. s \in 1..Len(Grams(p, n)[l]) /\ Grams(p, n)[l][s] = t
  BY <1>5, <1>6, <1>7
<1>9. \A x \in DOMAIN L : Weight(p, x) \in Nat /\ Weight(p, x) > 0
  BY DEF Weight
<1>10. ASSUME NEW x \in DOMAIN L
       PROVE  IsFiniteSet({q \in DOMAIN Grams(p, n)[x] : Grams(p, n)[x][q] = t}) /\ Occurrences(Grams(p, n)[x], t) \in Nat
  <2> DEFINE G == Grams(p, n)[x]
             Q == {q \in DOMAIN G : G[q] = t}
             D == 1..Len(G)
  <2>1. Len(G) \in Nat /\ DOMAIN G = D
    BY <1>7
  <2> HIDE DEF G
  <2>2. IsFiniteSet(D) /\ Q \in SUBSET D
    BY <2>1, SpanFinite
  <2> HIDE DEF Q, D
  <2>3. IsFiniteSet(Q)
    BY <2>2, FS_Subset
  <2>4. IsFiniteSet(Q) /\ Cardinality(Q) \in Nat
    BY <2>3, FS_CardinalityType
  <2>5. QED BY <2>4 DEF Occurrences, Q, G
<1>11. Occurrences(Grams(p, n)[l], t) > 0
  <2> DEFINE Q == {q \in DOMAIN Grams(p, n)[l] : Grams(p, n)[l][q] = t}
  <2>1. Q # {} /\ IsFiniteSet(Q) /\ Occurrences(Grams(p, n)[l], t) = Cardinality(Q)
    BY <1>7, <1>8, <1>10 DEF Occurrences
  <2>2. Cardinality(Q) # 0
    BY <2>1, FS_EmptySet
  <2>3. QED BY <1>10, <2>1, <2>2
<1>12. /\ \A x \in DOMAIN L : Weight(p, x) * Occurrences(Grams(p, n)[x], t) \in Nat
       /\ Weight(p, l) * Occurrences(Grams(p, n)[l], t) > 0
  BY <1>9, <1>10, <1>11, Product
<1>13. worth \in Seq(Nat) /\ Len(worth) = Len(L) /\ worth[l] > 0
  BY <1>2, <1>12
<1>14. lens \in Seq(Nat) /\ Len(lens) = Len(L) /\ lens[l] > 0
  BY <1>2, <1>7, <1>8
<1> HIDE DEF worth, lens
<1>15. Total(worth) \in Nat /\ Total(worth) > 0
  <2>1. worth[l] <= Total(worth) /\ Total(worth) \in Nat /\ worth[l] \in Nat
    BY <1>2, <1>13, TotalFacts
  <2>2. QED BY <1>13, <2>1
<1>16. Total(lens) \in Nat /\ Total(lens) > 0
  <2>1. lens[l] <= Total(lens) /\ Total(lens) \in Nat /\ lens[l] \in Nat
    BY <1>2, <1>14, TotalFacts
  <2>2. QED BY <1>14, <2>1
<1>17. Factor(p) \in Nat /\ Factor(p) > 0
  <2>1. Len(Content[p].title) \in Nat
    BY <1>1
  <2>2. QED BY <2>1 DEF Factor
<1>18. docLen(p, n) = Total(lens) /\ score(p, t) = [num |-> Factor(p) * Total(worth), den |-> 100 * docLen(p, n)]
  BY DEF docLen, score, lens, worth, L, n
<1>19. Factor(p) * Total(worth) \in Nat \ {0} /\ 100 * Total(lens) \in Nat \ {0}
  <2>1. Factor(p) * Total(worth) \in Nat /\ Factor(p) * Total(worth) > 0
    BY <1>15, <1>17, Product
  <2>2. 100 * Total(lens) \in Nat /\ 100 * Total(lens) > 0
    BY <1>16
  <2>3. QED BY <2>1, <2>2
<1>20. QED BY <1>18, <1>19 DEF Scores

\* The length of a list without repetitions.
LEMMA InjectiveLength ==
  ASSUME NEW T, IsFiniteSet(T), NEW s \in Seq(T), Injective(s)
  PROVE  Len(s) <= Cardinality(T)
<1>1. s \in [1..Len(s) -> T] /\ Len(s) \in Nat
  OBVIOUS
<1>2. s \in Injection(1..Len(s), T)
  BY <1>1 DEF Injective, Injection, IsInjective
<1>3. Cardinality(1..Len(s)) <= Cardinality(T)
  BY <1>2, FS_Injection
<1>4. Cardinality(1..Len(s)) = Len(s)
  BY <1>1, SpanFinite
<1>5. QED BY <1>3, <1>4

\* The pages collected from some results: they may be any of the pages may,
\* have different titles, and among them are the titles of the pages must.
Collected(must, may) ==
  {acc \in Seq(Entries) :
     /\ \A i \in DOMAIN acc : acc[i].url \in may
     /\ \A i, j \in DOMAIN acc : Content[acc[i].url].title = Content[acc[j].url].title => i = j
     /\ \A p \in must : SeenTitle(acc, p)}

\* A page is added, or one with its title was there before.
LEMMA PageAdded ==
  ASSUME Pages = DOMAIN Content, NEW must, NEW may, NEW acc \in Collected(must, may),
         NEW p \in Pages, p \in may, NEW t \in Terms(p), NEW idf \in Int
  PROVE  AddPage(acc, p, t, idf) \in Collected(must \cup {p}, may)
<1>1. /\ acc \in Seq(Entries) /\ \A i \in DOMAIN acc : acc[i].url \in may
      /\ \A i, j \in DOMAIN acc : Content[acc[i].url].title = Content[acc[j].url].title => i = j
      /\ \A q \in must : SeenTitle(acc, q)
  BY DEF Collected
<1>2. CASE SeenTitle(acc, p)
  <2>1. AddPage(acc, p, t, idf) = acc
    BY <1>2 DEF AddPage
  <2>2. QED BY <1>1, <1>2, <2>1 DEF Collected
<1>3. CASE ~SeenTitle(acc, p)
  <2> DEFINE e == [url |-> p, score |-> [score(p, t) EXCEPT !.num = @ * idf]]
             r == Append(acc, e)
  <2>1. AddPage(acc, p, t, idf) = r
    BY <1>3 DEF AddPage
  <2>2. e \in Entries
    <3> DEFINE sc == score(p, t)
    <3>1. sc \in Scores
      BY ScorePositive
    <3> HIDE DEF sc
    <3>2. sc.num * idf \in Int
      BY <3>1 DEF Scores
    <3>3. [sc EXCEPT !.num = @ * idf] \in Scores
      BY <3>1, <3>2 DEF Scores
    <3>4. QED BY <3>3 DEF Entries, sc
  <2>3. e.url = p
    OBVIOUS
  <2> HIDE DEF e
  <2>4. /\ r \in Seq(Entries) /\ Len(acc) \in Nat /\ DOMAIN acc = 1..Len(acc) /\ DOMAIN r = 1..(Len(acc) + 1)
        /\ r[Len(acc) + 1] = e /\ \A i \in 1..Len(acc) : r[i] = acc[i]
    BY <1>1, <2>2
  <2> HIDE DEF r
  <2>5. \A i \in DOMAIN r : i = Len(acc) + 1 \/ i \in DOMAIN acc
    BY <2>4
  <2>6. Len(acc) + 1 \in DOMAIN r /\ \A i \in DOMAIN acc : i \in DOMAIN r
    BY <2>4
  <2>7. \A i \in DOMAIN r : r[i].url \in may
    BY <1>1, <2>3, <2>4, <2>5
  <2>8. \A i \in DOMAIN acc : Content[acc[i].url].title # Content[p].title
    BY <1>3 DEF SeenTitle
  <2>9. \A i, j \in DOMAIN r : Content[r[i].url].title = Content[r[j].url].title => i = j
    <3>1. SUFFICES ASSUME NEW i \in DOMAIN r, NEW j \in DOMAIN r, Content[r[i].url].title = Content[r[j].url].title
                   PROVE  i = j
      OBVIOUS
    <3>2. CASE i \in DOMAIN acc /\ j \in DOMAIN acc
      BY <1>1, <2>4, <3>1, <3>2
    <3>3. CASE i = Len(acc) + 1 /\ j \in DOMAIN acc
      BY <2>3, <2>4, <2>8, <3>1, <3>3
    <3>4. CASE i \in DOMAIN acc /\ j = Len(acc) + 1
      BY <2>3, <2>4, <2>8, <3>1, <3>4
    <3>5. QED BY <2>5, <3>2, <3>3, <3>4
  <2>10. \A q \in must \cup {p} : SeenTitle(r, q)
    <3>1. SeenTitle(r, p)
      BY <2>3, <2>4, <2>6 DEF SeenTitle
    <3>2. \A q \in must : SeenTitle(r, q)
      BY <1>1, <2>4, <2>6 DEF SeenTitle
    <3>3. QED BY <3>1, <3>2
  <2>11. QED BY <2>1, <2>4, <2>7, <2>9, <2>10 DEF Collected
<1>4. QED BY <1>2, <1>3

\* Results that a node can answer: pages in which the term occurs.
Results(may) ==
  {r \in [term : AllTerms, pages : Seq(Pages)] :
     Injective(r.pages) /\ \A p \in ToSet(r.pages) : p \in may /\ r.term \in Terms(p)}

\* The pages of a result are added.
LEMMA ResultAdded ==
  ASSUME Pages = DOMAIN Content, IsFiniteSet(Pages), NEW must, NEW may, NEW acc \in Collected(must, may),
         NEW r \in Results(may)
  PROVE  AddResult(acc, r) \in Collected(must \cup ToSet(r.pages), may)
<1> DEFINE s == r.pages
           N == Len(s)
           idf == Idf[Len(s)]
           t == r.term
           Step(x, i) == AddPage(x, s[i], t, idf)
           I == [i \in 0..N |-> Collected(must \cup {s[k] : k \in 1..i}, may)]
           h == [i \in 1..N |-> [x \in Seq(Entries) |-> Step(x, i)]]
           Def(f) == f = [i \in 0..N |-> IF i = 0 THEN acc ELSE AddPage(f[i - 1], s[i], t, idf)]
           added == CHOOSE f : Def(f)
<1>1. /\ s \in Seq(Pages) /\ N \in Nat /\ DOMAIN s = 1..N /\ Injective(s)
      /\ \A i \in 1..N : s[i] \in Pages /\ s[i] \in may /\ t \in Terms(s[i])
  <2>1. s \in Seq(Pages) /\ Injective(s) /\ \A p \in ToSet(s) : p \in may /\ t \in Terms(p)
    BY DEF Results
  <2> HIDE DEF s, t
  <2>2. QED BY <2>1 DEF ToSet
<1>2. N >= 1 => idf \in Int
  <2>1. N <= Cardinality(Pages) /\ Cardinality(Pages) \in Nat
    <3> HIDE DEF s
    <3>1. QED BY <1>1, InjectiveLength, FS_CardinalityType
  <2>2. QED BY <1>1, <2>1, QueryAssumption DEF QueryAssumption
<1>3. AddResult(acc, r) = added[N]
  BY DEF AddResult
<1> HIDE DEF s, N, t, idf
<1>4. acc \in I[0] /\ \A i \in 0..N : I[i] \subseteq Seq(Entries)
  <2>1. {s[k] : k \in 1..0} = {}
    OBVIOUS
  <2>2. 0 \in 0..N /\ must \cup {} = must
    BY <1>1
  <2>3. I[0] = Collected(must, may)
    BY <2>1, <2>2
  <2>4. QED BY <2>3 DEF Collected
<1>5. ASSUME NEW i \in 1..N, NEW x \in I[i - 1] PROVE h[i][x] = Step(x, i) /\ Step(x, i) \in I[i]
  <2>1. i - 1 \in 0..N /\ i \in 0..N /\ 1..i = (1..(i - 1)) \cup {i} /\ N >= 1
    BY <1>1
  <2> DEFINE M == must \cup {s[k] : k \in 1..(i - 1)}
  <2>2. x \in Collected(M, may)
    BY <2>1
  <2>3. x \in Seq(Entries)
    BY <2>2 DEF Collected
  <2>4. M \cup {s[i]} = must \cup {s[k] : k \in 1..i}
    BY <2>1
  <2> HIDE DEF M
  <2>5. AddPage(x, s[i], t, idf) \in Collected(M \cup {s[i]}, may)
    BY <1>1, <1>2, <2>1, <2>2, PageAdded
  <2>6. QED BY <2>1, <2>3, <2>4, <2>5
<1>6. I[N] = Collected(must \cup {s[k] : k \in 1..N}, may)
  BY <1>1
<1> HIDE DEF I, h
<1>7. PICK f \in [0..N -> Seq(Entries)] : f[0] = acc /\ \A i \in 1..N : f[i] = h[i][f[i - 1]] /\ f[i - 1] \in I[i - 1]
  <2>1. \A i \in 1..N : \A x \in I[i - 1] : h[i][x] \in I[i]
    BY <1>5
  <2>2. Recursions(N, Seq(Entries), I, acc, h) # {}
    BY <1>1, <1>4, <2>1, Recursion
  <2>3. \A i \in 1..N : i - 1 \in 0..N
    BY <1>1
  <2>4. QED BY <2>2, <2>3 DEF Recursions
<1>8. Def(f)
  <2>1. \A i \in 0..N : i # 0 => i \in 1..N
    BY <1>1
  <2>2. \A i \in 0..N : i # 0 => f[i] = Step(f[i - 1], i)
    BY <1>5, <1>7, <2>1
  <2>3. \A i \in 0..N : f[i] = IF i = 0 THEN acc ELSE Step(f[i - 1], i)
    BY <1>7, <2>2
  <2>4. QED BY <1>7, <2>3
<1>9. Def(added)
  BY <1>8
<1> HIDE DEF added
<1>10. added[0] = acc /\ \A i \in 1..N : added[i] = Step(added[i - 1], i)
  <2>1. 0 \in 0..N /\ \A i \in 1..N : i \in 0..N /\ i # 0
    BY <1>1
  <2>2. \A i \in 0..N : added[i] = IF i = 0 THEN acc ELSE Step(added[i - 1], i)
    BY <1>9
  <2>3. QED BY <2>1, <2>2
<1>11. \A i \in 0..N : added[i] \in I[i]
  <2>1. \A i \in 1..N : added[i - 1] \in I[i - 1] => added[i] \in I[i]
    BY <1>5, <1>10
  <2>2. QED BY <1>1, <1>4, <1>10, <2>1, Stays
<1>12. ToSet(s) = {s[k] : k \in 1..N}
  BY <1>1 DEF ToSet
<1>13. QED BY <1>1, <1>3, <1>6, <1>11, <1>12 DEF s

\* Every page of every result is collected, or one with its title.
LEMMA ResultsCollected ==
  ASSUME Pages = DOMAIN Content, IsFiniteSet(Pages), NEW may, NEW rs \in Seq(Results(may))
  PROVE  processResults(rs) \in Collected(UNION {ToSet(rs[i].pages) : i \in 1..Len(rs)}, may)
<1> DEFINE N == Len(rs)
           first == <<>>
           Of(i) == ToSet(rs[i].pages)
           I == [i \in 0..N |-> Collected(UNION {Of(k) : k \in 1..i}, may)]
           h == [i \in 1..N |-> [x \in Seq(Entries) |-> AddResult(x, rs[i])]]
           Def(f) == f = [i \in 0..N |-> IF i = 0 THEN first ELSE AddResult(f[i - 1], rs[i])]
           after == CHOOSE f : Def(f)
<1>1. N \in Nat /\ \A i \in 1..N : rs[i] \in Results(may)
  OBVIOUS
<1>2. processResults(rs) = after[N]
  BY DEF processResults
<1>3. first \in Seq(Entries) /\ DOMAIN first = {}
  OBVIOUS
<1> HIDE DEF N, first, Of
<1>4. first \in I[0] /\ \A i \in 0..N : I[i] \subseteq Seq(Entries)
  <2>1. UNION {Of(k) : k \in 1..0} = {}
    OBVIOUS
  <2>2. 0 \in 0..N
    BY <1>1
  <2>3. I[0] = Collected({}, may)
    BY <2>1, <2>2
  <2>4. QED BY <1>3, <2>3 DEF Collected
<1>5. ASSUME NEW i \in 1..N, NEW x \in I[i - 1] PROVE h[i][x] = AddResult(x, rs[i]) /\ AddResult(x, rs[i]) \in I[i]
  <2>1. i - 1 \in 0..N /\ i \in 0..N /\ 1..i = (1..(i - 1)) \cup {i}
    BY <1>1
  <2> DEFINE M == UNION {Of(k) : k \in 1..(i - 1)}
  <2>2. x \in Collected(M, may)
    BY <2>1
  <2>3. x \in Seq(Entries)
    BY <2>2 DEF Collected
  <2>4. M \cup Of(i) = UNION {Of(k) : k \in 1..i}
    BY <2>1
  <2> HIDE DEF M
  <2>5. AddResult(x, rs[i]) \in Collected(M \cup Of(i), may)
    BY <1>1, <2>2, ResultAdded DEF Of
  <2>6. QED BY <2>1, <2>3, <2>4, <2>5
<1>6. I[N] = Collected(UNION {Of(k) : k \in 1..N}, may)
  BY <1>1
<1> HIDE DEF I, h
<1>7. PICK f \in [0..N -> Seq(Entries)] : f[0] = first /\ \A i \in 1..N : f[i] = h[i][f[i - 1]] /\ f[i - 1] \in I[i - 1]
  <2>1. \A i \in 1..N : \A x \in I[i - 1] : h[i][x] \in I[i]
    BY <1>5
  <2>2. Recursions(N, Seq(Entries), I, first, h) # {}
    BY <1>1, <1>4, <2>1, Recursion
  <2>3. \A i \in 1..N : i - 1 \in 0..N
    BY <1>1
  <2>4. QED BY <2>2, <2>3 DEF Recursions
<1>8. Def(f)
  <2>1. \A i \in 0..N : i # 0 => i \in 1..N
    BY <1>1
  <2>2. \A i \in 0..N : i # 0 => f[i] = AddResult(f[i - 1], rs[i])
    BY <1>5, <1>7, <2>1
  <2>3. QED BY <1>7, <2>2
<1>9. Def(after)
  BY <1>8
<1> HIDE DEF after
<1>10. after[0] = first /\ \A i \in 1..N : after[i] = AddResult(after[i - 1], rs[i])
  <2>1. 0 \in 0..N /\ \A i \in 1..N : i \in 0..N /\ i # 0
    BY <1>1
  <2>2. \A i \in 0..N : after[i] = IF i = 0 THEN first ELSE AddResult(after[i - 1], rs[i])
    BY <1>9
  <2>3. QED BY <2>1, <2>2
<1>11. \A i \in 0..N : after[i] \in I[i]
  <2>1. \A i \in 1..N : after[i - 1] \in I[i - 1] => after[i] \in I[i]
    BY <1>5, <1>10
  <2>2. QED BY <1>1, <1>4, <1>10, <2>1, Stays
<1>12. QED BY <1>1, <1>2, <1>6, <1>11 DEF N, Of

\* The ranking of some results: pages of theirs, the better ones first and no
\* title twice, and all of their titles unless better ones fill the list, also
\* when a term has so many pages that its scores are negative (query.js:44, 64).
THEOREM RankingFacts ==
  ASSUME Pages = DOMAIN Content, IsFiniteSet(Pages), NEW may, NEW rs \in Seq(Results(may))
  PROVE  LET r == Ranking(rs)
         IN /\ r \in Seq(Entries) /\ \A i \in DOMAIN r : r[i].url \in may
            /\ \A i, j \in DOMAIN r : i < j =>
                 ~Less(r[i].score, r[j].score) /\ Content[r[i].url].title # Content[r[j].url].title
            /\ Len(r) < MAX_SEARCH_RESULTS =>
                 \A n \in 1..Len(rs) : \A p \in ToSet(rs[n].pages) :
                   \E i \in DOMAIN r : Content[r[i].url].title = Content[p].title
<1> DEFINE must == UNION {ToSet(rs[i].pages) : i \in 1..Len(rs)}
           pages == processResults(rs)
           s == Sorted(pages)
           K == IF Len(s) < MAX_SEARCH_RESULTS THEN Len(s) ELSE MAX_SEARCH_RESULTS
           r == Ranking(rs)
<1>1. pages \in Collected(must, may)
  BY ResultsCollected
<1>2. r = SubSeq(s, 1, K)
  BY DEF Ranking
<1> HIDE DEF must, pages
<1>3. /\ pages \in Seq(Entries) /\ \A i \in DOMAIN pages : pages[i].url \in may
      /\ \A i, j \in DOMAIN pages : Content[pages[i].url].title = Content[pages[j].url].title => i = j
      /\ \A p \in must : SeenTitle(pages, p)
  BY <1>1 DEF Collected
<1>4. DOMAIN pages = 1..Len(pages) /\ Len(pages) \in Nat
  BY <1>3
<1>5. /\ s \in Seq(Entries) /\ Len(s) = Len(pages)
      /\ \A i \in 1..Len(pages) : \E k \in 1..Len(pages) : s[k] = pages[i]
      /\ \A k \in 1..Len(pages) : \E i \in 1..Len(pages) : s[k] = pages[i]
      /\ \A k, l \in 1..Len(pages) : k < l =>
           ~Less(s[k].score, s[l].score) /\ \E i, j \in 1..Len(pages) : i # j /\ s[k] = pages[i] /\ s[l] = pages[j]
  BY <1>3, SortedFacts
<1>6. MAX_SEARCH_RESULTS \in Nat
  BY QueryAssumption DEF QueryAssumption
<1> HIDE DEF s
<1>7. K \in Nat /\ K <= Len(pages) /\ (K < MAX_SEARCH_RESULTS => K = Len(pages))
  <2> DEFINE m == Len(s)
  <2>1. m = Len(pages) /\ m \in Nat
    BY <1>4, <1>5
  <2> HIDE DEF m
  <2>2. (IF m < MAX_SEARCH_RESULTS THEN m ELSE MAX_SEARCH_RESULTS) \in 0..m
    BY <1>6, <2>1
  <2>3. (IF m < MAX_SEARCH_RESULTS THEN m ELSE MAX_SEARCH_RESULTS) = K
    BY DEF m
  <2>4. m < MAX_SEARCH_RESULTS \/ K = MAX_SEARCH_RESULTS
    BY <2>3
  <2>5. m < MAX_SEARCH_RESULTS => K = m
    BY <2>3
  <2> HIDE DEF K
  <2>6. K \in Nat /\ K <= m
    BY <2>1, <2>2, <2>3
  <2>7. K < MAX_SEARCH_RESULTS => K = m
    BY <1>6, <2>4, <2>5, <2>6
  <2>8. QED BY <2>1, <2>6, <2>7
<1> HIDE DEF K, r
<1>8. r \in Seq(Entries) /\ Len(r) = K /\ DOMAIN r = 1..K /\ \A i \in 1..K : r[i] = s[i] /\ i \in 1..Len(pages)
  <2>1. K <= Len(s) /\ s \in Seq(Entries) /\ K \in Nat /\ Len(s) = Len(pages)
    BY <1>5, <1>7
  <2>2. r \in Seq(Entries) /\ Len(r) = K /\ \A i \in 1..K : r[i] = s[i]
    BY <1>2, <2>1
  <2>3. \A i \in 1..K : i \in 1..Len(pages)
    BY <1>4, <2>1
  <2>4. QED BY <2>2, <2>3
<1>9. ASSUME NEW i \in DOMAIN r PROVE r[i].url \in may
  <2>1. r[i] = s[i] /\ i \in 1..Len(pages)
    BY <1>8
  <2>2. PICK k \in 1..Len(pages) : s[i] = pages[k]
    BY <1>5, <2>1
  <2>3. QED BY <1>3, <1>4, <2>1, <2>2
<1>10. ASSUME NEW i \in DOMAIN r, NEW j \in DOMAIN r, i < j
       PROVE  ~Less(r[i].score, r[j].score) /\ Content[r[i].url].title # Content[r[j].url].title
  <2>1. r[i] = s[i] /\ r[j] = s[j] /\ i \in 1..Len(pages) /\ j \in 1..Len(pages)
    BY <1>8
  <2>2. ~Less(s[i].score, s[j].score) /\ \E x, y \in 1..Len(pages) : x # y /\ s[i] = pages[x] /\ s[j] = pages[y]
    BY <1>5, <1>10, <2>1
  <2>3. QED BY <1>3, <1>4, <2>1, <2>2
<1>11. ASSUME Len(r) < MAX_SEARCH_RESULTS, NEW n \in 1..Len(rs), NEW p \in ToSet(rs[n].pages)
       PROVE  \E i \in DOMAIN r : Content[r[i].url].title = Content[p].title
  <2>1. p \in must /\ K = Len(pages)
    BY <1>7, <1>8, <1>11 DEF must
  <2>2. PICK x \in 1..Len(pages) : Content[pages[x].url].title = Content[p].title
    BY <1>3, <1>4, <2>1 DEF SeenTitle
  <2>3. PICK k \in 1..Len(pages) : s[k] = pages[x]
    BY <1>5
  <2>4. QED BY <1>8, <2>1, <2>2, <2>3
<1>12. QED BY <1>8, <1>9, <1>10, <1>11 DEF r

----------------------------------------------------------------------------
(* The invariant of the calls *)

CallStates == {"none", "sent", "handling", "stuck", "replied", "refused", "over"}
Answers == [term : AllTerms, pages : Seq(Pages) \cup {Absent}]

\* The types of the variables.
TypesOK ==
  /\ plan \in Plans /\ delivered = Deserialize(Serialize(plan.payload))
  /\ opened \subseteq Ops
  /\ call \in [Ops -> [Nodes -> CallStates]]
  /\ heard \in [Ops -> SUBSET Nodes] /\ errors \in [Ops -> SUBSET Nodes] /\ results \in [Ops -> SUBSET Nodes]
  /\ active \in [Ops -> Int] /\ called \in [Ops -> Int]
  /\ node \in [Nodes -> {"up", "stopping", "down"}]
  /\ unread \in [Ops -> [Nodes -> SUBSET Nat]]
  /\ answer \in [Ops -> [Nodes -> Seq(Answers)]]
  /\ got \in [Ops -> [Nodes -> {None, delivered}]]
  /\ index \in [AllTerms -> Seq(Pages)] /\ before \in [Ops -> [AllTerms -> Seq(Pages)]]
  /\ cache \in [AllTerms -> Seq(Pages) \cup {NotCached}]
  /\ found \in [Ops -> [AllTerms -> Seq(Pages) \cup {Absent}]]
  /\ arrived \in [Ops -> Seq(AllTerms)]

\* The calls of an operation, and how many of them did not count yet.
Targeted(o) == {m \in Nodes : call[o][m] # "none"}
CountsOK(o) ==
  /\ o \notin opened => Targeted(o) = {}
  /\ o \in opened /\ o.kind = "gather" => Targeted(o) = o.targets
  /\ heard[o] \subseteq Targeted(o) /\ errors[o] \cup results[o] \subseteq heard[o]
  /\ errors[o] \cap results[o] = {}
  /\ o.kind = "gather" => heard[o] \subseteq errors[o] \cup results[o]
  /\ o.kind # "gather" => errors[o] = {}
  /\ active[o] = Cardinality(Targeted(o)) - Cardinality(errors[o] \cup results[o])
  /\ called[o] = IF o \in opened /\ active[o] = 0 THEN 1 ELSE 0
  /\ \A m \in Nodes : call[o][m] = "over" => m \in heard[o]

\* Lists of pages that the index has for a term.
Stored(t, pages) == pages \in Seq(Pages) /\ Injective(pages) /\ ToSet(pages) \subseteq ToSet(index[t])
Known(pages) == IF pages = Absent THEN {} ELSE ToSet(pages)
IndexOK ==
  /\ \A t \in AllTerms : /\ Injective(index[t]) /\ \A p \in ToSet(index[t]) : t \in Terms(p)
                         /\ cache[t] # NotCached => Stored(t, cache[t])
  /\ \A o \in Ops : \A t \in AllTerms : ToSet(before[o][t]) \subseteq ToSet(index[t])

\* What was read for the terms of a batch.
AnswerOK(o, m, r) ==
  LET t == answer[o][m][r].term
      pages == answer[o][m][r].pages
  IN /\ TermHome[t] = m /\ t \in ToSet(o.want) /\ m \in Targeted(o) /\ o.kind # "gather"
     /\ pages # Absent => Stored(t, pages)
     /\ r \notin unread[o][m] /\ ~Faulty => ToSet(before[o][t]) \subseteq Known(pages)
AnswersOK(o) ==
  \A m \in Nodes :
    /\ \A r \in DOMAIN answer[o][m] : AnswerOK(o, m, r)
    /\ call[o][m] = "replied" \/ m \in results[o] => unread[o][m] = {}

\* What an operation has found, with the terms of the batches that came.
FoundOK(o) ==
  /\ \A t \in AllTerms : found[o][t] # Absent => Stored(t, found[o][t])
  /\ \A m \in results[o] : \A r \in DOMAIN answer[o][m] :
       LET t == answer[o][m][r].term
       IN /\ ~Faulty => ToSet(before[o][t]) \subseteq Known(found[o][t])
          /\ o.kind = "query" => t \in ToSet(arrived[o])
  /\ o.kind = "query" => ToSet(arrived[o]) \subseteq ToSet(o.want)
  /\ o \in opened /\ o.kind = "query" =>
       \A t \in ToSet(o.want) : \E r \in DOMAIN answer[o][TermHome[t]] : answer[o][TermHome[t]][r].term = t

GotOK == \A o \in Ops : \A m \in Nodes : got[o][m] # None => delivered # Failure

IInv ==
  /\ TypesOK /\ IndexOK /\ GotOK
  /\ \A o \in Ops : CountsOK(o) /\ AnswersOK(o) /\ FoundOK(o)

\* What the assumptions say of the plan that is followed.
LEMMA PlanFacts ==
  ASSUME TypesOK
  PROVE  /\ \A o \in Ops : Operation(o)
         /\ IsGraph(plan.payload) /\ Faulty \in BOOLEAN /\ plan.pages \subseteq Pages
         /\ IsFiniteSet(Nodes) /\ Self \in Nodes /\ \A t \in AllTerms : TermHome[t] \in Nodes
         /\ Absent \notin Seq(Pages) /\ NotCached \notin Seq(Pages)
BY MessagingAssumption DEF MessagingAssumption, TypesOK, Plan, Ops, Faulty

\* A set of numbers up to a bound has a greatest one.
LEMMA Greatest ==
  ASSUME NEW n \in Nat, NEW S \in SUBSET (1..n), S # {}
  PROVE  \E r \in S : \A q \in S : q <= r
<1> DEFINE P == {k \in Nat : \A T \in SUBSET (1..k) : T # {} => \E r \in T : \A q \in T : q <= r}
<1>1. 0 \in P
  <2>1. 1..0 = {}
    OBVIOUS
  <2>2. \A T \in SUBSET (1..0) : T = {}
    BY <2>1
  <2>3. QED BY <2>2
<1>2. ASSUME NEW k \in Nat, k \in P PROVE k + 1 \in P
  <2>1. SUFFICES ASSUME NEW T \in SUBSET (1..(k + 1)), T # {} PROVE \E r \in T : \A q \in T : q <= r
    OBVIOUS
  <2>2. CASE k + 1 \in T
    BY <2>1, <2>2
  <2>3. CASE k + 1 \notin T
    <3>1. T \in SUBSET (1..k)
      BY <2>3
    <3>2. QED BY <1>2, <2>1, <3>1
  <2>4. QED BY <2>2, <2>3
<1>3. Nat \subseteq P
  <2> HIDE DEF P
  <2>1. QED BY <1>1, <1>2, SetInduction
<1>4. QED BY <1>3

\* The results that a batch brings.
LEMMA DecompressFacts ==
  ASSUME TypesOK, NEW o \in Ops, AnswersOK(o), NEW m \in Nodes
  PROVE  LET D == Decompress(o, m)
             a == answer[o][m]
         IN /\ D \in [AllTerms -> Seq(Pages) \cup {Absent}]
            /\ \A t \in AllTerms : D[t] = found[o][t] \/ \E r \in DOMAIN a : a[r].term = t /\ D[t] = a[r].pages
            /\ \A t \in AllTerms : (\A r \in DOMAIN a : a[r].term # t) => D[t] = found[o][t]
            /\ unread[o][m] = {} /\ ~Faulty =>
                 \A r \in DOMAIN a : ToSet(before[o][a[r].term]) \subseteq Known(D[a[r].term])
<1> DEFINE a == answer[o][m]
           D == Decompress(o, m)
           Of(t) == {r \in DOMAIN a : a[r].term = t /\ (o.kind = "query" \/ a[r].pages # Absent)}
<1>1. a \in Seq(Answers) /\ \A r \in DOMAIN a : a[r] \in Answers
  <2>1. a \in Seq(Answers)
    BY DEF TypesOK
  <2>2. QED BY <2>1
<1>2. \A t \in AllTerms : found[o][t] \in Seq(Pages) \cup {Absent}
  BY DEF TypesOK
<1>3. DOMAIN D = AllTerms
  BY DEF Decompress
<1>4. \A t \in AllTerms :
        D[t] = IF Of(t) = {} THEN found[o][t] ELSE a[CHOOSE r \in Of(t) : \A q \in Of(t) : q <= r].pages
  BY DEF Decompress
<1>5. D = [t \in AllTerms |-> D[t]]
  BY DEF Decompress
<1> HIDE DEF D, a
<1>6. ASSUME NEW t \in AllTerms, Of(t) # {}
      PROVE  \E r \in DOMAIN a : a[r].term = t /\ D[t] = a[r].pages
  <2>1. Of(t) \in SUBSET (1..Len(a)) /\ Len(a) \in Nat
    BY <1>1
  <2>2. \E r \in Of(t) : \A q \in Of(t) : q <= r
    <3> HIDE DEF Of
    <3>1. QED BY <1>6, <2>1, Greatest
  <2>3. QED BY <1>4, <1>6, <2>2
<1>7. \A t \in AllTerms : D[t] = found[o][t] \/ \E r \in DOMAIN a : a[r].term = t /\ D[t] = a[r].pages
  BY <1>4, <1>6
<1>8. \A t \in AllTerms : (\A r \in DOMAIN a : a[r].term # t) => D[t] = found[o][t]
  BY <1>4
<1>9. \A t \in AllTerms : D[t] \in Seq(Pages) \cup {Absent}
  BY <1>1, <1>2, <1>7 DEF Answers
<1>10. ASSUME unread[o][m] = {}, ~Faulty, NEW r \in DOMAIN a
       PROVE  ToSet(before[o][a[r].term]) \subseteq Known(D[a[r].term])
  <2> DEFINE t == a[r].term
  <2>1. t \in AllTerms
    BY <1>1 DEF Answers
  <2>2. \A q \in DOMAIN a : a[q].term = t => ToSet(before[o][t]) \subseteq Known(a[q].pages)
    BY <1>10 DEF AnswersOK, AnswerOK, a
  <2>3. CASE Of(t) = {}
    <3>1. a[r].pages = Absent
      BY <2>3
    <3>2. ToSet(before[o][t]) = {}
      BY <2>2, <3>1 DEF Known
    <3>3. QED BY <3>2
  <2>4. CASE Of(t) # {}
    BY <1>6, <2>1, <2>2, <2>4
  <2>5. QED BY <2>3, <2>4
<1>11. D \in [AllTerms -> Seq(Pages) \cup {Absent}]
  BY <1>5, <1>9
<1>12. QED BY <1>7, <1>8, <1>10, <1>11 DEF a, D

\* The terms of a batch enter the results.
LEMMA ArrivedFacts ==
  ASSUME TypesOK, NEW o \in Ops, NEW m \in Nodes
  PROVE  /\ Arrived(o, m) \in Seq(AllTerms)
         /\ ToSet(Arrived(o, m)) = ToSet(arrived[o]) \cup {answer[o][m][r].term : r \in DOMAIN answer[o][m]}
<1> DEFINE a == answer[o][m]
           N == Len(a)
           first == arrived[o]
           Step(x, r) == IF a[r].term \in ToSet(x) THEN x ELSE Append(x, a[r].term)
           Holding(i) == {x \in Seq(AllTerms) : ToSet(x) = ToSet(first) \cup {a[r].term : r \in 1..i}}
           I == [i \in 0..N |-> Holding(i)]
           h == [i \in 1..N |-> [x \in Seq(AllTerms) |-> Step(x, i)]]
           Def(f) == f = [r \in 0..N |-> IF r = 0 THEN first ELSE Step(f[r - 1], r)]
           after == CHOOSE f : Def(f)
<1>1. a \in Seq(Answers) /\ N \in Nat /\ DOMAIN a = 1..N /\ (\A r \in 1..N : a[r].term \in AllTerms) /\ first \in Seq(AllTerms)
  <2>1. a \in Seq(Answers) /\ first \in Seq(AllTerms)
    BY DEF TypesOK
  <2> HIDE DEF a, first
  <2>2. N \in Nat /\ DOMAIN a = 1..N /\ \A r \in 1..N : a[r] \in Answers
    BY <2>1
  <2>3. \A r \in 1..N : a[r].term \in AllTerms
    BY <2>2 DEF Answers
  <2>4. QED BY <2>1, <2>2, <2>3
<1>2. Arrived(o, m) = after[N]
  BY DEF Arrived
<1> HIDE DEF a, first, N
<1>3. \A x \in Seq(AllTerms) : \A t \in AllTerms :
        Append(x, t) \in Seq(AllTerms) /\ ToSet(Append(x, t)) = ToSet(x) \cup {t}
  <2>1. ASSUME NEW x \in Seq(AllTerms), NEW t \in AllTerms
        PROVE  Append(x, t) \in Seq(AllTerms) /\ ToSet(Append(x, t)) = ToSet(x) \cup {t}
    <3>1. /\ Append(x, t) \in Seq(AllTerms) /\ Len(x) \in Nat /\ DOMAIN x = 1..Len(x)
          /\ DOMAIN Append(x, t) = 1..(Len(x) + 1) /\ Append(x, t)[Len(x) + 1] = t
          /\ \A i \in 1..Len(x) : Append(x, t)[i] = x[i]
      OBVIOUS
    <3>2. \A i \in 1..(Len(x) + 1) : i = Len(x) + 1 \/ i \in 1..Len(x)
      BY <3>1
    <3>3. Len(x) + 1 \in 1..(Len(x) + 1) /\ \A i \in 1..Len(x) : i \in 1..(Len(x) + 1)
      BY <3>1
    <3>4. QED BY <3>1, <3>2, <3>3 DEF ToSet
  <2>2. QED BY <2>1
<1>4. first \in I[0]
  BY <1>1
<1>5. \A i \in 0..N : I[i] \subseteq Seq(AllTerms)
  OBVIOUS
<1>6. ASSUME NEW i \in 1..N, NEW x \in I[i - 1] PROVE h[i][x] = Step(x, i) /\ Step(x, i) \in I[i]
  <2>1. i - 1 \in 0..N /\ i \in 0..N /\ 1..i = (1..(i - 1)) \cup {i}
    BY <1>1
  <2>2. x \in Seq(AllTerms) /\ ToSet(x) = ToSet(first) \cup {a[r].term : r \in 1..(i - 1)}
    BY <2>1
  <2>3. Step(x, i) \in Seq(AllTerms) /\ ToSet(Step(x, i)) = ToSet(x) \cup {a[i].term}
    BY <1>1, <1>3, <2>2
  <2>4. QED BY <2>1, <2>2, <2>3
<1>7. I[N] = Holding(N)
  <2> HIDE DEF Holding
  <2>1. N \in 0..N
    BY <1>1
  <2>2. QED BY <2>1
<1> HIDE DEF I, h
<1>8. PICK f \in [0..N -> Seq(AllTerms)] : f[0] = first /\ \A i \in 1..N : f[i] = h[i][f[i - 1]] /\ f[i - 1] \in I[i - 1]
  <2>1. \A i \in 1..N : \A x \in I[i - 1] : h[i][x] \in I[i]
    BY <1>6
  <2>2. Recursions(N, Seq(AllTerms), I, first, h) # {}
    BY <1>1, <1>4, <1>5, <2>1, Recursion
  <2>3. \A i \in 1..N : i - 1 \in 0..N
    BY <1>1
  <2>4. QED BY <2>2, <2>3 DEF Recursions
<1>9. Def(f)
  <2>1. \A i \in 0..N : i # 0 => i \in 1..N
    BY <1>1
  <2>2. \A i \in 0..N : i # 0 => f[i] = Step(f[i - 1], i)
    BY <1>6, <1>8, <2>1
  <2>3. \A i \in 0..N : f[i] = IF i = 0 THEN first ELSE Step(f[i - 1], i)
    BY <1>8, <2>2
  <2>4. QED BY <1>8, <2>3
<1>10. Def(after)
  BY <1>9
<1> HIDE DEF after
<1>11. after[0] = first /\ \A i \in 1..N : after[i] = Step(after[i - 1], i)
  <2>1. 0 \in 0..N /\ \A i \in 1..N : i \in 0..N /\ i # 0
    BY <1>1
  <2>2. \A i \in 0..N : after[i] = IF i = 0 THEN first ELSE Step(after[i - 1], i)
    BY <1>10
  <2>3. QED BY <2>1, <2>2
<1>12. \A i \in 0..N : after[i] \in I[i]
  <2>1. \A i \in 1..N : after[i - 1] \in I[i - 1] => after[i] \in I[i]
    BY <1>6, <1>11
  <2>2. QED BY <1>1, <1>4, <1>11, <2>1, Stays
<1>13. after[N] \in I[N]
  BY <1>1, <1>12
<1>14. QED BY <1>1, <1>2, <1>7, <1>13 DEF a, first

----------------------------------------------------------------------------
(* The steps *)

\* What neither the counts nor the answers, the index or the results change.
Quiet == UNCHANGED <<plan, delivered, opened, heard, active, errors, results, called, cache, found, arrived,
                     unread, answer, index, before>>
SameTargets == \A o \in Ops, m \in Nodes : call'[o][m] = "none" <=> call[o][m] = "none"


IndexGrows == \A t \in AllTerms : ToSet(index[t]) \subseteq ToSet(index'[t])

\* What an operation has is not disturbed by what others do, nor by a growing
\* index.
LEMMA CountsFrame ==
  ASSUME NEW o \in Ops, CountsOK(o), Targeted(o)' = Targeted(o), heard'[o] = heard[o], active'[o] = active[o],
         errors'[o] = errors[o], results'[o] = results[o], called'[o] = called[o], o \in opened' <=> o \in opened,
         \A m \in Nodes : call'[o][m] = "over" => m \in heard[o]
  PROVE  CountsOK(o)'
BY DEF CountsOK

\* What is known of the answers outlives a step that brings none.
LEMMA AnswersFrame ==
  ASSUME TypesOK, NEW o \in Ops, AnswersOK(o), Faulty' = Faulty, Targeted(o)' = Targeted(o),
         answer'[o] = answer[o], unread'[o] = unread[o], before'[o] = before[o], IndexGrows,
         \A m \in Nodes : call'[o][m] = "replied" \/ m \in results'[o] => unread[o][m] = {}
  PROVE  AnswersOK(o)'
<1>1. ASSUME NEW m \in Nodes, NEW r \in DOMAIN answer[o][m] PROVE AnswerOK(o, m, r)'
  <2> DEFINE t == answer[o][m][r].term
             pages == answer[o][m][r].pages
  <2>1. AnswerOK(o, m, r)
    BY DEF AnswersOK
  <2>2. t \in AllTerms
    <3>1. answer[o][m] \in Seq(Answers)
      BY DEF TypesOK
    <3>2. answer[o][m][r] \in Answers
      BY <3>1
    <3>3. QED BY <3>2 DEF Answers
  <2>3. pages # Absent => pages \in Seq(Pages) /\ Injective(pages) /\ ToSet(pages) \subseteq ToSet(index'[t])
    BY <2>1, <2>2 DEF AnswerOK, Stored, IndexGrows
  <2>4. /\ TermHome[t] = m /\ t \in ToSet(o.want) /\ m \in Targeted(o)' /\ o.kind # "gather"
        /\ r \notin unread'[o][m] /\ ~Faulty' => ToSet(before'[o][t]) \subseteq Known(pages)
    BY <2>1 DEF AnswerOK
  <2>5. answer'[o][m][r].term = t /\ answer'[o][m][r].pages = pages
    OBVIOUS
  <2> HIDE DEF t, pages
  <2>6. QED BY <2>3, <2>4, <2>5 DEF AnswerOK, Stored
<1>2. QED BY <1>1 DEF AnswersOK

\* What an operation found is found whatever the index gains.
LEMMA FoundFrame ==
  ASSUME NEW o \in Ops, FoundOK(o), Faulty' = Faulty, found'[o] = found[o], arrived'[o] = arrived[o],
         results'[o] = results[o], o \in opened' <=> o \in opened,
         answer'[o] = answer[o], before'[o] = before[o], IndexGrows
  PROVE  FoundOK(o)'
<1>1. ASSUME NEW t \in AllTerms, found'[o][t] # Absent
      PROVE  /\ found'[o][t] \in Seq(Pages) /\ Injective(found'[o][t])
             /\ ToSet(found'[o][t]) \subseteq ToSet(index'[t])
  BY <1>1 DEF FoundOK, Stored, IndexGrows
<1>2. /\ \A m \in results'[o] : \A r \in DOMAIN answer'[o][m] :
           LET t == answer'[o][m][r].term
           IN /\ ~Faulty' => ToSet(before'[o][t]) \subseteq Known(found'[o][t])
              /\ o.kind = "query" => t \in ToSet(arrived'[o])
      /\ o.kind = "query" => ToSet(arrived'[o]) \subseteq ToSet(o.want)
      /\ o \in opened' /\ o.kind = "query" =>
           \A t \in ToSet(o.want) : \E r \in DOMAIN answer'[o][TermHome[t]] : answer'[o][TermHome[t]][r].term = t
  BY DEF FoundOK
<1>3. QED BY <1>1, <1>2 DEF FoundOK, Stored

\* A step of a call that counts no answer.
LEMMA CallStep ==
  ASSUME IInv, Quiet, SameTargets, call' \in [Ops -> [Nodes -> CallStates]],
         \A o \in Ops, m \in Nodes : /\ call'[o][m] = "over" => m \in heard[o]
                                     /\ call'[o][m] = "replied" => unread[o][m] = {},
         node' \in [Nodes -> {"up", "stopping", "down"}],
         got' \in [Ops -> [Nodes -> {None, delivered}]], GotOK'
  PROVE  IInv'
<1>1. Ops' = Ops /\ Faulty' = Faulty /\ \A o \in Ops : Targeted(o)' = Targeted(o)
  BY DEF Quiet, SameTargets, Ops, Faulty, Targeted
<1>2. TypesOK'
  BY <1>1 DEF IInv, TypesOK, Quiet
<1>3. IndexOK' /\ IndexGrows
  BY <1>1 DEF IInv, IndexOK, Stored, Quiet, IndexGrows
<1>4. ASSUME NEW o \in Ops PROVE CountsOK(o)' /\ AnswersOK(o)' /\ FoundOK(o)'
  <2>1. TypesOK /\ CountsOK(o) /\ AnswersOK(o) /\ FoundOK(o)
    BY DEF IInv
  <2>2. /\ heard'[o] = heard[o] /\ active'[o] = active[o] /\ errors'[o] = errors[o] /\ results'[o] = results[o]
        /\ called'[o] = called[o] /\ (o \in opened' <=> o \in opened) /\ answer'[o] = answer[o]
        /\ unread'[o] = unread[o] /\ before'[o] = before[o] /\ found'[o] = found[o] /\ arrived'[o] = arrived[o]
    BY DEF Quiet
  <2>3. /\ \A m \in Nodes : call'[o][m] = "over" => m \in heard[o]
        /\ Targeted(o)' = Targeted(o) /\ Faulty' = Faulty
    BY <1>1
  <2>4. \A m \in Nodes : call'[o][m] = "replied" \/ m \in results'[o] => unread[o][m] = {}
    BY <2>1, <2>2 DEF AnswersOK
  <2>5. CountsOK(o)'
    BY <2>1, <2>2, <2>3, CountsFrame
  <2>6. AnswersOK(o)'
    BY <1>3, <2>1, <2>2, <2>3, <2>4, AnswersFrame
  <2>7. FoundOK(o)'
    BY <1>3, <2>1, <2>2, <2>3, FoundFrame
  <2>8. QED BY <2>5, <2>6, <2>7
<1>5. QED BY <1>1, <1>2, <1>3, <1>4 DEF IInv

\* What Count does to the operation, and that it leaves the others alone.
LEMMA CountFacts ==
  ASSUME TypesOK, NEW o \in Ops, NEW m \in Nodes, NEW ok \in BOOLEAN, Count(o, m, ok)
  PROVE  /\ errors' \in [Ops -> SUBSET Nodes] /\ results' \in [Ops -> SUBSET Nodes]
         /\ active' \in [Ops -> Int] /\ called' \in [Ops -> Int]
         /\ \A x \in Ops : x # o => /\ active'[x] = active[x] /\ errors'[x] = errors[x]
                                    /\ results'[x] = results[x] /\ called'[x] = called[x]
         /\ o.kind # "gather" /\ ~ok => /\ active'[o] = active[o] /\ called'[o] = called[o]
                                        /\ errors'[o] = errors[o] /\ results'[o] = results[o]
         /\ o.kind = "gather" \/ ok =>
              /\ active'[o] = active[o] - 1 /\ called'[o] = (IF active[o] = 1 THEN called[o] + 1 ELSE called[o])
              /\ ok => errors'[o] = errors[o] /\ results'[o] = results[o] \cup {m}
              /\ ~ok => errors'[o] = errors[o] \cup {m} /\ results'[o] = results[o]
<1>1. /\ errors \in [Ops -> SUBSET Nodes] /\ results \in [Ops -> SUBSET Nodes]
      /\ active \in [Ops -> Int] /\ called \in [Ops -> Int]
  BY DEF TypesOK
<1>2. CASE o.kind # "gather" /\ ~ok
  <2>1. active' = active /\ errors' = errors /\ results' = results /\ called' = called
    BY <1>2 DEF Count
  <2>2. QED BY <1>1, <1>2, <2>1
<1>3. CASE o.kind = "gather" \/ ok
  <2>1. /\ active' = [active EXCEPT ![o] = @ - 1]
        /\ called' = IF active[o] = 1 THEN [called EXCEPT ![o] = @ + 1] ELSE called
        /\ errors' = IF ok THEN errors ELSE [errors EXCEPT ![o] = @ \cup {m}]
        /\ results' = IF ok THEN [results EXCEPT ![o] = @ \cup {m}] ELSE results
    BY <1>3 DEF Count
  <2>2. /\ active' \in [Ops -> Int] /\ active'[o] = active[o] - 1 /\ \A x \in Ops : x # o => active'[x] = active[x]
        /\ called' \in [Ops -> Int] /\ called'[o] = (IF active[o] = 1 THEN called[o] + 1 ELSE called[o])
        /\ \A x \in Ops : x # o => called'[x] = called[x]
    BY <1>1, <2>1
  <2>3. CASE ok
    <3>1. errors' = errors /\ results' = [results EXCEPT ![o] = @ \cup {m}]
      BY <2>1, <2>3
    <3>2. QED BY <1>1, <2>2, <2>3, <3>1
  <2>4. CASE ~ok
    <3>1. errors' = [errors EXCEPT ![o] = @ \cup {m}] /\ results' = results
      BY <2>1, <2>4
    <3>2. QED BY <1>1, <1>3, <2>2, <2>4, <3>1
  <2>5. QED BY <2>3, <2>4
<1>4. QED BY <1>2, <1>3

\* An answer that counts leaves the counts right.
LEMMA CountStep ==
  ASSUME TypesOK, NEW o \in Ops, CountsOK(o), NEW m \in Targeted(o), m \notin heard[o], NEW ok \in BOOLEAN,
         Count(o, m, ok), heard' = [heard EXCEPT ![o] = @ \cup {m}],
         UNCHANGED <<plan, opened>>, SameTargets,
         \A x \in Nodes : call'[o][x] = "over" => call[o][x] = "over" \/ x = m
  PROVE  CountsOK(o)'
<1>1. Targeted(o)' = Targeted(o) /\ Ops' = Ops /\ IsFiniteSet(Nodes) /\ o \in opened
  BY PlanFacts DEF SameTargets, Targeted, Ops, CountsOK
<1>2. /\ heard \in [Ops -> SUBSET Nodes] /\ errors \in [Ops -> SUBSET Nodes] /\ results \in [Ops -> SUBSET Nodes]
      /\ active \in [Ops -> Int] /\ called \in [Ops -> Int]
  BY DEF TypesOK
<1>3. heard'[o] = heard[o] \cup {m}
  BY <1>2
<1> DEFINE C == errors[o] \cup results[o]
<1>4. C \subseteq Targeted(o) /\ m \notin C /\ IsFiniteSet(Targeted(o)) /\ IsFiniteSet(C)
  <2>1. C \subseteq heard[o] /\ heard[o] \subseteq Targeted(o) /\ Targeted(o) \subseteq Nodes
    BY DEF CountsOK, Targeted
  <2>2. QED BY <1>1, <2>1, FS_Subset
<1>5. Cardinality(C) \in Nat /\ Cardinality(C \cup {m}) = Cardinality(C) + 1 /\ IsFiniteSet(C \cup {m})
  BY <1>4, FS_AddElement, FS_CardinalityType
<1>6. Cardinality(C \cup {m}) <= Cardinality(Targeted(o)) /\ Cardinality(Targeted(o)) \in Nat
  BY <1>4, FS_Subset, FS_CardinalityType
<1>7. active[o] = Cardinality(Targeted(o)) - Cardinality(C) /\ active[o] >= 1 /\ called[o] = 0
  BY <1>1, <1>5, <1>6 DEF CountsOK
<1>8. CASE o.kind # "gather" /\ ~ok
  <2>1. active'[o] = active[o] /\ called'[o] = called[o] /\ errors'[o] = errors[o] /\ results'[o] = results[o]
    BY <1>8, CountFacts DEF Targeted
  <2>2. \A x \in Nodes : call'[o][x] = "over" => x \in heard'[o]
    BY <1>3 DEF CountsOK
  <2>3. QED BY <1>1, <1>3, <1>8, <2>1, <2>2 DEF CountsOK
<1>9. CASE ~(o.kind # "gather" /\ ~ok)
  <2>1. /\ active'[o] = active[o] - 1 /\ called'[o] = IF active[o] = 1 THEN 1 ELSE 0
        /\ errors'[o] = IF ok THEN errors[o] ELSE errors[o] \cup {m}
        /\ results'[o] = IF ok THEN results[o] \cup {m} ELSE results[o]
    <3>1. o.kind = "gather" \/ ok
      BY <1>9
    <3>2. /\ active'[o] = active[o] - 1 /\ called'[o] = (IF active[o] = 1 THEN called[o] + 1 ELSE called[o])
          /\ ok => errors'[o] = errors[o] /\ results'[o] = results[o] \cup {m}
          /\ ~ok => errors'[o] = errors[o] \cup {m} /\ results'[o] = results[o]
      BY <3>1, CountFacts DEF Targeted
    <3>3. called'[o] = IF active[o] = 1 THEN 1 ELSE 0
      BY <1>7, <3>2
    <3>4. CASE ok
      BY <3>2, <3>3, <3>4
    <3>5. CASE ~ok
      BY <3>2, <3>3, <3>5
    <3>6. QED BY <3>4, <3>5
  <2>2. errors'[o] \cup results'[o] = C \cup {m} /\ errors'[o] \cap results'[o] = {}
    BY <1>4, <2>1 DEF CountsOK
  <2>3. active'[o] = Cardinality(Targeted(o)) - Cardinality(C \cup {m})
    BY <1>5, <1>6, <1>7, <2>1
  <2>4. called'[o] = IF o \in opened /\ active'[o] = 0 THEN 1 ELSE 0
    BY <1>1, <1>7, <2>1
  <2>5. o.kind # "gather" => errors'[o] = {}
    BY <1>9, <2>1 DEF CountsOK
  <2> HIDE DEF C
  <2>6. C \subseteq heard[o] /\ heard[o] \subseteq Targeted(o) /\ (o.kind = "gather" => heard[o] \subseteq C)
    BY DEF C, CountsOK
  <2>7. \A x \in Nodes : call'[o][x] = "over" => x \in heard'[o]
    BY <1>3 DEF CountsOK
  <2>8. heard'[o] \subseteq Targeted(o) /\ C \cup {m} \subseteq heard'[o] /\ (o.kind = "gather" => heard'[o] \subseteq C \cup {m})
    BY <1>3, <2>6
  <2>9. (o \notin opened => Targeted(o) = {}) /\ (o \in opened /\ o.kind = "gather" => Targeted(o) = o.targets)
    BY DEF CountsOK
  <2>10. QED BY <1>1, <2>2, <2>3, <2>4, <2>5, <2>7, <2>8, <2>9 DEF CountsOK
<1>10. QED BY <1>8, <1>9

\* A callback leaves the other operations alone.
CallbackDone(o, m, ok) ==
  /\ heard' = [heard EXCEPT ![o] = @ \cup {m}] /\ Count(o, m, ok) /\ Keep(o, m, ok)
  /\ \A x \in Ops : x # o => /\ heard'[x] = heard[x] /\ active'[x] = active[x] /\ errors'[x] = errors[x]
                             /\ results'[x] = results[x] /\ called'[x] = called[x]
                             /\ found'[x] = found[x] /\ arrived'[x] = arrived[x]
  /\ results'[o] \subseteq results[o] \cup {m} /\ results[o] \subseteq results'[o]
  /\ results'[o] # results[o] => ok
  /\ heard' \in [Ops -> SUBSET Nodes] /\ errors' \in [Ops -> SUBSET Nodes]
  /\ results' \in [Ops -> SUBSET Nodes] /\ active' \in [Ops -> Int] /\ called' \in [Ops -> Int]
  /\ found' = [found EXCEPT ![o] = IF o.kind = "gather" \/ ~ok THEN @ ELSE Decompress(o, m)]
  /\ arrived' = [arrived EXCEPT ![o] = IF o.kind = "query" /\ ok THEN Arrived(o, m) ELSE @]
  /\ \A t \in AllTerms : cache'[t] = cache[t] \/ (cache'[t] = found'[o][t] /\ cache'[t] # Absent)
  /\ DOMAIN cache' = AllTerms /\ cache' = [t \in AllTerms |-> cache'[t]]

\* A callback that counts does so for its operation alone.
LEMMA CallbackFrame ==
  ASSUME TypesOK, NEW o \in Ops, NEW m \in Nodes, NEW ok \in BOOLEAN, Callback(o, m, ok), m \notin heard[o]
  PROVE  CallbackDone(o, m, ok)
<1>1. /\ heard \in [Ops -> SUBSET Nodes] /\ errors \in [Ops -> SUBSET Nodes] /\ results \in [Ops -> SUBSET Nodes]
      /\ active \in [Ops -> Int] /\ called \in [Ops -> Int]
      /\ found \in [Ops -> [AllTerms -> Seq(Pages) \cup {Absent}]] /\ arrived \in [Ops -> Seq(AllTerms)]
      /\ cache \in [AllTerms -> Seq(Pages) \cup {NotCached}]
  BY DEF TypesOK
<1>2. heard' = [heard EXCEPT ![o] = @ \cup {m}] /\ Count(o, m, ok) /\ Keep(o, m, ok)
  BY DEF Callback
<1>3. /\ errors' \in [Ops -> SUBSET Nodes] /\ results' \in [Ops -> SUBSET Nodes]
      /\ active' \in [Ops -> Int] /\ called' \in [Ops -> Int]
      /\ \A x \in Ops : x # o => /\ active'[x] = active[x] /\ errors'[x] = errors[x]
                                 /\ results'[x] = results[x] /\ called'[x] = called[x]
      /\ results'[o] = results[o] \/ (ok /\ results'[o] = results[o] \cup {m})
  BY <1>2, CountFacts
<1>4. /\ found' = [found EXCEPT ![o] = IF o.kind = "gather" \/ ~ok THEN @ ELSE Decompress(o, m)]
      /\ arrived' = [arrived EXCEPT ![o] = IF o.kind = "query" /\ ok THEN Arrived(o, m) ELSE @]
  BY <1>1, <1>2 DEF Keep
<1>5. /\ \A t \in AllTerms : cache'[t] = cache[t] \/ (cache'[t] = found'[o][t] /\ cache'[t] # Absent)
      /\ DOMAIN cache' = AllTerms /\ cache' = [t \in AllTerms |-> cache'[t]]
  BY <1>1, <1>2 DEF Keep
<1>6. heard' \in [Ops -> SUBSET Nodes] /\ \A x \in Ops : x # o => heard'[x] = heard[x]
  BY <1>1, <1>2
<1>7. \A x \in Ops : x # o => found'[x] = found[x] /\ arrived'[x] = arrived[x]
  BY <1>1, <1>4
<1>8. results'[o] \subseteq results[o] \cup {m} /\ results[o] \subseteq results'[o] /\ (results'[o] # results[o] => ok)
  BY <1>3
<1>9. QED BY <1>2, <1>3, <1>4, <1>5, <1>6, <1>7, <1>8 DEF CallbackDone

\* A step that brings an answer, or the news that there is none.
LEMMA CallbackStep ==
  ASSUME IInv, NEW o \in Ops, NEW m \in Targeted(o), NEW ok \in BOOLEAN, Callback(o, m, ok), m \notin heard[o],
         ok => unread[o][m] = {},
         UNCHANGED <<plan, delivered, opened, unread, answer, got, index, before, node>>,
         SameTargets, call' \in [Ops -> [Nodes -> CallStates]],
         \A x \in Ops, n \in Nodes : /\ call'[x][n] = "over" => call[x][n] = "over" \/ (x = o /\ n = m)
                                     /\ call'[x][n] = "replied" => call[x][n] = "replied"
  PROVE  IInv'
<1>1. Ops' = Ops /\ Faulty' = Faulty /\ (\A x \in Ops : Targeted(x)' = Targeted(x)) /\ m \in Nodes
  BY DEF SameTargets, Ops, Faulty, Targeted
<1>2. TypesOK /\ IndexOK /\ GotOK /\ \A x \in Ops : CountsOK(x) /\ AnswersOK(x) /\ FoundOK(x)
  BY DEF IInv
<1> DEFINE D == Decompress(o, m)
           a == answer[o][m]
<1>3. /\ heard' = [heard EXCEPT ![o] = @ \cup {m}] /\ Count(o, m, ok)
      /\ \A x \in Ops : x # o => /\ heard'[x] = heard[x] /\ active'[x] = active[x] /\ errors'[x] = errors[x]
                                 /\ results'[x] = results[x] /\ called'[x] = called[x]
                                 /\ found'[x] = found[x] /\ arrived'[x] = arrived[x]
      /\ results'[o] \subseteq results[o] \cup {m} /\ results[o] \subseteq results'[o]
      /\ results'[o] # results[o] => ok
      /\ heard' \in [Ops -> SUBSET Nodes] /\ errors' \in [Ops -> SUBSET Nodes]
      /\ results' \in [Ops -> SUBSET Nodes] /\ active' \in [Ops -> Int] /\ called' \in [Ops -> Int]
      /\ found' = [found EXCEPT ![o] = IF o.kind = "gather" \/ ~ok THEN @ ELSE D]
      /\ arrived' = [arrived EXCEPT ![o] = IF o.kind = "query" /\ ok THEN Arrived(o, m) ELSE @]
      /\ \A t \in AllTerms : cache'[t] = cache[t] \/ (cache'[t] = found'[o][t] /\ cache'[t] # Absent)
      /\ DOMAIN cache' = AllTerms /\ cache' = [t \in AllTerms |-> cache'[t]]
  <2>1. CallbackDone(o, m, ok)
    BY <1>1, <1>2, CallbackFrame
  <2>2. QED BY <2>1 DEF CallbackDone
<1>4. /\ D \in [AllTerms -> Seq(Pages) \cup {Absent}]
      /\ \A t \in AllTerms : D[t] = found[o][t] \/ \E r \in DOMAIN a : a[r].term = t /\ D[t] = a[r].pages
      /\ \A t \in AllTerms : (\A r \in DOMAIN a : a[r].term # t) => D[t] = found[o][t]
      /\ ok /\ ~Faulty => \A r \in DOMAIN a : ToSet(before[o][a[r].term]) \subseteq Known(D[a[r].term])
  <2>1. TypesOK /\ AnswersOK(o) /\ m \in Nodes
    BY <1>1, <1>2
  <2>2. /\ D \in [AllTerms -> Seq(Pages) \cup {Absent}]
        /\ \A t \in AllTerms : D[t] = found[o][t] \/ \E r \in DOMAIN a : a[r].term = t /\ D[t] = a[r].pages
        /\ \A t \in AllTerms : (\A r \in DOMAIN a : a[r].term # t) => D[t] = found[o][t]
        /\ unread[o][m] = {} /\ ~Faulty =>
             \A r \in DOMAIN a : ToSet(before[o][a[r].term]) \subseteq Known(D[a[r].term])
    BY <2>1, DecompressFacts
  <2> HIDE DEF D, a
  <2>3. QED BY <2>2
<1>5. /\ Arrived(o, m) \in Seq(AllTerms)
      /\ ToSet(Arrived(o, m)) = ToSet(arrived[o]) \cup {a[r].term : r \in DOMAIN a}
  BY <1>1, <1>2, ArrivedFacts
<1> HIDE DEF D, a
<1>6. /\ found \in [Ops -> [AllTerms -> Seq(Pages) \cup {Absent}]] /\ arrived \in [Ops -> Seq(AllTerms)]
      /\ cache \in [AllTerms -> Seq(Pages) \cup {NotCached}]
  BY <1>2 DEF TypesOK
<1>7. found' \in [Ops -> [AllTerms -> Seq(Pages) \cup {Absent}]] /\ arrived' \in [Ops -> Seq(AllTerms)]
  BY <1>3, <1>4, <1>5, <1>6
<1>8. cache' \in [AllTerms -> Seq(Pages) \cup {NotCached}]
  <2>1. ASSUME NEW t \in AllTerms PROVE cache'[t] \in Seq(Pages) \cup {NotCached}
    <3>1. found'[o][t] \in Seq(Pages) \cup {Absent}
      BY <1>7
    <3>2. QED BY <1>3, <1>6, <3>1
  <2>2. QED BY <1>3, <2>1
<1>9. TypesOK'
  <2>1. UNCHANGED <<plan, delivered, opened, unread, answer, got, index, before, node>>
    OBVIOUS
  <2>2. QED BY <1>1, <1>2, <1>3, <1>7, <1>8, <2>1 DEF TypesOK
<1>10. index' = index /\ answer' = answer /\ unread' = unread /\ before' = before /\ IndexGrows
  BY DEF IndexGrows
<1>11. \A t \in AllTerms : found'[o][t] # Absent => Stored(t, found'[o][t])
  <2>1. SUFFICES ASSUME NEW t \in AllTerms, found'[o][t] # Absent PROVE Stored(t, found'[o][t])
    OBVIOUS
  <2>2. found'[o][t] = found[o][t] \/ found'[o][t] = D[t]
    BY <1>3, <1>6
  <2>3. found[o][t] # Absent => Stored(t, found[o][t])
    BY <1>2 DEF FoundOK
  <2>4. \A r \in DOMAIN a : a[r].pages # Absent => Stored(a[r].term, a[r].pages)
    BY <1>1, <1>2 DEF AnswersOK, AnswerOK, a
  <2>5. CASE found'[o][t] = found[o][t]
    BY <2>1, <2>3, <2>5
  <2>6. CASE \E r \in DOMAIN a : a[r].term = t /\ found'[o][t] = a[r].pages
    BY <2>1, <2>4, <2>6
  <2>7. D[t] = found[o][t] \/ \E r \in DOMAIN a : a[r].term = t /\ D[t] = a[r].pages
    BY <1>4
  <2>8. QED BY <2>2, <2>5, <2>6, <2>7
<1>12. IndexOK'
  <2>1. \A t \in AllTerms : cache'[t] # NotCached => Stored(t, cache'[t])
    <3>1. ASSUME NEW t \in AllTerms, cache'[t] # NotCached PROVE Stored(t, cache'[t])
      <4>1. CASE cache'[t] = cache[t]
        BY <1>2, <3>1, <4>1 DEF IndexOK
      <4>2. CASE cache'[t] = found'[o][t] /\ cache'[t] # Absent
        <5>1. found'[o][t] # Absent
          BY <4>2
        <5>2. Stored(t, found'[o][t])
          BY <1>11, <5>1
        <5>3. QED BY <4>2, <5>2
      <4>3. QED BY <1>3, <4>1, <4>2
    <3>2. QED BY <3>1
  <2>2. IndexOK
    BY <1>2
  <2>3. QED BY <1>1, <1>10, <2>1, <2>2 DEF IndexOK, Stored
<1>13. GotOK'
  BY <1>1, <1>2 DEF GotOK
<1>14. ASSUME NEW x \in Ops PROVE CountsOK(x)'
  <2>1. CASE x = o
    <3>1. TypesOK /\ CountsOK(o) /\ Count(o, m, ok) /\ heard' = [heard EXCEPT ![o] = @ \cup {m}]
      BY <1>2, <1>3
    <3>2. \A n \in Nodes : call'[o][n] = "over" => call[o][n] = "over" \/ n = m
      OBVIOUS
    <3>3. m \in Targeted(o) /\ m \notin heard[o] /\ ok \in BOOLEAN /\ SameTargets
      OBVIOUS
    <3>4. UNCHANGED <<plan, opened>>
      OBVIOUS
    <3> HIDE DEF D, a
    <3>5. CountsOK(o)'
      BY ONLY o \in Ops, <3>1, <3>2, <3>3, <3>4, CountStep
    <3>6. QED BY <2>1, <3>5
  <2>2. CASE x # o
    <3>1. /\ heard'[x] = heard[x] /\ active'[x] = active[x] /\ errors'[x] = errors[x]
          /\ results'[x] = results[x] /\ called'[x] = called[x] /\ (x \in opened' <=> x \in opened)
          /\ Targeted(x)' = Targeted(x)
      BY <1>1, <1>3, <2>2
    <3>2. CountsOK(x)
      BY <1>2
    <3>3. \A n \in Nodes : call'[x][n] = "over" => n \in heard[x]
      BY <2>2, <3>2 DEF CountsOK
    <3>4. QED BY <3>1, <3>2, <3>3, CountsFrame
  <2>3. QED BY <2>1, <2>2
<1>15. ASSUME NEW x \in Ops PROVE AnswersOK(x)'
  <2>1. TypesOK /\ AnswersOK(x) /\ Faulty' = Faulty /\ Targeted(x)' = Targeted(x)
    BY <1>1, <1>2
  <2>2. ASSUME NEW n \in Nodes, call'[x][n] = "replied" \/ n \in results'[x] PROVE unread[x][n] = {}
    <3>1. call[x][n] = "replied" \/ n \in results[x] => unread[x][n] = {}
      BY <2>1 DEF AnswersOK
    <3>2. call'[x][n] = "replied" => call[x][n] = "replied"
      OBVIOUS
    <3>3. CASE x = o /\ n = m /\ n \in results'[x] /\ n \notin results[x]
      BY <1>3, <3>3
    <3>4. n \in results'[x] => n \in results[x] \/ (x = o /\ n = m)
      BY <1>3
    <3>5. QED BY <2>2, <3>1, <3>2, <3>3, <3>4
  <2>3. answer'[x] = answer[x] /\ unread'[x] = unread[x] /\ before'[x] = before[x]
    BY <1>10
  <2>4. QED BY <1>10, <2>1, <2>2, <2>3, AnswersFrame
<1>16. ASSUME NEW x \in Ops PROVE FoundOK(x)'
  <2>1. CASE x # o
    <3>1. /\ found'[x] = found[x] /\ arrived'[x] = arrived[x] /\ results'[x] = results[x]
          /\ (x \in opened' <=> x \in opened) /\ answer'[x] = answer[x] /\ before'[x] = before[x]
      BY <1>3, <1>10, <2>1
    <3>2. FoundOK(x) /\ Faulty' = Faulty /\ IndexGrows
      BY <1>1, <1>2, <1>10
    <3>3. QED BY <3>1, <3>2, FoundFrame
  <2>2. CASE x = o
    <3>1. FoundOK(o)
      BY <1>2
    <3>2. ASSUME NEW n \in results'[o], NEW r \in DOMAIN answer[o][n]
          PROVE  /\ ~Faulty => ToSet(before[o][answer[o][n][r].term]) \subseteq Known(found'[o][answer[o][n][r].term])
                 /\ o.kind = "query" => answer[o][n][r].term \in ToSet(arrived'[o])
      <4> DEFINE t == answer[o][n][r].term
      <4>1. n \in Nodes /\ (n = m \/ n \in results[o]) /\ (n \notin results[o] => ok)
        BY <1>1, <1>3
      <4>2. o.kind # "gather" /\ TermHome[t] = n /\ t \in AllTerms
        <5>1. answer[o][n] \in Seq(Answers)
          BY <1>2, <4>1 DEF TypesOK
        <5>2. answer[o][n][r] \in Answers
          BY <5>1
        <5>3. QED BY <1>2, <4>1, <5>2 DEF AnswersOK, AnswerOK, Answers
      <4>3. CASE n = m /\ ok
        <5>1. found'[o] = D /\ (o.kind = "query" => arrived'[o] = Arrived(o, m))
          BY <1>3, <1>6, <4>2, <4>3
        <5>2. a[r].term = t /\ r \in DOMAIN a
          BY <4>3 DEF a
        <5>3. ~Faulty => ToSet(before[o][t]) \subseteq Known(found'[o][t])
          BY <1>4, <4>3, <5>1, <5>2
        <5>4. o.kind = "query" => t \in ToSet(arrived'[o])
          BY <1>5, <5>1, <5>2
        <5>5. QED BY <5>3, <5>4
      <4>4. CASE n # m /\ n \in results[o]
        <5>1. \A q \in DOMAIN a : a[q].term # t
          <6>1. AnswersOK(o) /\ m \in Nodes
            BY <1>1, <1>2
          <6>2. \A q \in DOMAIN a : AnswerOK(o, m, q)
            BY <6>1 DEF AnswersOK, a
          <6>3. \A q \in DOMAIN a : TermHome[a[q].term] = m
            BY <6>2 DEF AnswerOK, a
          <6> HIDE DEF a, t
          <6>4. QED BY <6>3, <4>2, <4>4
        <5>2. found'[o][t] = found[o][t]
          <6>1. D[t] = found[o][t] \/ \E q \in DOMAIN a : a[q].term = t /\ D[t] = a[q].pages
            BY <1>4, <4>2
          <6>2. D[t] = found[o][t]
            BY <5>1, <6>1
          <6>3. found'[o][t] = found[o][t] \/ found'[o][t] = D[t]
            BY <1>3, <1>6, <4>2
          <6>4. QED BY <6>2, <6>3
        <5>3. ToSet(arrived[o]) \subseteq ToSet(arrived'[o])
          <6>1. arrived'[o] = arrived[o] \/ arrived'[o] = Arrived(o, m)
            BY <1>3, <1>6
          <6>2. ToSet(arrived[o]) \subseteq ToSet(Arrived(o, m))
            BY <1>5
          <6>3. QED BY <6>1, <6>2
        <5>4. /\ ~Faulty => ToSet(before[o][t]) \subseteq Known(found[o][t])
              /\ o.kind = "query" => t \in ToSet(arrived[o])
          BY <3>1, <4>4 DEF FoundOK
        <5> HIDE DEF t
        <5>5. /\ ~Faulty => ToSet(before[o][t]) \subseteq Known(found'[o][t])
              /\ o.kind = "query" => t \in ToSet(arrived'[o])
          BY <5>2, <5>3, <5>4
        <5>6. QED BY <5>5 DEF t
      <4>5. n = m => n \notin results[o]
        <5>1. CountsOK(o)
          BY <1>2
        <5>2. results[o] \subseteq heard[o]
          BY <5>1 DEF CountsOK
        <5>3. QED BY <5>2
      <4>6. (n = m /\ ok) \/ (n # m /\ n \in results[o])
        BY <4>1, <4>5
      <4>7. QED BY <4>3, <4>4, <4>6
    <3>3. o.kind = "query" => ToSet(arrived'[o]) \subseteq ToSet(o.want)
      <4>1. \A r \in DOMAIN a : a[r].term \in ToSet(o.want)
        BY <1>1, <1>2 DEF AnswersOK, AnswerOK, a
      <4>2. arrived'[o] = arrived[o] \/ arrived'[o] = Arrived(o, m)
        BY <1>3, <1>6
      <4>3. ToSet(Arrived(o, m)) \subseteq ToSet(arrived[o]) \cup ToSet(o.want)
        BY <1>5, <4>1
      <4>4. o.kind = "query" => ToSet(arrived[o]) \subseteq ToSet(o.want)
        BY <3>1 DEF FoundOK
      <4>5. QED BY <4>2, <4>3, <4>4
    <3>4. opened' = opened
      OBVIOUS
    <3>5. o \in opened' /\ o.kind = "query" =>
            \A t \in ToSet(o.want) : \E r \in DOMAIN answer'[o][TermHome[t]] : answer'[o][TermHome[t]][r].term = t
      BY <1>10, <3>1, <3>4 DEF FoundOK
    <3>6. ASSUME NEW t \in AllTerms, found'[o][t] # Absent
          PROVE  found'[o][t] \in Seq(Pages) /\ Injective(found'[o][t]) /\ ToSet(found'[o][t]) \subseteq ToSet(index'[t])
      BY <1>10, <1>11, <3>6 DEF Stored
    <3>7. \A n \in results'[o] : \A r \in DOMAIN answer'[o][n] :
            LET t == answer'[o][n][r].term
            IN /\ ~Faulty' => ToSet(before'[o][t]) \subseteq Known(found'[o][t])
               /\ o.kind = "query" => t \in ToSet(arrived'[o])
      BY <1>1, <1>10, <3>2
    <3>8. FoundOK(o)'
      BY <3>3, <3>5, <3>6, <3>7 DEF FoundOK, Stored
    <3>9. QED BY <2>2, <3>8
  <2>3. QED BY <2>1, <2>2
<1>17. QED BY <1>1, <1>9, <1>12, <1>13, <1>14, <1>15, <1>16 DEF IInv

\* A call that is over was heard of, and one that has replied has read its
\* batch.
LEMMA CallsSettled ==
  ASSUME IInv
  PROVE  \A x \in Ops, n \in Nodes : /\ call[x][n] = "over" => n \in heard[x]
                                     /\ call[x][n] = "replied" \/ n \in results[x] => unread[x][n] = {}
<1>1. SUFFICES ASSUME NEW x \in Ops, NEW n \in Nodes
               PROVE  /\ call[x][n] = "over" => n \in heard[x]
                      /\ call[x][n] = "replied" \/ n \in results[x] => unread[x][n] = {}
  OBVIOUS
<1>2. CountsOK(x) /\ AnswersOK(x)
  BY DEF IInv
<1>3. call[x][n] = "over" => n \in heard[x]
  BY <1>2 DEF CountsOK
<1>4. call[x][n] = "replied" \/ n \in results[x] => unread[x][n] = {}
  BY <1>2 DEF AnswersOK
<1>5. QED BY <1>3, <1>4

\* A call goes from one state to another, and no other call does.
CallMoves(o, m, c) ==
  /\ SameTargets /\ call' \in [Ops -> [Nodes -> CallStates]] /\ call'[o][m] = c
  /\ \A x \in Ops, n \in Nodes : x # o \/ n # m => call'[x][n] = call[x][n]

\* Setting the state of one call is such a move.
LEMMA CallUpdate ==
  ASSUME TypesOK, NEW o \in Ops, NEW m \in Nodes, NEW c \in CallStates, c # "none", call[o][m] # "none",
         call' = [call EXCEPT ![o][m] = c]
  PROVE  CallMoves(o, m, c)
<1>1. call \in [Ops -> [Nodes -> CallStates]]
  BY DEF TypesOK
<1>2. /\ call' \in [Ops -> [Nodes -> CallStates]] /\ call'[o][m] = c
      /\ \A x \in Ops, n \in Nodes : x # o \/ n # m => call'[x][n] = call[x][n]
  BY <1>1
<1>3. SameTargets
  BY <1>2 DEF SameTargets
<1>4. QED BY <1>2, <1>3 DEF CallMoves

\* A timeout counts as the answer of its node (comm.js:89).
LEMMA TimeOutStep ==
  ASSUME IInv, NEW o \in Ops, NEW m \in Nodes, TimeOut(o, m)
  PROVE  IInv'
<1>1. m \in Targeted(o) /\ m \notin heard[o] /\ Callback(o, m, FALSE) /\ call' = call
  BY DEF TimeOut, Targeted
<1>2. UNCHANGED <<plan, delivered, opened, unread, answer, got, index, before, node>>
  BY DEF TimeOut, status
<1>3. call' \in [Ops -> [Nodes -> CallStates]] /\ SameTargets
  BY <1>1 DEF IInv, TypesOK, SameTargets
<1>4. QED BY <1>1, <1>2, <1>3, CallbackStep

\* A response counts once, also when it comes after the timeout.
LEMMA RespondStep ==
  ASSUME IInv, NEW o \in Ops, NEW m \in Nodes, Respond(o, m)
  PROVE  IInv'
<1> DEFINE ok == call[o][m] = "replied"
<1>1. call[o][m] \in {"replied", "refused"} /\ call' = [call EXCEPT ![o][m] = "over"] /\ Callback(o, m, ok)
  BY DEF Respond
<1>2. UNCHANGED <<plan, delivered, opened, unread, answer, got, index, before, node>>
  BY DEF Respond, status
<1>3. TypesOK /\ GotOK /\ m \in Targeted(o) /\ \A x \in Ops : CountsOK(x) /\ AnswersOK(x)
  BY <1>1 DEF IInv, Targeted
<1>4. /\ SameTargets /\ call' \in [Ops -> [Nodes -> CallStates]] /\ call'[o][m] = "over"
      /\ \A x \in Ops, n \in Nodes : x # o \/ n # m => call'[x][n] = call[x][n]
  <2>1. "over" \in CallStates /\ "over" # "none" /\ call[o][m] # "none"
    BY <1>1 DEF CallStates
  <2>2. CallMoves(o, m, "over")
    BY <1>1, <1>3, <2>1, CallUpdate
  <2>3. QED BY <2>2 DEF CallMoves
<1>5. CASE m \in heard[o]
  <2>1. Quiet
    BY <1>1, <1>2, <1>5 DEF Callback, Quiet
  <2>2. \A x \in Ops, n \in Nodes : /\ call'[x][n] = "over" => n \in heard[x]
                                    /\ call'[x][n] = "replied" => unread[x][n] = {}
    BY <1>2, <1>4, <1>5, CallsSettled
  <2>3. GotOK' /\ got' \in [Ops -> [Nodes -> {None, delivered}]] /\ node' \in [Nodes -> {"up", "stopping", "down"}]
    BY <1>2, <1>3 DEF GotOK, TypesOK, Ops
  <2>4. QED BY <1>4, <2>1, <2>2, <2>3, CallStep
<1>6. CASE m \notin heard[o]
  <2>1. ok => unread[o][m] = {}
    BY <1>3 DEF AnswersOK, AnswerOK
  <2>2. \A x \in Ops, n \in Nodes : /\ call'[x][n] = "over" => call[x][n] = "over" \/ (x = o /\ n = m)
                                    /\ call'[x][n] = "replied" => call[x][n] = "replied"
    BY <1>4
  <2>3. ok \in BOOLEAN
    OBVIOUS
  <2> HIDE DEF ok
  <2>4. QED BY <1>1, <1>2, <1>3, <1>4, <1>6, <2>1, <2>2, <2>3, CallbackStep
<1>7. QED BY <1>5, <1>6

\* A request that arrives is refused, or brings what was deserialized.
LEMMA ArriveStep ==
  ASSUME IInv, NEW o \in Ops, NEW m \in Nodes, Arrive(o, m)
  PROVE  IInv'
<1>1. TypesOK /\ GotOK /\ \A x \in Ops : CountsOK(x) /\ AnswersOK(x)
  BY DEF IInv
<1>2. Quiet /\ node' = node
  BY DEF Arrive, Quiet, status
<1>3. PICK c \in {"handling", "refused"} : call' = [call EXCEPT ![o][m] = c] /\ call[o][m] = "sent"
  BY DEF Arrive
<1>4. /\ SameTargets /\ call' \in [Ops -> [Nodes -> CallStates]] /\ call'[o][m] = c
      /\ \A x \in Ops, n \in Nodes : x # o \/ n # m => call'[x][n] = call[x][n]
  <2>1. c \in CallStates /\ c # "none" /\ call[o][m] # "none"
    BY <1>3 DEF CallStates
  <2>2. CallMoves(o, m, c)
    BY <1>1, <1>3, <2>1, CallUpdate
  <2>3. QED BY <2>2 DEF CallMoves
<1>5. \A x \in Ops, n \in Nodes : /\ call'[x][n] = "over" => n \in heard[x]
                                  /\ call'[x][n] = "replied" => unread[x][n] = {}
  BY <1>2, <1>3, <1>4, CallsSettled DEF Quiet
<1>6. got' \in [Ops -> [Nodes -> {None, delivered}]] /\ GotOK'
  <2>1. got \in [Ops -> [Nodes -> {None, delivered}]]
    BY <1>1 DEF TypesOK
  <2>2. CASE got' = got
    BY <1>1, <1>2, <2>1, <2>2 DEF GotOK, Quiet, Ops
  <2>3. CASE got' = [got EXCEPT ![o][m] = IF o.kind = "gather" THEN delivered ELSE None] /\ delivered # Failure
    <3>1. got' \in [Ops -> [Nodes -> {None, delivered}]] /\ delivered' # Failure
      BY <1>2, <2>1, <2>3 DEF Quiet
    <3>2. QED BY <3>1 DEF GotOK
  <2>4. QED BY <2>2, <2>3 DEF Arrive
<1>7. node' \in [Nodes -> {"up", "stopping", "down"}]
  BY <1>1, <1>2 DEF TypesOK
<1>8. QED BY <1>2, <1>4, <1>5, <1>6, <1>7, CallStep

\* A method that calls back has read its batch.
LEMMA ReturnStep ==
  ASSUME IInv, NEW o \in Ops, NEW m \in Nodes, NEW outcome \in {"replied", "refused", "stuck"}, Return(o, m, outcome)
  PROVE  IInv'
<1> DEFINE ok == outcome = "replied"
<1>1. call[o][m] = "handling" /\ unread[o][m] = {}
  BY DEF Return
<1>2. UNCHANGED <<plan, delivered, opened, unread, answer, got, index, before, node>>
  BY DEF Return, status
<1>3. TypesOK /\ GotOK /\ m \in Targeted(o) /\ \A x \in Ops : CountsOK(x) /\ AnswersOK(x)
  BY <1>1 DEF IInv, Targeted
<1>4. GotOK' /\ got' \in [Ops -> [Nodes -> {None, delivered}]] /\ node' \in [Nodes -> {"up", "stopping", "down"}]
  BY <1>2, <1>3 DEF GotOK, TypesOK, Ops
<1>5. CASE m = Self /\ outcome # "stuck"
  <2>1. call' = [call EXCEPT ![o][m] = "over"] /\ Callback(o, m, ok)
    BY <1>5 DEF Return
  <2>2. /\ SameTargets /\ call' \in [Ops -> [Nodes -> CallStates]] /\ call'[o][m] = "over"
        /\ \A x \in Ops, n \in Nodes : x # o \/ n # m => call'[x][n] = call[x][n]
    <3>1. "over" \in CallStates /\ "over" # "none" /\ call[o][m] # "none"
      BY <1>1 DEF CallStates
    <3>2. TypesOK /\ call' = [call EXCEPT ![o][m] = "over"]
      BY <1>3, <2>1
    <3>3. CallMoves(o, m, "over")
      BY <3>1, <3>2, CallUpdate
    <3>4. QED BY <3>3 DEF CallMoves
  <2>3. CASE m \in heard[o]
    <3>1. Quiet
      BY <1>2, <2>1, <2>3 DEF Callback, Quiet
    <3>2. \A x \in Ops, n \in Nodes : /\ call'[x][n] = "over" => n \in heard[x]
                                      /\ call'[x][n] = "replied" => unread[x][n] = {}
      BY <1>2, <2>2, <2>3, CallsSettled
    <3>3. QED BY <1>4, <2>2, <3>1, <3>2, CallStep
  <2>4. CASE m \notin heard[o]
    <3>1. \A x \in Ops, n \in Nodes : /\ call'[x][n] = "over" => call[x][n] = "over" \/ (x = o /\ n = m)
                                      /\ call'[x][n] = "replied" => call[x][n] = "replied"
      BY <2>2
    <3>2. ok \in BOOLEAN
      OBVIOUS
    <3> HIDE DEF ok
    <3>3. QED BY <1>1, <1>2, <1>3, <2>1, <2>2, <2>4, <3>1, <3>2, CallbackStep
  <2>5. QED BY <2>3, <2>4
<1>6. CASE ~(m = Self /\ outcome # "stuck")
  <2>1. call' = [call EXCEPT ![o][m] = outcome] /\ Quiet
    BY <1>2, <1>6 DEF Return, Quiet
  <2>2. /\ SameTargets /\ call' \in [Ops -> [Nodes -> CallStates]] /\ call'[o][m] = outcome
        /\ \A x \in Ops, n \in Nodes : x # o \/ n # m => call'[x][n] = call[x][n]
    <3>1. outcome \in CallStates /\ outcome # "none" /\ call[o][m] # "none"
      BY <1>1 DEF CallStates
    <3>2. TypesOK /\ call' = [call EXCEPT ![o][m] = outcome]
      BY <1>3, <2>1
    <3>3. CallMoves(o, m, outcome)
      BY <3>1, <3>2, CallUpdate
    <3>4. QED BY <3>3 DEF CallMoves
  <2>3. \A x \in Ops, n \in Nodes : /\ call'[x][n] = "over" => n \in heard[x]
                                    /\ call'[x][n] = "replied" => unread[x][n] = {}
    BY <1>1, <1>2, <2>2, CallsSettled
  <2>4. QED BY <1>4, <2>1, <2>2, <2>3, CallStep
<1>7. QED BY <1>5, <1>6

\* A second call of the callback counts nothing; a node may change its state.
LEMMA IdleStep ==
  ASSUME IInv, Quiet, call' = call, got' = got, node' \in [Nodes -> {"up", "stopping", "down"}]
  PROVE  IInv'
<1>1. TypesOK /\ GotOK /\ \A x \in Ops : CountsOK(x) /\ AnswersOK(x)
  BY DEF IInv
<1>2. SameTargets /\ call' \in [Ops -> [Nodes -> CallStates]]
  BY <1>1 DEF SameTargets, TypesOK
<1>3. \A x \in Ops, n \in Nodes : /\ call'[x][n] = "over" => n \in heard[x]
                                  /\ call'[x][n] = "replied" => unread[x][n] = {}
  BY <1>1 DEF CountsOK, AnswersOK, AnswerOK
<1>4. got' \in [Ops -> [Nodes -> {None, delivered}]] /\ GotOK'
  BY <1>1 DEF TypesOK, GotOK, Quiet, Ops
<1>5. QED BY <1>2, <1>3, <1>4, CallStep

\* A method that calls back twice counts once.
LEMMA ReturnAgainStep ==
  ASSUME IInv, NEW o \in Ops, NEW m \in Nodes, ReturnAgain(o, m)
  PROVE  IInv'
<1>1. node \in [Nodes -> {"up", "stopping", "down"}]
  BY DEF IInv, TypesOK
<1>2. CASE m = Self
  <2>1. Quiet /\ call' = call /\ got' = got /\ node' = node
    BY <1>2 DEF ReturnAgain, Callback, Quiet
  <2>2. QED BY <1>1, <2>1, IdleStep
<1>3. CASE m # Self
  <2>1. Quiet /\ call' = call /\ got' = got /\ node' = [node EXCEPT ![m] = "down"]
    BY <1>3 DEF ReturnAgain, Quiet
  <2>2. QED BY <1>1, <2>1, IdleStep
<1>4. QED BY <1>2, <1>3

\* A node that stops or is routed anew takes no answer back.
LEMMA NodeStep ==
  ASSUME IInv, NEW m \in Nodes, StopNode(m) \/ \E s \in Dynamic : Reroute(m, s)
  PROVE  IInv'
<1>1. node \in [Nodes -> {"up", "stopping", "down"}]
  BY DEF IInv, TypesOK
<1>2. Quiet /\ call' = call /\ got' = got /\ node' \in [Nodes -> {"up", "stopping", "down"}]
  BY <1>1 DEF StopNode, Reroute, Quiet, gather
<1>3. QED BY <1>2, IdleStep

\* A read at the node of a term finds all that the index has for it.
LEMMA ReadTermStep ==
  ASSUME IInv, NEW o \in Ops, NEW m \in Nodes, NEW i \in unread[o][m], NEW ok \in BOOLEAN, ReadTerm(o, m, i, ok)
  PROVE  IInv'
<1>1. TypesOK /\ IndexOK /\ GotOK /\ \A x \in Ops : CountsOK(x) /\ AnswersOK(x) /\ FoundOK(x)
  BY DEF IInv
<1>2. UNCHANGED <<plan, delivered, opened, call, heard, active, errors, results, called, got, cache, found, arrived,
                  node, index, before>>
  BY DEF ReadTerm, gather, status
<1>3. Ops' = Ops /\ Faulty' = Faulty /\ \A x \in Ops : Targeted(x)' = Targeted(x)
  BY <1>2 DEF Ops, Faulty, Targeted
<1>4. /\ answer \in [Ops -> [Nodes -> Seq(Answers)]] /\ unread \in [Ops -> [Nodes -> SUBSET Nat]]
      /\ index \in [AllTerms -> Seq(Pages)]
  BY <1>1 DEF TypesOK
<1>5. call[o][m] = "handling" /\ unread' = [unread EXCEPT ![o][m] = @ \ {i}] /\ (ok \/ Faulty)
  BY DEF ReadTerm
<1> DEFINE a == answer[o][m]
           b == answer'[o][m]
<1>6. a \in Seq(Answers) /\ DOMAIN a = 1..Len(a) /\ \A r \in DOMAIN a : a[r] \in Answers
  <2>1. a \in Seq(Answers)
    BY <1>4
  <2>2. QED BY <2>1
<1>7. answer' = answer \/ answer' = [answer EXCEPT ![o][m][i].pages = index[answer[o][m][i].term]]
  BY DEF ReadTerm
<1>8. /\ \A x \in Ops, n \in Nodes : x # o \/ n # m => answer'[x][n] = answer[x][n]
      /\ answer' = [x \in Ops |-> [n \in Nodes |-> answer'[x][n]]]
      /\ b = a \/ b = [a EXCEPT ![i].pages = index[a[i].term]]
  <2>1. CASE answer' = answer
    <3>1. answer = [x \in Ops |-> [n \in Nodes |-> answer[x][n]]]
      BY <1>4
    <3>2. QED BY <2>1, <3>1
  <2>2. CASE answer' = [answer EXCEPT ![o][m][i].pages = index[answer[o][m][i].term]]
    <3>1. answer' = [answer EXCEPT ![o] = [answer[o] EXCEPT ![m] = [a EXCEPT ![i].pages = index[a[i].term]]]]
      BY <2>2
    <3> DEFINE c == [a EXCEPT ![i].pages = index[a[i].term]]
    <3> HIDE DEF c, a
    <3>2. answer' = [answer EXCEPT ![o] = [answer[o] EXCEPT ![m] = c]]
      BY <3>1 DEF c
    <3>3. b = c /\ \A x \in Ops, n \in Nodes : x # o \/ n # m => answer'[x][n] = answer[x][n]
      BY <1>4, <3>2
    <3>4. answer' = [x \in Ops |-> [n \in Nodes |-> answer'[x][n]]]
      BY <1>4, <3>2
    <3>5. QED BY <3>3, <3>4 DEF c
  <2>3. QED BY <1>7, <2>1, <2>2
<1>9. DOMAIN b = DOMAIN a
  BY <1>8
<1>10. ASSUME NEW r \in DOMAIN a
       PROVE  /\ b[r] \in Answers /\ b[r].term = a[r].term /\ (r # i => b[r] = a[r])
              /\ b[r].pages = a[r].pages \/ b[r].pages = index[a[r].term]
              /\ r = i /\ ok => b[r].pages = index[a[r].term] \/ index[a[r].term] = <<>>
  <2>1. a[r] \in Answers /\ index[a[r].term] \in Seq(Pages) /\ a[r] = [term |-> a[r].term, pages |-> a[r].pages]
    BY <1>4, <1>6 DEF Answers
  <2>2. r # i => b[r] = a[r]
    BY <1>8
  <2>3. b[i] = a[i] \/ (i \in DOMAIN a => b[i] = [a[i] EXCEPT !.pages = index[a[i].term]])
    BY <1>8
  <2>4. CASE r = i
    <3>1. b[r] = a[r] \/ b[r] = [a[r] EXCEPT !.pages = index[a[r].term]]
      BY <2>3, <2>4
    <3>2. CASE ok /\ index[a[r].term] # <<>>
      <4>1. answer' = [answer EXCEPT ![o][m][i].pages = index[answer[o][m][i].term]]
        BY <2>4, <3>2 DEF ReadTerm
      <4>2. b = [a EXCEPT ![i].pages = index[a[i].term]]
        BY <1>4, <4>1
      <4>3. b[r] = [a[r] EXCEPT !.pages = index[a[r].term]]
        BY <2>4, <4>2
      <4>4. QED BY <2>1, <2>2, <4>3 DEF Answers
    <3>3. QED BY <2>1, <2>2, <2>4, <3>1, <3>2 DEF Answers
  <2>5. CASE r # i
    BY <2>1, <2>2, <2>5 DEF Answers
  <2>6. QED BY <2>4, <2>5
<1>11. b \in Seq(Answers)
  <2>1. \A r \in 1..Len(a) : b[r] \in Answers
    BY <1>6, <1>10
  <2>2. b = [r \in 1..Len(a) |-> b[r]]
    <3>1. a = [r \in 1..Len(a) |-> a[r]]
      BY <1>6
    <3>2. QED BY <1>6, <1>8, <3>1
  <2>3. Len(a) \in Nat
    BY <1>6
  <2> HIDE DEF a, b
  <2>4. QED BY <2>1, <2>2, <2>3
<1>12. answer' \in [Ops -> [Nodes -> Seq(Answers)]]
  <2>1. \A x \in Ops, n \in Nodes : answer'[x][n] \in Seq(Answers)
    BY <1>4, <1>8, <1>11
  <2>2. QED BY <1>8, <2>1
<1>13. /\ unread' \in [Ops -> [Nodes -> SUBSET Nat]] /\ unread'[o][m] = unread[o][m] \ {i}
       /\ \A x \in Ops, n \in Nodes : x # o \/ n # m => unread'[x][n] = unread[x][n]
  BY <1>4, <1>5
<1> HIDE DEF a, b
<1>14. TypesOK'
  BY <1>1, <1>2, <1>3, <1>12, <1>13 DEF TypesOK
<1>15. IndexOK' /\ GotOK'
  BY <1>1, <1>2, <1>3 DEF IndexOK, Stored, GotOK
<1>16. ASSUME NEW x \in Ops PROVE CountsOK(x)'
  BY <1>1, <1>2, <1>3 DEF CountsOK
<1>17. ASSUME NEW x \in Ops PROVE AnswersOK(x)'
  <2>1. AnswersOK(x) /\ index' = index /\ before' = before /\ call' = call /\ results' = results
    BY <1>1, <1>2
  <2>2. ASSUME NEW n \in Nodes, NEW r \in DOMAIN answer'[x][n]
        PROVE  LET t == answer'[x][n][r].term
                   pages == answer'[x][n][r].pages
               IN /\ TermHome[t] = n /\ t \in ToSet(x.want) /\ n \in Targeted(x) /\ x.kind # "gather"
                  /\ pages # Absent => Stored(t, pages)
                  /\ r \notin unread'[x][n] /\ ~Faulty => ToSet(before[x][t]) \subseteq Known(pages)
    <3>1. CASE x = o /\ n = m
      <4>1. r \in DOMAIN a /\ answer'[x][n][r] = b[r]
        BY <1>9, <2>2, <3>1 DEF b
      <4> DEFINE t == a[r].term
      <4>2. /\ TermHome[t] = m /\ t \in ToSet(o.want) /\ m \in Targeted(o) /\ o.kind # "gather" /\ t \in AllTerms
            /\ a[r].pages # Absent => Stored(t, a[r].pages)
            /\ r \notin unread[o][m] /\ ~Faulty => ToSet(before[o][t]) \subseteq Known(a[r].pages)
        BY <1>1, <1>6, <4>1 DEF AnswersOK, AnswerOK, a, Answers
      <4>3. Stored(t, index[t]) /\ ToSet(before[o][t]) \subseteq ToSet(index[t]) /\ index[t] # Absent
        <5>1. index[t] \in Seq(Pages) /\ Injective(index[t]) /\ ToSet(before[o][t]) \subseteq ToSet(index[t])
          BY <1>1, <1>4, <4>2 DEF IndexOK
        <5>2. QED BY <1>1, <5>1, PlanFacts DEF Stored
      <4>4. b[r].pages # Absent => Stored(t, b[r].pages)
        BY <1>10, <4>1, <4>2, <4>3
      <4>5. ASSUME r \notin unread'[o][m], ~Faulty PROVE ToSet(before[o][t]) \subseteq Known(b[r].pages)
        <5>1. CASE r = i
          <6>1. ok
            BY <1>5, <4>5
          <6>2. CASE b[r].pages = index[t]
            BY <4>3, <6>2 DEF Known
          <6>3. CASE index[t] = <<>>
            <7>1. ToSet(index[t]) = {}
              <8> DEFINE empty == <<>>
              <8>1. DOMAIN empty = {}
                OBVIOUS
              <8> HIDE DEF empty
              <8>2. ToSet(empty) = {}
                BY <8>1 DEF ToSet
              <8>3. QED BY <6>3, <8>2 DEF empty
            <7>2. QED BY <4>3, <7>1
          <6>4. QED BY <1>10, <4>1, <5>1, <6>1, <6>2, <6>3
        <5>2. CASE r # i
          <6>1. r \notin unread[o][m] /\ b[r] = a[r]
            BY <1>10, <1>13, <4>1, <4>5, <5>2
          <6>2. QED BY <4>2, <4>5, <6>1
        <5>3. QED BY <5>1, <5>2
      <4>6. b[r].term = t
        BY <1>10, <4>1
      <4>7. QED BY <3>1, <4>1, <4>2, <4>4, <4>5, <4>6
    <3>2. CASE x # o \/ n # m
      <4>1. answer'[x][n] = answer[x][n] /\ unread'[x][n] = unread[x][n]
        BY <1>8, <1>13, <3>2
      <4>2. QED BY <2>1, <2>2, <4>1 DEF AnswersOK, AnswerOK
    <3>3. QED BY <3>1, <3>2
  <2>3. ASSUME NEW n \in Nodes, call[x][n] = "replied" \/ n \in results[x] PROVE unread'[x][n] = {}
    <3>1. unread[x][n] = {}
      BY <2>3, CallsSettled
    <3>2. unread'[x][n] = unread[x][n] \/ unread'[x][n] = unread[x][n] \ {i}
      BY <1>13
    <3>3. QED BY <3>1, <3>2
  <2>4. ASSUME NEW n \in Nodes, NEW r \in DOMAIN answer'[x][n] PROVE AnswerOK(x, n, r)'
    <3> DEFINE t == answer'[x][n][r].term
               pages == answer'[x][n][r].pages
    <3>1. /\ TermHome[t] = n /\ t \in ToSet(x.want) /\ n \in Targeted(x) /\ x.kind # "gather"
          /\ pages # Absent => Stored(t, pages)
          /\ r \notin unread'[x][n] /\ ~Faulty => ToSet(before[x][t]) \subseteq Known(pages)
      BY <2>2, <2>4
    <3>2. Targeted(x)' = Targeted(x)
      BY <2>1 DEF Targeted
    <3>3. pages # Absent => pages \in Seq(Pages) /\ Injective(pages) /\ ToSet(pages) \subseteq ToSet(index'[t])
      BY <2>1, <3>1 DEF Stored
    <3>4. Faulty' = Faulty
      BY <1>3
    <3>5. r \notin unread'[x][n] /\ ~Faulty' => ToSet(before'[x][t]) \subseteq Known(pages)
      BY <2>1, <3>1, <3>4
    <3>6. QED BY <3>1, <3>2, <3>3, <3>5 DEF AnswerOK, Stored
  <2>5. QED BY <1>3, <2>1, <2>3, <2>4 DEF AnswersOK
<1>18. ASSUME NEW x \in Ops PROVE FoundOK(x)'
  <2>1. FoundOK(x) /\ index' = index /\ before' = before /\ results' = results /\ found' = found /\ arrived' = arrived /\ opened' = opened
    BY <1>1, <1>2
  <2>2. \A n \in Nodes : DOMAIN answer'[x][n] = DOMAIN answer[x][n]
    BY <1>8, <1>9 DEF a, b
  <2>3. \A n \in Nodes : \A r \in DOMAIN answer[x][n] : answer'[x][n][r].term = answer[x][n][r].term
    BY <1>8, <1>10 DEF a, b
  <2>4. results[x] \subseteq Nodes
    BY <1>1 DEF TypesOK
  <2>5. ASSUME x \in opened, x.kind = "query", NEW t \in ToSet(x.want)
        PROVE  \E r \in DOMAIN answer'[x][TermHome[t]] : answer'[x][TermHome[t]][r].term = t
    <3>1. Operation(x)
      BY <1>1, PlanFacts
    <3>2. t \in AllTerms
      BY <3>1 DEF Operation, ToSet
    <3>3. TermHome[t] \in Nodes
      BY <1>1, <3>2, PlanFacts
    <3>4. PICK r \in DOMAIN answer[x][TermHome[t]] : answer[x][TermHome[t]][r].term = t
      BY <2>1, <2>5 DEF FoundOK
    <3>5. QED BY <2>2, <2>3, <3>3, <3>4
  <2>6. ASSUME NEW n \in results[x], NEW r \in DOMAIN answer'[x][n]
        PROVE  LET t == answer'[x][n][r].term
               IN /\ ~Faulty => ToSet(before[x][t]) \subseteq Known(found[x][t])
                  /\ x.kind = "query" => t \in ToSet(arrived[x])
    <3>1. n \in Nodes /\ r \in DOMAIN answer[x][n] /\ answer'[x][n][r].term = answer[x][n][r].term
      BY <2>2, <2>3, <2>4, <2>6
    <3>2. QED BY <2>1, <2>6, <3>1 DEF FoundOK
  <2>7. QED BY <1>3, <2>1, <2>5, <2>6 DEF FoundOK, Stored
<1>19. QED BY <1>3, <1>14, <1>15, <1>16, <1>17, <1>18 DEF IInv

\* The index of a term grows by a page that has the term.
LEMMA GrowStep ==
  ASSUME IInv, NEW t \in AllTerms, NEW p \in Pages, Grow(t, p)
  PROVE  IInv'
<1>1. TypesOK /\ IndexOK /\ GotOK /\ \A x \in Ops : CountsOK(x) /\ AnswersOK(x) /\ FoundOK(x)
  BY DEF IInv
<1>2. UNCHANGED <<plan, delivered, opened, call, heard, active, errors, results, called, got, cache, found, arrived,
                  node, unread, answer, before>>
  BY DEF Grow, gather, status
<1>3. Ops' = Ops /\ Faulty' = Faulty /\ \A x \in Ops : Targeted(x)' = Targeted(x)
  BY <1>2 DEF Ops, Faulty, Targeted
<1>4. index \in [AllTerms -> Seq(Pages)] /\ index' = [index EXCEPT ![t] = Append(@, p)]
  BY <1>1 DEF TypesOK, Grow
<1>5. t \in Terms(p) /\ p \notin ToSet(index[t])
  BY DEF Grow
<1> DEFINE s == index[t]
           e == Append(s, p)
<1>6. /\ s \in Seq(Pages) /\ e \in Seq(Pages) /\ Len(s) \in Nat /\ Len(e) = Len(s) + 1 /\ e[Len(s) + 1] = p
      /\ DOMAIN s = 1..Len(s) /\ DOMAIN e = 1..(Len(s) + 1) /\ \A i \in 1..Len(s) : e[i] = s[i]
  <2>1. s \in Seq(Pages)
    BY <1>4
  <2> HIDE DEF s
  <2>2. QED BY <2>1
<1>7. index' \in [AllTerms -> Seq(Pages)] /\ index'[t] = e /\ \A u \in AllTerms : u # t => index'[u] = index[u]
  <2> HIDE DEF s
  <2>1. QED BY <1>4, <1>6 DEF s
<1> HIDE DEF s, e
<1>8. \A i \in DOMAIN e : i = Len(s) + 1 \/ i \in 1..Len(s)
  BY <1>6
<1>9. ToSet(e) = ToSet(s) \cup {p}
  <2>1. Len(s) + 1 \in DOMAIN e /\ \A i \in 1..Len(s) : i \in DOMAIN e
    BY <1>6
  <2>2. QED BY <1>6, <1>8, <2>1 DEF ToSet
<1>10. Injective(e)
  <2>1. Injective(s)
    BY <1>1 DEF IndexOK, s
  <2>2. \A i \in 1..Len(s) : s[i] # p
    BY <1>5, <1>6 DEF ToSet, s
  <2>3. QED BY <1>6, <1>8, <2>1, <2>2 DEF Injective
<1>11. \A u \in AllTerms : ToSet(index[u]) \subseteq ToSet(index'[u])
  BY <1>7, <1>9 DEF s
<1>12. IndexOK'
  <2>1. ASSUME NEW u \in AllTerms
        PROVE  /\ Injective(index'[u]) /\ \A q \in ToSet(index'[u]) : u \in Terms(q)
               /\ cache[u] # NotCached => cache[u] \in Seq(Pages) /\ Injective(cache[u]) /\ ToSet(cache[u]) \subseteq ToSet(index'[u])
    <3>1. /\ Injective(index[u]) /\ \A q \in ToSet(index[u]) : u \in Terms(q)
          /\ cache[u] # NotCached => cache[u] \in Seq(Pages) /\ Injective(cache[u]) /\ ToSet(cache[u]) \subseteq ToSet(index[u])
      BY <1>1 DEF IndexOK, Stored
    <3>2. CASE u = t
      BY <1>5, <1>7, <1>9, <1>10, <1>11, <3>1, <3>2 DEF s
    <3>3. CASE u # t
      BY <1>7, <3>1, <3>3
    <3>4. QED BY <3>2, <3>3
  <2>2. \A o \in Ops : \A u \in AllTerms : ToSet(before[o][u]) \subseteq ToSet(index'[u])
    BY <1>1, <1>11 DEF IndexOK
  <2>3. QED BY <1>2, <1>3, <2>1, <2>2 DEF IndexOK, Stored
<1>13. TypesOK' /\ GotOK'
  BY <1>1, <1>2, <1>3, <1>7 DEF TypesOK, GotOK
<1>14. IndexGrows
  BY <1>11 DEF IndexGrows
<1>15. ASSUME NEW x \in Ops PROVE CountsOK(x)' /\ AnswersOK(x)' /\ FoundOK(x)'
  <2>1. TypesOK /\ CountsOK(x) /\ AnswersOK(x) /\ FoundOK(x)
    BY <1>1
  <2>2. /\ heard'[x] = heard[x] /\ active'[x] = active[x] /\ errors'[x] = errors[x] /\ results'[x] = results[x]
        /\ called'[x] = called[x] /\ (x \in opened' <=> x \in opened) /\ answer'[x] = answer[x]
        /\ unread'[x] = unread[x] /\ before'[x] = before[x] /\ found'[x] = found[x] /\ arrived'[x] = arrived[x]
        /\ Targeted(x)' = Targeted(x) /\ Faulty' = Faulty
    BY <1>2, <1>3
  <2>3. \A n \in Nodes : /\ call'[x][n] = "over" => n \in heard[x]
                         /\ call'[x][n] = "replied" \/ n \in results'[x] => unread[x][n] = {}
    BY <1>2, CallsSettled
  <2>4. CountsOK(x)'
    BY <2>1, <2>2, <2>3, CountsFrame
  <2>5. AnswersOK(x)'
    BY <1>14, <2>1, <2>2, <2>3, AnswersFrame
  <2>6. FoundOK(x)'
    BY <1>14, <2>1, <2>2, FoundFrame
  <2>7. QED BY <2>4, <2>5, <2>6
<1>16. QED BY <1>3, <1>12, <1>13, <1>15 DEF IInv

\* The batches of an operation hold the terms it looks for, each at its home.
LEMMA BatchFacts ==
  ASSUME TypesOK, NEW o \in Ops, NEW m \in Nodes
  PROVE  /\ Batch(o, m) \in Seq(AllTerms)
         /\ ToSet(Batch(o, m)) = {t \in Misses(o) : TermHome[t] = m} /\ Misses(o) \subseteq ToSet(o.want)
<1>1. o.want \in Seq(AllTerms)
  BY PlanFacts DEF Operation
<1> DEFINE S == {t \in Misses(o) : TermHome[t] = m}
           want == o.want
<1>2. Misses(o) \subseteq ToSet(want) /\ Batch(o, m) = Only(want, S)
  BY DEF Misses, Batch
<1>3. S \subseteq ToSet(want)
  BY <1>2
<1> HIDE DEF S, want
<1>4. want \in Seq(AllTerms)
  BY <1>1 DEF want
<1>5. Only(want, S) \in Seq(AllTerms) /\ ToSet(Only(want, S)) = ToSet(want) \cap S
  BY <1>4, OnlyFacts
<1>6. QED BY <1>2, <1>3, <1>5 DEF S, want

\* An operation opens with a batch for each of its nodes, nothing answered.
LEMMA OpenStep ==
  ASSUME IInv, NEW o \in Ops, Open(o)
  PROVE  IInv'
<1> DEFINE targets == Targets(o)
           thrown == {m \in targets : Throws(o, m)}
           keys == [m \in Nodes |-> IF o.kind = "gather" THEN <<>> ELSE Batch(o, m)]
<1>1. TypesOK /\ IndexOK /\ GotOK /\ \A x \in Ops : CountsOK(x) /\ AnswersOK(x) /\ FoundOK(x)
  BY DEF IInv
<1>2. /\ o \notin opened /\ opened' = opened \cup {o}
      /\ call' = [call EXCEPT ![o] = [m \in Nodes |->
                    IF m \notin targets THEN "none" ELSE IF m \in thrown THEN "over"
                    ELSE IF m = Self THEN "handling" ELSE "sent"]]
      /\ heard' = [heard EXCEPT ![o] = thrown] /\ errors' = [errors EXCEPT ![o] = thrown]
      /\ active' = [active EXCEPT ![o] = Cardinality(targets) - Cardinality(thrown)]
      /\ called' = [called EXCEPT ![o] = IF targets = thrown THEN 1 ELSE 0]
      /\ unread' = [unread EXCEPT ![o] = [m \in Nodes |-> 1..Len(keys[m])]]
      /\ answer' = [answer EXCEPT ![o] = [m \in Nodes |-> [i \in 1..Len(keys[m]) |->
                      [term |-> keys[m][i], pages |-> Absent]]]]
      /\ found' = [found EXCEPT ![o] = [t \in AllTerms |->
                     IF t \in ToSet(o.want) /\ o.kind = "lookup" /\ cache[t] # NotCached THEN cache[t] ELSE Absent]]
      /\ before' = [before EXCEPT ![o] = index]
      /\ UNCHANGED <<plan, delivered, results, got, cache, arrived, node, index>>
  BY DEF Open, status
<1>3. Ops' = Ops /\ Faulty' = Faulty /\ Operation(o) /\ IsFiniteSet(Nodes)
  BY <1>1, <1>2, PlanFacts DEF Ops, Faulty
<1>4. targets \subseteq Nodes /\ thrown \subseteq targets /\ (o.kind = "gather" => targets = o.targets)
      /\ (o.kind # "gather" => thrown = {} /\ targets = {m \in Nodes : Batch(o, m) # <<>>})
  BY <1>3 DEF Operation, Targets, Throws
<1>5. ASSUME NEW m \in Nodes
      PROVE  /\ keys[m] \in Seq(AllTerms) /\ DOMAIN keys[m] = 1..Len(keys[m]) /\ Len(keys[m]) \in Nat
             /\ \A i \in 1..Len(keys[m]) : /\ keys[m][i] \in AllTerms /\ keys[m][i] \in ToSet(o.want)
                                           /\ TermHome[keys[m][i]] = m /\ o.kind # "gather" /\ m \in targets
             /\ o.kind = "query" => \A t \in ToSet(o.want) : TermHome[t] = m => \E i \in 1..Len(keys[m]) : keys[m][i] = t
  <2> DEFINE k == keys[m]
             empty == <<>>
  <2>1. empty \in Seq(AllTerms) /\ Len(empty) = 0
    OBVIOUS
  <2>2. k = IF o.kind = "gather" THEN empty ELSE Batch(o, m)
    OBVIOUS
  <2>3. /\ Batch(o, m) \in Seq(AllTerms)
        /\ ToSet(Batch(o, m)) = {t \in Misses(o) : TermHome[t] = m} /\ Misses(o) \subseteq ToSet(o.want)
    BY <1>1, BatchFacts
  <2>4. \A s \in Seq(AllTerms) : Len(s) > 0 => s # empty
    BY <2>1
  <2> HIDE DEF k, empty
  <2>5. k \in Seq(AllTerms) /\ DOMAIN k = 1..Len(k) /\ Len(k) \in Nat
    BY <2>1, <2>2, <2>3
  <2>6. ASSUME NEW i \in 1..Len(k)
        PROVE  /\ k[i] \in AllTerms /\ k[i] \in ToSet(o.want) /\ TermHome[k[i]] = m /\ o.kind # "gather" /\ m \in targets
    <3>1. o.kind # "gather" /\ k = Batch(o, m)
      BY <2>1, <2>2, <2>6
    <3>2. k[i] \in ToSet(Batch(o, m)) /\ k[i] \in AllTerms /\ k # empty
      BY <2>4, <2>5, <2>6, <3>1 DEF ToSet
    <3>3. m \in targets
      BY <1>4, <3>1, <3>2 DEF empty
    <3>4. QED BY <2>3, <3>1, <3>2, <3>3
  <2>7. ASSUME o.kind = "query", NEW t \in ToSet(o.want), TermHome[t] = m PROVE \E i \in 1..Len(k) : k[i] = t
    <3>1. k = Batch(o, m) /\ t \in Misses(o)
      BY <2>2, <2>7 DEF Misses
    <3>2. t \in ToSet(k)
      BY <2>3, <2>7, <3>1
    <3>3. QED BY <2>5, <3>2 DEF ToSet
  <2>8. QED BY <2>5, <2>6, <2>7 DEF k
<1> HIDE DEF targets, thrown, keys
<1>6. /\ call \in [Ops -> [Nodes -> CallStates]] /\ heard \in [Ops -> SUBSET Nodes] /\ errors \in [Ops -> SUBSET Nodes]
      /\ active \in [Ops -> Int] /\ called \in [Ops -> Int] /\ unread \in [Ops -> [Nodes -> SUBSET Nat]]
      /\ answer \in [Ops -> [Nodes -> Seq(Answers)]] /\ index \in [AllTerms -> Seq(Pages)]
      /\ before \in [Ops -> [AllTerms -> Seq(Pages)]] /\ cache \in [AllTerms -> Seq(Pages) \cup {NotCached}]
      /\ found \in [Ops -> [AllTerms -> Seq(Pages) \cup {Absent}]]
  BY <1>1 DEF TypesOK
<1>7. \A m \in Nodes : /\ call'[o][m] = IF m \notin targets THEN "none" ELSE IF m \in thrown THEN "over"
                                        ELSE IF m = Self THEN "handling" ELSE "sent"
                       /\ unread'[o][m] = 1..Len(keys[m])
                       /\ answer'[o][m] = [i \in 1..Len(keys[m]) |-> [term |-> keys[m][i], pages |-> Absent]]
  BY <1>2, <1>6
<1>8. /\ heard'[o] = thrown /\ errors'[o] = thrown /\ active'[o] = Cardinality(targets) - Cardinality(thrown)
      /\ called'[o] = (IF targets = thrown THEN 1 ELSE 0) /\ before'[o] = index
      /\ \A t \in AllTerms : found'[o][t] =
           IF t \in ToSet(o.want) /\ o.kind = "lookup" /\ cache[t] # NotCached THEN cache[t] ELSE Absent
  BY <1>2, <1>6
<1>9. \A x \in Ops : x # o =>
        /\ call'[x] = call[x] /\ heard'[x] = heard[x] /\ errors'[x] = errors[x] /\ active'[x] = active[x]
        /\ called'[x] = called[x] /\ unread'[x] = unread[x] /\ answer'[x] = answer[x] /\ found'[x] = found[x]
        /\ before'[x] = before[x] /\ (x \in opened' <=> x \in opened)
  BY <1>2, <1>6
<1>10. results[o] = {} /\ results'[o] = {}
  BY <1>1, <1>2 DEF CountsOK
<1>11. Targeted(o)' = targets /\ \A x \in Ops : x # o => Targeted(x)' = Targeted(x)
  <2>1. \A m \in Nodes : call'[o][m] # "none" <=> m \in targets
    BY <1>7
  <2>2. Targeted(o)' = {m \in Nodes : call'[o][m] # "none"}
    BY DEF Targeted
  <2>3. Targeted(o)' = targets
    BY <1>4, <2>1, <2>2
  <2>4. \A x \in Ops : x # o => Targeted(x)' = Targeted(x)
    BY <1>9 DEF Targeted
  <2>5. QED BY <2>3, <2>4
<1>12. Cardinality(targets) \in Nat /\ Cardinality(thrown) \in Nat /\ (Cardinality(targets) = Cardinality(thrown) => targets = thrown)
  <2>1. IsFiniteSet(targets) /\ IsFiniteSet(thrown)
    BY <1>3, <1>4, FS_Subset
  <2>2. QED BY <1>4, <2>1, FS_Subset, FS_CardinalityType
<1>13. TypesOK'
  <2>1. call' \in [Ops -> [Nodes -> CallStates]]
    <3>1. [m \in Nodes |-> IF m \notin targets THEN "none" ELSE IF m \in thrown THEN "over"
                           ELSE IF m = Self THEN "handling" ELSE "sent"] \in [Nodes -> CallStates]
      BY DEF CallStates
    <3>2. QED BY <1>2, <1>6, <3>1
  <2>2. unread' \in [Ops -> [Nodes -> SUBSET Nat]]
    <3>1. \A m \in Nodes : 1..Len(keys[m]) \in SUBSET Nat
      BY <1>5
    <3>2. QED BY <1>2, <1>6, <3>1
  <2>3. answer' \in [Ops -> [Nodes -> Seq(Answers)]]
    <3>1. ASSUME NEW m \in Nodes PROVE [i \in 1..Len(keys[m]) |-> [term |-> keys[m][i], pages |-> Absent]] \in Seq(Answers)
      <4> DEFINE n == Len(keys[m])
      <4>1. n \in Nat /\ \A i \in 1..n : [term |-> keys[m][i], pages |-> Absent] \in Answers
        BY <1>5 DEF Answers
      <4> HIDE DEF n
      <4>2. [i \in 1..n |-> [term |-> keys[m][i], pages |-> Absent]] \in Seq(Answers)
        BY <4>1
      <4>3. QED BY <4>2 DEF n
    <3>2. [m \in Nodes |-> [i \in 1..Len(keys[m]) |-> [term |-> keys[m][i], pages |-> Absent]]] \in [Nodes -> Seq(Answers)]
      BY <3>1
    <3>3. QED BY <1>2, <1>6, <3>2
  <2>4. found' \in [Ops -> [AllTerms -> Seq(Pages) \cup {Absent}]]
    BY <1>2, <1>6
  <2>5. before' \in [Ops -> [AllTerms -> Seq(Pages)]]
    BY <1>2, <1>6
  <2>6. heard' \in [Ops -> SUBSET Nodes] /\ errors' \in [Ops -> SUBSET Nodes]
    BY <1>2, <1>4, <1>6
  <2>7. active' \in [Ops -> Int] /\ called' \in [Ops -> Int]
    BY <1>2, <1>6, <1>12
  <2>8. QED BY <1>1, <1>2, <1>3, <2>1, <2>2, <2>3, <2>4, <2>5, <2>6, <2>7 DEF TypesOK
<1>14. IndexOK'
  <2>1. \A x \in Ops : \A t \in AllTerms : ToSet(before'[x][t]) \subseteq ToSet(index[t])
    BY <1>1, <1>8, <1>9 DEF IndexOK
  <2>2. index' = index /\ cache' = cache
    BY <1>2
  <2>3. QED BY <1>1, <1>3, <2>1, <2>2 DEF IndexOK, Stored
<1>15. GotOK'
  BY <1>1, <1>2, <1>3 DEF GotOK
<1>16. ASSUME NEW x \in Ops PROVE CountsOK(x)'
  <2>1. CASE x = o
    <3>1. o \in opened' /\ results'[o] = {} /\ errors'[o] \cup results'[o] = thrown
      BY <1>2, <1>8, <1>10
    <3>2. active'[o] = Cardinality(targets) - Cardinality(thrown) /\ (active'[o] = 0 <=> targets = thrown)
      BY <1>8, <1>12
    <3>3. \A m \in Nodes : call'[o][m] = "over" => m \in thrown
      BY <1>7
    <3>4. QED BY <1>4, <1>8, <1>11, <2>1, <3>1, <3>2, <3>3 DEF CountsOK
  <2>2. CASE x # o
    <3>1. results'[x] = results[x] /\ CountsOK(x)
      BY <1>1, <1>2
    <3>2. QED BY <1>9, <1>11, <2>2, <3>1 DEF CountsOK
  <2>3. QED BY <2>1, <2>2
<1>17. ASSUME NEW x \in Ops PROVE AnswersOK(x)'
  <2>1. CASE x = o
    <3>1. ASSUME NEW m \in Nodes, NEW r \in DOMAIN answer'[o][m]
          PROVE  LET t == answer'[o][m][r].term
                 IN /\ TermHome[t] = m /\ t \in ToSet(o.want) /\ m \in targets /\ o.kind # "gather"
                    /\ answer'[o][m][r].pages = Absent /\ r \in unread'[o][m]
      <4>1. answer'[o][m] = [i \in 1..Len(keys[m]) |-> [term |-> keys[m][i], pages |-> Absent]]
        BY <1>7
      <4>2. r \in 1..Len(keys[m]) /\ answer'[o][m][r] = [term |-> keys[m][r], pages |-> Absent]
        BY <3>1, <4>1
      <4>3. answer'[o][m][r].term = keys[m][r] /\ answer'[o][m][r].pages = Absent
        BY <4>2
      <4> DEFINE n == Len(keys[m])
      <4>6. unread'[o][m] = 1..n
        BY <1>7
      <4> HIDE DEF n
      <4>7. r \in 1..n
        BY <4>2 DEF n
      <4>8. r \in unread'[o][m]
        BY <4>6, <4>7
      <4>4. TermHome[keys[m][r]] = m /\ keys[m][r] \in ToSet(o.want) /\ m \in targets /\ o.kind # "gather"
        BY <1>5, <4>2
      <4>5. QED BY <4>3, <4>4, <4>8
    <3>2. ASSUME NEW m \in Nodes PROVE call'[o][m] # "replied" /\ m \notin results'[o]
      BY <1>7, <1>10
    <3>3. QED BY <1>11, <2>1, <3>1, <3>2 DEF AnswersOK, AnswerOK
  <2>2. CASE x # o
    <3>1. results' = results /\ index' = index /\ AnswersOK(x)
      BY <1>1, <1>2
    <3>2. IndexGrows
      BY <3>1 DEF IndexGrows
    <3>3. \A m \in Nodes : call'[x][m] = "replied" \/ m \in results'[x] => unread[x][m] = {}
      BY <1>9, <2>2, <3>1, CallsSettled
    <3>4. QED BY <1>1, <1>3, <1>9, <1>11, <2>2, <3>1, <3>2, <3>3, AnswersFrame
  <2>3. QED BY <2>1, <2>2
<1>18. ASSUME NEW x \in Ops PROVE FoundOK(x)'
  <2>1. CASE x = o
    <3>1. \A t \in AllTerms : found'[o][t] # Absent => Stored(t, found'[o][t])
      BY <1>1, <1>8 DEF IndexOK
    <3>2. index' = index /\ arrived' = arrived /\ FoundOK(o)
      BY <1>1, <1>2
    <3>3. ASSUME o.kind = "query", NEW t \in ToSet(o.want)
          PROVE  \E r \in DOMAIN answer'[o][TermHome[t]] : answer'[o][TermHome[t]][r].term = t
      <4>1. t \in AllTerms
        BY <1>3 DEF Operation, ToSet
      <4>2. TermHome[t] \in Nodes
        BY <1>1, <4>1, PlanFacts
      <4>3. PICK i \in 1..Len(keys[TermHome[t]]) : keys[TermHome[t]][i] = t
        BY <1>5, <3>3, <4>2
      <4> DEFINE m == TermHome[t]
      <4> HIDE DEF m
      <4>4. answer'[o][m] = [j \in 1..Len(keys[m]) |-> [term |-> keys[m][j], pages |-> Absent]]
        BY <1>7, <4>2 DEF m
      <4>5. i \in DOMAIN answer'[o][m] /\ answer'[o][m][i].term = t
        BY <4>3, <4>4 DEF m
      <4>6. QED BY <4>5 DEF m
    <3>4. QED BY <1>10, <2>1, <3>1, <3>2, <3>3 DEF FoundOK, Stored
  <2>2. CASE x # o
    <3>1. results' = results /\ index' = index /\ arrived' = arrived /\ FoundOK(x)
      BY <1>1, <1>2
    <3>2. IndexGrows
      BY <3>1 DEF IndexGrows
    <3>3. /\ found'[x] = found[x] /\ answer'[x] = answer[x] /\ before'[x] = before[x]
          /\ x \in opened' <=> x \in opened
      BY <1>9, <2>2
    <3>4. Faulty' = Faulty /\ arrived'[x] = arrived[x] /\ results'[x] = results[x]
      BY <1>3, <3>1
    <3>5. QED BY <3>1, <3>2, <3>3, <3>4, FoundFrame
  <2>3. QED BY <2>1, <2>2
<1>19. QED BY <1>3, <1>13, <1>14, <1>15, <1>16, <1>17, <1>18 DEF IInv

----------------------------------------------------------------------------
(* The theorems *)

\* Before the first operation nothing is called, read or found.
LEMMA InitStep ==
  ASSUME Init
  PROVE  IInv
<1> DEFINE empty == <<>>
<1>1. /\ plan \in Plans /\ delivered = Deserialize(Serialize(plan.payload)) /\ opened = {}
      /\ call = [o \in Ops |-> [m \in Nodes |-> "none"]]
      /\ heard = [o \in Ops |-> {}] /\ active = [o \in Ops |-> 0]
      /\ errors = [o \in Ops |-> {}] /\ results = [o \in Ops |-> {}] /\ called = [o \in Ops |-> 0]
      /\ node = [m \in Nodes |-> "up"]
      /\ unread = [o \in Ops |-> [m \in Nodes |-> {}]]
      /\ answer = [o \in Ops |-> [m \in Nodes |-> empty]] /\ got = [o \in Ops |-> [m \in Nodes |-> None]]
      /\ index = [t \in AllTerms |-> empty] /\ cache = [t \in AllTerms |-> NotCached]
      /\ found = [o \in Ops |-> [t \in AllTerms |-> Absent]] /\ arrived = [o \in Ops |-> empty]
      /\ before = [o \in Ops |-> index]
  BY DEF Init, None
<1>2. \A S : empty \in Seq(S)
  OBVIOUS
<1>3. ToSet(empty) = {} /\ DOMAIN empty = {} /\ Injective(empty)
  <2>1. DOMAIN empty = {} /\ Len(empty) = 0
    OBVIOUS
  <2>2. QED BY <2>1 DEF ToSet, Injective
<1> HIDE DEF empty
<1>4. TypesOK
  <2>1. index \in [AllTerms -> Seq(Pages)]
    BY <1>1, <1>2
  <2>2. answer \in [Ops -> [Nodes -> Seq(Answers)]] /\ arrived \in [Ops -> Seq(AllTerms)]
    BY <1>1, <1>2
  <2>3. call \in [Ops -> [Nodes -> CallStates]]
    BY <1>1 DEF CallStates
  <2>4. QED BY <1>1, <2>1, <2>2, <2>3 DEF TypesOK
<1>5. IndexOK
  <2>1. ASSUME NEW t \in AllTerms
        PROVE  Injective(index[t]) /\ (\A p \in ToSet(index[t]) : t \in Terms(p)) /\ cache[t] = NotCached
    BY <1>1, <1>3
  <2>2. \A o \in Ops : \A t \in AllTerms : ToSet(before[o][t]) \subseteq ToSet(index[t])
    BY <1>1
  <2>3. QED BY <2>1, <2>2 DEF IndexOK
<1>6. GotOK
  BY <1>1 DEF GotOK
<1>7. ASSUME NEW o \in Ops PROVE CountsOK(o)
  <2>1. Targeted(o) = {} /\ Cardinality({}) = 0
    BY <1>1, FS_EmptySet DEF Targeted
  <2>2. heard[o] = {} /\ errors[o] = {} /\ results[o] = {} /\ active[o] = 0 /\ called[o] = 0
    BY <1>1
  <2>3. errors[o] \cup results[o] = {}
    BY <2>2
  <2>4. \A m \in Nodes : call[o][m] # "over"
    BY <1>1
  <2>5. QED BY <1>1, <2>1, <2>2, <2>3, <2>4 DEF CountsOK
<1>8. ASSUME NEW o \in Ops PROVE AnswersOK(o) /\ FoundOK(o)
  <2>1. \A m \in Nodes : answer[o][m] = empty /\ unread[o][m] = {} /\ DOMAIN answer[o][m] = {}
    BY <1>1, <1>3
  <2>2. results[o] = {} /\ ToSet(arrived[o]) = {} /\ \A t \in AllTerms : found[o][t] = Absent
    BY <1>1, <1>3
  <2>3. QED BY <1>1, <2>1, <2>2 DEF AnswersOK, AnswerOK, FoundOK
<1>9. QED BY <1>4, <1>5, <1>6, <1>7, <1>8 DEF IInv

\* Every step keeps the invariant.
LEMMA NextStep ==
  ASSUME IInv, [Next]_vars
  PROVE  IInv'
<1>1. ASSUME NEW o \in Ops, NEW m \in Nodes, Serve(o, m) PROVE IInv'
  <2>1. CASE Arrive(o, m)
    BY <2>1, ArriveStep
  <2>2. CASE \E i \in unread[o][m], ok \in BOOLEAN : ReadTerm(o, m, i, ok)
    BY <2>2, ReadTermStep
  <2>3. CASE \E outcome \in {"replied", "refused", "stuck"} : Return(o, m, outcome)
    BY <2>3, ReturnStep
  <2>4. CASE Respond(o, m)
    BY <2>4, RespondStep
  <2>5. QED BY <1>1, <2>1, <2>2, <2>3, <2>4 DEF Serve
<1>2. CASE \E o \in Ops : Open(o)
  BY <1>2, OpenStep
<1>3. CASE \E o \in Ops, m \in Nodes : TimeOut(o, m) \/ Serve(o, m) \/ ReturnAgain(o, m)
  BY <1>1, <1>3, TimeOutStep, ReturnAgainStep
<1>4. CASE \E m \in Nodes : StopNode(m) \/ \E s \in Dynamic : Reroute(m, s)
  BY <1>4, NodeStep
<1>5. CASE \E t \in AllTerms, p \in Pages : Grow(t, p)
  BY <1>5, GrowStep
<1>6. CASE UNCHANGED vars
  <2>1. Quiet /\ call' = call /\ got' = got /\ node' = node
    BY <1>6 DEF vars, gather, status, Quiet
  <2>2. node \in [Nodes -> {"up", "stopping", "down"}]
    BY DEF IInv, TypesOK
  <2>3. QED BY <2>1, <2>2, IdleStep
<1>7. QED BY <1>2, <1>3, <1>4, <1>5, <1>6 DEF Next

\* The invariant of the calls holds throughout: every call is counted once,
\* and what is known of a term is what the index has had for it.
THEOREM Invariance == Spec => []IInv
<1>1. Init => IInv
  BY InitStep
<1>2. IInv /\ [Next]_vars => IInv'
  BY NextStep
<1>3. QED BY <1>1, <1>2, PTL DEF Spec

\* Every variable keeps its type, the number of calls that did not count
\* included (remote-service.js:59).
THEOREM TypeCorrect == Spec => []MessagingTypeOK
<1>1. IInv => MessagingTypeOK
  <2>1. SUFFICES ASSUME IInv PROVE MessagingTypeOK
    OBVIOUS
  <2>2. TypesOK
    BY <2>1 DEF IInv
  <2>3. ASSUME NEW o \in Ops PROVE active[o] \in 0..Cardinality(Nodes)
    <3> DEFINE T == Targeted(o)
               E == errors[o] \cup results[o]
    <3>1. CountsOK(o) /\ IsFiniteSet(Nodes) /\ T \subseteq Nodes
      BY <2>1, <2>2, PlanFacts DEF IInv, Targeted
    <3>2. active[o] = Cardinality(T) - Cardinality(E) /\ E \subseteq T
      BY <3>1 DEF CountsOK
    <3> HIDE DEF T, E
    <3>3. IsFiniteSet(T) /\ Cardinality(T) <= Cardinality(Nodes)
      BY <3>1, FS_Subset
    <3>4. IsFiniteSet(E) /\ Cardinality(E) <= Cardinality(T)
      BY <3>2, <3>3, FS_Subset
    <3>5. Cardinality(T) \in Nat /\ Cardinality(E) \in Nat /\ Cardinality(Nodes) \in Nat
      BY <3>1, <3>3, <3>4, FS_CardinalityType
    <3>6. QED BY <3>2, <3>3, <3>4, <3>5
  <2>4. ASSUME NEW o \in Ops, NEW t \in AllTerms PROVE found[o][t] = Absent \/ ToSet(found[o][t]) \subseteq Pages
    <3>1. found[o][t] \in Seq(Pages) \cup {Absent}
      BY <2>2 DEF TypesOK
    <3>2. QED BY <3>1 DEF ToSet
  <2>5. QED BY <2>2, <2>3, <2>4 DEF TypesOK, MessagingTypeOK, CallStates
<1>2. QED BY <1>1, Invariance, PTL

\* The calls of a finished operation have all counted.
LEMMA AllCounted ==
  ASSUME IInv, NEW o \in Ops, called[o] = 1
  PROVE  Targeted(o) = errors[o] \cup results[o] /\ o \in opened
<1>1. CountsOK(o) /\ IsFiniteSet(Nodes) /\ Targeted(o) \subseteq Nodes
  BY PlanFacts DEF IInv, Targeted
<1>2. active[o] = 0 /\ o \in opened
  BY <1>1 DEF CountsOK
<1> DEFINE T == Targeted(o)
           E == errors[o] \cup results[o]
<1>3. active[o] = Cardinality(T) - Cardinality(E) /\ E \subseteq T
  BY <1>1 DEF CountsOK
<1> HIDE DEF T, E
<1>4. IsFiniteSet(T)
  BY <1>1, FS_Subset DEF T
<1>5. IsFiniteSet(E)
  BY <1>3, <1>4, FS_Subset
<1>6. Cardinality(T) \in Nat /\ Cardinality(E) \in Nat
  BY <1>4, <1>5, FS_CardinalityType
<1>7. Cardinality(T) = Cardinality(E)
  BY <1>2, <1>3, <1>6
<1>8. T = E
  BY <1>3, <1>4, <1>7, FS_Subset
<1>9. QED BY <1>2, <1>8 DEF T, E

\* An operation calls back once at most and only when each of its calls was
\* answered or has failed, and counts none of them twice (sync.js:8).
THEOREM AnsweredOnceHolds == Spec => []AnsweredOnce
<1>1. IInv => AnsweredOnce
  <2>1. SUFFICES ASSUME IInv, NEW o \in opened
                 PROVE  /\ called[o] <= 1
                        /\ called[o] = 1 =>
                             /\ \A m \in Nodes : call[o][m] # "none" => m \in heard[o]
                             /\ o.kind = "gather" => errors[o] \cup results[o] = o.targets /\ errors[o] \cap results[o] = {}
    BY DEF AnsweredOnce
  <2>2. o \in Ops /\ CountsOK(o)
    BY <2>1 DEF IInv, TypesOK
  <2>3. called[o] <= 1
    BY <2>2 DEF CountsOK
  <2>4. ASSUME called[o] = 1
        PROVE  /\ \A m \in Nodes : call[o][m] # "none" => m \in heard[o]
               /\ o.kind = "gather" => errors[o] \cup results[o] = o.targets /\ errors[o] \cap results[o] = {}
    <3>1. Targeted(o) = errors[o] \cup results[o]
      BY <2>1, <2>2, <2>4, AllCounted
    <3>2. QED BY <2>1, <2>2, <3>1 DEF CountsOK, Targeted
  <2>5. QED BY <2>3, <2>4
<1>2. QED BY <1>1, Invariance, PTL

\* A finished lookup or query has all that its nodes had for the terms it
\* asked them for when it began, and nothing else (all/term-lookup.js:84).
LEMMA AllFound ==
  ASSUME IInv, NEW o \in Ops, called[o] = 1, NEW t \in AllTerms, Asked(o, t)
  PROVE  /\ o.kind # "gather" /\ (o.kind = "query" => t \in ToSet(arrived[o]))
         /\ ~Faulty => ToSet(before[o][t]) \subseteq Known(found[o][t])
<1>1. TypesOK /\ CountsOK(o) /\ AnswersOK(o) /\ FoundOK(o)
  BY DEF IInv
<1>2. PICK m \in Nodes : \E r \in DOMAIN answer[o][m] : answer[o][m][r].term = t
  BY DEF Asked
<1>3. PICK r \in DOMAIN answer[o][m] : answer[o][m][r].term = t
  BY <1>2
<1>4. m \in Targeted(o) /\ o.kind # "gather"
  BY <1>1, <1>3 DEF AnswersOK, AnswerOK
<1>5. m \in results[o]
  BY <1>1, <1>4, AllCounted DEF CountsOK
<1>6. QED BY <1>1, <1>3, <1>4, <1>5 DEF FoundOK

\* Lookups are complete, and exact (all/term-lookup.js:84).
THEOREM LookupsComplete == Spec => []LookupsAreComplete
<1>1. IInv => LookupsAreComplete
  <2>1. SUFFICES ASSUME IInv, NEW o \in opened, NEW t \in ToSet(o.want)
                 PROVE  /\ Known(found[o][t]) \subseteq ToSet(index[t])
                        /\ called[o] = 1 /\ Asked(o, t) /\ ~Faulty => ToSet(before[o][t]) \subseteq Known(found[o][t])
    BY DEF LookupsAreComplete, Known
  <2>2. o \in Ops /\ TypesOK /\ FoundOK(o)
    BY <2>1 DEF IInv, TypesOK
  <2>3. t \in AllTerms
    <3>1. o.want \in Seq(AllTerms)
      BY <2>2, PlanFacts DEF Operation
    <3>2. QED BY <3>1 DEF ToSet
  <2>4. Known(found[o][t]) \subseteq ToSet(index[t])
    BY <2>2, <2>3 DEF FoundOK, Stored, Known
  <2>5. QED BY <2>1, <2>2, <2>3, <2>4, AllFound
<1>2. QED BY <1>1, Invariance, PTL

\* What a method gets is the graph its caller sent (serialization.js:82).
THEOREM RoundTripHolds == Spec => []RoundTrip
<1>1. IInv => RoundTrip
  <2>1. SUFFICES ASSUME IInv, NEW o \in opened, NEW m \in Nodes, got[o][m] # None
                 PROVE  SameGraph(plan.payload, got[o][m], 3)
    BY DEF RoundTrip
  <2>2. TypesOK /\ GotOK /\ o \in Ops
    BY <2>1 DEF IInv, TypesOK
  <2>3. got[o][m] = delivered /\ delivered # Failure /\ delivered = Deserialize(Serialize(plan.payload))
    BY <2>1, <2>2 DEF TypesOK, GotOK
  <2>4. IsGraph(plan.payload)
    BY <2>2, PlanFacts
  <2>5. QED BY <2>3, <2>4, CodecRoundTrip
<1>2. QED BY <1>1, Invariance, PTL

\* The results of a query, as it ranks them.
ResultsOf(o) ==
  [i \in DOMAIN arrived[o] |->
    [term |-> arrived[o][i],
     pages |-> IF found[o][arrived[o][i]] = Absent THEN <<>> ELSE found[o][arrived[o][i]]]]

\* The pages that the index has for the terms of an operation.
Indexed(o) == {p \in Pages : \E t \in ToSet(o.want) : p \in ToSet(index[t])}

\* They are such as nodes answer.
LEMMA ResultsFacts ==
  ASSUME IInv, NEW o \in Ops, o.kind = "query"
  PROVE  /\ ResultsOf(o) \in Seq(Results(Indexed(o)))
         /\ \A t \in ToSet(arrived[o]) : \A p \in Known(found[o][t]) :
              \E n \in 1..Len(ResultsOf(o)) : p \in ToSet(ResultsOf(o)[n].pages)
<1> DEFINE a == arrived[o]
           empty == <<>>
           rs == ResultsOf(o)
           N == Len(a)
<1>1. TypesOK /\ IndexOK /\ FoundOK(o)
  BY DEF IInv
<1>2. a \in Seq(AllTerms) /\ N \in Nat /\ DOMAIN a = 1..N /\ \A i \in 1..N : a[i] \in AllTerms /\ a[i] \in ToSet(a)
  <2>1. a \in Seq(AllTerms)
    BY <1>1 DEF TypesOK
  <2> HIDE DEF a
  <2>2. QED BY <2>1 DEF ToSet
<1>3. ToSet(a) \subseteq ToSet(o.want)
  BY <1>1 DEF FoundOK
<1>4. rs = [i \in 1..N |-> [term |-> a[i], pages |-> IF found[o][a[i]] = Absent THEN empty ELSE found[o][a[i]]]]
  BY <1>2 DEF ResultsOf
<1>5. empty \in Seq(Pages) /\ Injective(empty) /\ ToSet(empty) = {}
  <2>1. empty \in Seq(Pages) /\ Len(empty) = 0 /\ DOMAIN empty = {}
    OBVIOUS
  <2>2. QED BY <2>1 DEF Injective, ToSet
<1> HIDE DEF a, empty, rs, N
<1>6. ASSUME NEW i \in 1..N
      PROVE  rs[i] \in Results(Indexed(o)) /\ rs[i].term = a[i] /\ ToSet(rs[i].pages) = Known(found[o][a[i]])
  <2> DEFINE t == a[i]
             pages == IF found[o][t] = Absent THEN empty ELSE found[o][t]
  <2>1. rs[i] = [term |-> t, pages |-> pages]
    BY <1>4
  <2>2. t \in AllTerms /\ t \in ToSet(o.want)
    BY <1>2, <1>3
  <2> HIDE DEF t
  <2>3. pages \in Seq(Pages) /\ Injective(pages) /\ ToSet(pages) \subseteq ToSet(index[t]) /\ ToSet(pages) = Known(found[o][t])
    <3>1. CASE found[o][t] = Absent
      BY <1>5, <3>1 DEF Known
    <3>2. CASE found[o][t] # Absent
      BY <1>1, <2>2, <3>2 DEF FoundOK, Stored, Known
    <3>3. QED BY <3>1, <3>2
  <2> HIDE DEF pages
  <2>4. \A p \in ToSet(pages) : p \in Pages /\ t \in Terms(p) /\ p \in ToSet(index[t])
    <3>1. \A p \in ToSet(pages) : p \in Pages
      BY <2>3 DEF ToSet
    <3>2. QED BY <1>1, <2>2, <2>3, <3>1 DEF IndexOK
  <2>5. \A p \in ToSet(pages) : p \in Indexed(o) /\ t \in Terms(p)
    BY <2>2, <2>4 DEF Indexed
  <2>6. QED BY <2>1, <2>2, <2>3, <2>5 DEF Results, t
<1>7. rs \in Seq(Results(Indexed(o))) /\ Len(rs) = N
  <2>1. DOMAIN rs = 1..N /\ rs = [i \in 1..N |-> rs[i]]
    BY <1>4
  <2>2. QED BY <1>2, <1>6, <2>1
<1>8. ASSUME NEW t \in ToSet(a), NEW p \in Known(found[o][t])
      PROVE  \E n \in 1..Len(rs) : p \in ToSet(rs[n].pages)
  <2>1. PICK i \in 1..N : a[i] = t
    BY <1>2 DEF ToSet
  <2>2. QED BY <1>6, <1>7, <1>8, <2>1
<1>9. QED BY <1>7, <1>8 DEF a, rs

\* A finished query ranks pages of its terms, the better ones first and with
\* no title twice, and has every title that was indexed when it began unless
\* better ones fill the list (query.js:44).
THEOREM RankedMatch == Spec => []RankedPagesMatch
<1>1. IInv => RankedPagesMatch
  <2> DEFINE titles(r) == {Content[r[i].url].title : i \in DOMAIN r}
  <2>1. SUFFICES ASSUME IInv, NEW o \in opened, o.kind = "query", called[o] = 1
                 PROVE  LET r == Ranked(o)
                        IN /\ \A i \in DOMAIN r :
                                /\ r[i].score.den > 0
                                /\ \E t \in ToSet(o.want) : r[i].url \in ToSet(index[t])
                           /\ \A i, j \in DOMAIN r : i < j =>
                                ~Less(r[i].score, r[j].score) /\ Content[r[i].url].title # Content[r[j].url].title
                           /\ Len(r) < MAX_SEARCH_RESULTS /\ ~Faulty =>
                                \A t \in ToSet(o.want) : \A p \in ToSet(before[o][t]) : Content[p].title \in titles(r)
    BY DEF RankedPagesMatch
  <2> DEFINE rs == ResultsOf(o)
             r == Ranked(o)
  <2>2. TypesOK /\ o \in Ops /\ FoundOK(o)
    BY <2>1 DEF IInv, TypesOK
  <2>3. Pages = DOMAIN Content /\ IsFiniteSet(Pages)
    BY MessagingAssumption DEF MessagingAssumption
  <2>4. /\ rs \in Seq(Results(Indexed(o)))
        /\ \A t \in ToSet(arrived[o]) : \A p \in Known(found[o][t]) :
             \E n \in 1..Len(rs) : p \in ToSet(rs[n].pages)
    BY <2>1, <2>2, ResultsFacts
  <2>5. r = Ranking(rs)
    BY DEF Ranked, ResultsOf
  <2> HIDE DEF rs, r
  <2>6. /\ r \in Seq(Entries) /\ \A i \in DOMAIN r : r[i].url \in Indexed(o)
        /\ \A i, j \in DOMAIN r : i < j =>
             ~Less(r[i].score, r[j].score) /\ Content[r[i].url].title # Content[r[j].url].title
        /\ Len(r) < MAX_SEARCH_RESULTS =>
             \A n \in 1..Len(rs) : \A p \in ToSet(rs[n].pages) :
               \E i \in DOMAIN r : Content[r[i].url].title = Content[p].title
    <3> DEFINE may == Indexed(o)
               s == Ranking(rs)
    <3>1. rs \in Seq(Results(may))
      BY <2>4
    <3> HIDE DEF may
    <3>2. /\ s \in Seq(Entries) /\ \A i \in DOMAIN s : s[i].url \in may
          /\ \A i, j \in DOMAIN s : i < j =>
               ~Less(s[i].score, s[j].score) /\ Content[s[i].url].title # Content[s[j].url].title
          /\ Len(s) < MAX_SEARCH_RESULTS =>
               \A n \in 1..Len(rs) : \A p \in ToSet(rs[n].pages) :
                 \E i \in DOMAIN s : Content[s[i].url].title = Content[p].title
      BY <2>3, <3>1, RankingFacts
    <3>3. r = s
      BY <2>5
    <3> HIDE DEF s
    <3>4. QED BY <3>2, <3>3 DEF may
  <2>7. ASSUME NEW i \in DOMAIN r
        PROVE  r[i].score.den > 0 /\ \E t \in ToSet(o.want) : r[i].url \in ToSet(index[t])
    <3>1. r[i] \in Entries
      BY <2>6
    <3>2. r[i].score.den \in Nat \ {0}
      BY <3>1 DEF Entries, Scores
    <3>3. QED BY <2>6, <3>2 DEF Indexed
  <2>8. ASSUME Len(r) < MAX_SEARCH_RESULTS, ~Faulty, NEW t \in ToSet(o.want), NEW p \in ToSet(before[o][t])
        PROVE  Content[p].title \in titles(r)
    <3>1. t \in AllTerms /\ TermHome[t] \in Nodes
      <4>1. o.want \in Seq(AllTerms)
        BY <2>2, PlanFacts DEF Operation
      <4>2. t \in AllTerms
        BY <4>1 DEF ToSet
      <4>3. QED BY <2>2, <4>2, PlanFacts
    <3>2. Asked(o, t)
      BY <2>1, <2>2, <3>1 DEF FoundOK, Asked
    <3>3. t \in ToSet(arrived[o]) /\ p \in Known(found[o][t])
      BY <2>1, <2>2, <2>8, <3>1, <3>2, AllFound
    <3>4. PICK n \in 1..Len(rs) : p \in ToSet(rs[n].pages)
      BY <2>4, <3>3
    <3>5. QED BY <2>6, <2>8, <3>4
  <2>9. QED BY <2>6, <2>7, <2>8 DEF r
<1>2. QED BY <1>1, Invariance, PTL
=============================================================================
