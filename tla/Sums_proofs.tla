----------------------------- MODULE Sums_proofs -----------------------------
(***************************************************************************)
(* Lemmas on data.  Sums over finite sets, as the total share is one: what *)
(* MapThenSumSet of FiniteSetsExt computes, and what becomes of a sum when *)
(* an element or a summand changes.  Smallest numbers; recursion over an   *)
(* interval; elements that go into a sequence or out of it.                *)
(***************************************************************************)
EXTENDS Integers, FiniteSets, Sequences, FiniteSetsExt, SequencesExt, FiniteSetTheorems, TLAPS

(* Sums over finite sets.  MapThenSumSet is defined by a recursion over the subsets of the
   set, which an induction has to show to define something: it takes the place of the library's
   theorems, that are parameterised by operators, with the smallest of the sets a statement
   fails for. *)

(* Of a family of subsets of a finite set one has no smaller one in it. *)
LEMMA SmallestSet ==
  ASSUME NEW S, IsFiniteSet(S), NEW F \in SUBSET SUBSET S, F # {}
  PROVE  \E t \in F : \A u \in SUBSET t : u # t => u \notin F
  <1>1. IsWellFoundedOn(StrictSubsetOrdering(S), SUBSET S)
    BY FS_StrictSubsetOrderingWellFounded, FS_FiniteSubsetsOfFinite
  <1>2. \E t \in F : \A u \in F : ~ (<<u, t>> \in StrictSubsetOrdering(S))
    BY <1>1, WFMin, Zenon
  <1>3. PICK t \in F : \A u \in F : ~ (<<u, t>> \in StrictSubsetOrdering(S))
    BY <1>2
  <1>4. ASSUME NEW u \in SUBSET t, u # t, u \in F PROVE FALSE
    <2>1. u \in SUBSET S /\ t \in SUBSET S
      BY <1>4
    <2>2. <<u, t>> \in StrictSubsetOrdering(S)
      BY <1>4, <2>1 DEF StrictSubsetOrdering
    <2>. QED
      BY <1>3, <1>4, <2>2
  <1>. QED
    BY <1>4

(* g adds up f over every subset of S, in the order in which pick takes its elements. *)
pick(s) == CHOOSE x \in s : TRUE
Unfolds(g, f, S) ==
    \A s \in SUBSET S : g[s] = IF s = {} THEN 0 ELSE f[pick(s)] + g[s \ {pick(s)}]
AddsUp(g, f, S) == g \in [SUBSET S -> Int] /\ Unfolds(g, f, S)

(* pick takes an element. *)
LEMMA PickIs == ASSUME NEW s, s # {} PROVE pick(s) \in s
  BY DEF pick

(* What is added up is determined by f. *)
LEMMA UnfoldsOnce ==
  ASSUME NEW S, IsFiniteSet(S), NEW f, NEW h, NEW T, NEW U, NEW g, NEW k,
         Unfolds(g, f, T), Unfolds(k, h, U), S \subseteq T, S \subseteq U,
         \A x \in S : f[x] = h[x]
  PROVE  g[S] = k[S]
  <1>. DEFINE F == {s \in SUBSET S : g[s] # k[s]}
  <1>1. SUFFICES ASSUME F # {} PROVE FALSE
    OBVIOUS
  <1>0. F \in SUBSET SUBSET S
    OBVIOUS
  <1>2. PICK t \in F : \A u \in SUBSET t : u # t => u \notin F
    <2>. HIDE DEF F
    <2>. QED
      BY <1>0, <1>1, SmallestSet
  <1>3. /\ t \in SUBSET S /\ t \in SUBSET T /\ t \in SUBSET U /\ g[t] # k[t]
    BY <1>2
  <1>4. /\ g[t] = IF t = {} THEN 0 ELSE f[pick(t)] + g[t \ {pick(t)}]
        /\ k[t] = IF t = {} THEN 0 ELSE h[pick(t)] + k[t \ {pick(t)}]
    BY <1>3 DEF Unfolds
  <1>5. t # {}
    BY <1>3, <1>4
  <1>6. pick(t) \in t
    BY <1>5, PickIs
  <1>7. t \ {pick(t)} \in SUBSET t /\ t \ {pick(t)} # t /\ t \ {pick(t)} \in SUBSET S
    BY <1>3, <1>6
  <1>8. g[t \ {pick(t)}] = k[t \ {pick(t)}]
    BY <1>2, <1>7
  <1>9. f[pick(t)] = h[pick(t)]
    BY <1>3, <1>6
  <1>. QED
    BY <1>3, <1>4, <1>5, <1>8, <1>9

(* The same, of functions whose values are numbers. *)
LEMMA AddsUpOnce ==
  ASSUME NEW S, IsFiniteSet(S), NEW f, NEW h, NEW T, NEW U, NEW g, NEW k,
         AddsUp(g, f, T), AddsUp(k, h, U), S \subseteq T, S \subseteq U,
         \A x \in S : f[x] = h[x]
  PROVE  g[S] = k[S]
  BY UnfoldsOnce DEF AddsUp

(* It can be added up. *)
LEMMA CanAddUp ==
  ASSUME NEW S, IsFiniteSet(S), NEW f, \A x \in S : f[x] \in Int
  PROVE  \E g : AddsUp(g, f, S)
  <1>. DEFINE F == {s \in SUBSET S : ~ \E g : AddsUp(g, f, s)}
  <1>1. SUFFICES ASSUME F # {} PROVE FALSE
    OBVIOUS
  <1>0. F \in SUBSET SUBSET S
    OBVIOUS
  <1>2. PICK t \in F : \A u \in SUBSET t : u # t => u \notin F
    <2>. HIDE DEF F
    <2>. QED
      BY <1>0, <1>1, SmallestSet
  <1>3. t \in SUBSET S /\ ~ \E g : AddsUp(g, f, t)
    BY <1>2
  <1>4. ASSUME NEW u \in SUBSET t, u # t PROVE \E g : AddsUp(g, f, u)
    BY <1>2, <1>3, <1>4
  <1>. DEFINE G(u) == CHOOSE g : AddsUp(g, f, u)
              rest(u) == u \ {pick(u)}
              part(u) == IF u = {} THEN 0 ELSE f[pick(u)] + G(rest(u))[rest(u)]
              g == [u \in SUBSET t |-> part(u)]
  <1>5. ASSUME NEW u \in SUBSET t, u # t PROVE AddsUp(G(u), f, u)
    BY <1>4, <1>5
  <1>6. ASSUME NEW u \in SUBSET t, u # {}
        PROVE  /\ pick(u) \in u /\ f[pick(u)] \in Int
               /\ rest(u) \in SUBSET t /\ rest(u) # t /\ rest(u) # u
               /\ IsFiniteSet(rest(u)) /\ AddsUp(G(rest(u)), f, rest(u))
               /\ G(rest(u))[rest(u)] \in Int
    <2>1. pick(u) \in u /\ f[pick(u)] \in Int
      BY <1>3, <1>6, PickIs
    <2>2. rest(u) \in SUBSET t /\ rest(u) # t /\ rest(u) # u
      BY <2>1
    <2>3. IsFiniteSet(rest(u))
      BY <1>3, <2>2, FS_Subset
    <2>4. AddsUp(G(rest(u)), f, rest(u))
      BY <1>5, <2>2
    <2>5. G(rest(u))[rest(u)] \in Int
      BY <2>4 DEF AddsUp, Unfolds
    <2>. QED
      BY <2>1, <2>2, <2>3, <2>4, <2>5
  <1>7. ASSUME NEW u \in SUBSET t, u # {}
        PROVE  part(rest(u)) = G(rest(u))[rest(u)]
    <2>. DEFINE v == rest(u)
    <2>1. v \in SUBSET t /\ v # t /\ AddsUp(G(v), f, v)
      BY <1>6, <1>7
    <2>2. CASE v = {}
      BY <2>1, <2>2 DEF AddsUp, Unfolds
    <2>3. CASE v # {}
      <3>1. /\ rest(v) \in SUBSET v /\ IsFiniteSet(rest(v)) /\ AddsUp(G(rest(v)), f, rest(v))
        BY <1>6, <2>1, <2>3
      <3>2. G(v)[v] = f[pick(v)] + G(v)[rest(v)]
        BY <2>1, <2>3 DEF AddsUp, Unfolds
      <3>3. G(v)[rest(v)] = G(rest(v))[rest(v)]
        <4>. HIDE DEF G
        <4>. QED
          BY <2>1, <3>1, AddsUpOnce
      <3>. QED
        BY <2>3, <3>2, <3>3
    <2>. QED
      BY <2>2, <2>3
  <1>8. ASSUME NEW u \in SUBSET t PROVE part(u) \in Int
    <2>1. CASE u = {}
      BY <2>1
    <2>2. CASE u # {}
      <3>1. f[pick(u)] \in Int /\ G(rest(u))[rest(u)] \in Int
        BY <1>6, <2>2
      <3>2. part(u) = f[pick(u)] + G(rest(u))[rest(u)]
        BY <2>2
      <3>. HIDE DEF G, rest, part
      <3>. QED
        BY <3>1, <3>2
    <2>. QED
      BY <2>1, <2>2
  <1>9. ASSUME NEW u \in SUBSET t
        PROVE  part(u) = IF u = {} THEN 0 ELSE f[pick(u)] + part(rest(u))
    <2>1. CASE u = {}
      BY <2>1
    <2>2. CASE u # {}
      <3>1. part(rest(u)) = G(rest(u))[rest(u)]
        BY <1>7, <2>2
      <3>2. part(u) = f[pick(u)] + G(rest(u))[rest(u)]
        BY <2>2
      <3>. HIDE DEF G, rest, part
      <3>. QED
        BY <2>2, <3>1, <3>2
    <2>. QED
      BY <2>1, <2>2
  <1>10. ASSUME NEW u \in SUBSET t PROVE rest(u) \in SUBSET t
    OBVIOUS
  <1>. HIDE DEF G, part
  <1>11. g \in [SUBSET t -> Int]
    BY <1>8
  <1>12. \A u \in SUBSET t : g[u] = IF u = {} THEN 0 ELSE f[pick(u)] + g[rest(u)]
    BY <1>9, <1>10
  <1>. HIDE DEF g
  <1>13. AddsUp(g, f, t)
    BY <1>11, <1>12 DEF AddsUp, Unfolds
  <1>. QED
    BY <1>3, <1>13

SumOf(f, S) == (CHOOSE g : AddsUp(g, f, S))[S]

(* The sum is a number, and whatever adds up gives it. *)
LEMMA SumIs ==
  ASSUME NEW S, IsFiniteSet(S), NEW f, \A x \in S : f[x] \in Int
  PROVE  /\ SumOf(f, S) \in Int
         /\ \A g : AddsUp(g, f, S) => g[S] = SumOf(f, S)
  <1>. DEFINE G == CHOOSE g : AddsUp(g, f, S)
  <1>1. AddsUp(G, f, S)
    BY CanAddUp
  <1>2. SumOf(f, S) = G[S]
    BY DEF SumOf
  <1>. HIDE DEF G
  <1>3. G[S] \in Int
    BY <1>1 DEF AddsUp, Unfolds
  <1>4. ASSUME NEW g, AddsUp(g, f, S) PROVE g[S] = G[S]
    BY <1>1, <1>4, AddsUpOnce
  <1>. QED
    BY <1>2, <1>3, <1>4

(* The sum over no elements *)
LEMMA SumOfNothing == ASSUME NEW f PROVE SumOf(f, {}) = 0
  <1>1. IsFiniteSet({}) /\ \A x \in {} : f[x] \in Int
    BY FS_EmptySet
  <1>2. PICK g : AddsUp(g, f, {})
    BY <1>1, CanAddUp
  <1>3. g[{}] = 0
    BY <1>2 DEF AddsUp, Unfolds
  <1>. QED
    BY <1>1, <1>2, <1>3, SumIs

(* The sum is that of one element and of the others. *)
LEMMA SumPicks ==
  ASSUME NEW S, IsFiniteSet(S), NEW f, \A x \in S : f[x] \in Int, S # {}
  PROVE  SumOf(f, S) = f[pick(S)] + SumOf(f, S \ {pick(S)})
  <1>. DEFINE R == S \ {pick(S)}
  <1>1. PICK g : AddsUp(g, f, S)
    BY CanAddUp
  <1>2. IsFiniteSet(R) /\ R \subseteq S /\ \A x \in R : f[x] \in Int
    BY FS_Subset
  <1>3. PICK k : AddsUp(k, f, R)
    BY <1>2, CanAddUp
  <1>4. g[S] = SumOf(f, S) /\ k[R] = SumOf(f, R)
    BY <1>1, <1>2, <1>3, SumIs
  <1>5. g[S] = f[pick(S)] + g[R]
    BY <1>1 DEF AddsUp, Unfolds
  <1>6. g[R] = k[R]
    <2>1. R \subseteq R
      OBVIOUS
    <2>. HIDE DEF R
    <2>. QED
      BY <1>1, <1>2, <1>3, <2>1, AddsUpOnce
  <1>. QED
    BY <1>4, <1>5, <1>6

(* It does not matter which element is taken. *)
LEMMA SumWith ==
  ASSUME NEW S, IsFiniteSet(S), NEW f, \A x \in S : f[x] \in Int, NEW y \in S
  PROVE  SumOf(f, S) = f[y] + SumOf(f, S \ {y})
  <1>. DEFINE F == {s \in SUBSET S : \E x \in s : SumOf(f, s) # f[x] + SumOf(f, s \ {x})}
  <1>1. SUFFICES ASSUME F # {} PROVE FALSE
    OBVIOUS
  <1>0. F \in SUBSET SUBSET S
    OBVIOUS
  <1>2. PICK t \in F : \A u \in SUBSET t : u # t => u \notin F
    <2>. HIDE DEF F
    <2>. QED
      BY <1>0, <1>1, SmallestSet
  <1>3. PICK x \in t : SumOf(f, t) # f[x] + SumOf(f, t \ {x})
    BY <1>2
  <1>. DEFINE p == pick(t)
              a == t \ {p}
              b == t \ {x}
              c == (t \ {p}) \ {x}
  <1>4. t \in SUBSET S /\ IsFiniteSet(t) /\ t # {} /\ p \in t
    BY <1>2, <1>3, FS_Subset, PickIs
  <1>5. SumOf(f, t) = f[p] + SumOf(f, a)
    BY <1>4, SumPicks
  <1>6. x # p
    BY <1>3, <1>5
  <1>7. /\ a \in SUBSET t /\ a # t /\ x \in a /\ b \in SUBSET t /\ b # t /\ p \in b
        /\ b \ {p} = c /\ a \ {x} = c /\ c \in SUBSET t
    BY <1>3, <1>4, <1>6
  <1>. HIDE DEF a, b, c, p
  <1>8. SumOf(f, a) = f[x] + SumOf(f, c)
    <2>1. a \in SUBSET S /\ a \notin F
      BY <1>2, <1>4, <1>7
    <2>. QED
      BY <1>7, <2>1
  <1>9. SumOf(f, b) = f[p] + SumOf(f, c)
    <2>1. b \in SUBSET S /\ b \notin F
      BY <1>2, <1>4, <1>7
    <2>. QED
      BY <1>7, <2>1
  <1>10. SumOf(f, c) \in Int /\ f[x] \in Int /\ f[p] \in Int
    <2>1. IsFiniteSet(c) /\ \A z \in c : f[z] \in Int
      BY <1>4, <1>7, FS_Subset
    <2>. QED
      BY <1>3, <1>4, <2>1, SumIs
  <1>11. SumOf(f, t) = f[x] + SumOf(f, b)
    BY <1>5, <1>8, <1>9, <1>10
  <1>. QED
    BY <1>3, <1>11 DEF b

(* Sums of the same numbers are the same. *)
LEMMA SumsAlike ==
  ASSUME NEW S, IsFiniteSet(S), NEW f, NEW h, \A x \in S : f[x] \in Int /\ h[x] = f[x]
  PROVE  SumOf(h, S) = SumOf(f, S)
  <1>1. PICK g : AddsUp(g, f, S)
    BY CanAddUp
  <1>2. PICK k : AddsUp(k, h, S)
    BY CanAddUp
  <1>3. g[S] = k[S]
    BY <1>1, <1>2, AddsUpOnce
  <1>. QED
    BY <1>1, <1>2, <1>3, SumIs

(* One summand changes. *)
LEMMA SumChanges ==
  ASSUME NEW S, IsFiniteSet(S), NEW f, NEW h, NEW y \in S,
         \A x \in S : f[x] \in Int /\ h[x] \in Int, \A x \in S \ {y} : h[x] = f[x]
  PROVE  SumOf(h, S) = SumOf(f, S) - f[y] + h[y]
  <1>. DEFINE R == S \ {y}
  <1>1. IsFiniteSet(R) /\ R \subseteq S
    BY FS_Subset
  <1>2. SumOf(f, S) = f[y] + SumOf(f, R) /\ SumOf(h, S) = h[y] + SumOf(h, R)
    BY SumWith
  <1>. HIDE DEF R
  <1>3. SumOf(h, R) = SumOf(f, R) /\ SumOf(f, R) \in Int
    <2>1. \A x \in R : f[x] \in Int /\ h[x] = f[x]
      BY DEF R
    <2>. QED
      BY <1>1, <2>1, SumsAlike, SumIs
  <1>. QED
    BY <1>2, <1>3

(* What counts nothing can be left out. *)
LEMMA SumWithoutZeros ==
  ASSUME NEW S, IsFiniteSet(S), NEW f, \A x \in S : f[x] \in Int,
         NEW T \in SUBSET S, \A x \in S \ T : f[x] = 0
  PROVE  SumOf(f, S) = SumOf(f, T)
  <1>. DEFINE F == {s \in SUBSET S : T \subseteq s /\ SumOf(f, s) # SumOf(f, T)}
  <1>1. SUFFICES ASSUME F # {} PROVE FALSE
    OBVIOUS
  <1>0. F \in SUBSET SUBSET S
    OBVIOUS
  <1>2. PICK t \in F : \A u \in SUBSET t : u # t => u \notin F
    <2>. HIDE DEF F
    <2>. QED
      BY <1>0, <1>1, SmallestSet
  <1>3. t \in SUBSET S /\ T \subseteq t /\ SumOf(f, t) # SumOf(f, T) /\ IsFiniteSet(t)
    BY <1>2, FS_Subset
  <1>4. PICK x \in t : x \notin T
    BY <1>3
  <1>5. SumOf(f, t) = f[x] + SumOf(f, t \ {x}) /\ f[x] = 0
    BY <1>3, <1>4, SumWith
  <1>6. t \ {x} \in SUBSET t /\ t \ {x} # t /\ t \ {x} \in SUBSET S /\ T \subseteq t \ {x}
        /\ IsFiniteSet(t \ {x})
    BY <1>3, <1>4, FS_Subset
  <1>7. SumOf(f, t \ {x}) = SumOf(f, T)
    BY <1>2, <1>6
  <1>8. SumOf(f, T) \in Int
    BY <1>3, FS_Subset, SumIs
  <1>. QED
    BY <1>3, <1>5, <1>7, <1>8

(* The fold of the community modules gives the same sum. *)
LEMMA SumFolds ==
  ASSUME NEW S, IsFiniteSet(S), NEW f, \A x \in S : f[x] \in Int
  PROVE  MapThenSumSet(LAMBDA x : f[x], S) = SumOf(f, S)
  <1>. DEFINE Fold(g) == [s \in SUBSET S |->
                             IF s = {} THEN 0
                             ELSE LET x == CHOOSE x \in s : TRUE
                                  IN  f[x] + g[s \ {x}]]
              iter == CHOOSE g : g = Fold(g)
  <1>1. MapThenSumSet(LAMBDA x : f[x], S) = iter[S]
    BY DEF MapThenSumSet, MapThenFoldSet
  <1>2. ASSUME NEW g PROVE (g = Fold(g)) <=> /\ g = [s \in SUBSET S |-> g[s]]
                                             /\ Unfolds(g, f, S)
    <2>1. ASSUME NEW s \in SUBSET S
          PROVE  Fold(g)[s] = IF s = {} THEN 0 ELSE f[pick(s)] + g[s \ {pick(s)}]
      BY DEF pick
    <2>2. Fold(g) = [s \in SUBSET S |-> Fold(g)[s]]
      OBVIOUS
    <2>. HIDE DEF Fold
    <2>3. ASSUME g = Fold(g) PROVE g = [s \in SUBSET S |-> g[s]] /\ Unfolds(g, f, S)
      BY <2>1, <2>2, <2>3 DEF Unfolds
    <2>4. ASSUME g = [s \in SUBSET S |-> g[s]], Unfolds(g, f, S) PROVE g = Fold(g)
      <3>1. \A s \in SUBSET S : g[s] = Fold(g)[s]
        BY <2>1, <2>4 DEF Unfolds
      <3>. QED
        BY <2>2, <2>4, <3>1
    <2>. QED
      BY <2>3, <2>4
  <1>3. PICK g : AddsUp(g, f, S)
    BY CanAddUp
  <1>4. g = Fold(g)
    <2>1. g = [s \in SUBSET S |-> g[s]] /\ Unfolds(g, f, S)
      BY <1>3 DEF AddsUp
    <2>. HIDE DEF Fold
    <2>. QED
      BY <1>2, <2>1
  <1>5. iter = Fold(iter)
    <2>. HIDE DEF Fold
    <2>. QED
      BY <1>4
  <1>6. Unfolds(iter, f, S)
    <2>. HIDE DEF Fold, iter
    <2>. QED
      BY <1>2, <1>5
  <1>7. iter[S] = g[S]
    <2>1. Unfolds(g, f, S) /\ S \subseteq S
      BY <1>3 DEF AddsUp
    <2>. HIDE DEF iter
    <2>. QED
      BY <1>6, <2>1, UnfoldsOnce
  <1>8. g[S] = SumOf(f, S)
    BY <1>3, SumIs
  <1>. HIDE DEF iter
  <1>. QED
    BY <1>1, <1>7, <1>8

(* One more element *)
LEMMA SumOfMore ==
  ASSUME NEW S, IsFiniteSet(S), NEW y, y \notin S, NEW f, \A x \in S \cup {y} : f[x] \in Int
  PROVE  SumOf(f, S \cup {y}) = f[y] + SumOf(f, S)
  <1>1. IsFiniteSet(S \cup {y}) /\ y \in S \cup {y}
    BY FS_AddElement
  <1>2. (S \cup {y}) \ {y} = S
    OBVIOUS
  <1>. QED
    BY <1>1, <1>2, SumWith

\* What is nowhere negative adds up to what is not negative.
LEMMA SumOfNat ==
  ASSUME NEW S, IsFiniteSet(S), NEW f, \A x \in S : f[x] \in Nat
  PROVE  SumOf(f, S) \in Nat
  <1>. DEFINE F == {s \in SUBSET S : SumOf(f, s) \notin Nat}
  <1>1. SUFFICES ASSUME F # {} PROVE FALSE
    OBVIOUS
  <1>0. F \in SUBSET SUBSET S
    OBVIOUS
  <1>2. PICK t \in F : \A u \in SUBSET t : u # t => u \notin F
    <2>. HIDE DEF F
    <2>. QED
      BY <1>0, <1>1, SmallestSet
  <1>3. t \in SUBSET S /\ SumOf(f, t) \notin Nat /\ IsFiniteSet(t) /\ \A x \in t : f[x] \in Int
    BY <1>2, FS_Subset
  <1>4. PICK x : x \in t
    BY <1>3, SumOfNothing
  <1>5. SumOf(f, t) = f[x] + SumOf(f, t \ {x}) /\ f[x] \in Nat
    BY <1>3, <1>4, SumWith
  <1>6. t \ {x} \in SUBSET t /\ t \ {x} # t /\ t \ {x} \in SUBSET S
    BY <1>3, <1>4
  <1>7. SumOf(f, t \ {x}) \in Nat
    BY <1>2, <1>6
  <1>. QED
    BY <1>3, <1>5, <1>7

\* A set of numbers has a smallest one.
LEMMA SmallestNumber ==
    ASSUME NEW T \in SUBSET Nat, NEW n \in T
    PROVE  \E m \in T : \A k \in T : m <= k
  <1> DEFINE S == 1 .. n
             F == {1 .. k : k \in {j \in T : j <= n}}
  <1>1. IsFiniteSet(S)
    BY FS_Interval
  <1>2. F \in SUBSET SUBSET S
    OBVIOUS
  <1>3. F # {}
    OBVIOUS
  <1>4. PICK t \in F : \A u \in SUBSET t : u # t => u \notin F
    <2> HIDE DEF F, S
    <2> QED
      BY <1>1, <1>2, <1>3, SmallestSet
  <1>5. PICK m \in T : m <= n /\ t = 1 .. m
    BY <1>4
  <1>6. ASSUME NEW k \in T, k < m PROVE FALSE
    <2>1. 1 .. k \in F
      BY <1>5, <1>6
    <2>2. 1 .. k \in SUBSET t /\ m \in t /\ m \notin 1 .. k
      BY <1>5, <1>6
    <2> QED
      BY <1>4, <2>1, <2>2
  <1> QED
    BY <1>5, <1>6

-----------------------------------------------------------------------------
(* Steps one after another *)

\* What is repeated a number of times can be done step by step.
LEMMA Repeated ==
    ASSUME NEW S, NEW s0 \in S, NEW n \in Nat, NEW step \in [1 .. n -> [S -> S]]
    PROVE  \E f \in [0 .. n -> S] : f[0] = s0 /\ \A i \in 1 .. n : f[i] = step[i][f[i - 1]]
  <1> DEFINE Goes(m) == \E f \in [0 .. m -> S] :
                 f[0] = s0 /\ \A i \in 1 .. m : f[i] = step[i][f[i - 1]]
             T == {m \in 0 .. n : ~Goes(m)}
  <1>1. SUFFICES ASSUME ~Goes(n) PROVE FALSE
    OBVIOUS
  <1>2. n \in T /\ T \in SUBSET Nat
    BY <1>1
  <1>3. PICK m \in T : \A k \in T : m <= k
    <2> HIDE DEF T
    <2> QED
      BY <1>2, SmallestNumber
  <1>4. m \in 0 .. n /\ ~Goes(m)
    BY <1>3
  <1>5. CASE m = 0
    <2> DEFINE f == [i \in 0 .. 0 |-> s0]
    <2>1. f \in [0 .. 0 -> S] /\ f[0] = s0 /\ \A i \in 1 .. 0 : f[i] = step[i][f[i - 1]]
      OBVIOUS
    <2> QED
      BY <1>4, <1>5, <2>1
  <1>6. CASE m # 0
    <2>1. m - 1 \in 0 .. n /\ ~(m <= m - 1)
      BY <1>4, <1>6
    <2>2. Goes(m - 1)
      <3> HIDE DEF Goes
      <3> QED
        BY <1>3, <2>1
    <2>3. PICK f \in [0 .. m - 1 -> S] :
             f[0] = s0 /\ \A i \in 1 .. m - 1 : f[i] = step[i][f[i - 1]]
      BY <2>2
    <2>4. f[m - 1] \in S
      BY <1>4, <2>1, <2>3
    <2> DEFINE last == step[m][f[m - 1]]
               g == [i \in 0 .. m |-> IF i = m THEN last ELSE f[i]]
    <2>5. last \in S
      <3>1. m \in 1 .. n
        BY <1>4, <1>6
      <3>2. step[m] \in [S -> S]
        BY <3>1
      <3> QED
        BY <2>4, <3>2
    <2> HIDE DEF last
    <2>6. ASSUME NEW i \in 0 .. m, i # m PROVE i \in 0 .. m - 1 /\ g[i] = f[i] /\ f[i] \in S
      <3>1. i \in 0 .. m - 1
        BY <1>4, <2>6
      <3> QED
        BY <2>3, <2>6, <3>1
    <2>7. g \in [0 .. m -> S]
      BY <2>5, <2>6
    <2>8. g[0] = s0 /\ g[m] = last
      BY <1>4, <1>6, <2>3, <2>6
    <2>9. ASSUME NEW i \in 1 .. m PROVE g[i] = step[i][g[i - 1]]
      <3>1. i - 1 \in 0 .. m /\ i - 1 # m /\ i \in 0 .. m
        BY <1>4, <2>9
      <3>2. g[i - 1] = f[i - 1]
        BY <2>6, <3>1
      <3>3. CASE i = m
        BY <2>8, <3>2, <3>3 DEF last
      <3>4. CASE i # m
        <4>1. i \in 1 .. m - 1 /\ g[i] = f[i]
          BY <1>4, <2>6, <2>9, <3>1, <3>4
        <4> HIDE DEF g
        <4> QED
          BY <2>3, <3>2, <4>1
      <3> QED
        BY <3>3, <3>4
    <2> HIDE DEF g
    <2> QED
      BY <1>4, <2>7, <2>8, <2>9
  <1> QED
    BY <1>5, <1>6

\* What holds at first and from each number to the next holds up to the last.
LEMMA UpTo ==
    ASSUME NEW n \in Nat, NEW H, 0 \in H, \A i \in 1 .. n : i - 1 \in H => i \in H
    PROVE  \A i \in 0 .. n : i \in H
  <1> DEFINE T == {i \in 0 .. n : i \notin H}
  <1>1. SUFFICES ASSUME NEW i \in T PROVE FALSE
    OBVIOUS
  <1>2. T \in SUBSET Nat
    OBVIOUS
  <1>3. PICK m \in T : \A k \in T : m <= k
    <2> HIDE DEF T
    <2> QED
      BY <1>1, <1>2, SmallestNumber
  <1>4. m # 0 /\ m \in 1 .. n /\ m - 1 \in 0 .. n /\ ~(m <= m - 1)
    BY <1>3
  <1>5. m - 1 \in H
    BY <1>3, <1>4
  <1> QED
    BY <1>3, <1>4, <1>5

-----------------------------------------------------------------------------
(* Sequences: one after another, with an element put in, with one taken out *)

LEMMA JoinedLen ==
    ASSUME NEW S, NEW s \in Seq(S), NEW t \in Seq(S)
    PROVE  Len(s \o t) = Len(s) + Len(t)
  OBVIOUS

LEMMA PutIn ==
    ASSUME NEW S, NEW seq \in Seq(S), NEW p \in 1 .. Len(seq) + 1, NEW o \in S
    PROVE  /\ InsertAt(seq, p, o) \in Seq(S) /\ Len(InsertAt(seq, p, o)) = Len(seq) + 1
           /\ \A i \in 1 .. Len(seq) + 1 :
                  InsertAt(seq, p, o)[i] = IF i < p THEN seq[i] ELSE IF i = p THEN o ELSE seq[i - 1]
  <1> DEFINE a == SubSeq(seq, 1, p - 1)
             b == SubSeq(seq, p, Len(seq))
             mid == a \o <<o>>
             new == mid \o b
  <1>1. a \in Seq(S) /\ Len(a) = p - 1 /\ \A i \in 1 .. p - 1 : a[i] = seq[i]
    OBVIOUS
  <1>2. /\ b \in Seq(S) /\ Len(b) = Len(seq) + 1 - p
        /\ \A i \in 1 .. Len(seq) + 1 - p : b[i] = seq[p + i - 1]
    OBVIOUS
  <1>3. InsertAt(seq, p, o) = new
    BY DEF InsertAt
  <1>4. p \in Nat /\ Len(seq) \in Nat /\ <<o>> \in Seq(S) /\ Len(<<o>>) = 1 /\ <<o>>[1] = o
    OBVIOUS
  <1> HIDE DEF a, b
  <1>7. /\ mid \in Seq(S) /\ Len(mid) = p /\ mid[p] = o
        /\ \A i \in 1 .. p - 1 : mid[i] = seq[i]
    BY <1>1, <1>4
  <1> HIDE DEF mid
  <1>8. new \in Seq(S)
    BY <1>2, <1>7
  <1>9. Len(new) = Len(mid) + Len(b)
    BY <1>2, <1>7, JoinedLen
  <1>5. new \in Seq(S) /\ Len(new) = Len(seq) + 1
    BY <1>2, <1>4, <1>7, <1>8, <1>9
  <1>6. ASSUME NEW i \in 1 .. Len(seq) + 1
        PROVE  new[i] = IF i < p THEN seq[i] ELSE IF i = p THEN o ELSE seq[i - 1]
    <2>1. CASE i < p
      <3>1. new[i] = mid[i] /\ i \in 1 .. p - 1
        BY <1>2, <1>4, <1>7, <2>1
      <3> QED
        BY <1>7, <2>1, <3>1
    <2>2. CASE i = p
      <3>1. new[i] = mid[p]
        BY <1>2, <1>4, <1>7, <2>2
      <3> QED
        BY <1>4, <1>7, <2>2, <3>1
    <2>3. CASE i > p
      <3>1. new[i] = b[i - p]
        BY <1>2, <1>4, <1>7, <2>3
      <3>2. b[i - p] = seq[p + (i - p) - 1] /\ p + (i - p) - 1 = i - 1
        BY <1>2, <1>4, <2>3
      <3> QED
        BY <1>4, <2>3, <3>1, <3>2
    <2>4. i \in Nat
      BY <1>4
    <2> HIDE DEF new
    <2> QED
      BY <1>4, <2>1, <2>2, <2>3, <2>4
  <1> QED
    BY <1>3, <1>5, <1>6

LEMMA TakenOut ==
    ASSUME NEW S, NEW seq \in Seq(S), NEW p \in 1 .. Len(seq)
    PROVE  /\ RemoveAt(seq, p) \in Seq(S) /\ Len(RemoveAt(seq, p)) = Len(seq) - 1
           /\ \A i \in 1 .. Len(seq) - 1 :
                  RemoveAt(seq, p)[i] = IF i < p THEN seq[i] ELSE seq[i + 1]
  <1> DEFINE a == SubSeq(seq, 1, p - 1)
             b == SubSeq(seq, p + 1, Len(seq))
             new == a \o b
  <1>1. a \in Seq(S) /\ Len(a) = p - 1 /\ \A i \in 1 .. p - 1 : a[i] = seq[i]
    OBVIOUS
  <1>2. /\ b \in Seq(S) /\ Len(b) = Len(seq) - p
        /\ \A i \in 1 .. Len(seq) - p : b[i] = seq[p + i]
    OBVIOUS
  <1>3. RemoveAt(seq, p) = new
    BY DEF RemoveAt
  <1>4. p \in Nat /\ Len(seq) \in Nat
    OBVIOUS
  <1> HIDE DEF a, b
  <1>7. a \in Seq(S) /\ b \in Seq(S) /\ Len(a) = p - 1 /\ Len(b) = Len(seq) - p
    BY <1>1, <1>2
  <1>8. Len(new) = Len(a) + Len(b)
    BY <1>7, JoinedLen
  <1>9. new \in Seq(S)
    BY <1>7
  <1>5. new \in Seq(S) /\ Len(new) = Len(seq) - 1
    <2> HIDE DEF new
    <2> QED
      BY <1>4, <1>7, <1>8, <1>9
  <1>6. ASSUME NEW i \in 1 .. Len(seq) - 1
        PROVE  new[i] = IF i < p THEN seq[i] ELSE seq[i + 1]
    <2>1. CASE i < p
      BY <1>1, <1>2, <1>4, <2>1
    <2>2. CASE ~(i < p)
      <3>1. new[i] = b[i + 1 - p]
        BY <1>1, <1>2, <1>4, <2>2
      <3>2. b[i + 1 - p] = seq[p + (i + 1 - p)]
        BY <1>2, <1>4, <2>2
      <3> QED
        BY <1>4, <2>2, <3>1, <3>2
    <2> QED
      BY <2>1, <2>2
  <1> QED
    BY <1>3, <1>5, <1>6

\* What is in two sequences put together; when nothing is in there twice.
LEMMA JoinedSet ==
    ASSUME NEW S, NEW s \in Seq(S), NEW t \in Seq(S)
    PROVE  /\ ToSet(s \o t) = ToSet(s) \cup ToSet(t)
           /\ IsInjective(s) /\ IsInjective(t) /\ ToSet(s) \cap ToSet(t) = {}
                => IsInjective(s \o t)
  <1> DEFINE m == Len(s)
             n == Len(t)
             j == s \o t
  <1>1. m \in Nat /\ n \in Nat /\ DOMAIN s = 1 .. m /\ DOMAIN t = 1 .. n
    OBVIOUS
  <1>2. DOMAIN j = 1 .. m + n
    <2>1. j \in Seq(S) /\ Len(j) = m + n
      BY JoinedLen
    <2> QED
      BY <2>1
  <1>3. ASSUME NEW i \in 1 .. m + n PROVE j[i] = IF i <= m THEN s[i] ELSE t[i - m]
    BY <1>1
  <1> HIDE DEF m, n, j
  <1>4. ASSUME NEW i \in 1 .. m + n
        PROVE  \/ i \in 1 .. m /\ j[i] = s[i] /\ s[i] \in ToSet(s)
               \/ i \notin 1 .. m /\ i - m \in 1 .. n /\ j[i] = t[i - m] /\ t[i - m] \in ToSet(t)
    <2>1. CASE i <= m
      BY <1>1, <1>3, <2>1 DEF ToSet
    <2>2. CASE ~(i <= m)
      <3>1. i - m \in 1 .. n /\ i \notin 1 .. m
        BY <1>1, <2>2
      <3> QED
        BY <1>1, <1>3, <2>2, <3>1 DEF ToSet
    <2> QED
      BY <2>1, <2>2
  <1>5. \A i \in 1 .. m : i \in 1 .. m + n /\ j[i] = s[i]
    BY <1>1, <1>3
  <1>6. \A i \in 1 .. n : i + m \in 1 .. m + n /\ j[i + m] = t[i]
    BY <1>1, <1>3
  <1>7. ToSet(j) = ToSet(s) \cup ToSet(t)
    <2>1. ToSet(j) \subseteq ToSet(s) \cup ToSet(t)
      BY <1>2, <1>4 DEF ToSet
    <2>2. ToSet(s) \subseteq ToSet(j)
      BY <1>1, <1>2, <1>5 DEF ToSet
    <2>3. ToSet(t) \subseteq ToSet(j)
      BY <1>1, <1>2, <1>6 DEF ToSet
    <2> QED
      BY <2>1, <2>2, <2>3
  <1>8. ASSUME IsInjective(s), IsInjective(t), ToSet(s) \cap ToSet(t) = {} PROVE IsInjective(j)
    <2>1. SUFFICES ASSUME NEW a \in 1 .. m + n, NEW b \in 1 .. m + n, j[a] = j[b] PROVE a = b
      BY <1>2 DEF IsInjective
    <2>2. a \in 1 .. m <=> b \in 1 .. m
      BY <1>4, <1>8, <2>1
    <2>3. CASE a \in 1 .. m
      <3>1. s[a] = s[b]
        BY <1>4, <2>1, <2>2, <2>3
      <3> QED
        BY <1>1, <1>8, <2>2, <2>3, <3>1 DEF IsInjective
    <2>4. CASE a \notin 1 .. m
      <3>1. t[a - m] = t[b - m] /\ a - m \in 1 .. n /\ b - m \in 1 .. n
        BY <1>4, <2>1, <2>2, <2>4
      <3>2. a - m = b - m
        BY <1>1, <1>8, <3>1 DEF IsInjective
      <3> QED
        BY <1>1, <3>2
    <2> QED
      BY <2>3, <2>4
  <1> QED
    BY <1>7, <1>8 DEF j

\* A sequence without its last element.
LEMMA FrontIs ==
    ASSUME NEW S, NEW s \in Seq(S), Len(s) # 0
    PROVE  /\ Front(s) \in Seq(S) /\ Len(Front(s)) = Len(s) - 1
           /\ \A j \in 1 .. Len(s) - 1 : Front(s)[j] = s[j]
  <1>a. Len(s) \in Nat /\ Len(s) - 1 \in Nat /\ Len(s) - 1 <= Len(s)
    OBVIOUS
  <1>b. \A n \in Nat : n <= Len(s) => SubSeq(s, 1, n) \in Seq(S)
    OBVIOUS
  <1>1. Front(s) \in Seq(S)
    BY <1>a, <1>b DEF Front
  <1>c. \A n \in Nat : n <= Len(s) => Len(SubSeq(s, 1, n)) = n
    OBVIOUS
  <1>2. Len(Front(s)) = Len(s) - 1
    BY <1>a, <1>c DEF Front
  <1>3. \A j \in 1 .. Len(s) - 1 : Front(s)[j] = s[j]
    BY DEF Front
  <1> QED
    BY <1>1, <1>2, <1>3

\* Of a sequence without repetitions it is the others, each once.
LEMMA RemoveAtOnce ==
    ASSUME NEW S, NEW s \in Seq(S), IsInjective(s), NEW i \in 1 .. Len(s)
    PROVE  IsInjective(RemoveAt(s, i)) /\ ToSet(RemoveAt(s, i)) = ToSet(s) \ {s[i]}
  <1> DEFINE r == RemoveAt(s, i)
  <1>1. /\ r \in Seq(S) /\ Len(r) = Len(s) - 1
        /\ \A j \in 1 .. Len(s) - 1 : r[j] = IF j < i THEN s[j] ELSE s[j + 1]
    BY TakenOut
  <1> HIDE DEF r
  <1>2. DOMAIN r = 1 .. Len(s) - 1 /\ DOMAIN s = 1 .. Len(s)
    BY <1>1
  <1>3. \A a, b \in 1 .. Len(s) : s[a] = s[b] => a = b
    BY <1>2 DEF IsInjective
  <1>4. \A a, b \in 1 .. Len(s) - 1 : r[a] = r[b] => a = b
    BY <1>1, <1>3
  <1>5. ASSUME NEW j \in 1 .. Len(s) - 1
        PROVE  r[j] \in ToSet(s) /\ r[j] # s[i]
    <2>1. CASE j < i       BY <1>1, <1>2, <1>3, <2>1 DEF ToSet
    <2>2. CASE ~(j < i)
      <3>1. j + 1 \in 1 .. Len(s) /\ r[j] = s[j + 1] /\ j + 1 # i
        BY <1>1, <2>2
      <3> QED
        BY <1>2, <1>3, <3>1 DEF ToSet
    <2> QED
      BY <2>1, <2>2
  <1>6. ASSUME NEW j \in 1 .. Len(s), s[j] # s[i]
        PROVE  s[j] \in ToSet(r)
    <2>1. CASE j < i
      BY <1>1, <1>2, <2>1 DEF ToSet
    <2>2. CASE ~(j < i)
      <3>1. j - 1 \in 1 .. Len(s) - 1 /\ r[j - 1] = s[j]
        BY <1>1, <1>6, <2>2
      <3> QED
        BY <1>2, <3>1 DEF ToSet
    <2> QED
      BY <2>1, <2>2
  <1>7. IsInjective(r)
    BY <1>2, <1>4 DEF IsInjective
  <1>8. ToSet(r) = ToSet(s) \ {s[i]}
    BY <1>2, <1>5, <1>6 DEF ToSet
  <1> QED
    BY <1>7, <1>8 DEF r

\* A new element at the end.
LEMMA AppendOnce ==
    ASSUME NEW S, NEW s \in Seq(S), IsInjective(s), NEW e \in S, e \notin ToSet(s)
    PROVE  /\ Append(s, e) \in Seq(S) /\ IsInjective(Append(s, e))
           /\ ToSet(Append(s, e)) = ToSet(s) \cup {e}
  <1> DEFINE r == Append(s, e)
  <1>1. /\ r \in Seq(S) /\ Len(r) = Len(s) + 1 /\ r[Len(s) + 1] = e
        /\ \A j \in 1 .. Len(s) : r[j] = s[j]
    OBVIOUS
  <1> HIDE DEF r
  <1>2. DOMAIN r = 1 .. Len(s) + 1 /\ DOMAIN s = 1 .. Len(s)
    BY <1>1
  <1>3. \A a, b \in 1 .. Len(s) : s[a] = s[b] => a = b
    BY <1>2 DEF IsInjective
  <1>4. \A a \in 1 .. Len(s) : s[a] # e /\ s[a] \in ToSet(s)
    BY <1>2 DEF ToSet
  <1>5. \A a \in 1 .. Len(s) + 1 : a \in 1 .. Len(s) \/ a = Len(s) + 1
    OBVIOUS
  <1>6. \A a, b \in 1 .. Len(s) + 1 : r[a] = r[b] => a = b
    BY <1>1, <1>3, <1>4, <1>5
  <1>7. IsInjective(r)
    BY <1>2, <1>6 DEF IsInjective
  <1>8. ToSet(r) = ToSet(s) \cup {e}
    BY <1>1, <1>2, <1>5 DEF ToSet
  <1> QED
    BY <1>1, <1>7, <1>8 DEF r
=============================================================================
