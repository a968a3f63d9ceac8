--------------------------- MODULE RecoveryProofs ---------------------------
(***************************************************************************)
(* Proofs about the recovery services.  The first part is a theory of the  *)
(* sums the model takes with MapThenSumSet: induction over the subsets of  *)
(* a finite set.  The second is the allocation of rooms: what the greedy   *)
(* loop takes in all and from each property.  The third states the books,  *)
(* the invariant every service keeps, and the theorems that rest on it.    *)
(***************************************************************************)
EXTENDS Recovery, FiniteSetTheorems, TLAPS

SumOf(val, S) == LET Of(x) == val[x] IN MapThenSumSet(Of, S)

\* A collection of subsets that has the empty set and grows by any element has them all.
LEMMA SubsetsGrow ==
    ASSUME NEW S, IsFiniteSet(S), NEW B \in SUBSET (SUBSET S), {} \in B,
           \A T \in B : \A x \in S \ T : T \cup {x} \in B
    PROVE  B = SUBSET S
<1> DEFINE C == (SUBSET S) \ B
<1>1. SUFFICES ASSUME C # {} PROVE FALSE
  OBVIOUS
<1>2. PICK T \in C : \A U \in C : <<U, T>> \notin StrictSubsetOrdering(S)
  <2>1. C \subseteq FiniteSubsetsOf(S)
    BY FS_FiniteSubsetsOfFinite
  <2> QED BY <1>1, <2>1, WFMin, FS_StrictSubsetOrderingWellFounded, Zenon
<1>3. PICK x \in T : TRUE
  OBVIOUS
<1>4. T \ {x} \in B
  <2>1. <<T \ {x}, T>> \in StrictSubsetOrdering(S)
    BY <1>3 DEF StrictSubsetOrdering
  <2> QED BY <1>2, <1>3, <2>1
<1>5. (T \ {x}) \cup {x} \in B
  BY <1>3, <1>4
<1>6. (T \ {x}) \cup {x} = T
  BY <1>3
<1> QED BY <1>2, <1>5, <1>6

\* f adds val up over the subsets of S.
Adds(f, val, S) ==
    f = [s \in SUBSET S |-> IF s = {} THEN 0
                            ELSE val[CHOOSE x \in s : TRUE] + f[s \ {CHOOSE x \in s : TRUE}]]

LEMMA SumAdds == \A val, S : SumOf(val, S) = (CHOOSE f : Adds(f, val, S))[S]
BY DEF SumOf, MapThenSumSet, MapThenFoldSet, Adds

LEMMA AddsUnique ==
    ASSUME NEW S, NEW T, IsFiniteSet(S), S \subseteq T, NEW val, NEW f, NEW g,
           Adds(f, val, S), Adds(g, val, T)
    PROVE  f[S] = g[S]
<1> DEFINE C == {s \in SUBSET S : f[s] # g[s]}
<1>1. SUFFICES ASSUME C # {} PROVE FALSE
  OBVIOUS
<1>2. PICK s \in C : \A t \in C : <<t, s>> \notin StrictSubsetOrdering(S)
  <2>1. C \subseteq FiniteSubsetsOf(S)
    BY FS_FiniteSubsetsOfFinite
  <2> QED BY <1>1, <2>1, WFMin, FS_StrictSubsetOrderingWellFounded, Zenon
<1>3. s \in SUBSET S /\ s \in SUBSET T
  OBVIOUS
<1> DEFINE x == CHOOSE y \in s : TRUE
<1>4. /\ f[s] = IF s = {} THEN 0 ELSE val[x] + f[s \ {x}]
      /\ g[s] = IF s = {} THEN 0 ELSE val[x] + g[s \ {x}]
  BY <1>3 DEF Adds
<1>5. s # {} /\ x \in s
  BY <1>2, <1>4
<1>6. <<s \ {x}, s>> \in StrictSubsetOrdering(S)
  BY <1>3, <1>5 DEF StrictSubsetOrdering
<1>7. f[s \ {x}] = g[s \ {x}]
  BY <1>2, <1>6
<1> QED BY <1>2, <1>4, <1>5, <1>7

LEMMA AddsExists ==
    ASSUME NEW S, IsFiniteSet(S), NEW val
    PROVE  \E f : Adds(f, val, S)
<1> DEFINE B == {s \in SUBSET S : \E f : Adds(f, val, s)}
           C == (SUBSET S) \ B
<1>1. SUFFICES ASSUME C # {} PROVE FALSE
  OBVIOUS
<1>2. PICK s \in C : \A t \in C : <<t, s>> \notin StrictSubsetOrdering(S)
  <2>1. C \subseteq FiniteSubsetsOf(S)
    BY FS_FiniteSubsetsOfFinite
  <2> QED BY <1>1, <2>1, WFMin, FS_StrictSubsetOrderingWellFounded, Zenon
<1>3. \A t \in SUBSET s : t # s => \E f : Adds(f, val, t)
  <2> SUFFICES ASSUME NEW t \in SUBSET s, t # s PROVE t \in B
    OBVIOUS
  <2>1. <<t, s>> \in StrictSubsetOrdering(S)
    BY DEF StrictSubsetOrdering
  <2> QED BY <1>2, <2>1
<1> DEFINE G(t) == CHOOSE f : Adds(f, val, t)
           x(t) == CHOOSE y \in t : TRUE
           F(t) == IF t = {} THEN 0 ELSE val[x(t)] + G(t \ {x(t)})[t \ {x(t)}]
           f    == [t \in SUBSET s |-> F(t)]
<1>4. \A t \in SUBSET s : t # s => Adds(G(t), val, t)
  BY <1>3
<1>5. ASSUME NEW t \in SUBSET s, t # {}
      PROVE  G(t \ {x(t)})[t \ {x(t)}] = F(t \ {x(t)})
  <2> DEFINE u == t \ {x(t)}
  <2>1. x(t) \in t
    BY <1>5
  <2>2. u \in SUBSET s /\ u # s /\ u \ {x(u)} \in SUBSET u
    BY <2>1
  <2>3. Adds(G(u), val, u)
    BY <1>4, <2>2
  <2>4. G(u)[u] = IF u = {} THEN 0 ELSE val[x(u)] + G(u)[u \ {x(u)}]
    BY <2>3 DEF Adds
  <2>5. ASSUME u # {} PROVE G(u)[u \ {x(u)}] = G(u \ {x(u)})[u \ {x(u)}]
    <3> DEFINE v == u \ {x(u)}
    <3>1. v \in SUBSET s /\ v # s /\ v \subseteq u
      BY <2>2, <2>5, <2>1
    <3>2. Adds(G(v), val, v)
      BY <1>4, <3>1
    <3>3. IsFiniteSet(v)
      BY <3>1, <1>2, FS_Subset
    <3> HIDE DEF G, v, u, x
    <3>4. G(v)[v] = G(u)[v]
      BY <3>1, <3>2, <3>3, <2>3, AddsUnique
    <3> QED BY <3>4 DEF v
  <2> QED BY <2>4, <2>5
<1>6. Adds(f, val, s)
  <2>1. \A t \in SUBSET s : t # {} => t \ {x(t)} \in SUBSET s
    OBVIOUS
  <2>2. \A t \in SUBSET s : F(t) = IF t = {} THEN 0 ELSE val[x(t)] + f[t \ {x(t)}]
    <3> SUFFICES ASSUME NEW t \in SUBSET s
                 PROVE F(t) = IF t = {} THEN 0 ELSE val[x(t)] + f[t \ {x(t)}]
      OBVIOUS
    <3>1. CASE t = {}
      BY <3>1
    <3>2. CASE t # {}
      <4>1. f[t \ {x(t)}] = F(t \ {x(t)})
        BY <2>1, <3>2
      <4>2. G(t \ {x(t)})[t \ {x(t)}] = F(t \ {x(t)})
        BY <1>5, <3>2
      <4>3. F(t) = val[x(t)] + G(t \ {x(t)})[t \ {x(t)}]
        BY <3>2
      <4> HIDE DEF F, f, G, x
      <4> QED BY <4>1, <4>2, <4>3, <3>2
    <3> QED BY <3>1, <3>2
  <2>3. f = [t \in SUBSET s |-> IF t = {} THEN 0 ELSE val[x(t)] + f[t \ {x(t)}]]
    <3> HIDE DEF F, x
    <3> QED BY <2>2
  <2> HIDE DEF f, F
  <2> QED BY <2>3, Zenon DEF Adds
<1> QED BY <1>2, <1>6

\* The sum over a set, by the element CHOOSE takes first.
LEMMA SumChooses ==
    ASSUME NEW S, IsFiniteSet(S), NEW val
    PROVE  SumOf(val, S) = IF S = {} THEN 0
                           ELSE val[CHOOSE x \in S : TRUE] + SumOf(val, S \ {CHOOSE x \in S : TRUE})
<1> DEFINE x == CHOOSE y \in S : TRUE
           R == S \ {x}
           f == CHOOSE h : Adds(h, val, S)
           g == CHOOSE h : Adds(h, val, R)
<1>1. IsFiniteSet(R)
  BY FS_Subset
<1>2. Adds(f, val, S) /\ Adds(g, val, R)
  BY <1>1, AddsExists
<1>3. SumOf(val, S) = f[S] /\ SumOf(val, R) = g[R]
  BY SumAdds
<1>4. f[S] = IF S = {} THEN 0 ELSE val[x] + f[R]
  <2> HIDE DEF f
  <2> QED BY <1>2 DEF Adds
<1>5. f[R] = g[R]
  <2> HIDE DEF f, g
  <2> QED BY <1>1, <1>2, AddsUnique
<1> QED BY <1>3, <1>4, <1>5

LEMMA SumEmpty == \A val : SumOf(val, {}) = 0
BY SumChooses, FS_EmptySet

LEMMA SumInt ==
    ASSUME NEW S, IsFiniteSet(S), NEW val, \A x \in S : val[x] \in Int
    PROVE  SumOf(val, S) \in Int
<1> DEFINE C == {T \in SUBSET S : SumOf(val, T) \notin Int}
<1>1. SUFFICES ASSUME C # {} PROVE FALSE
  OBVIOUS
<1>2. PICK T \in C : \A U \in C : <<U, T>> \notin StrictSubsetOrdering(S)
  <2>1. C \subseteq FiniteSubsetsOf(S)
    BY FS_FiniteSubsetsOfFinite
  <2> QED BY <1>1, <2>1, WFMin, FS_StrictSubsetOrderingWellFounded, Zenon
<1> DEFINE x == CHOOSE y \in T : TRUE
<1>3. IsFiniteSet(T) /\ T # {} /\ x \in T
  <2>1. IsFiniteSet(T)
    BY FS_Subset
  <2>2. T # {}
    BY SumEmpty
  <2> QED BY <2>1, <2>2
<1>4. SumOf(val, T) = val[x] + SumOf(val, T \ {x})
  BY <1>3, SumChooses
<1>5. SumOf(val, T \ {x}) \in Int
  <2>1. <<T \ {x}, T>> \in StrictSubsetOrdering(S)
    BY <1>3 DEF StrictSubsetOrdering
  <2> QED BY <1>2, <1>3, <2>1
<1> QED BY <1>2, <1>3, <1>4, <1>5

\* The sum, by any element of the set.
LEMMA SumTakes ==
    ASSUME NEW S, IsFiniteSet(S), NEW val, \A x \in S : val[x] \in Int, NEW a \in S
    PROVE  SumOf(val, S) = val[a] + SumOf(val, S \ {a})
<1> DEFINE C == {T \in SUBSET S : \E b \in T : SumOf(val, T) # val[b] + SumOf(val, T \ {b})}
<1>1. SUFFICES ASSUME C # {} PROVE FALSE
  OBVIOUS
<1>2. PICK T \in C : \A U \in C : <<U, T>> \notin StrictSubsetOrdering(S)
  <2>1. C \subseteq FiniteSubsetsOf(S)
    BY FS_FiniteSubsetsOfFinite
  <2> QED BY <1>1, <2>1, WFMin, FS_StrictSubsetOrderingWellFounded, Zenon
<1>3. PICK b \in T : SumOf(val, T) # val[b] + SumOf(val, T \ {b})
  BY <1>2
<1> DEFINE x == CHOOSE y \in T : TRUE
           U == T \ {x}
           V == T \ {b}
           W == U \ {b}
<1>4. /\ x \in T /\ T \in SUBSET S
      /\ IsFiniteSet(T) /\ IsFiniteSet(V) /\ IsFiniteSet(U) /\ IsFiniteSet(W)
      /\ val[x] \in Int /\ val[b] \in Int
  BY <1>3, FS_Subset
<1>5. SumOf(val, U) \in Int /\ SumOf(val, V) \in Int /\ SumOf(val, W) \in Int
  BY <1>4, SumInt
<1>6. SumOf(val, T) = val[x] + SumOf(val, U)
  BY <1>4, SumChooses
<1>7. b # x
  BY <1>3, <1>6
<1>8. U \in SUBSET S /\ V \in SUBSET S /\ b \in U /\ x \in V /\ V \ {x} = W
  BY <1>4, <1>7
<1>9. <<U, T>> \in StrictSubsetOrdering(S) /\ <<V, T>> \in StrictSubsetOrdering(S)
  BY <1>4, <1>8, <1>3 DEF StrictSubsetOrdering
<1>10. SumOf(val, U) = val[b] + SumOf(val, W) /\ SumOf(val, V) = val[x] + SumOf(val, W)
  BY <1>2, <1>8, <1>9
<1> QED BY <1>3, <1>4, <1>5, <1>6, <1>10

LEMMA SumAddsOne ==
    ASSUME NEW S, IsFiniteSet(S), NEW val, NEW a, a \notin S,
           \A x \in S \cup {a} : val[x] \in Int
    PROVE  SumOf(val, S \cup {a}) = val[a] + SumOf(val, S)
<1>1. IsFiniteSet(S \cup {a}) /\ (S \cup {a}) \ {a} = S
  BY FS_AddElement
<1> QED BY <1>1, SumTakes

LEMMA SumSame ==
    ASSUME NEW S, IsFiniteSet(S), NEW f, NEW g,
           \A x \in S : f[x] \in Int /\ g[x] = f[x]
    PROVE  SumOf(f, S) = SumOf(g, S)
<1> DEFINE B == {T \in SUBSET S : SumOf(f, T) = SumOf(g, T)}
<1>1. {} \in B
  BY SumEmpty
<1>2. ASSUME NEW T \in B, NEW x \in S \ T PROVE T \cup {x} \in B
  BY <1>2, SumAddsOne, FS_Subset
<1>3. B \in SUBSET (SUBSET S)
  OBVIOUS
<1>4. S \in B
  <2> HIDE DEF B
  <2>1. B = SUBSET S
    BY <1>1, <1>2, <1>3, SubsetsGrow
  <2> QED BY <2>1
<1> QED BY <1>4

LEMMA SumAtMost ==
    ASSUME NEW S, IsFiniteSet(S), NEW f, NEW g,
           \A x \in S : f[x] \in Int /\ g[x] \in Int /\ f[x] <= g[x]
    PROVE  SumOf(f, S) <= SumOf(g, S)
<1> DEFINE B == {T \in SUBSET S : SumOf(f, T) <= SumOf(g, T)}
<1>1. {} \in B
  BY SumEmpty
<1>2. ASSUME NEW T \in B, NEW x \in S \ T PROVE T \cup {x} \in B
  <2>1. IsFiniteSet(T)
    BY FS_Subset
  <2>2. SumOf(f, T) \in Int /\ SumOf(g, T) \in Int
    BY <2>1, SumInt
  <2>3. SumOf(f, T \cup {x}) = f[x] + SumOf(f, T) /\ SumOf(g, T \cup {x}) = g[x] + SumOf(g, T)
    BY <2>1, SumAddsOne
  <2> QED BY <2>2, <2>3
<1>3. B \in SUBSET (SUBSET S)
  OBVIOUS
<1>4. S \in B
  <2> HIDE DEF B
  <2>1. B = SUBSET S
    BY <1>1, <1>2, <1>3, SubsetsGrow
  <2> QED BY <2>1
<1> QED BY <1>4

\* Two accounts added entry by entry.
LEMMA SumPlus ==
    ASSUME NEW S, IsFiniteSet(S), NEW f, NEW g, NEW h,
           \A x \in S : f[x] \in Int /\ g[x] \in Int /\ h[x] = f[x] + g[x]
    PROVE  SumOf(h, S) = SumOf(f, S) + SumOf(g, S)
<1> DEFINE B == {T \in SUBSET S : SumOf(h, T) = SumOf(f, T) + SumOf(g, T)}
<1>1. {} \in B
  BY SumEmpty
<1>2. ASSUME NEW T \in B, NEW x \in S \ T PROVE T \cup {x} \in B
  <2>1. IsFiniteSet(T)
    BY FS_Subset
  <2>2. SumOf(f, T) \in Int /\ SumOf(g, T) \in Int
    BY <2>1, SumInt
  <2>3. \A y \in T \cup {x} : f[y] \in Int /\ g[y] \in Int /\ h[y] \in Int
    OBVIOUS
  <2>4. /\ SumOf(f, T \cup {x}) = f[x] + SumOf(f, T) /\ SumOf(g, T \cup {x}) = g[x] + SumOf(g, T)
        /\ SumOf(h, T \cup {x}) = h[x] + SumOf(h, T)
    BY <2>1, <2>3, SumAddsOne
  <2> QED BY <2>2, <2>4
<1>3. B \in SUBSET (SUBSET S)
  OBVIOUS
<1>4. S \in B
  <2> HIDE DEF B
  <2>1. B = SUBSET S
    BY <1>1, <1>2, <1>3, SubsetsGrow
  <2> QED BY <2>1
<1> QED BY <1>4

\* A sum over names is the sum over what they name.
LEMMA SumNames ==
    ASSUME NEW S, IsFiniteSet(S), NEW f, NEW g, NEW name,
           \A x \in S : f[x] \in Int /\ g[name[x]] = f[x],
           \A x, y \in S : name[x] = name[y] => x = y
    PROVE  SumOf(g, {name[x] : x \in S}) = SumOf(f, S)
<1> DEFINE N(T) == {name[x] : x \in T}
           B == {T \in SUBSET S : IsFiniteSet(N(T)) /\ SumOf(g, N(T)) = SumOf(f, T)}
<1>1. {} \in B
  <2>1. N({}) = {}
    OBVIOUS
  <2> QED BY <2>1, SumEmpty, FS_EmptySet
<1>2. ASSUME NEW T \in B, NEW x \in S \ T PROVE T \cup {x} \in B
  <2>1. N(T \cup {x}) = N(T) \cup {name[x]} /\ name[x] \notin N(T)
    OBVIOUS
  <2>2. IsFiniteSet(T) /\ IsFiniteSet(N(T)) /\ T \cup {x} \in SUBSET S
    BY FS_Subset
  <2>3. \A n \in N(T) \cup {name[x]} : g[n] \in Int
    OBVIOUS
  <2>4. SumOf(f, T \cup {x}) = f[x] + SumOf(f, T)
    BY <2>2, SumAddsOne
  <2>5. SumOf(g, N(T)) = SumOf(f, T)
    OBVIOUS
  <2> HIDE DEF N
  <2>6. IsFiniteSet(N(T) \cup {name[x]})
    BY <2>2, FS_AddElement
  <2>7. SumOf(g, N(T) \cup {name[x]}) = g[name[x]] + SumOf(g, N(T))
    BY <2>1, <2>2, <2>3, SumAddsOne
  <2>8. g[name[x]] = f[x]
    OBVIOUS
  <2>9. SumOf(g, N(T \cup {x})) = SumOf(f, T \cup {x})
    BY <2>1, <2>4, <2>5, <2>7, <2>8
  <2> QED BY <2>1, <2>2, <2>6, <2>9
<1>3. B \in SUBSET (SUBSET S)
  OBVIOUS
<1>4. S \in B
  <2> HIDE DEF B
  <2>1. B = SUBSET S
    BY <1>1, <1>2, <1>3, SubsetsGrow
  <2> QED BY <2>1
<1> QED BY <1>4

LEMMA SumNat ==
    ASSUME NEW S, IsFiniteSet(S), NEW val, \A x \in S : val[x] \in Nat
    PROVE  SumOf(val, S) \in Nat
<1> DEFINE zero == [x \in S |-> 0]
           B == {T \in SUBSET S : SumOf(val, T) \in Nat}
<1>1. {} \in B
  BY SumEmpty
<1>2. ASSUME NEW T \in B, NEW x \in S \ T PROVE T \cup {x} \in B
  <2>1. IsFiniteSet(T) /\ \A y \in T \cup {x} : val[y] \in Int
    BY FS_Subset
  <2>2. SumOf(val, T \cup {x}) = val[x] + SumOf(val, T)
    BY <2>1, SumAddsOne
  <2> QED BY <2>2
<1>3. B \in SUBSET (SUBSET S)
  OBVIOUS
<1>4. S \in B
  <2> HIDE DEF B
  <2>1. B = SUBSET S
    BY <1>1, <1>2, <1>3, SubsetsGrow
  <2> QED BY <2>1
<1> QED BY <1>4

\* What a part of the set does not count towards the sum can be left out.
LEMMA SumOfPart ==
    ASSUME NEW S, IsFiniteSet(S), NEW val, \A x \in S : val[x] \in Int,
           NEW P \in SUBSET S, \A x \in S \ P : val[x] = 0
    PROVE  SumOf(val, S) = SumOf(val, P)
<1> DEFINE B == {T \in SUBSET (S \ P) : SumOf(val, P \cup T) = SumOf(val, P)}
<1>1. {} \in B
  <2>1. P \cup {} = P
    OBVIOUS
  <2> QED BY <2>1
<1>2. ASSUME NEW T \in B, NEW x \in (S \ P) \ T PROVE T \cup {x} \in B
  <2>1. /\ P \cup T \in SUBSET S /\ x \notin P \cup T /\ val[x] = 0
        /\ P \cup (T \cup {x}) = (P \cup T) \cup {x}
    OBVIOUS
  <2>2. IsFiniteSet(P \cup T) /\ IsFiniteSet(P)
    BY <2>1, FS_Subset
  <2>3. SumOf(val, (P \cup T) \cup {x}) = val[x] + SumOf(val, P \cup T)
    BY <2>1, <2>2, SumAddsOne
  <2>4. SumOf(val, P) \in Int /\ SumOf(val, P \cup T) = SumOf(val, P)
    BY <2>2, SumInt
  <2>5. SumOf(val, (P \cup T) \cup {x}) = SumOf(val, P)
    BY <2>1, <2>3, <2>4
  <2>6. SumOf(val, P \cup (T \cup {x})) = SumOf(val, P)
    BY <2>1, <2>5, Zenon
  <2> QED BY <2>6
<1>3. B \in SUBSET (SUBSET (S \ P)) /\ IsFiniteSet(S \ P)
  BY FS_Subset
<1>4. S \ P \in B
  <2> HIDE DEF B
  <2>1. B = SUBSET (S \ P)
    BY <1>1, <1>2, <1>3, SubsetsGrow
  <2> QED BY <2>1
<1>5. P \cup (S \ P) = S
  OBVIOUS
<1> QED BY <1>4, <1>5

LEMMA PartSumsLess ==
    ASSUME NEW S, IsFiniteSet(S), NEW val, \A x \in S : val[x] \in Nat, NEW P \in SUBSET S
    PROVE  SumOf(val, P) <= SumOf(val, S)
<1> DEFINE cut == [x \in S |-> IF x \in P THEN val[x] ELSE 0]
<1>1. IsFiniteSet(P)
  BY FS_Subset
<1>2. SumOf(val, P) = SumOf(cut, P)
  BY <1>1, SumSame
<1>3. SumOf(cut, S) = SumOf(cut, P)
  BY SumOfPart
<1>4. SumOf(cut, S) <= SumOf(val, S)
  BY SumAtMost
<1> QED BY <1>2, <1>3, <1>4

LEMMA ImageIsFinite ==
    ASSUME NEW S, IsFiniteSet(S), NEW name
    PROVE  IsFiniteSet({name[x] : x \in S})
<1> DEFINE T == {name[x] : x \in S}
           f == [x \in S |-> name[x]]
<1>1. f \in Surjection(S, T)
  BY DEF Surjection
<1> QED BY <1>1, FS_Surjection

\* An operator that is summed, as the function with its values.
LEMMA Bridge ==
    ASSUME NEW S, IsFiniteSet(S), NEW val, NEW f, Adds(f, val, S)
    PROVE  f[S] = SumOf(val, S)
<1>1. Adds(CHOOSE g : Adds(g, val, S), val, S)
  OBVIOUS
<1> QED BY <1>1, SumAdds, AddsUnique

-----------------------------------------------------------------------------
(* Rooms                                                                   *)

LEMMA MaxOfTwo == ASSUME NEW a \in Int, NEW b \in Int
                  PROVE  Max({a, b}) = IF a <= b THEN b ELSE a
BY DEF Max

LEMMA MinOfTwo == ASSUME NEW a \in Int, NEW b \in Int
                  PROVE  Min({a, b}) = IF a <= b THEN a ELSE b
BY DEF Min

LEMMA RoomsAdd ==
    ASSUME NEW S, IsFiniteSet(S)
    PROVE  Rooms(S) = SumOf([o \in S |-> Available(o)], S)
<1> DEFINE val  == [o \in S |-> Available(o)]
           P(f) == f = [s \in SUBSET S |-> IF s = {} THEN 0
                          ELSE Available(CHOOSE x \in s : TRUE) + f[s \ {CHOOSE x \in s : TRUE}]]
<1>1. Rooms(S) = (CHOOSE f : P(f))[S]
  BY DEF Rooms, MapThenSumSet, MapThenFoldSet
<1>2. \A s \in SUBSET S : s # {} => val[CHOOSE x \in s : TRUE] = Available(CHOOSE x \in s : TRUE)
  OBVIOUS
<1>3. \A f : Adds(f, val, S) <=> P(f)
  <2> HIDE DEF val
  <2> QED BY <1>2 DEF Adds
<1> HIDE DEF val, P
<1>4. P(CHOOSE f : P(f))
  BY <1>3, AddsExists
<1> QED BY <1>1, <1>3, <1>4, Bridge DEF val

\* What makes the order of the properties total: their keys compare and their ids are their
\* own.
Ordered(options, terms) ==
    /\ IsFiniteSet(options) /\ terms.partner \in BOOLEAN
    /\ \A o \in options : /\ o.id \in Int /\ o.distance \in Int /\ o.rate \in Int
                          /\ o.partner \in BOOLEAN /\ o.total \in Int /\ o.held \in Int
    /\ \A o, p \in options : o.id = p.id => o = p

LEMMA BeforeIsTotal ==
    ASSUME NEW options, NEW terms, Ordered(options, terms)
    PROVE  /\ \A o \in options : ~Before(o, o, terms)
           /\ \A o, p \in options : o = p \/ Before(o, p, terms) \/ Before(p, o, terms)
           /\ \A o, p, q \in options :
                 Before(o, p, terms) /\ Before(p, q, terms) => Before(o, q, terms)
BY DEF Ordered, Before

\* Of some properties one comes last.
LEMMA OneIsLast ==
    ASSUME NEW options, NEW terms, Ordered(options, terms),
           NEW T \in SUBSET options, T # {}
    PROVE  \E m \in T : \A o \in T : ~Before(m, o, terms)
<1> DEFINE Hindmost(U) == \E m \in U : \A o \in U : ~Before(m, o, terms)
           B == {U \in SUBSET options : U = {} \/ Hindmost(U)}
<1>1. {} \in B
  OBVIOUS
<1>2. ASSUME NEW U \in B, NEW x \in options \ U PROVE U \cup {x} \in B
  <2>1. CASE U = {}
    BY <2>1, BeforeIsTotal
  <2>2. CASE U # {}
    <3>1. PICK m \in U : \A o \in U : ~Before(m, o, terms)
      BY <2>2
    <3>2. CASE Before(m, x, terms)
      <4>1. \A o \in U : ~Before(x, o, terms)
        BY <3>1, <3>2, BeforeIsTotal
      <4> QED BY <4>1, BeforeIsTotal
    <3>3. CASE ~Before(m, x, terms)
      BY <3>1, <3>3
    <3> QED BY <3>2, <3>3
  <2> QED BY <2>1, <2>2
<1>3. B \in SUBSET (SUBSET options) /\ IsFiniteSet(options)
  BY DEF Ordered
<1>4. T \in B
  <2> HIDE DEF B
  <2>1. B = SUBSET options
    BY <1>1, <1>2, <1>3, SubsetsGrow
  <2> QED BY <2>1
<1> QED BY <1>4

LEMMA AvailableRooms ==
    ASSUME NEW options, NEW terms, Ordered(options, terms), NEW o \in options
    PROVE  /\ Available(o) \in Nat
           /\ o.held <= o.total => Available(o) = o.total - o.held
<1>1. o.total - o.held \in Int
  BY DEF Ordered
<1>2. Available(o) = IF 0 <= o.total - o.held THEN o.total - o.held ELSE 0
  BY <1>1, MaxOfTwo DEF Available
<1> QED BY <1>1, <1>2 DEF Ordered

\* The loop of allocate_rooms takes what there is, up to what is required; what it leaves is
\* nothing when it falls short.
LEMMA Greedy ==
    ASSUME NEW options, NEW terms, Ordered(options, terms), NEW required \in Nat
    PROVE  LET E     == Eligible(options, terms)
               share == [o \in E |-> Share(o, required, options, terms)]
           IN  /\ \A o \in E : share[o] \in 0..Available(o)
               /\ Rooms(E) \in Nat
               /\ SumOf(share, E) = IF required <= Rooms(E) THEN required ELSE Rooms(E)
               /\ required > Rooms(E) => \A o \in E : share[o] = Available(o)
<1> DEFINE E     == Eligible(options, terms)
           share == [o \in E |-> Share(o, required, options, terms)]
           avail == [o \in E |-> Available(o)]
           least(n) == IF required <= n THEN required ELSE n
<1>1. E \in SUBSET options /\ IsFiniteSet(options) /\ IsFiniteSet(E)
  BY FS_Subset DEF Eligible, Ordered
<1>2. \A o \in E : Available(o) \in Nat /\ avail[o] = Available(o)
  BY <1>1, AvailableRooms
<1>3. ASSUME NEW T \in SUBSET E
      PROVE  IsFiniteSet(T) /\ Rooms(T) = SumOf(avail, T) /\ Rooms(T) \in Nat
  <2>1. IsFiniteSet(T)
    BY <1>1, FS_Subset
  <2>2. Rooms(T) = SumOf([o \in T |-> Available(o)], T)
    BY <2>1, RoomsAdd
  <2>3. \A o \in T : [p \in T |-> Available(p)][o] \in Int /\ avail[o] = [p \in T |-> Available(p)][o]
    BY <1>2
  <2>4. SumOf([o \in T |-> Available(o)], T) = SumOf(avail, T)
    BY <2>1, <2>3, SumSame
  <2>5. SumOf(avail, T) \in Nat
    BY <2>1, <1>2, SumNat
  <2> QED BY <2>1, <2>2, <2>4, <2>5
<1>4. ASSUME NEW o \in E
      PROVE  LET A == Ahead(o, options, terms)
             IN  /\ A \in SUBSET E /\ o \notin A
                 /\ share[o] = IF required <= Rooms(A) THEN 0
                               ELSE IF Available(o) <= required - Rooms(A) THEN Available(o)
                               ELSE required - Rooms(A)
  <2> DEFINE A == Ahead(o, options, terms)
  <2>1. A \in SUBSET E /\ o \notin A
    BY <1>1, BeforeIsTotal DEF Ahead
  <2>2. Rooms(A) \in Nat /\ Available(o) \in Nat
    BY <2>1, <1>2, <1>3
  <2>3. share[o] = Min({Available(o), Max({0, required - Rooms(A)})})
    BY DEF Share
  <2> HIDE DEF A, share
  <2>4. Max({0, required - Rooms(A)}) = IF 0 <= required - Rooms(A) THEN required - Rooms(A) ELSE 0
    BY <2>2, MaxOfTwo
  <2> DEFINE rest == Max({0, required - Rooms(A)})
  <2>5. rest \in Int
    BY <2>2, <2>4
  <2>6. share[o] = IF Available(o) <= rest THEN Available(o) ELSE rest
    <3> HIDE DEF rest
    <3>1. Min({Available(o), rest}) = IF Available(o) <= rest THEN Available(o) ELSE rest
      BY <2>2, <2>5, MinOfTwo
    <3> QED BY <3>1, <2>3 DEF rest
  <2> QED BY <2>1, <2>2, <2>4, <2>6 DEF A
<1>5. \A o \in E : share[o] \in 0..Available(o)
  <2> SUFFICES ASSUME NEW o \in E PROVE share[o] \in 0..Available(o)
    OBVIOUS
  <2> DEFINE A == Ahead(o, options, terms)
  <2>1. A \in SUBSET E /\ share[o] = IF required <= Rooms(A) THEN 0
                               ELSE IF Available(o) <= required - Rooms(A) THEN Available(o)
                               ELSE required - Rooms(A)
    BY <1>4
  <2> HIDE DEF share, E, A
  <2>2. Rooms(A) \in Nat /\ Available(o) \in Nat
    BY <1>2, <1>3, <2>1
  <2> QED BY <2>1, <2>2
<1> DEFINE Closed(T) == \A o \in T : Ahead(o, options, terms) \subseteq T
<1>6. ASSUME NEW T \in SUBSET E, Closed(T)
      PROVE  SumOf(share, T) = least(Rooms(T))
  <2> DEFINE C == {U \in SUBSET E : Closed(U) /\ SumOf(share, U) # least(Rooms(U))}
  <2>1. SUFFICES ASSUME C # {} PROVE FALSE
    BY <1>6
  <2>2. PICK U \in C : \A V \in C : <<V, U>> \notin StrictSubsetOrdering(E)
    <3>1. C \subseteq SUBSET E
      OBVIOUS
    <3> HIDE DEF C, E
    <3>2. C \subseteq FiniteSubsetsOf(E)
      BY <1>1, <3>1, FS_FiniteSubsetsOfFinite
    <3> QED BY <2>1, <3>2, WFMin, FS_StrictSubsetOrderingWellFounded, Zenon
  <2>3. U \in SUBSET E /\ Closed(U) /\ SumOf(share, U) # least(Rooms(U))
    BY <2>2
  <2>4. U # {}
    <3>1. Rooms({}) = SumOf(avail, {})
      BY <1>3
    <3>2. SumOf(share, {}) = 0 /\ Rooms({}) = 0
      BY <3>1, SumEmpty
    <3> QED BY <3>2, <2>3
  <2>5. PICK m \in U : \A o \in U : ~Before(m, o, terms)
    BY <1>1, <2>3, <2>4, OneIsLast
  <2> DEFINE V == U \ {m}
  <2>6. V \in SUBSET E /\ m \in E /\ m \notin V /\ U = V \cup {m}
    BY <2>3
  <2>7. Ahead(m, options, terms) = V
    <3>1. Ahead(m, options, terms) \subseteq V
      BY <2>3, <2>6, <1>4
    <3>2. \A o \in V : Before(o, m, terms)
      BY <2>5, <2>6, <1>1, BeforeIsTotal
    <3> QED BY <3>1, <3>2, <2>6 DEF Ahead
  <2>8. Closed(V)
    <3> SUFFICES ASSUME NEW o \in V, NEW p \in Ahead(o, options, terms) PROVE p \in V
      OBVIOUS
    <3>1. p \in U /\ Before(p, o, terms)
      BY <2>3, <2>6 DEF Ahead
    <3> QED BY <3>1, <2>5, <2>6
  <2>9. <<V, U>> \in StrictSubsetOrdering(E)
    BY <2>3, <2>6 DEF StrictSubsetOrdering
  <2>10. SumOf(share, V) = least(Rooms(V))
    BY <2>2, <2>6, <2>8, <2>9
  <2>11. \A o \in U : share[o] \in Int /\ avail[o] \in Int
    BY <1>2, <1>5, <2>3
  <2> HIDE DEF share, avail, E, V
  <2>12. SumOf(share, U) = share[m] + SumOf(share, V) /\ SumOf(avail, U) = avail[m] + SumOf(avail, V)
    BY <1>3, <2>3, <2>11, SumTakes DEF V
  <2>13. /\ Rooms(U) = Available(m) + Rooms(V) /\ Rooms(V) \in Nat /\ Available(m) \in Nat
    BY <1>2, <1>3, <2>3, <2>6, <2>12
  <2>14. share[m] = IF required <= Rooms(V) THEN 0
                    ELSE IF Available(m) <= required - Rooms(V) THEN Available(m)
                    ELSE required - Rooms(V)
    BY <1>4, <2>6, <2>7
  <2> QED BY <2>3, <2>10, <2>12, <2>13, <2>14
<1>7. SumOf(share, E) = least(Rooms(E))
  <2>1. Closed(E)
    BY DEF Ahead
  <2> HIDE DEF share, E
  <2> QED BY <1>6, <2>1
<1>8. ASSUME required > Rooms(E), NEW o \in E PROVE share[o] = Available(o)
  <2> DEFINE A == Ahead(o, options, terms)
             W == A \cup {o}
  <2>1. A \in SUBSET E /\ W \in SUBSET E /\ o \notin A
    BY <1>4
  <2> HIDE DEF share, E, A, avail
  <2>2. SumOf(avail, W) = avail[o] + SumOf(avail, A)
    BY <1>2, <1>3, <2>1, SumAddsOne
  <2>3. SumOf(avail, W) <= SumOf(avail, E)
    BY <1>1, <1>2, <2>1, PartSumsLess
  <2>4. Rooms(A) + Available(o) <= Rooms(E) /\ Rooms(A) \in Nat /\ Rooms(E) \in Nat
    BY <1>2, <1>3, <2>1, <2>2, <2>3
  <2> QED BY <1>2, <1>4, <1>8, <2>4 DEF A
<1> QED
  <2>1. Rooms(E) \in Nat
    BY <1>3
  <2> QED BY <2>1, <1>5, <1>7, <1>8

LEMMA TakenAdds ==
    ASSUME NEW S, IsFiniteSet(S)
    PROVE  MapThenSumSet(RoomsOf, S) = SumOf([a \in S |-> a.rooms], S)
<1> DEFINE val  == [a \in S |-> a.rooms]
           P(f) == f = [s \in SUBSET S |-> IF s = {} THEN 0
                          ELSE RoomsOf(CHOOSE x \in s : TRUE) + f[s \ {CHOOSE x \in s : TRUE}]]
<1>1. MapThenSumSet(RoomsOf, S) = (CHOOSE f : P(f))[S]
  BY DEF MapThenSumSet, MapThenFoldSet
<1>2. \A s \in SUBSET S : s # {} => val[CHOOSE x \in s : TRUE] = RoomsOf(CHOOSE x \in s : TRUE)
  BY DEF RoomsOf
<1>3. \A f : Adds(f, val, S) <=> P(f)
  <2> HIDE DEF val
  <2> QED BY <1>2 DEF Adds
<1> HIDE DEF val, P
<1>4. P(CHOOSE f : P(f))
  BY <1>3, AddsExists
<1> QED BY <1>1, <1>3, <1>4, Bridge DEF val

\* The rooms an allocation takes in a property.
Taken(result, h) == MapThenSumSet(RoomsOf, {a \in result.allocations : a.hotel = h})

LEMMA RequiredRooms ==
    ASSUME NEW passengers \in Int, NEW terms, terms.perRoom \in Nat \ {0}
    PROVE  /\ RoomsRequired(passengers, terms) \in Nat
           /\ \A n \in Nat : passengers = n * terms.perRoom => RoomsRequired(passengers, terms) = n
<1> DEFINE p == terms.perRoom
<1>1. Max({1, p}) = p
  <2>1. p \in Nat /\ p >= 1
    OBVIOUS
  <2> HIDE DEF p
  <2> QED BY <2>1, MaxOfTwo
<1>2. RoomsRequired(passengers, terms) =
         IF passengers <= 0 THEN 0 ELSE (passengers + p - 1) \div p
  BY <1>1, Zenon DEF RoomsRequired
<1> HIDE DEF p
<1>3. p \in Nat /\ p > 0
  BY DEF p
<1>4. passengers > 0 => (passengers + p - 1) \div p \in Nat
  <2>1. passengers > 0 => passengers + p - 1 \in Nat
    BY <1>3
  <2> DEFINE a == passengers + p - 1
  <2> HIDE DEF a
  <2>2. a \in Nat => a \div p \in Nat
    BY <1>3
  <2> QED BY <2>1, <2>2 DEF a
<1>5. ASSUME NEW n \in Nat, passengers = n * p
      PROVE  IF passengers <= 0 THEN n = 0 ELSE (passengers + p - 1) \div p = n
  <2>1. passengers <= 0 => n = 0
    <3>1. n > 0 => n * p > 0
      BY <1>3
    <3> QED BY <3>1, <1>5
  <2>2. (n * p + p - 1) \div p = n
    BY <1>3
  <2> QED BY <2>1, <2>2, <1>5
<1> QED BY <1>2, <1>4, <1>5 DEF p

\* What an allocation asks for, takes and takes from each property.
LEMMA AllocationTakes ==
    ASSUME NEW options, NEW terms, Ordered(options, terms), terms.perRoom \in Nat \ {0},
           NEW passengers \in Int
    PROVE  LET r == AllocateRooms(passengers, options, terms)
               E == Eligible(options, terms)
               share == [o \in E |-> Share(o, r.required, options, terms)]
           IN  /\ r.required = RoomsRequired(passengers, terms) /\ r.required \in Nat
               /\ IsFiniteSet(r.allocations)
               /\ \A a \in r.allocations : \E o \in E : a.hotel = o.id /\ share[o] > 0
               /\ \A o \in E : share[o] > 0 => \E a \in r.allocations : a.hotel = o.id
               /\ \A o \in E : Taken(r, o.id) = share[o]
               /\ \A h : (\A o \in E : o.id # h) => Taken(r, h) = 0
               /\ r.allocated = SumOf(share, E)
<1> DEFINE r == AllocateRooms(passengers, options, terms)
           n == RoomsRequired(passengers, terms)
           E == Eligible(options, terms)
           share == [o \in E |-> Share(o, n, options, terms)]
           P == {o \in E : share[o] > 0}
           slip == [o \in P |-> [hotel |-> o.id, rooms |-> share[o],
                                  cost |-> share[o] * o.rate * terms.nights]]
<1>1. n \in Nat /\ E \in SUBSET options /\ IsFiniteSet(E) /\ IsFiniteSet(P)
  <2>1. E \in SUBSET options /\ IsFiniteSet(options) /\ P \in SUBSET options
    BY DEF Eligible, Ordered
  <2>2. n \in Nat
    BY RequiredRooms
  <2> HIDE DEF P, E, n
  <2> QED BY <2>1, <2>2, FS_Subset
<1>2. r.required = n /\ r.allocations = {slip[o] : o \in P}
      /\ r.allocated = MapThenSumSet(RoomsOf, r.allocations)
  <2>1. r.required = n /\ r.allocations = Allocations(n, options, terms)
        /\ r.allocated = MapThenSumSet(RoomsOf, Allocations(n, options, terms))
    BY DEF AllocateRooms
  <2>2. Allocations(n, options, terms) = {slip[o] : o \in P}
    <3> HIDE DEF n
    <3> QED BY DEF Allocations
  <2> QED BY <2>1, <2>2
<1>3. \A o \in E : share[o] \in Nat
  <2>1. \A o \in E : share[o] \in 0..Available(o) /\ Available(o) \in Nat
    <3> HIDE DEF n
    <3> QED BY <1>1, Greedy, AvailableRooms
  <2> HIDE DEF share, E
  <2> QED BY <2>1
<1>4. /\ \A o \in P : o \in E /\ share[o] > 0 /\ slip[o].hotel = o.id /\ slip[o].rooms = share[o]
      /\ \A o, q \in P : o.id = q.id => o = q
  BY <1>1 DEF Ordered
<1> DEFINE S == {slip[o] : o \in P}
<1>5. IsFiniteSet(S)
  <2> HIDE DEF P, slip
  <2> QED BY <1>1, ImageIsFinite
<1>6. MapThenSumSet(RoomsOf, S) = SumOf(share, E)
  <2> DEFINE g == [a \in S |-> a.rooms]
  <2>1. \A o \in P : share[o] \in Int /\ g[slip[o]] = share[o]
    <3>1. \A o \in P : slip[o] \in S
      OBVIOUS
    <3>2. \A a \in S : g[a] = a.rooms
      OBVIOUS
    <3> HIDE DEF P, S, share, slip, g, E
    <3> QED BY <1>3, <1>4, <3>1, <3>2
  <2>2. \A o, q \in P : slip[o] = slip[q] => o = q
    <3> HIDE DEF P, slip, share, E
    <3> QED BY <1>4
  <2>3. SumOf(g, S) = SumOf(share, P)
    <3> HIDE DEF P, slip, g, share
    <3> QED BY <1>1, <2>1, <2>2, SumNames
  <2>4. SumOf(share, E) = SumOf(share, P)
    <3>1. \A o \in E \ P : share[o] = 0
      <4> HIDE DEF share, E
      <4> QED BY <1>3
    <3>2. P \in SUBSET E /\ \A o \in E : share[o] \in Int
      <4> HIDE DEF share, E
      <4> QED BY <1>3
    <3> HIDE DEF P, E, share
    <3> QED BY <1>1, <3>1, <3>2, SumOfPart
  <2>5. MapThenSumSet(RoomsOf, S) = SumOf(g, S)
    <3> HIDE DEF S
    <3> QED BY <1>5, TakenAdds
  <2> QED BY <2>3, <2>4, <2>5
<1>7. ASSUME NEW o \in P PROVE Taken(r, o.id) = share[o]
  <2> DEFINE s == slip[o]
  <2>1. {a \in S : a.hotel = o.id} = {s}
    <3>1. \A a \in S : \E q \in P : a = slip[q]
      OBVIOUS
    <3>2. s \in S
      OBVIOUS
    <3> HIDE DEF P, slip, share, E, S
    <3> QED BY <1>4, <3>1, <3>2
  <2>2. s.rooms \in Nat /\ s.rooms = share[o]
    <3> HIDE DEF P, slip, share, E
    <3> QED BY <1>3, <1>4
  <2> HIDE DEF P, slip, share, E, S, r, s
  <2>3. Taken(r, o.id) = MapThenSumSet(RoomsOf, {s})
    BY <1>2, <2>1 DEF Taken, S
  <2>4. IsFiniteSet({s}) /\ IsFiniteSet({}) /\ {s} \ {s} = {}
    BY FS_Singleton, FS_EmptySet
  <2>5. MapThenSumSet(RoomsOf, {s}) = SumOf([a \in {s} |-> a.rooms], {s})
    BY <2>4, TakenAdds
  <2>6. SumOf([a \in {s} |-> a.rooms], {s}) = s.rooms + SumOf([a \in {s} |-> a.rooms], {})
    <3> DEFINE val == [a \in {s} |-> a.rooms]
    <3>1. (\A x \in {s} : val[x] \in Int) /\ s \in {s} /\ val[s] = s.rooms
      BY <2>2
    <3> HIDE DEF val
    <3> QED BY <2>4, <3>1, SumTakes
  <2> QED BY <2>2, <2>3, <2>5, <2>6, SumEmpty
<1>8. ASSUME NEW h, \A o \in P : o.id # h PROVE Taken(r, h) = 0
  <2>1. {a \in S : a.hotel = h} = {}
    <3>1. \A a \in S : \E q \in P : a = slip[q]
      OBVIOUS
    <3> HIDE DEF P, slip, share, E, S
    <3> QED BY <1>4, <1>8, <3>1
  <2> HIDE DEF P, slip, share, E, S, r
  <2>2. Taken(r, h) = MapThenSumSet(RoomsOf, {})
    BY <1>2, <2>1 DEF Taken, S
  <2> QED BY <2>2, FS_EmptySet, TakenAdds, SumEmpty
<1>9. ASSUME NEW o \in E PROVE Taken(r, o.id) = share[o]
  <2>1. CASE o \in P
    BY <1>7, <2>1
  <2>2. CASE o \notin P
    <3>1. share[o] = 0
      <4>1. ~(share[o] > 0)
        BY <2>2
      <4> HIDE DEF share, E
      <4> QED BY <4>1, <1>3
    <3>2. \A q \in P : q.id # o.id
      <4>1. \A q \in P : q \in options
        BY <1>1
      <4> HIDE DEF P
      <4> QED BY <1>1, <2>2, <4>1 DEF Ordered
    <3> QED BY <1>8, <3>1, <3>2
  <2> QED BY <2>1, <2>2
<1>10. /\ \A a \in S : \E o \in E : a.hotel = o.id /\ share[o] > 0
       /\ \A o \in E : share[o] > 0 => \E a \in S : a.hotel = o.id
  <2>1. /\ \A a \in S : \E q \in P : a = slip[q]
        /\ \A q \in P : slip[q] \in S
        /\ \A o \in E : share[o] > 0 => o \in P
    OBVIOUS
  <2> HIDE DEF P, slip, share, E, S
  <2> QED BY <1>4, <2>1
<1>11. \A h : (\A o \in E : o.id # h) => Taken(r, h) = 0
  BY <1>8
<1> HIDE DEF share, E, r, n, P, slip
<1>12. /\ r.required = n /\ n \in Nat /\ IsFiniteSet(r.allocations)
       /\ \A a \in r.allocations : \E o \in E : a.hotel = o.id /\ share[o] > 0
       /\ \A o \in E : share[o] > 0 => \E a \in r.allocations : a.hotel = o.id
       /\ \A o \in E : Taken(r, o.id) = share[o]
       /\ \A h : (\A o \in E : o.id # h) => Taken(r, h) = 0
       /\ r.allocated = SumOf(share, E)
  BY <1>1, <1>2, <1>5, <1>6, <1>9, <1>10, <1>11
<1>13. share = [o \in E |-> Share(o, r.required, options, terms)]
  BY <1>12 DEF share
<1> QED BY <1>12, <1>13 DEF r, n, E

-----------------------------------------------------------------------------
(* The score of an observation                                             *)

Less == {r \in Nat \X Nat : r[1] < r[2]}

LEMMA LeastNumber ==
    ASSUME NEW S \in SUBSET Nat, S # {}
    PROVE  Min(S) \in S /\ \A y \in S : Min(S) <= y
<1>0. IsWellFoundedOn(Less, Nat)
  BY NatLessThanWellFounded, Zenon DEF OpToRel, Less
<1>1. PICK x \in S : \A y \in S : ~(<<y, x>> \in Less)
  BY <1>0, WFMin, Zenon
<1>2. \A y \in Nat : y < x => <<y, x>> \in Less
  BY DEF Less
<1>3. ASSUME NEW y \in S PROVE x <= y
  <2>1. y \in Nat /\ x \in Nat /\ <<y, x>> \notin Less
    BY <1>1
  <2> QED BY <2>1, <1>2
<1> QED BY <1>3 DEF Min

LEMMA PickIsNat ==
    ASSUME NEW bands \in Seq(Int \X Nat), NEW I \in SUBSET (1..Len(bands))
    PROVE  Pick(bands, IF I # {} THEN Min(I) ELSE 0) \in Nat
<1>1. CASE I = {}
  BY <1>1 DEF Pick
<1>2. CASE I # {}
  <2>1. I \in SUBSET Nat
    OBVIOUS
  <2>2. Min(I) \in 1..Len(bands)
    BY <1>2, <2>1, LeastNumber
  <2> DEFINE k == Min(I)
  <2> HIDE DEF k
  <2>3. k \in 1..Len(bands)
    BY <2>2 DEF k
  <2>4. Pick(bands, k) \in Nat
    BY <2>3 DEF Pick
  <2> QED BY <1>2, <2>4 DEF k
<1> QED BY <1>1, <1>2

LEMMA BandPoints ==
    ASSUME NEW bands \in Seq(Int \X Nat)
    PROVE  /\ \A value : PointsBelow(bands, value) \in Nat
           /\ \A value, scale : PointsAbove(bands, value, scale) \in Nat
<1>1. ASSUME NEW value PROVE PointsBelow(bands, value) \in Nat
  <2> DEFINE I == {i \in 1..Len(bands) : value <= bands[i][1]}
  <2>1. PointsBelow(bands, value) = Pick(bands, IF I # {} THEN Min(I) ELSE 0)
    BY Zenon DEF PointsBelow, SelectInSeq
  <2> QED BY <2>1, PickIsNat
<1>2. ASSUME NEW value, NEW scale PROVE PointsAbove(bands, value, scale) \in Nat
  <2> DEFINE I == {i \in 1..Len(bands) : value >= bands[i][1] * scale}
  <2>1. PointsAbove(bands, value, scale) = Pick(bands, IF I # {} THEN Min(I) ELSE 0)
    BY Zenon DEF PointsAbove, SelectInSeq
  <2> QED BY <2>1, PickIsNat
<1> QED BY <1>1, <1>2

LEMMA TheBands ==
    /\ DefaultBands.visibility \in Seq(Int \X Nat)
    /\ DefaultBands.ceiling \in Seq(Int \X Nat)
    /\ DefaultBands.wind \in Seq(Int \X Nat)
    /\ DefaultBands.crosswind \in Seq(Int \X Nat)
    /\ \A p \in DOMAIN DefaultBands.precipitation : DefaultBands.precipitation[p] \in Nat
    /\ DefaultBands.compounding \in Nat
BY DEF DefaultBands

LEMMA RiskIndex == \A w : AssessRisk(w, Runways, DefaultBands, Threshold).index \in 0..100
<1> SUFFICES ASSUME NEW w
             PROVE AssessRisk(w, Runways, DefaultBands, Threshold).index \in 0..100
  OBVIOUS
<1>1. ASSUME NEW runway
      PROVE  LET points == RiskPoints(w, runway, DefaultBands)
             IN  /\ DOMAIN points = {"visibility", "ceiling", "wind", "crosswind",
                                     "precipitation", "together"}
                 /\ \A f \in DOMAIN points : points[f] \in Nat
  <2> DEFINE points == RiskPoints(w, runway, DefaultBands)
  <2>1. DOMAIN points = {"visibility", "ceiling", "wind", "crosswind", "precipitation", "together"}
    BY DEF RiskPoints
  <2>2. /\ points.visibility \in Nat /\ points.ceiling \in Nat /\ points.wind \in Nat
        /\ points.crosswind \in Nat /\ points.precipitation \in Nat /\ points.together \in Nat
    BY TheBands, BandPoints DEF RiskPoints
  <2> HIDE DEF points
  <2>3. \A f \in DOMAIN points : points[f] \in Nat
    BY <2>1, <2>2
  <2> QED BY <2>1, <2>3 DEF points
<1>2. \A a, b, c, d, e, f : IsFiniteSet({a, b, c, d, e, f})
  <2> TAKE a, b, c, d, e, f
  <2>1. \A S, x : IsFiniteSet(S) => IsFiniteSet(S \cup {x})
    BY FS_AddElement
  <2>2. IsFiniteSet((((({a} \cup {b}) \cup {c}) \cup {d}) \cup {e}) \cup {f})
    BY <2>1, FS_Singleton, Zenon
  <2>3. {a, b, c, d, e, f} = (((({a} \cup {b}) \cup {c}) \cup {d}) \cup {e}) \cup {f}
    OBVIOUS
  <2> QED BY <2>2, <2>3, Zenon
<1> DEFINE chosen == SelectRunway(Runways, w.wind, w.direction)
           angle  == IF chosen = 0 THEN Missing ELSE Angle(w.direction, Runways[chosen].heading)
           points == RiskPoints(w, [angle |-> angle], DefaultBands)
           total  == SumOf(points, DOMAIN points)
<1>3. AssessRisk(w, Runways, DefaultBands, Threshold).index = Min({100, total})
  BY DEF AssessRisk, SumOf
<1>4. total \in Nat
  <2> HIDE DEF angle
  <2>1. \A f \in DOMAIN points : points[f] \in Nat
    BY <1>1
  <2>2. IsFiniteSet(DOMAIN points)
    <3>1. DOMAIN points = {"visibility", "ceiling", "wind", "crosswind", "precipitation", "together"}
      BY <1>1
    <3>2. IsFiniteSet({"visibility", "ceiling", "wind", "crosswind", "precipitation", "together"})
      BY <1>2, Zenon
    <3> HIDE DEF points
    <3> QED BY <3>1, <3>2
  <2> HIDE DEF points
  <2> QED BY <2>1, <2>2, SumNat
<1> HIDE DEF total
<1>5. Min({100, total}) = IF 100 <= total THEN 100 ELSE total
  BY <1>4, MinOfTwo
<1> QED BY <1>3, <1>4, <1>5

\* The index of the ranking is held to a hundred.
LEMMA RankIndex ==
    ASSUME NEW facts, IsFiniteSet(facts), NEW tier, NEW rules,
           \A name \in DOMAIN rules.facts : rules.facts[name] \in Int,
           \A name \in DOMAIN rules.tiers : rules.tiers[name] \in Int
    PROVE  PriorityIndex(facts, tier, rules) \in 0..100
<1> DEFINE val   == [f \in facts |-> Weight(rules.facts, f)]
           P(g)  == g = [s \in SUBSET facts |-> IF s = {} THEN 0
                          ELSE Weight(rules.facts, CHOOSE x \in s : TRUE)
                                  + g[s \ {CHOOSE x \in s : TRUE}]]
           total == (CHOOSE g : P(g))[facts] + Weight(rules.tiers, tier)
<1>1. PriorityIndex(facts, tier, rules) = Min({100, Max({0, total})})
  BY DEF PriorityIndex, MapThenSumSet, MapThenFoldSet
<1>2. \A s \in SUBSET facts : s # {} =>
         val[CHOOSE x \in s : TRUE] = Weight(rules.facts, CHOOSE x \in s : TRUE)
  OBVIOUS
<1>3. \A g : Adds(g, val, facts) <=> P(g)
  <2> HIDE DEF val
  <2> QED BY <1>2 DEF Adds
<1>4. \A f \in facts : val[f] \in Int
  BY DEF Weight
<1>5. Weight(rules.tiers, tier) \in Int
  BY DEF Weight
<1>6. (CHOOSE g : P(g))[facts] \in Int
  <2> HIDE DEF val, P
  <2>1. P(CHOOSE g : P(g))
    BY <1>3, AddsExists
  <2>2. (CHOOSE g : P(g))[facts] = SumOf(val, facts)
    BY <1>3, <2>1, Bridge
  <2> QED BY <1>4, <2>2, SumInt
<1>7. total \in Int
  BY <1>5, <1>6
<1> HIDE DEF total
<1>8. Max({0, total}) = (IF 0 <= total THEN total ELSE 0) /\ Max({0, total}) \in Nat
  BY <1>7, MaxOfTwo
<1> DEFINE rest == Max({0, total})
<1> HIDE DEF rest
<1>9. rest \in Nat
  BY <1>8 DEF rest
<1>10. Min({100, rest}) = IF 100 <= rest THEN 100 ELSE rest
  BY <1>9, MinOfTwo
<1>11. Min({100, rest}) \in 0..100
  BY <1>9, <1>10
<1> QED BY <1>1, <1>11 DEF rest

-----------------------------------------------------------------------------
(* The books                                                               *)

Reserve == "reserve_hotel_block"

HeldOK == held \in [HotelId -> [{"group", "other"} -> Nat]]

\* A row as a service of its type writes it.
GoodRow(a) ==
    /\ a.incident \in Affected /\ a.type \in DOMAIN Tasks[a.incident]
    /\ a.status \in RoomStatuses
    /\ a.payload.required \in Nat /\ a.payload.allocated \in 0..a.payload.required
    /\ a.payload.sent \subseteq On({a.incident})
    /\ Bookings(a.payload.atRisk) \subseteq On({a.incident})

\* One row of a type for an incident.
RowsOK ==
    /\ IsFiniteSet(recorded)
    /\ \A a \in recorded : GoodRow(a) /\ a.incident \in opened
    /\ \A a, b \in recorded : a.incident = b.incident /\ a.type = b.type => a = b

\* A request that has read the options has not recorded its rooms.
ReadingOK ==
    /\ reading = [f \in Affected |-> reading[f]]
    /\ \A f \in Affected : reading[f] # Nothing =>
          /\ Ordered(reading[f], Terms) /\ {o.id : o \in reading[f]} = HotelId
          /\ f \in opened /\ Reserve \in DOMAIN Tasks[f]
          /\ Recorded({f}, Reserve, RoomStatuses) = {}

PredictedOK ==
    /\ predicted = [f \in Affected |-> predicted[f]]
    /\ \A f \in Affected : /\ predicted[f].index \in -1..100
                           /\ predicted[f] # NoPrediction =>
                                predicted[f].level = LevelFor(predicted[f].index)

RankingOK ==
    /\ {p.booking : p \in ranking} \in {{}, On(Member)}
    /\ {p.index : p \in ranking} \subseteq 0..100

BookInv ==
    /\ Other \subseteq opened /\ opened \subseteq Affected
    /\ HeldOK /\ RowsOK /\ ReadingOK /\ PredictedOK /\ RankingOK
    /\ weather \subseteq Archive \cup {Report}

LEMMA TermsAre == Terms.perRoom \in Nat \ {0} /\ Terms.partner \in BOOLEAN
<1>1. "passengers_per_room" \in DOMAIN HotelRows =>
         Max({1, HotelRows["passengers_per_room"]}) \in Nat \ {0}
  BY RecoveryAssumption, MaxOfTwo
<1>2. Terms.partner = IF "prefer_partner" \in DOMAIN HotelRows
                      THEN HotelRows["prefer_partner"] ELSE TRUE
  BY DEF Terms, HotelTerms, DefaultTerms
<1>3. Terms.perRoom = IF "passengers_per_room" \in DOMAIN HotelRows
                      THEN Max({1, HotelRows["passengers_per_room"]}) ELSE 2
  BY Zenon DEF Terms, HotelTerms, DefaultTerms
<1>4. Terms.perRoom \in Nat \ {0}
  BY <1>1, <1>3
<1>5. Terms.partner \in BOOLEAN
  BY <1>2, RecoveryAssumption
<1> QED BY <1>4, <1>5

LEMMA HeldSums ==
    ASSUME HeldOK, NEW h \in HotelId
    PROVE  /\ HeldIn(h, {"group", "other"}) = held[h]["group"] + held[h]["other"]
           /\ HeldIn(h, {"group", "other"} \ {}) = held[h]["group"] + held[h]["other"]
           /\ HeldIn(h, {"group", "other"} \ {"group"}) = held[h]["other"]
<1> DEFINE val == held[h]
<1>1. \A groups : HeldIn(h, groups) = SumOf(val, groups)
  BY DEF HeldIn, SumOf
<1>2. val["group"] \in Nat /\ val["other"] \in Nat
  BY DEF HeldOK
<1> HIDE DEF val
<1>3. /\ {"group", "other"} = {"other"} \cup {"group"} /\ {"group", "other"} \ {} = {"group", "other"}
      /\ {"group", "other"} \ {"group"} = {"other"} /\ {"other"} = {} \cup {"other"}
      /\ "group" \notin {"other"}
  OBVIOUS
<1>4. IsFiniteSet({}) /\ IsFiniteSet({"other"})
  BY FS_EmptySet, FS_Singleton
<1>8. "other" \notin {} /\ \A x \in {} \cup {"other"} : val[x] \in Int
  BY <1>2
<1>5. SumOf(val, {} \cup {"other"}) = val["other"] + SumOf(val, {})
  BY <1>4, <1>8, SumAddsOne
<1>6. SumOf(val, {"other"}) = val["other"]
  BY <1>2, <1>3, <1>5, SumEmpty
<1>7. SumOf(val, {"other"} \cup {"group"}) = val["group"] + SumOf(val, {"other"})
  <2>1. "group" \notin {"other"} /\ \A x \in {"other"} \cup {"group"} : val[x] \in Int
    BY <1>2
  <2> QED BY <1>4, <2>1, SumAddsOne
<1> QED BY <1>1, <1>2, <1>3, <1>6, <1>7 DEF val

LEMMA OptionsAre ==
    ASSUME HeldOK, NEW excluded \in {{}, {"group"}}
    PROVE  LET options == Options(excluded)
               Taking(h) == IF excluded = {} THEN held[h]["group"] + held[h]["other"]
                            ELSE held[h]["other"]
           IN  /\ Ordered(options, Terms) /\ {o.id : o \in options} = HotelId
               /\ \A o \in options : o.held = Taking(o.id)
               /\ \A o \in options : \E h \in Inventory :
                     o.id = h.id /\ o.total = h.total /\ o.rate = h.rate
<1> DEFINE options == Options(excluded)
           name == [h \in Inventory |->
                      [id |-> h.id, rate |-> h.rate, partner |-> h.partner,
                       distance |-> h.distance, total |-> h.total,
                       held |-> HeldIn(h.id, {"group", "other"} \ excluded)]]
           Taking(h) == IF excluded = {} THEN held[h]["group"] + held[h]["other"]
                        ELSE held[h]["other"]
<1>1. options = {name[h] : h \in Inventory}
  BY DEF Options
<1>2. IsFiniteSet(options)
  <2> HIDE DEF name, options
  <2> QED BY <1>1, ImageIsFinite, RecoveryAssumption
<1>3. ASSUME NEW h \in Inventory
      PROVE  /\ h.id \in HotelId /\ name[h].id = h.id /\ name[h].rate = h.rate
             /\ name[h].total = h.total /\ name[h].held = Taking(h.id) /\ name[h].held \in Nat
             /\ name[h].distance = h.distance /\ name[h].partner = h.partner
  <2>1. h.id \in HotelId
    BY DEF HotelId
  <2>2. HeldIn(h.id, {"group", "other"} \ excluded) = Taking(h.id) /\ Taking(h.id) \in Nat
    <3>1. held[h.id]["group"] \in Nat /\ held[h.id]["other"] \in Nat
      BY <2>1 DEF HeldOK
    <3>2. CASE excluded = {}
      BY <2>1, <3>1, <3>2, HeldSums
    <3>3. CASE excluded = {"group"}
      BY <2>1, <3>1, <3>3, HeldSums
    <3> QED BY <3>2, <3>3
  <2> QED BY <2>1, <2>2
<1>4. ASSUME NEW o \in options PROVE \E h \in Inventory : o = name[h]
  BY <1>1
<1> HIDE DEF name, options, Taking
<1>5. Ordered(options, Terms)
  <2>1. \A o \in options : /\ o.id \in Int /\ o.distance \in Int /\ o.rate \in Int
                           /\ o.partner \in BOOLEAN /\ o.total \in Int /\ o.held \in Int
    BY <1>3, <1>4, RecoveryAssumption
  <2>2. \A o, p \in options : o.id = p.id => o = p
    BY <1>3, <1>4, RecoveryAssumption
  <2> QED BY <1>2, <2>1, <2>2, TermsAre DEF Ordered
<1>6. {o.id : o \in options} = HotelId
  <2>1. \A h \in Inventory : name[h] \in options
    BY <1>1
  <2> QED BY <2>1, <1>3, <1>4 DEF HotelId
<1>7. /\ \A o \in options : o.held = Taking(o.id)
      /\ \A o \in options : \E h \in Inventory : o.id = h.id /\ o.total = h.total /\ o.rate = h.rate
  BY <1>3, <1>4
<1> QED BY <1>5, <1>6, <1>7 DEF options, Taking

\* One row more, of a type the incident had none of.
LEMMA RowAdded ==
    ASSUME RowsOK, opened' = opened, NEW f \in opened, NEW type, NEW r, GoodRow(r),
           r.incident = f, r.type = type, Recorded({f}, type, RoomStatuses) = {},
           recorded' = recorded \cup {r}
    PROVE  RowsOK'
<1>1. IsFiniteSet(recorded')
  BY FS_AddElement DEF RowsOK
<1>2. ASSUME NEW a \in recorded PROVE ~(a.incident = f /\ a.type = type)
  BY DEF Recorded, RowsOK, GoodRow
<1>3. \A a \in recorded' : GoodRow(a) /\ a.incident \in opened'
  BY DEF RowsOK
<1>4. \A a, b \in recorded' : a.incident = b.incident /\ a.type = b.type => a = b
  BY <1>2 DEF RowsOK
<1>5. \A a \in recorded' : GoodRow(a)'
  BY <1>3 DEF GoodRow
<1> QED BY <1>1, <1>3, <1>4, <1>5 DEF RowsOK

\* What a step other than an allocation records, and for whom.
RecordsOne(f, type) ==
    /\ f \in Affected /\ Dispatchable(f, type) /\ type # Reserve
    /\ opened' = opened /\ held' = held /\ reading' = reading /\ weather' = weather
    /\ predicted' = predicted /\ ranking' = ranking
    /\ snapshot' = snapshot /\ edges' = edges
    /\ \E r : GoodRow(r) /\ r.incident = f /\ r.type = type /\ recorded' = recorded \cup {r}

LEMMA BlankPayload ==
    /\ Blank.required = 0 /\ Blank.allocated = 0 /\ Blank.sent = {} /\ Blank.atRisk = {}
    /\ Blank.allocations = {} /\ Blank.impacts = {}
BY DEF Blank

LEMMA PassengerCount == \A f : Passengers(f) \in Nat
<1> SUFFICES ASSUME NEW f PROVE Cardinality(On({f})) \in Nat
  BY DEF Passengers
<1>1. On({f}) \in SUBSET Booking /\ IsFiniteSet(Booking)
  BY RecoveryAssumption DEF On
<1> QED BY <1>1, FS_Subset, FS_CardinalityType

\* The parts of a row that a service leaves blank are those of a good row.
LEMMA GoodPayload ==
    ASSUME NEW f \in Affected, NEW type \in DOMAIN Tasks[f], NEW status \in RoomStatuses,
           NEW p, p.required \in Nat, p.allocated \in 0..p.required, p.sent \subseteq On({f}),
           Bookings(p.atRisk) \subseteq On({f})
    PROVE  GoodRow(Row(f, type, status, p))
BY DEF GoodRow, Row

LEMMA BlankIsGood ==
    ASSUME NEW f \in Affected, NEW type \in DOMAIN Tasks[f], NEW status \in RoomStatuses
    PROVE  /\ GoodRow(Row(f, type, status, Blank))
           /\ \A x : GoodRow(Row(f, type, status, [Blank EXCEPT !.impacts = x]))
           /\ \A x : GoodRow(Row(f, type, status, [Blank EXCEPT !.ranked = x]))
           /\ \A x \in SUBSET On({f}) : GoodRow(Row(f, type, status, [Blank EXCEPT !.sent = x]))
           /\ \A n \in Nat : \A x :
                 GoodRow(Row(f, type, status, [Blank EXCEPT !.required = n, !.capacity = x]))
           /\ \A n \in Nat : \A k \in 0..n : \A x, y :
                 GoodRow(Row(f, type, status, [Blank EXCEPT !.required = n, !.cost = x,
                                                            !.allocated = k, !.allocations = y]))
           /\ \A x, y : Bookings(x) \subseteq On({f}) =>
                 GoodRow(Row(f, type, status, [Blank EXCEPT !.atRisk = x, !.nearMisses = y]))
<1>1. Bookings({}) = {}
  BY DEF Bookings
<1>2. GoodRow(Row(f, type, status, Blank))
  <2>1. 0 \in Nat /\ 0 \in 0..0 /\ {} \subseteq On({f})
    OBVIOUS
  <2>2. /\ Blank.required = 0 /\ Blank.allocated = 0 /\ Blank.sent = {}
        /\ Blank.atRisk = {}
    BY BlankPayload
  <2> QED BY <1>1, <2>1, <2>2, GoodPayload
<1>3. ASSUME NEW x PROVE GoodRow(Row(f, type, status, [Blank EXCEPT !.impacts = x]))
  <2> DEFINE p == [Blank EXCEPT !.impacts = x]
  <2>1. /\ p.required \in Nat /\ p.allocated \in 0..p.required /\ p.sent \subseteq On({f})
        /\ Bookings(p.atRisk) \subseteq On({f})
    BY <1>1 DEF Blank
  <2> HIDE DEF p
  <2>2. GoodRow(Row(f, type, status, p))
    BY <2>1, GoodPayload
  <2> QED BY <2>2 DEF p
<1>4. ASSUME NEW x PROVE GoodRow(Row(f, type, status, [Blank EXCEPT !.ranked = x]))
  <2> DEFINE p == [Blank EXCEPT !.ranked = x]
  <2>1. /\ p.required \in Nat /\ p.allocated \in 0..p.required /\ p.sent \subseteq On({f})
        /\ Bookings(p.atRisk) \subseteq On({f})
    BY <1>1 DEF Blank
  <2> HIDE DEF p
  <2>2. GoodRow(Row(f, type, status, p))
    BY <2>1, GoodPayload
  <2> QED BY <2>2 DEF p
<1>5. ASSUME NEW x \in SUBSET On({f})
      PROVE  GoodRow(Row(f, type, status, [Blank EXCEPT !.sent = x]))
  <2> DEFINE p == [Blank EXCEPT !.sent = x]
  <2>1. /\ p.required \in Nat /\ p.allocated \in 0..p.required /\ p.sent \subseteq On({f})
        /\ Bookings(p.atRisk) \subseteq On({f})
    BY <1>1 DEF Blank
  <2> HIDE DEF p
  <2>2. GoodRow(Row(f, type, status, p))
    BY <2>1, GoodPayload
  <2> QED BY <2>2 DEF p
<1>6. ASSUME NEW n \in Nat, NEW x
      PROVE  GoodRow(Row(f, type, status, [Blank EXCEPT !.required = n, !.capacity = x]))
  <2> DEFINE p == [Blank EXCEPT !.required = n, !.capacity = x]
  <2>1. /\ p.required \in Nat /\ p.allocated \in 0..p.required /\ p.sent \subseteq On({f})
        /\ Bookings(p.atRisk) \subseteq On({f})
    BY <1>1 DEF Blank
  <2> HIDE DEF p
  <2>2. GoodRow(Row(f, type, status, p))
    BY <2>1, GoodPayload
  <2> QED BY <2>2 DEF p
<1>7. ASSUME NEW n \in Nat, NEW k \in 0..n, NEW x, NEW y
      PROVE  GoodRow(Row(f, type, status, [Blank EXCEPT !.required = n, !.cost = x,
                                                        !.allocated = k, !.allocations = y]))
  <2> DEFINE p == [Blank EXCEPT !.required = n, !.cost = x, !.allocated = k, !.allocations = y]
  <2>1. /\ p.required \in Nat /\ p.allocated \in 0..p.required /\ p.sent \subseteq On({f})
        /\ Bookings(p.atRisk) \subseteq On({f})
    BY <1>1 DEF Blank
  <2> HIDE DEF p
  <2>2. GoodRow(Row(f, type, status, p))
    BY <2>1, GoodPayload
  <2> QED BY <2>2 DEF p
<1>8. ASSUME NEW x, NEW y, Bookings(x) \subseteq On({f})
      PROVE  GoodRow(Row(f, type, status, [Blank EXCEPT !.atRisk = x, !.nearMisses = y]))
  <2> DEFINE p == [Blank EXCEPT !.atRisk = x, !.nearMisses = y]
  <2>1. /\ p.required \in Nat /\ p.allocated \in 0..p.required /\ p.sent \subseteq On({f})
        /\ Bookings(p.atRisk) \subseteq On({f})
    BY <1>8 DEF Blank
  <2> HIDE DEF p
  <2>2. GoodRow(Row(f, type, status, p))
    BY <2>1, GoodPayload
  <2> QED BY <2>2 DEF p
<1> QED BY <1>2, <1>3, <1>4, <1>5, <1>6, <1>7, <1>8

\* A broken connection is one of a booking the walk was given.
LEMMA FoundAmongGiven ==
    ASSUME NEW itinerary, NEW scope, NEW schedule, NEW delay, NEW minimum, NEW margin
    PROVE  Bookings(FindAtRisk(itinerary, scope, schedule, delay, minimum, margin).atRisk)
              \subseteq DOMAIN itinerary
<1> DEFINE atRisk == FindAtRisk(itinerary, scope, schedule, delay, minimum, margin).atRisk
<1>1. ASSUME NEW item \in atRisk PROVE item.booking \in DOMAIN itinerary
  <2> DEFINE S(b) == Stops(itinerary[b], scope, schedule, delay, minimum, margin)
             At(b) == Slack(schedule, delay, minimum, itinerary[b], StopAt(S(b)))
             stopped == {b \in DOMAIN itinerary : S(b) # {}}
             flights == UNION {{itinerary[b][k] : k \in DOMAIN itinerary[b]} :
                                 b \in DOMAIN itinerary}
             Broken(b) == BrokenConnection(b, StopAt(S(b)), itinerary[b], schedule, delay,
                                           minimum, flights)
  <2>1. atRisk = {Broken(b) : b \in {c \in stopped : At(c) < 0}}
    BY DEF FindAtRisk
  <2>2. \A b : Broken(b).booking = b
    BY DEF BrokenConnection
  <2>3. \A c \in stopped : c \in DOMAIN itinerary
    OBVIOUS
  <2> HIDE DEF atRisk, Broken, stopped, At
  <2> QED BY <2>1, <2>2, <2>3
<1> QED BY <1>1 DEF Bookings

Notices == {"prepare_notifications", "notify_passengers"}

LEMMA ServicesRecord ==
    ASSUME NEW f \in Affected
    PROVE  /\ \A overlay : CheckConnections(f, overlay) => RecordsOne(f, "check_connections")
           /\ AssessCrewImpact(f) => RecordsOne(f, "assess_crew_impact")
           /\ FindHotelOptions(f) => RecordsOne(f, "find_hotel_options")
           /\ RebookPassengers(f) => RecordsOne(f, "rebook_passengers")
           /\ \A type \in Notices : \A failed :
                 Communicate(f, type, failed) => RecordsOne(f, type)
<1>0. \A type : Dispatchable(f, type) => type \in DOMAIN Tasks[f]
  BY DEF Dispatchable
<1>6. "success" \in RoomStatuses /\ "needs_human" \in RoomStatuses
  BY DEF RoomStatuses
<1>7. \A type, status, p : Row(f, type, status, p).incident = f /\ Row(f, type, status, p).type = type
  BY DEF Row
<1>1. ASSUME NEW overlay, CheckConnections(f, overlay) PROVE RecordsOne(f, "check_connections")
  <2> DEFINE found == FindAtRisk(Itineraries({f}), {f}, Schedule, Overlaid(overlay), Minimum, Margin)
             r == Row(f, "check_connections", "success",
                      [Blank EXCEPT !.atRisk = found.atRisk, !.nearMisses = found.nearMisses])
  <2>1. Bookings(found.atRisk) \subseteq On({f})
    BY FoundAmongGiven DEF Itineraries
  <2>2. Dispatchable(f, "check_connections") /\ recorded' = recorded \cup {r}
    BY <1>1 DEF CheckConnections, Record
  <2> HIDE DEF found
  <2>3. GoodRow(r) /\ r.incident = f /\ r.type = "check_connections"
    BY <2>1, <2>2, <1>0, <1>6, <1>7, BlankIsGood
  <2> HIDE DEF r
  <2> QED BY <1>1, <2>2, <2>3 DEF CheckConnections, RecordsOne, Reserve
<1>2. ASSUME AssessCrewImpact(f) PROVE RecordsOne(f, "assess_crew_impact")
  <2> DEFINE found == {[pairing |-> i.pairing, mechanism |-> i.mechanism] :
                         i \in AtRisk(AttributeImpacts(RosterOf({f}), {f}, Schedule, DerivedDelay))}
             r == Row(f, "assess_crew_impact", "success", [Blank EXCEPT !.impacts = found])
  <2>1. Dispatchable(f, "assess_crew_impact") /\ recorded' = recorded \cup {r}
    BY <1>2 DEF AssessCrewImpact, Record
  <2> HIDE DEF found
  <2>2. GoodRow(r) /\ r.incident = f /\ r.type = "assess_crew_impact"
    BY <2>1, <1>0, <1>6, <1>7, BlankIsGood
  <2> HIDE DEF r
  <2> QED BY <1>2, <2>1, <2>2 DEF AssessCrewImpact, RecordsOne, Reserve
<1>3. ASSUME FindHotelOptions(f) PROVE RecordsOne(f, "find_hotel_options")
  <2> DEFINE search == SearchHotels(Passengers(f), Options({}), Terms)
             r == Row(f, "find_hotel_options", "success",
                      [Blank EXCEPT !.required = search.required, !.capacity = search.capacity])
  <2>1. search.required \in Nat
    BY PassengerCount, TermsAre, RequiredRooms DEF SearchHotels
  <2>2. Dispatchable(f, "find_hotel_options") /\ recorded' = recorded \cup {r}
    BY <1>3 DEF FindHotelOptions, Record
  <2> HIDE DEF search
  <2>3. GoodRow(r) /\ r.incident = f /\ r.type = "find_hotel_options"
    BY <2>1, <2>2, <1>0, <1>6, <1>7, BlankIsGood
  <2> HIDE DEF r
  <2> QED BY <1>3, <2>2, <2>3 DEF FindHotelOptions, RecordsOne, Reserve
<1>4. ASSUME RebookPassengers(f) PROVE RecordsOne(f, "rebook_passengers")
  <2> DEFINE none == Row(f, "rebook_passengers", "needs_human", Blank)
             some == Row(f, "rebook_passengers", "success", [Blank EXCEPT !.ranked = Ranked({f})])
  <2>1. Dispatchable(f, "rebook_passengers")
        /\ \E r \in {none, some} : recorded' = recorded \cup {r}
    BY <1>4 DEF RebookPassengers, Record
  <2>2. "rebook_passengers" \in DOMAIN Tasks[f]
    BY <2>1, <1>0
  <2>3. GoodRow(none) /\ none.incident = f /\ none.type = "rebook_passengers"
    BY <2>2, <1>6, <1>7, BlankIsGood
  <2>4. GoodRow(some) /\ some.incident = f /\ some.type = "rebook_passengers"
    BY <2>2, <1>6, <1>7, BlankIsGood
  <2> HIDE DEF none, some
  <2> QED BY <1>4, <2>1, <2>3, <2>4 DEF RebookPassengers, RecordsOne, Reserve
<1>5. ASSUME NEW type \in Notices, NEW failed, Communicate(f, type, failed) PROVE RecordsOne(f, type)
  <2> DEFINE sent == Rendered(f) \ failed
             r == Row(f, type, NoticeStatus(f, sent), [Blank EXCEPT !.sent = sent])
  <2>1. sent \in SUBSET On({f}) /\ NoticeStatus(f, sent) \in RoomStatuses
    BY DEF Rendered, NoticeStatus, RoomStatuses
  <2>2. Dispatchable(f, type) /\ recorded' = recorded \cup {r}
    BY <1>5 DEF Communicate, Record
  <2> HIDE DEF sent
  <2>3. GoodRow(r) /\ r.incident = f /\ r.type = type
    BY <2>1, <2>2, <1>0, <1>7, BlankIsGood
  <2> HIDE DEF r
  <2> QED BY <1>5, <2>2, <2>3 DEF Communicate, RecordsOne, Reserve, Notices
<1> QED BY <1>1, <1>2, <1>3, <1>4, <1>5

\* What a request that has read the options allocates, and the row it writes of it.
Result(f) == AllocateRooms(Passengers(f), reading[f], Terms)

RoomRow(f, r) ==
    Row(f, Reserve, AllocationStatus(r),
        [Blank EXCEPT !.required = r.required, !.cost = r.cost, !.allocated = r.allocated,
                      !.allocations = r.allocations])

\* The allocation as a step: one row more, and the rooms it names held by the flight's side.
LEMMA ReserveStep ==
    ASSUME BookInv, NEW f \in Affected, ReserveHotelBlock(f)
    PROVE  LET r == Result(f)
           IN  /\ Ordered(reading[f], Terms)
               /\ r.required \in Nat /\ r.allocated \in 0..r.required
               /\ r.required = RoomsRequired(Passengers(f), Terms)
               /\ \A h : Taken(r, h) \in Nat
               /\ GoodRow(RoomRow(f, r)) /\ recorded' = recorded \cup {RoomRow(f, r)}
               /\ RoomRow(f, r).incident = f /\ RoomRow(f, r).type = Reserve
               /\ RoomRow(f, r).status \in RoomStatuses
               /\ RoomRow(f, r).payload.required = r.required
               /\ RoomRow(f, r).payload.allocated = r.allocated
               /\ RoomRow(f, r).payload.allocations = r.allocations
               /\ held' = [h \in HotelId |->
                             [held[h] EXCEPT ![Group(f)] = @ + Taken(r, h)]]
               /\ reading' = [reading EXCEPT ![f] = Nothing]
               /\ opened' = opened /\ weather' = weather /\ predicted' = predicted
               /\ edges' = edges /\ snapshot' = snapshot /\ ranking' = ranking
<1> DEFINE r == Result(f)
           E == Eligible(reading[f], Terms)
           share == [o \in E |-> Share(o, r.required, reading[f], Terms)]
<1>1. reading[f] # Nothing /\ f \in opened /\ Reserve \in DOMAIN Tasks[f]
      /\ Ordered(reading[f], Terms)
  BY DEF ReserveHotelBlock, BookInv, ReadingOK
<1>2. Passengers(f) \in Int /\ Terms.perRoom \in Nat \ {0}
  BY PassengerCount, TermsAre
<1>3. /\ r.required = RoomsRequired(Passengers(f), Terms) /\ r.required \in Nat
      /\ \A o \in E : Taken(r, o.id) = share[o]
      /\ \A h : (\A o \in E : o.id # h) => Taken(r, h) = 0
      /\ r.allocated = SumOf(share, E)
  BY <1>1, <1>2, AllocationTakes DEF Result
<1>4. /\ \A o \in E : share[o] \in 0..Available(o)
      /\ Rooms(E) \in Nat
      /\ SumOf(share, E) = IF r.required <= Rooms(E) THEN r.required ELSE Rooms(E)
  <2> HIDE DEF r
  <2> QED BY <1>1, <1>3, Greedy
<1>5. \A o \in E : Available(o) \in Nat
  BY <1>1, AvailableRooms DEF Eligible
<1> HIDE DEF E, share, r
<1>6. r.allocated \in 0..r.required
  BY <1>3, <1>4
<1>7. ASSUME NEW h PROVE Taken(r, h) \in Nat
  BY <1>3, <1>4, <1>5
<1>8. AllocationStatus(r) \in RoomStatuses
  BY DEF AllocationStatus, RoomStatuses
<1>9. GoodRow(RoomRow(f, r))
  BY <1>1, <1>3, <1>6, <1>8, BlankIsGood DEF RoomRow
<1>10. /\ RoomRow(f, r).incident = f /\ RoomRow(f, r).type = Reserve
       /\ RoomRow(f, r).status \in RoomStatuses
       /\ RoomRow(f, r).payload.required = r.required
       /\ RoomRow(f, r).payload.allocated = r.allocated
       /\ RoomRow(f, r).payload.allocations = r.allocations
  BY <1>8 DEF RoomRow, Row, Blank
<1>11. /\ recorded' = recorded \cup {RoomRow(f, r)}
       /\ held' = [h \in HotelId |-> [held[h] EXCEPT ![Group(f)] = @ + Taken(r, h)]]
       /\ reading' = [reading EXCEPT ![f] = Nothing]
       /\ UNCHANGED <<opened, weather, predicted, edges, snapshot, ranking>>
  BY DEF ReserveHotelBlock, Record, Result, RoomRow, Taken, Reserve, r
<1> QED BY <1>1, <1>3, <1>6, <1>7, <1>9, <1>10, <1>11 DEF r

\* The books as they are written by a service that holds no rooms.
LEMMA RecordsKeepBooks ==
    ASSUME BookInv, NEW f \in Affected, NEW type, RecordsOne(f, type)
    PROVE  BookInv'
<1>1. PICK r : GoodRow(r) /\ r.incident = f /\ r.type = type /\ recorded' = recorded \cup {r}
  BY DEF RecordsOne
<1>2. f \in opened /\ Recorded({f}, type, RoomStatuses) = {} /\ type # Reserve
  BY DEF RecordsOne, Dispatchable, RoomStatuses
<1>3. RowsOK'
  <2>1. RowsOK /\ opened' = opened
    BY DEF BookInv, RecordsOne
  <2> QED BY <1>1, <1>2, <2>1, RowAdded
<1>4. \A g : Recorded({g}, Reserve, RoomStatuses)' = Recorded({g}, Reserve, RoomStatuses)
  BY <1>1, <1>2 DEF Recorded
<1>5. ReadingOK'
  BY <1>4 DEF BookInv, ReadingOK, RecordsOne
<1> QED BY <1>3, <1>5 DEF BookInv, RecordsOne, HeldOK, PredictedOK, RankingOK

LEMMA ReserveKeepsBooks ==
    ASSUME BookInv, NEW f \in Affected, ReserveHotelBlock(f)
    PROVE  BookInv'
<1> DEFINE r == Result(f)
           row == RoomRow(f, r)
<1>1. /\ \A h : Taken(r, h) \in Nat
      /\ GoodRow(row) /\ recorded' = recorded \cup {row}
      /\ row.incident = f /\ row.type = Reserve /\ row.status \in RoomStatuses
      /\ held' = [h \in HotelId |-> [held[h] EXCEPT ![Group(f)] = @ + Taken(r, h)]]
      /\ reading' = [reading EXCEPT ![f] = Nothing]
      /\ opened' = opened /\ weather' = weather /\ predicted' = predicted
      /\ ranking' = ranking
  BY ReserveStep
<1>2. f \in opened /\ Recorded({f}, Reserve, RoomStatuses) = {}
  BY DEF ReserveHotelBlock, BookInv, ReadingOK
<1> HIDE DEF r, row
<1>3. RowsOK'
  BY <1>1, <1>2, RowAdded DEF BookInv
<1>4. HeldOK'
  BY <1>1 DEF BookInv, HeldOK, Group
<1>5. ReadingOK'
  <2>1. \A g \in Affected \ {f} :
           Recorded({g}, Reserve, RoomStatuses)' = Recorded({g}, Reserve, RoomStatuses)
    BY <1>1 DEF Recorded
  <2>2. reading'[f] = Nothing /\ \A g \in Affected \ {f} : reading'[g] = reading[g]
    BY <1>1 DEF BookInv, ReadingOK
  <2>3. reading' = [g \in Affected |-> reading'[g]]
    BY <1>1 DEF BookInv, ReadingOK
  <2> QED BY <1>1, <2>1, <2>2, <2>3 DEF BookInv, ReadingOK
<1> QED BY <1>1, <1>3, <1>4, <1>5 DEF BookInv, PredictedOK, RankingOK

LEMMA ReadKeepsBooks ==
    ASSUME BookInv, NEW f \in Affected, ReadHotelOptions(f)
    PROVE  BookInv'
<1>1. /\ Ordered(Options({}), Terms) /\ {o.id : o \in Options({})} = HotelId
  BY OptionsAre DEF BookInv
<1>2. /\ f \in opened /\ Reserve \in DOMAIN Tasks[f]
      /\ Recorded({f}, Reserve, RoomStatuses) = {}
  BY DEF ReadHotelOptions, Dispatchable, RoomStatuses, Reserve
<1>3. /\ reading' = [reading EXCEPT ![f] = Options({})] /\ recorded' = recorded
      /\ opened' = opened
  BY DEF ReadHotelOptions
<1>4. ReadingOK'
  <2>1. \A g : Recorded({g}, Reserve, RoomStatuses)' = Recorded({g}, Reserve, RoomStatuses)
    BY <1>3 DEF Recorded
  <2>2. reading'[f] = Options({}) /\ \A g \in Affected \ {f} : reading'[g] = reading[g]
    BY <1>3 DEF BookInv, ReadingOK
  <2>3. reading' = [g \in Affected |-> reading'[g]]
    BY <1>3 DEF BookInv, ReadingOK
  <2> QED BY <1>1, <1>2, <1>3, <2>1, <2>2, <2>3 DEF BookInv, ReadingOK
<1> QED BY <1>4 DEF BookInv, ReadHotelOptions, HeldOK, RowsOK, PredictedOK, RankingOK

LEMMA AssessKeepsBooks ==
    ASSUME BookInv, NEW f \in Affected, NEW live \in {{}, {Report}}, AssessDelayRisk(f, live)
    PROVE  BookInv'
<1>1. PredictedOK'
  <2>1. CASE Scored(weather') = {}
    BY <2>1 DEF AssessDelayRisk, BookInv, PredictedOK
  <2>2. CASE Scored(weather') # {}
    <3>1. PICK w \in Scored(weather') :
             predicted' = [predicted EXCEPT ![f] =
               [index |-> AssessRisk(w, Runways, DefaultBands, Threshold).index,
                level |-> AssessRisk(w, Runways, DefaultBands, Threshold).level,
                recommended |-> AssessRisk(w, Runways, DefaultBands, Threshold).recommended]]
      BY <2>2 DEF AssessDelayRisk, Prediction
    <3> DEFINE score == AssessRisk(w, Runways, DefaultBands, Threshold)
    <3>2. score.index \in 0..100 /\ score.level = LevelFor(score.index)
      BY RiskIndex DEF AssessRisk
    <3> HIDE DEF score
    <3>3. predicted' = [predicted EXCEPT ![f] = [index |-> score.index, level |-> score.level,
                                                 recommended |-> score.recommended]]
      BY <3>1 DEF score
    <3> QED BY <3>2, <3>3 DEF BookInv, PredictedOK
  <2> QED BY <2>1, <2>2
<1>2. opened' = opened /\ recorded' = recorded /\ reading' = reading
      /\ held' = held /\ ranking' = ranking /\ weather' = weather \cup live
  BY DEF AssessDelayRisk
<1>3. RowsOK' /\ ReadingOK'
  BY <1>2 DEF BookInv, RowsOK, ReadingOK, Recorded
<1> QED BY <1>1, <1>2, <1>3 DEF BookInv, HeldOK, RankingOK

\* The ranking of a group is of the bookings on its flights, each within the scale.
LEMMA RankedOnes ==
    ASSUME NEW flights
    PROVE  /\ {p.booking : p \in Ranked(flights)} = On(flights)
           /\ {p.index : p \in Ranked(flights)} \subseteq 0..100
<1> DEFINE broken == BrokenBookings(flights \cap opened)
           Facts(b) == Known[b] \cup (IF b \in broken THEN {"broken_connection"} ELSE {})
           rules == Ruleset(RankingRow)
           Of(b) == Score(b, Facts(b), Tier[b], rules)
<1>1. Ranked(flights) = {Of(b) : b \in On(flights)}
  BY DEF Ranked
<1>2. ASSUME NEW b \in On(flights) PROVE Of(b).booking = b /\ Of(b).index \in 0..100
  <2>1. b \in Booking /\ IsFiniteSet(Known[b])
    BY RecoveryAssumption DEF On, Booking
  <2>2. IsFiniteSet(Facts(b))
    BY <2>1, FS_AddElement
  <2>3. /\ \A name \in DOMAIN rules.facts : rules.facts[name] \in Int
        /\ \A name \in DOMAIN rules.tiers : rules.tiers[name] \in Int
    BY RecoveryAssumption
  <2> HIDE DEF Facts, rules
  <2>4. PriorityIndex(Facts(b), Tier[b], rules) \in 0..100
    BY <2>2, <2>3, RankIndex
  <2> QED BY <2>4 DEF Score
<1> HIDE DEF Of
<1> QED BY <1>1, <1>2

LEMMA CascadeKeepsBooks == BookInv /\ RecordCascade => BookInv'
<1> SUFFICES ASSUME BookInv, RecordCascade PROVE BookInv'
  OBVIOUS
<1>1. /\ opened' = opened /\ recorded' = recorded /\ held' = held /\ reading' = reading
      /\ weather' = weather /\ predicted' = predicted /\ ranking' = Ranked(Member)
  BY DEF RecordCascade
<1>2. RankingOK'
  BY <1>1, RankedOnes DEF RankingOK
<1>3. RowsOK' /\ ReadingOK'
  BY <1>1 DEF BookInv, RowsOK, ReadingOK, Recorded
<1> QED BY <1>1, <1>2, <1>3 DEF BookInv, HeldOK, PredictedOK

LEMMA BookInit == Init => BookInv
<1> SUFFICES ASSUME Init PROVE BookInv
  OBVIOUS
<1>1. RowsOK
  BY FS_EmptySet DEF Init, RowsOK
<1>2. HeldOK /\ ReadingOK
  BY DEF Init, HeldOK, ReadingOK
<1>3. PredictedOK /\ RankingOK
  BY DEF Init, PredictedOK, RankingOK, NoPrediction
<1> QED BY <1>1, <1>2, <1>3 DEF Init, BookInv, Affected

\* The steps of the services, by what they touch.
LEMMA Steps ==
    ASSUME Next
    PROVE  \/ RecordCascade
           \/ \E f \in Affected : \/ OpenIncident(f) \/ ReadHotelOptions(f) \/ ReserveHotelBlock(f)
                                  \/ \E live \in {{}, {Report}} : AssessDelayRisk(f, live)
                                  \/ \E type : RecordsOne(f, type)
<1>1. ASSUME NEW f \in Affected, \/ AssessCrewImpact(f) \/ FindHotelOptions(f) \/ RebookPassengers(f)
      PROVE  \E type : RecordsOne(f, type)
  BY <1>1, ServicesRecord
<1>2. ASSUME NEW f \in Affected, NEW overlay, CheckConnections(f, overlay)
      PROVE  \E type : RecordsOne(f, type)
  BY <1>2, ServicesRecord
<1>3. ASSUME NEW f \in Affected, NEW type \in Notices, NEW failed, Communicate(f, type, failed)
      PROVE  \E t : RecordsOne(f, t)
  BY <1>3, ServicesRecord
<1> QED BY <1>1, <1>2, <1>3 DEF Next, Notices

LEMMA BookStep == BookInv /\ [Next]_vars => BookInv'
<1> SUFFICES ASSUME BookInv, [Next]_vars PROVE BookInv'
  OBVIOUS
<1>1. CASE UNCHANGED vars
  <2>1. RowsOK' /\ ReadingOK'
    BY <1>1 DEF BookInv, RowsOK, ReadingOK, Recorded, vars
  <2> QED BY <1>1, <2>1 DEF BookInv, HeldOK, PredictedOK, RankingOK, vars
<1>2. ASSUME NEW f \in Affected, OpenIncident(f) PROVE BookInv'
  <2>1. RowsOK' /\ ReadingOK'
    BY <1>2 DEF BookInv, RowsOK, ReadingOK, Recorded, OpenIncident
  <2> QED BY <1>2, <2>1 DEF BookInv, HeldOK, PredictedOK, RankingOK, OpenIncident
<1> QED BY <1>1, <1>2, Steps, CascadeKeepsBooks, ReadKeepsBooks, ReserveKeepsBooks,
           AssessKeepsBooks, RecordsKeepBooks

\* The rows are the ones the services write: see TypeOK.
THEOREM RecoveryTypeCorrect == Spec => []TypeOK
<1>1. BookInv => TypeOK
  <2> SUFFICES ASSUME BookInv PROVE TypeOK
    OBVIOUS
  <2>1. ASSUME NEW a \in recorded
        PROVE  /\ a.incident \in opened /\ a.type \in DOMAIN Tasks[a.incident]
               /\ a.status \in {"success", "needs_human"}
               /\ a.payload.allocated \in 0..a.payload.required
               /\ a.payload.sent \subseteq On({a.incident})
    BY DEF BookInv, RowsOK, GoodRow, RoomStatuses
  <2>2. ASSUME NEW f \in Affected PROVE {o.id : o \in reading[f]} \in {{}, HotelId}
    <3>1. CASE reading[f] = Nothing
      BY <3>1 DEF Nothing
    <3>2. CASE reading[f] # Nothing
      BY <3>2 DEF BookInv, ReadingOK
    <3> QED BY <3>1, <3>2
  <2>3. ASSUME NEW f \in Affected
        PROVE  /\ predicted[f].index \in -1..100
               /\ predicted[f] # NoPrediction => predicted[f].level = LevelFor(predicted[f].index)
    BY DEF BookInv, PredictedOK
  <2> QED BY <2>1, <2>2, <2>3 DEF TypeOK, BookInv, HeldOK, RankingOK
<1> QED BY <1>1, BookInit, BookStep, PTL DEF Spec

-----------------------------------------------------------------------------
(* No room is promised twice                                               *)

\* An allocation takes from a property no more than was free when it read the options.
LEMMA TakenWithin ==
    ASSUME BookInv, NEW f \in Affected, reading[f] # Nothing
    PROVE  \A h : \/ Taken(Result(f), h) = 0
                 \/ \E o \in Eligible(reading[f], Terms) :
                       o.id = h /\ Taken(Result(f), h) \in 0..Available(o)
<1> DEFINE r == Result(f)
           E == Eligible(reading[f], Terms)
           share == [o \in E |-> Share(o, r.required, reading[f], Terms)]
<1>1. Ordered(reading[f], Terms)
  BY DEF BookInv, ReadingOK
<1>2. Passengers(f) \in Int /\ Terms.perRoom \in Nat \ {0}
  BY PassengerCount, TermsAre
<1>3. /\ r.required = RoomsRequired(Passengers(f), Terms) /\ r.required \in Nat
      /\ \A o \in E : Taken(r, o.id) = share[o]
      /\ \A h : (\A o \in E : o.id # h) => Taken(r, h) = 0
      /\ r.allocated = SumOf(share, E)
  BY <1>1, <1>2, AllocationTakes DEF Result
<1>4. \A o \in E : share[o] \in 0..Available(o)
  <2> HIDE DEF r
  <2> QED BY <1>1, <1>3, Greedy
<1> HIDE DEF r, E, share
<1> QED BY <1>3, <1>4 DEF r, E

\* While a request allocates nobody else reads, so what it read is still what is held.
ReadsAlone ==
    /\ \A f, g \in Affected : reading[f] # Nothing /\ reading[g] # Nothing => f = g
    /\ \A f \in Affected : reading[f] # Nothing => reading[f] = Options({})

RoomsInv == BookInv /\ ReadsAlone /\ NoRoomTwice

LEMMA HeldAdds == \A h, groups : HeldIn(h, groups) = SumOf(held[h], groups)
BY DEF HeldIn, SumOf

LEMMA HeldByBoth ==
    HeldOK => \A k \in HotelId :
                 HeldIn(k, {"group", "other"}) = held[k]["group"] + held[k]["other"]
BY HeldSums

LEMMA OptionsHeld ==
    ASSUME held' = held
    PROVE  /\ \A excluded : Options(excluded)' = Options(excluded)
           /\ \A h, groups : HeldIn(h, groups)' = HeldIn(h, groups)
<1>1. \A h, groups : HeldIn(h, groups) = SumOf(held[h], groups)
  BY HeldAdds
<1>2. (\A h, groups : HeldIn(h, groups) = SumOf(held[h], groups))'
  BY HeldAdds, PTL
<1>3. \A h, groups : HeldIn(h, groups)' = HeldIn(h, groups)
  BY <1>1, <1>2
<1> QED BY <1>3 DEF Options

LEMMA RoomsInit == Init => RoomsInv
<1> SUFFICES ASSUME Init PROVE RoomsInv
  OBVIOUS
<1>1. BookInv
  BY BookInit
<1>2. ReadsAlone
  BY DEF Init, ReadsAlone
<1>3. ASSUME NEW h \in Inventory PROVE HeldIn(h.id, {"group", "other"}) <= h.total
  <2>1. h.id \in HotelId /\ h.total \in Nat
    BY RecoveryAssumption DEF HotelId
  <2>2. held[h.id]["group"] = 0 /\ held[h.id]["other"] = 0
    BY <2>1 DEF Init
  <2> QED BY <1>1, <2>1, <2>2, HeldSums DEF BookInv
<1> QED BY <1>1, <1>2, <1>3 DEF RoomsInv, NoRoomTwice

LEMMA ReserveKeepsRooms ==
    ASSUME RoomsInv, NEW f \in Affected, ReserveHotelBlock(f)
    PROVE  RoomsInv'
<1> DEFINE r == Result(f)
<1>1. /\ \A h : Taken(r, h) \in Nat
      /\ held' = [h \in HotelId |-> [held[h] EXCEPT ![Group(f)] = @ + Taken(r, h)]]
      /\ reading' = [reading EXCEPT ![f] = Nothing] /\ reading[f] # Nothing
  BY ReserveStep DEF RoomsInv, ReserveHotelBlock
<1>2. BookInv /\ BookInv' /\ HeldOK /\ HeldOK'
  BY ReserveKeepsBooks DEF RoomsInv, BookInv
<1>3. ReadsAlone'
  <2>1. \A g \in Affected : reading'[g] = Nothing
    BY <1>1 DEF RoomsInv, ReadsAlone, BookInv, ReadingOK
  <2> QED BY <2>1 DEF ReadsAlone
<1>4. ASSUME NEW h \in Inventory PROVE HeldIn(h.id, {"group", "other"})' <= h.total
  <2> DEFINE before == held[h.id]["group"] + held[h.id]["other"]
  <2>1. h.id \in HotelId /\ h.total \in Nat
    BY RecoveryAssumption DEF HotelId
  <2>2. before \in Nat /\ before <= h.total
    <3>1. before \in Nat
      BY <1>2, <2>1 DEF HeldOK
    <3>2. HeldIn(h.id, {"group", "other"}) = before
      BY <1>2, <2>1, HeldSums
    <3> QED BY <3>1, <3>2 DEF RoomsInv, NoRoomTwice
  <2>3. HeldIn(h.id, {"group", "other"})' = before + Taken(r, h.id)
    <3>1. HeldIn(h.id, {"group", "other"})' = held'[h.id]["group"] + held'[h.id]["other"]
      <4>1. (HeldOK => \A k \in HotelId :
                          HeldIn(k, {"group", "other"}) = held[k]["group"] + held[k]["other"])'
        BY HeldByBoth, PTL
      <4> QED BY <1>2, <2>1, <4>1
    <3>2. held'[h.id] = [held[h.id] EXCEPT ![Group(f)] = @ + Taken(r, h.id)]
      BY <1>1, <2>1
    <3> HIDE DEF r
    <3>3. held[h.id] \in [{"group", "other"} -> Nat] /\ Taken(r, h.id) \in Nat
      BY <1>1, <1>2, <2>1 DEF HeldOK
    <3> QED BY <3>1, <3>2, <3>3 DEF Group
  <2>4. before + Taken(r, h.id) <= h.total
    <3>1. CASE Taken(r, h.id) = 0
      BY <2>2, <3>1
    <3>2. CASE Taken(r, h.id) # 0
      <4>1. PICK o \in Eligible(reading[f], Terms) :
               o.id = h.id /\ Taken(r, h.id) \in 0..Available(o)
        BY <1>1, <1>2, <3>2, TakenWithin
      <4>2. reading[f] = Options({}) /\ o \in Options({})
        BY <1>1 DEF RoomsInv, ReadsAlone, Eligible
      <4>3. /\ Ordered(Options({}), Terms) /\ o.held = before
            /\ \E k \in Inventory : o.id = k.id /\ o.total = k.total
        BY <1>2, <4>1, <4>2, OptionsAre
      <4>4. o.total = h.total
        BY <4>1, <4>3, RecoveryAssumption
      <4>5. Available(o) = h.total - before
        BY <2>2, <4>2, <4>3, <4>4, AvailableRooms
      <4> HIDE DEF before, r
      <4> QED BY <2>1, <2>2, <4>1, <4>5
    <3> QED BY <3>1, <3>2
  <2> QED BY <2>3, <2>4
<1> QED BY <1>2, <1>3, <1>4 DEF RoomsInv, NoRoomTwice

LEMMA RoomsStep == ~Overlapping /\ RoomsInv /\ [Next]_vars => RoomsInv'
<1> SUFFICES ASSUME ~Overlapping, RoomsInv, [Next]_vars PROVE RoomsInv'
  OBVIOUS
<1>1. BookInv'
  BY BookStep DEF RoomsInv
<1>2. ASSUME held' = held, reading' = reading PROVE RoomsInv'
  BY <1>1, <1>2, OptionsHeld DEF RoomsInv, ReadsAlone, NoRoomTwice
<1>3. ASSUME NEW f \in Affected, ReadHotelOptions(f) PROVE RoomsInv'
  <2>1. /\ held' = held /\ reading' = [reading EXCEPT ![f] = Options({})]
        /\ \A g \in Affected : reading[g] = Nothing
    BY <1>3 DEF ReadHotelOptions
  <2>2. \A g \in Affected : reading'[g] # Nothing => g = f /\ reading'[g] = Options({})
    BY <2>1 DEF RoomsInv, BookInv, ReadingOK
  <2> QED BY <1>1, <2>1, <2>2, OptionsHeld DEF RoomsInv, ReadsAlone, NoRoomTwice
<1>4. CASE UNCHANGED vars
  BY <1>2, <1>4 DEF vars
<1>5. CASE Next
  BY <1>5, <1>2, <1>3, Steps, ReserveKeepsRooms
     DEF RecordCascade, OpenIncident, AssessDelayRisk, RecordsOne
<1> QED BY <1>4, <1>5

\* Where requests allocate one after the other no room is promised twice, whatever the
\* inventory, the delays and the order of the incidents: see NoRoomTwice.  Where they
\* overlap the property fails, and a run shows how.
THEOREM RoomsHeldOnce == ~Overlapping => (Spec => []NoRoomTwice)
<1> SUFFICES ASSUME ~Overlapping PROVE Spec => []NoRoomTwice
  OBVIOUS
<1>1. RoomsInv /\ [Next]_vars => RoomsInv'
  BY RoomsStep
<1>2. RoomsInv => NoRoomTwice
  BY DEF RoomsInv
<1> QED BY <1>1, <1>2, RoomsInit, PTL DEF Spec

-----------------------------------------------------------------------------
(* A figure shown as exact stands                                          *)

\* What every member has been assessed for, no step adds to.
LEMMA EvidenceStands ==
    ASSUME BookInv, [Next]_vars, WithoutIncident = {},
           NEW type \in {"check_connections", "assess_crew_impact"},
           AssessedBy(type) = Incidents
    PROVE  Incidents' = Incidents /\ Succeeded(Incidents, type)' = Succeeded(Incidents, type)
<1>1. \A f \in Incidents : Recorded({f}, type, {"success", "needs_human"}) # {}
  BY DEF AssessedBy, Succeeded, Recorded
<1>2. Incidents = Member
  BY DEF WithoutIncident, Incidents
<1>3. ASSUME recorded' = recorded, opened' = opened
      PROVE  Incidents' = Incidents /\ Succeeded(Incidents, type)' = Succeeded(Incidents, type)
  BY <1>3 DEF Incidents, Succeeded, Recorded
<1>4. CASE UNCHANGED vars
  BY <1>3, <1>4 DEF vars
<1>5. ASSUME NEW f \in Affected, OpenIncident(f) PROVE FALSE
  BY <1>5 DEF OpenIncident, WithoutIncident
<1>6. ASSUME NEW f \in Affected, NEW r, recorded' = recorded \cup {r}, opened' = opened,
             r.incident = f, f \in Incidents => r.type # type
      PROVE  Incidents' = Incidents /\ Succeeded(Incidents, type)' = Succeeded(Incidents, type)
  BY <1>6 DEF Incidents, Succeeded, Recorded
<1>7. ASSUME NEW f \in Affected, NEW t, RecordsOne(f, t)
      PROVE  Incidents' = Incidents /\ Succeeded(Incidents, type)' = Succeeded(Incidents, type)
  <2>1. PICK r : r.incident = f /\ r.type = t /\ recorded' = recorded \cup {r}
    BY <1>7 DEF RecordsOne
  <2>2. f \in Incidents => t # type
    BY <1>1, <1>7 DEF RecordsOne, Dispatchable
  <2> QED BY <1>6, <1>7, <2>1, <2>2 DEF RecordsOne
<1>8. ASSUME NEW f \in Affected, ReserveHotelBlock(f)
      PROVE  Incidents' = Incidents /\ Succeeded(Incidents, type)' = Succeeded(Incidents, type)
  <2> DEFINE r == RoomRow(f, Result(f))
  <2>1. recorded' = recorded \cup {r} /\ opened' = opened /\ r.incident = f /\ r.type = Reserve
    BY <1>8, ReserveStep
  <2> HIDE DEF r
  <2> QED BY <1>6, <2>1 DEF Reserve
<1>9. CASE Next
  BY <1>9, <1>3, <1>5, <1>7, <1>8, Steps DEF RecordCascade, AssessDelayRisk, ReadHotelOptions
<1> QED BY <1>4, <1>9

\* Nor does a step add to the rooms of incidents that all have theirs: a member whose
\* incident opens later brings no row with it.
LEMMA RoomsStand ==
    ASSUME BookInv, [Next]_vars, {a.incident : a \in RoomRows(Incidents)} = Incidents
    PROVE  RoomRows(Incidents)' = RoomRows(Incidents)
<1>1. \A f \in Incidents : Recorded({f}, Reserve, RoomStatuses) # {}
  BY DEF RoomRows, Recorded, Reserve
<1>2. \A a \in recorded : a.incident \in opened
  BY DEF BookInv, RowsOK
<1>3. ASSUME recorded' = recorded, opened' = opened
      PROVE  RoomRows(Incidents)' = RoomRows(Incidents)
  BY <1>3 DEF Incidents, RoomRows, Recorded
<1>4. CASE UNCHANGED vars
  BY <1>3, <1>4 DEF vars
<1>5. ASSUME NEW f \in Affected, OpenIncident(f) PROVE RoomRows(Incidents)' = RoomRows(Incidents)
  BY <1>2, <1>5 DEF OpenIncident, Incidents, RoomRows, Recorded
<1>6. ASSUME NEW f \in Affected, NEW r, recorded' = recorded \cup {r}, opened' = opened,
             r.incident = f, f \in Incidents => r.type # Reserve
      PROVE  RoomRows(Incidents)' = RoomRows(Incidents)
  BY <1>6 DEF Incidents, RoomRows, Recorded, Reserve
<1>7. ASSUME NEW f \in Affected, NEW t, RecordsOne(f, t)
      PROVE  RoomRows(Incidents)' = RoomRows(Incidents)
  <2>1. PICK r : r.incident = f /\ r.type = t /\ recorded' = recorded \cup {r}
    BY <1>7 DEF RecordsOne
  <2> QED BY <1>6, <1>7, <2>1 DEF RecordsOne
<1>8. ASSUME NEW f \in Affected, ReserveHotelBlock(f)
      PROVE  RoomRows(Incidents)' = RoomRows(Incidents)
  <2> DEFINE r == RoomRow(f, Result(f))
  <2>1. recorded' = recorded \cup {r} /\ opened' = opened /\ r.incident = f /\ r.type = Reserve
    BY <1>8, ReserveStep
  <2>2. f \notin Incidents
    BY <1>1, <1>8 DEF ReserveHotelBlock, BookInv, ReadingOK
  <2> HIDE DEF r
  <2> QED BY <1>6, <2>1, <2>2
<1>9. CASE Next
  BY <1>9, <1>3, <1>5, <1>7, <1>8, Steps DEF RecordCascade, AssessDelayRisk, ReadHotelOptions
<1> QED BY <1>4, <1>9

Needed(rows) == Sum(RequiredOf, rows)
Lacked(rows) == Max({0, Sum(RequiredOf, rows) - Sum(AllocatedOf, rows)})
Covered == {a.incident : a \in RoomRows(Incidents)} = Incidents /\ Incidents # {}

Complete ==
    /\ Incidents # {} /\ WithoutIncident = {}
    /\ AssessedBy("check_connections") = Incidents
    /\ AssessedBy("assess_crew_impact") = Incidents

\* The radius, figure by figure.
AlwaysShown ==
    {Dimension("flights", Cardinality(Member), TRUE),
     Dimension("passengers", Cardinality(On(Member)), TRUE),
     Dimension("hotels", Cardinality(HotelId), TRUE),
     Dimension("connections", Cardinality(BrokenBookings(Incidents)), Complete),
     Dimension("rotations", Cardinality(Pairings(CrewImpacts(Incidents))), Complete)}

RoomsShown ==
    {Dimension("required", Needed(RoomRows(Incidents)), Covered),
     Dimension("short", Lacked(RoomRows(Incidents)), Covered)}

RadiusFigures ==
    /\ AlwaysShown \subseteq Radius
    /\ RoomRows(Incidents) # {} => RoomsShown \subseteq Radius
    /\ \A d \in Radius : \/ d \in AlwaysShown \/ d.name = "cost"
                         \/ RoomRows(Incidents) # {} /\ d \in RoomsShown

LEMMA RadiusIs == RadiusFigures
<1> DEFINE rollup == Rollup
           totals == Totals
           always ==
             {Dimension("flights", Cardinality(rollup.flights), TRUE),
              Dimension("passengers", Cardinality(rollup.passengers), TRUE),
              Dimension("hotels", Cardinality(rollup.hotels), TRUE),
              Dimension("connections", Cardinality(rollup.bookings), rollup.complete),
              Dimension("rotations", Cardinality(DOMAIN rollup.pairings), rollup.complete)}
           rooms ==
             {Dimension("required", totals.required, RoomsExact(totals, rollup)),
              Dimension("short", totals.short, RoomsExact(totals, rollup))}
           cost == {Dimension("cost", totals.cost, rollup.complete)}
<1>1. Radius = IF RoomRows(Incidents) = {} THEN always
               ELSE IF totals.cost = 0 THEN always \cup rooms ELSE always \cup rooms \cup cost
  BY Zenon DEF Radius
<1>2. /\ rollup.flights = Member /\ rollup.passengers = On(Member) /\ rollup.hotels = HotelId
      /\ rollup.bookings = BrokenBookings(Incidents)
      /\ DOMAIN rollup.pairings = Pairings(CrewImpacts(Incidents))
      /\ rollup.complete = Complete
  BY DEF Rollup, Complete
<1>3. /\ totals.required = Needed(RoomRows(Incidents))
      /\ totals.short = Lacked(RoomRows(Incidents))
      /\ RoomsExact(totals, rollup) = Covered
  BY DEF Totals, Needed, Lacked, RoomsExact, Covered
<1> HIDE DEF rollup, totals
<1>4. always = AlwaysShown
  BY <1>2, Zenon DEF AlwaysShown
<1>5. rooms = RoomsShown
  BY <1>3, Zenon DEF RoomsShown
<1>6. \A d \in cost : d.name = "cost"
  BY DEF Dimension
<1> HIDE DEF always, rooms, cost
<1> QED BY <1>1, <1>4, <1>5, <1>6 DEF RadiusFigures

\* What the rollup calls complete stays so, with what it counts.
LEMMA CompleteStays ==
    ASSUME BookInv, [Next]_vars, Complete
    PROVE  /\ Complete'
           /\ BrokenBookings(Incidents)' = BrokenBookings(Incidents)
           /\ CrewImpacts(Incidents)' = CrewImpacts(Incidents)
<1>1. \A type \in {"check_connections", "assess_crew_impact"} :
         Incidents' = Incidents /\ Succeeded(Incidents, type)' = Succeeded(Incidents, type)
  BY EvidenceStands DEF Complete
<1>2. \A type \in {"check_connections", "assess_crew_impact"} : AssessedBy(type)' = AssessedBy(type)
  BY <1>1 DEF AssessedBy
<1>3. WithoutIncident' = {}
  BY <1>1 DEF Complete, WithoutIncident, Incidents
<1>4. Complete'
  BY <1>1, <1>2, <1>3 DEF Complete
<1>5. BrokenBookings(Incidents)' = BrokenBookings(Incidents)
  BY <1>1 DEF BrokenBookings
<1>6. CrewImpacts(Incidents)' = CrewImpacts(Incidents)
  BY <1>1 DEF CrewImpacts
<1> QED BY <1>4, <1>5, <1>6

\* One figure and one step: the figure and its flag are kept, but for the two exceptions.
LEMMA FigureStays ==
    ASSUME BookInv, [Next]_vars, NEW d \in Radius, d.exact, d.name # "cost"
    PROVE  d \in Radius' \/ (opened' # opened /\ d.name \in {"required", "short"})
<1>1. RadiusFigures /\ RadiusFigures'
  BY RadiusIs, PTL
<1>2. \A n, v, e : Dimension(n, v, e).name = n /\ Dimension(n, v, e).exact = e
  BY DEF Dimension
<1>3. d \in AlwaysShown \/ (RoomRows(Incidents) # {} /\ d \in RoomsShown)
  BY <1>1 DEF RadiusFigures
<1>4. CASE d \in {Dimension("flights", Cardinality(Member), TRUE),
                  Dimension("passengers", Cardinality(On(Member)), TRUE),
                  Dimension("hotels", Cardinality(HotelId), TRUE)}
  BY <1>1, <1>4 DEF RadiusFigures, AlwaysShown
<1>5. CASE d \in {Dimension("connections", Cardinality(BrokenBookings(Incidents)), Complete),
                  Dimension("rotations", Cardinality(Pairings(CrewImpacts(Incidents))), Complete)}
  <2>1. Complete
    BY <1>2, <1>5
  <2>2. /\ Complete' = Complete
        /\ BrokenBookings(Incidents)' = BrokenBookings(Incidents)
        /\ CrewImpacts(Incidents)' = CrewImpacts(Incidents)
    BY <2>1, CompleteStays DEF Complete
  <2>3. /\ Dimension("connections", Cardinality(BrokenBookings(Incidents)), Complete) \in Radius'
        /\ Dimension("rotations", Cardinality(Pairings(CrewImpacts(Incidents))), Complete) \in Radius'
    BY <1>1, <2>2 DEF RadiusFigures, AlwaysShown
  <2> QED BY <1>5, <2>3
<1>6. CASE RoomRows(Incidents) # {} /\ d \in RoomsShown
  <2>1. Covered /\ d.name \in {"required", "short"}
    BY <1>2, <1>6 DEF RoomsShown
  <2>2. RoomRows(Incidents)' = RoomRows(Incidents)
    BY <2>1, RoomsStand DEF Covered
  <2>3. SUFFICES ASSUME opened' = opened PROVE d \in Radius'
    BY <2>1
  <2>4. Incidents' = Incidents
    BY <2>3 DEF Incidents
  <2>5. Covered' = Covered
    BY <2>2, <2>4 DEF Covered
  <2>6. /\ Dimension("required", Needed(RoomRows(Incidents)), Covered) \in Radius'
        /\ Dimension("short", Lacked(RoomRows(Incidents)), Covered) \in Radius'
    BY <1>1, <1>6, <2>2, <2>5 DEF RadiusFigures, RoomsShown
  <2> QED BY <1>6, <2>6 DEF RoomsShown
<1> QED BY <1>3, <1>4, <1>5, <1>6 DEF AlwaysShown

\* A figure the radius shows as exact is kept with its flag by every step: the rooms as long
\* as no further incident of the group is opened, the committed cost left out.
THEOREM ExactIsKept == Spec => ExactStandsStill
<1>1. ASSUME BookInv, [Next]_vars
      PROVE  \A before \in {Radius}, after \in {Radius'} : Stands(before, after, opened' # opened)
  BY <1>1, FigureStays DEF Stands
<1>2. BookInv /\ [Next]_vars =>
         [\A before \in {Radius}, after \in {Radius'} : Stands(before, after, opened' # opened)]_vars
  BY <1>1
<1> QED BY <1>2, BookInit, BookStep, PTL DEF Spec, ExactStandsStill

\* Over any number of steps: flights, passengers, hotels, connections or rotations that are
\* shown as exact once are shown so, with that number, for ever.
THEOREM ExactForEver ==
    ASSUME NEW CONSTANT d, d.exact,
           d.name \in {"flights", "passengers", "hotels", "connections", "rotations"}
    PROVE  Spec => [](d \in Radius => [](d \in Radius))
<1>1. BookInv /\ [Next]_vars => (d \in Radius => (d \in Radius)')
  <2> SUFFICES ASSUME BookInv, [Next]_vars, d \in Radius PROVE d \in Radius'
    OBVIOUS
  <2> QED BY FigureStays
<1> QED BY <1>1, BookInit, BookStep, PTL DEF Spec

-----------------------------------------------------------------------------
(* One figure, one place                                                   *)

MemberRooms == {a \in recorded : a.incident \in Member /\ a.type = Reserve}

\* The ledger says the group is in a property just when a room row of the group does.
LedgerOK ==
    /\ \A a \in MemberRooms : \A i \in a.payload.allocations : i.hotel \in HotelId
    /\ \A h \in HotelId : held[h]["group"] > 0 <=>
          \E a \in MemberRooms : \E i \in a.payload.allocations : i.hotel = h

Named(ones) == {p.booking : p \in {q \in ones : "broken_connection" \in q.factors}}

\* A snapshot tells what the ranking of the same projection tells; a complete one is still
\* what the recorded rows say.
SnapshotOK ==
    /\ snapshot.bookings = Named(ranking)
    /\ snapshot.complete => /\ Complete
                            /\ snapshot.bookings = BrokenBookings(Incidents)
                            /\ snapshot.pairings = Pairings(CrewImpacts(Incidents))

FigureInv == BookInv /\ LedgerOK /\ SnapshotOK

\* The properties an allocation names are those it takes rooms in.
LEMMA TakenWhere ==
    ASSUME BookInv, NEW f \in Affected, reading[f] # Nothing
    PROVE  /\ \A i \in Result(f).allocations : i.hotel \in HotelId
           /\ \A h : Taken(Result(f), h) > 0 <=> \E i \in Result(f).allocations : i.hotel = h
<1> DEFINE r == Result(f)
           E == Eligible(reading[f], Terms)
           share == [o \in E |-> Share(o, r.required, reading[f], Terms)]
<1>1. Ordered(reading[f], Terms) /\ {o.id : o \in reading[f]} = HotelId
  BY DEF BookInv, ReadingOK
<1>2. Passengers(f) \in Int /\ Terms.perRoom \in Nat \ {0}
  BY PassengerCount, TermsAre
<1>3. /\ r.required = RoomsRequired(Passengers(f), Terms) /\ r.required \in Nat
      /\ \A a \in r.allocations : \E o \in E : a.hotel = o.id /\ share[o] > 0
      /\ \A o \in E : share[o] > 0 => \E a \in r.allocations : a.hotel = o.id
      /\ \A o \in E : Taken(r, o.id) = share[o]
      /\ \A h : (\A o \in E : o.id # h) => Taken(r, h) = 0
      /\ r.allocated = SumOf(share, E)
  BY <1>1, <1>2, AllocationTakes DEF Result
<1>4. \A o \in E : o.id \in HotelId
  BY <1>1 DEF Eligible
<1> HIDE DEF r, E, share
<1>5. ASSUME NEW h PROVE Taken(r, h) > 0 <=> \E i \in r.allocations : i.hotel = h
  <2>1. CASE \E o \in E : o.id = h
    BY <1>3, <2>1
  <2>2. CASE \A o \in E : o.id # h
    BY <1>3, <2>2
  <2> QED BY <2>1, <2>2
<1>6. \A i \in r.allocations : i.hotel \in HotelId
  BY <1>3, <1>4
<1> QED BY <1>5, <1>6 DEF r

\* What the ranking names broken are the bookings the connection checks found broken.
LEMMA RankingNames ==
    ASSUME BrokenIsWeighed, BookInv
    PROVE  Named(Ranked(Member)) = BrokenBookings(Incidents)
<1> DEFINE broken == BrokenBookings(Member \cap opened)
           Facts(b) == Known[b] \cup (IF b \in broken THEN {"broken_connection"} ELSE {})
           rules == Ruleset(RankingRow)
           Of(b) == Score(b, Facts(b), Tier[b], rules)
<1>1. Ranked(Member) = {Of(b) : b \in On(Member)}
  BY DEF Ranked
<1>2. broken = BrokenBookings(Incidents)
  BY DEF Incidents
<1>3. ASSUME NEW b \in On(Member)
      PROVE  Of(b).booking = b /\ ("broken_connection" \in Of(b).factors <=> b \in broken)
  <2>1. b \in Booking /\ "broken_connection" \notin Known[b]
    BY RecoveryAssumption DEF On, Booking
  <2>2. Weight(rules.facts, "broken_connection") # 0 /\ "broken_connection" # "recorded_tier"
    BY DEF BrokenIsWeighed
  <2>3. "broken_connection" \in Facts(b) <=> b \in broken
    BY <2>1
  <2> HIDE DEF Facts, rules, broken
  <2> QED BY <2>2, <2>3 DEF Score, Factors
<1>4. broken \subseteq On(Member)
  <2>1. ASSUME NEW b \in broken PROVE b \in On(Member)
    <3>1. PICK a \in Succeeded(Member \cap opened, "check_connections") :
             b \in Bookings(a.payload.atRisk)
      BY <2>1 DEF BrokenBookings, Payloads, Bookings
    <3>2. a \in recorded /\ a.incident \in Member
      BY DEF Succeeded, Recorded
    <3>3. b \in On({a.incident})
      BY <3>1, <3>2 DEF BookInv, RowsOK, GoodRow
    <3> QED BY <3>2, <3>3 DEF On
  <2> QED BY <2>1
<1> HIDE DEF Of, broken
<1>5. Named({Of(b) : b \in On(Member)}) = broken
  BY <1>3, <1>4 DEF Named
<1> QED BY <1>1, <1>2, <1>5

LEMMA FigureInit == Init => FigureInv
<1> SUFFICES ASSUME Init PROVE FigureInv
  OBVIOUS
<1>1. BookInv
  BY BookInit
<1>2. LedgerOK
  BY DEF Init, LedgerOK, MemberRooms
<1>3. SnapshotOK
  BY DEF Init, SnapshotOK, Named
<1> QED BY <1>1, <1>2, <1>3 DEF FigureInv

\* A complete snapshot is not overtaken.
LEMMA SnapshotStands ==
    ASSUME FigureInv, [Next]_vars, snapshot' = snapshot, ranking' = ranking
    PROVE  SnapshotOK'
<1>1. ASSUME snapshot.complete
      PROVE  /\ Complete' /\ BrokenBookings(Incidents)' = BrokenBookings(Incidents)
             /\ CrewImpacts(Incidents)' = CrewImpacts(Incidents)
  <2>1. Complete /\ BookInv
    BY <1>1 DEF FigureInv, SnapshotOK
  <2>2. \A type \in {"check_connections", "assess_crew_impact"} :
           Incidents' = Incidents /\ Succeeded(Incidents, type)' = Succeeded(Incidents, type)
    BY <2>1, EvidenceStands DEF Complete
  <2>3. WithoutIncident' = {}
    BY <2>1, <2>2 DEF Complete, WithoutIncident, Incidents
  <2>4. \A type \in {"check_connections", "assess_crew_impact"} :
           AssessedBy(type)' = AssessedBy(type)
    BY <2>2 DEF AssessedBy
  <2> QED BY <2>1, <2>2, <2>3, <2>4 DEF Complete, BrokenBookings, CrewImpacts
<1>2. Named(ranking)' = Named(ranking)
  BY DEF Named
<1> QED BY <1>1, <1>2 DEF FigureInv, SnapshotOK

\* A row of another type, or of no member, says nothing of the group's rooms.
LEMMA LedgerStands ==
    ASSUME LedgerOK, MemberRooms' = MemberRooms,
           \A h \in HotelId : held'[h]["group"] = held[h]["group"]
    PROVE  LedgerOK'
BY DEF LedgerOK

LEMMA ReserveKeepsLedger ==
    ASSUME BookInv, LedgerOK, NEW f \in Affected, ReserveHotelBlock(f)
    PROVE  LedgerOK'
<1> DEFINE r == Result(f)
           row == RoomRow(f, r)
<1>1. /\ \A h : Taken(r, h) \in Nat
      /\ row.incident = f /\ row.type = Reserve /\ recorded' = recorded \cup {row}
      /\ row.payload.allocations = r.allocations
      /\ held' = [h \in HotelId |-> [held[h] EXCEPT ![Group(f)] = @ + Taken(r, h)]]
  BY ReserveStep
<1>2. /\ \A i \in r.allocations : i.hotel \in HotelId
      /\ \A h : Taken(r, h) > 0 <=> \E i \in r.allocations : i.hotel = h
  BY TakenWhere DEF ReserveHotelBlock
<1> HIDE DEF r, row
<1>3. CASE f \notin Member
  <2>1. MemberRooms' = MemberRooms
    BY <1>1, <1>3 DEF MemberRooms
  <2>2. \A h \in HotelId : held'[h]["group"] = held[h]["group"]
    BY <1>1, <1>3 DEF Group, BookInv, HeldOK
  <2> QED BY <2>1, <2>2, LedgerStands
<1>4. CASE f \in Member
  <2>1. MemberRooms' = MemberRooms \cup {row}
    BY <1>1, <1>4 DEF MemberRooms
  <2>2. \A h \in HotelId : /\ held[h]["group"] \in Nat
                           /\ held'[h]["group"] = held[h]["group"] + Taken(r, h)
    BY <1>1, <1>4 DEF Group, BookInv, HeldOK
  <2>3. \A a \in MemberRooms' : \A i \in a.payload.allocations : i.hotel \in HotelId
    BY <1>1, <1>2, <2>1 DEF LedgerOK
  <2>4. ASSUME NEW h \in HotelId
        PROVE  held'[h]["group"] > 0 <=>
                  \E a \in MemberRooms' : \E i \in a.payload.allocations : i.hotel = h
    <3>1. held'[h]["group"] > 0 <=> held[h]["group"] > 0 \/ Taken(r, h) > 0
      BY <1>1, <2>2
    <3> QED BY <1>1, <1>2, <2>1, <3>1 DEF LedgerOK
  <2> QED BY <2>3, <2>4 DEF LedgerOK
<1> QED BY <1>3, <1>4

LEMMA FigureStep == BrokenIsWeighed /\ FigureInv /\ [Next]_vars => FigureInv'
<1> SUFFICES ASSUME BrokenIsWeighed, FigureInv, [Next]_vars PROVE FigureInv'
  OBVIOUS
<1>1. BookInv /\ BookInv'
  BY BookStep DEF FigureInv
<1>2. ASSUME recorded' = recorded, held' = held PROVE LedgerOK'
  BY <1>2, LedgerStands DEF FigureInv, MemberRooms
<1>3. CASE UNCHANGED vars
  BY <1>1, <1>2, <1>3, SnapshotStands DEF FigureInv, vars
<1>4. CASE RecordCascade
  <2>1. /\ snapshot'.bookings = BrokenBookings(Incidents)
        /\ snapshot'.pairings = Pairings(CrewImpacts(Incidents))
        /\ snapshot'.complete = Complete
    BY <1>4 DEF RecordCascade, Rollup, Complete
  <2>2. /\ ranking' = Ranked(Member) /\ opened' = opened /\ recorded' = recorded
        /\ held' = held
    BY <1>4 DEF RecordCascade
  <2>3. /\ BrokenBookings(Incidents)' = BrokenBookings(Incidents)
        /\ CrewImpacts(Incidents)' = CrewImpacts(Incidents)
        /\ Complete' = Complete
    BY <2>2 DEF BrokenBookings, CrewImpacts, Complete, Succeeded, Recorded, Incidents,
                AssessedBy, WithoutIncident
  <2>4. Named(ranking)' = BrokenBookings(Incidents)
    <3>1. Named(ranking)' = Named(ranking')
      BY DEF Named
    <3> QED BY <1>1, <2>2, <3>1, RankingNames
  <2>5. SnapshotOK'
    BY <2>1, <2>3, <2>4 DEF SnapshotOK
  <2> QED BY <1>1, <1>2, <2>2, <2>5 DEF FigureInv
<1>5. ASSUME NEW f \in Affected, NEW type, RecordsOne(f, type) PROVE FigureInv'
  <2>1. MemberRooms' = MemberRooms
    BY <1>5 DEF RecordsOne, MemberRooms
  <2>2. LedgerOK'
    BY <1>5, <2>1, LedgerStands DEF RecordsOne, FigureInv
  <2> QED BY <1>1, <1>5, <2>2, SnapshotStands DEF FigureInv, RecordsOne
<1>6. ASSUME NEW f \in Affected, ReserveHotelBlock(f) PROVE FigureInv'
  <2>1. LedgerOK'
    BY <1>1, <1>6, ReserveKeepsLedger DEF FigureInv
  <2>2. snapshot' = snapshot /\ ranking' = ranking
    BY <1>1, <1>6, ReserveStep
  <2> QED BY <1>1, <2>1, <2>2, SnapshotStands DEF FigureInv
<1>7. ASSUME NEW f \in Affected,
             \/ OpenIncident(f) \/ ReadHotelOptions(f)
             \/ \E live \in {{}, {Report}} : AssessDelayRisk(f, live)
      PROVE  FigureInv'
  BY <1>1, <1>2, <1>7, SnapshotStands
     DEF FigureInv, OpenIncident, ReadHotelOptions, AssessDelayRisk
<1> QED BY <1>3, <1>4, <1>5, <1>6, <1>7, Steps

LEMMA TargetsTell ==
    ASSUME NEW drawn, NEW kind, NEW told,
           \A e \in drawn : e.kind = kind => e.target \in told,
           \A t \in told : \E e \in drawn : e.kind = kind /\ e.target = t
    PROVE  Targets(drawn, kind) = told
BY DEF Targets

\* The graph, by the rows its edges are drawn from.
LEMMA GraphIs ==
    LET connections == Succeeded(Incidents, "check_connections")
        crew  == Succeeded(Incidents, "assess_crew_impact")
        rooms == RoomRows(Incidents)
        roots == {f \in Member : predicted[f] # NoPrediction}
    IN  /\ Graph.bookings = UNION {Bookings(a.payload.atRisk) : a \in connections}
        /\ Graph.pairings = UNION {{i.pairing : i \in a.payload.impacts} : a \in crew}
        /\ Graph.hotels = UNION {{i.hotel : i \in a.payload.allocations} : a \in rooms}
        /\ Graph.complete = (roots \cup {a.incident : a \in connections \cup crew \cup rooms}
                                = Member)
<1> DEFINE connections == Succeeded(Incidents, "check_connections")
           crew  == Succeeded(Incidents, "assess_crew_impact")
           rooms == RoomRows(Incidents)
           roots == {f \in Member : predicted[f] # NoPrediction}
           rootEdges == {Edge("root_cause", "event", f, "none") : f \in roots}
           drawn == rootEdges \cup (UNION {CrewEdges(a) : a \in crew})
                       \cup (UNION {ConnectionEdges(a) : a \in connections})
                       \cup (UNION {RoomEdges(a) : a \in rooms})
           evidenced == roots \cup {a.incident : a \in connections \cup crew \cup rooms}
<1>1. /\ Graph.bookings = Targets(drawn, "connection")
      /\ Graph.pairings = Targets(drawn, "crew")
      /\ Graph.hotels = Targets(drawn, "accommodation")
      /\ Graph.complete = (evidenced = Member)
  BY DEF Graph
<1>2. /\ \A e \in rootEdges : e.kind = "root_cause"
      /\ \A a : \A e \in CrewEdges(a) : e.kind = "crew"
      /\ \A a : \A e \in ConnectionEdges(a) : e.kind = "connection"
      /\ \A a : \A e \in RoomEdges(a) : e.kind = "accommodation"
  BY DEF Edge, CrewEdges, ConnectionEdges, RoomEdges
<1> DEFINE Tells(drew, told) == /\ \A e \in drew : e.target \in told
                                /\ \A t \in told : \E e \in drew : e.target = t
<1>3. \A a : Tells(CrewEdges(a), {i.pairing : i \in a.payload.impacts})
  <2> SUFFICES ASSUME NEW a PROVE Tells(CrewEdges(a), {i.pairing : i \in a.payload.impacts})
    OBVIOUS
  <2> DEFINE edge == [i \in a.payload.impacts |-> Edge("crew", a.incident, i.pairing, i.mechanism)]
  <2>1. CrewEdges(a) = {edge[i] : i \in a.payload.impacts}
    BY DEF CrewEdges
  <2>2. \A i \in a.payload.impacts : edge[i].target = i.pairing
    BY DEF Edge
  <2> HIDE DEF edge
  <2> QED BY <2>1, <2>2
<1>4. \A a : Tells(ConnectionEdges(a), Bookings(a.payload.atRisk))
  <2> SUFFICES ASSUME NEW a PROVE Tells(ConnectionEdges(a), Bookings(a.payload.atRisk))
    OBVIOUS
  <2> DEFINE edge == [b \in Bookings(a.payload.atRisk) |->
                        Edge("connection", a.incident, b, "missed_connection")]
  <2>1. ConnectionEdges(a) = {edge[b] : b \in Bookings(a.payload.atRisk)}
    BY DEF ConnectionEdges
  <2>2. \A b \in Bookings(a.payload.atRisk) : edge[b].target = b
    BY DEF Edge
  <2> HIDE DEF edge
  <2> QED BY <2>1, <2>2
<1>5. \A a : Tells(RoomEdges(a), {i.hotel : i \in a.payload.allocations})
  <2> SUFFICES ASSUME NEW a PROVE Tells(RoomEdges(a), {i.hotel : i \in a.payload.allocations})
    OBVIOUS
  <2> DEFINE edge == [i \in a.payload.allocations |->
                        Edge("accommodation", a.incident, i.hotel, "overnight_required")]
  <2>1. RoomEdges(a) = {edge[i] : i \in a.payload.allocations}
    BY DEF RoomEdges
  <2>2. \A i \in a.payload.allocations : edge[i].target = i.hotel
    BY DEF Edge
  <2> HIDE DEF edge
  <2> QED BY <2>1, <2>2
<1> HIDE DEF rootEdges, connections, crew, rooms, roots
<1>6. Targets(drawn, "crew") = UNION {{i.pairing : i \in a.payload.impacts} : a \in crew}
  <2>1. \A e \in drawn : e.kind = "crew" => \E a \in crew : e \in CrewEdges(a)
    BY <1>2
  <2>2. \A a \in crew : CrewEdges(a) \subseteq drawn
    OBVIOUS
  <2> DEFINE told == UNION {{i.pairing : i \in a.payload.impacts} : a \in crew}
  <2> HIDE DEF drawn
  <2>3. \A e \in drawn : e.kind = "crew" => e.target \in told
    BY <1>3, <2>1
  <2>4. \A t \in told : \E e \in drawn : e.kind = "crew" /\ e.target = t
    <3> SUFFICES ASSUME NEW t \in told PROVE \E e \in drawn : e.kind = "crew" /\ e.target = t
      OBVIOUS
    <3>1. PICK a \in crew : t \in {i.pairing : i \in a.payload.impacts}
      OBVIOUS
    <3>2. PICK e \in CrewEdges(a) : e.target = t
      BY <1>3, <3>1
    <3> QED BY <1>2, <2>2, <3>1, <3>2
  <2> HIDE DEF told
  <2>5. Targets(drawn, "crew") = told
    BY <2>3, <2>4, TargetsTell
  <2> QED BY <2>5 DEF told
<1>7. Targets(drawn, "connection") = UNION {Bookings(a.payload.atRisk) : a \in connections}
  <2>1. \A e \in drawn : e.kind = "connection" => \E a \in connections : e \in ConnectionEdges(a)
    BY <1>2
  <2>2. \A a \in connections : ConnectionEdges(a) \subseteq drawn
    OBVIOUS
  <2> DEFINE told == UNION {Bookings(a.payload.atRisk) : a \in connections}
  <2> HIDE DEF drawn
  <2>3. \A e \in drawn : e.kind = "connection" => e.target \in told
    BY <1>4, <2>1
  <2>4. \A t \in told : \E e \in drawn : e.kind = "connection" /\ e.target = t
    <3> SUFFICES ASSUME NEW t \in told PROVE \E e \in drawn : e.kind = "connection" /\ e.target = t
      OBVIOUS
    <3>1. PICK a \in connections : t \in Bookings(a.payload.atRisk)
      OBVIOUS
    <3>2. PICK e \in ConnectionEdges(a) : e.target = t
      BY <1>4, <3>1
    <3> QED BY <1>2, <2>2, <3>1, <3>2
  <2> HIDE DEF told
  <2>5. Targets(drawn, "connection") = told
    BY <2>3, <2>4, TargetsTell
  <2> QED BY <2>5 DEF told
<1>8. Targets(drawn, "accommodation") =
         UNION {{i.hotel : i \in a.payload.allocations} : a \in rooms}
  <2>1. \A e \in drawn : e.kind = "accommodation" => \E a \in rooms : e \in RoomEdges(a)
    BY <1>2
  <2>2. \A a \in rooms : RoomEdges(a) \subseteq drawn
    OBVIOUS
  <2> DEFINE told == UNION {{i.hotel : i \in a.payload.allocations} : a \in rooms}
  <2> HIDE DEF drawn
  <2>3. \A e \in drawn : e.kind = "accommodation" => e.target \in told
    BY <1>5, <2>1
  <2>4. \A t \in told : \E e \in drawn : e.kind = "accommodation" /\ e.target = t
    <3> SUFFICES ASSUME NEW t \in told PROVE \E e \in drawn : e.kind = "accommodation" /\ e.target = t
      OBVIOUS
    <3>1. PICK a \in rooms : t \in {i.hotel : i \in a.payload.allocations}
      OBVIOUS
    <3>2. PICK e \in RoomEdges(a) : e.target = t
      BY <1>5, <3>1
    <3> QED BY <1>2, <2>2, <3>1, <3>2
  <2> HIDE DEF told
  <2>5. Targets(drawn, "accommodation") = told
    BY <2>3, <2>4, TargetsTell
  <2> QED BY <2>5 DEF told
<1> HIDE DEF drawn
<1> QED BY <1>1, <1>6, <1>7, <1>8 DEF connections, crew, rooms, roots

LEMMA FiguresFromInv == FigureInv => FiguresAgree
<1> SUFFICES ASSUME FigureInv PROVE FiguresAgree
  OBVIOUS
<1> DEFINE connections == Succeeded(Incidents, "check_connections")
           crew  == Succeeded(Incidents, "assess_crew_impact")
           rooms == RoomRows(Incidents)
<1>1. /\ Rollup.bookings = BrokenBookings(Incidents)
      /\ DOMAIN Rollup.pairings = Pairings(CrewImpacts(Incidents))
      /\ Rollup.complete = Complete
  BY DEF Rollup, Complete
<1>2. BrokenBookings(Incidents) = UNION {Bookings(a.payload.atRisk) : a \in connections}
  <2> HIDE DEF connections
  <2>1. BrokenBookings(Incidents) = Bookings(UNION {p.atRisk : p \in Payloads(connections)})
    BY DEF BrokenBookings, connections
  <2> QED BY <2>1 DEF Payloads, Bookings
<1>3. Pairings(CrewImpacts(Incidents)) =
         UNION {{i.pairing : i \in a.payload.impacts} : a \in crew}
  <2> HIDE DEF crew
  <2>1. CrewImpacts(Incidents) = UNION {p.impacts : p \in Payloads(crew)}
    BY DEF CrewImpacts, crew
  <2> QED BY <2>1 DEF Payloads, Pairings
<1>4. rooms = MemberRooms
  BY DEF FigureInv, BookInv, RowsOK, GoodRow, RoomRows, Recorded, Incidents, MemberRooms, Reserve
<1>5. UNION {{i.hotel : i \in a.payload.allocations} : a \in rooms} =
         {h \in HotelId : held[h]["group"] > 0}
  <2> HIDE DEF rooms
  <2> QED BY <1>4 DEF FigureInv, LedgerOK
<1>6. Graph.bookings = Rollup.bookings /\ Graph.pairings = DOMAIN Rollup.pairings
  BY <1>1, <1>2, <1>3, GraphIs
<1>7. Graph.hotels = {h \in HotelId : held[h]["group"] > 0}
  BY <1>5, GraphIs
<1>8. ASSUME Complete PROVE Graph.complete /\ RadiusIsComplete
  <2>1. Incidents = Member /\ Incidents # {}
    BY <1>8 DEF Complete, WithoutIncident, Incidents
  <2>2. {a.incident : a \in crew} = Member
    BY <1>8, <2>1 DEF Complete, AssessedBy
  <2>3. \A a \in connections \cup crew \cup rooms : a.incident \in Member
    BY <2>1 DEF Succeeded, RoomRows, Recorded
  <2>4. {f \in Member : predicted[f] # NoPrediction}
           \cup {a.incident : a \in connections \cup crew \cup rooms} = Member
    <3> HIDE DEF connections, crew, rooms
    <3> QED BY <2>2, <2>3
  <2>5. Graph.complete
    BY <2>4, GraphIs
  <2> QED BY <2>1, <2>2, <2>5 DEF RadiusIsComplete, AssessedBy
<1>9. snapshot.bookings = {p.booking : p \in {q \in ranking : "broken_connection" \in q.factors}}
  BY DEF FigureInv, SnapshotOK, Named
<1>10. snapshot.complete => /\ snapshot.bookings = Rollup.bookings
                            /\ snapshot.pairings = DOMAIN Rollup.pairings
  BY <1>1 DEF FigureInv, SnapshotOK
<1> QED BY <1>1, <1>6, <1>7, <1>8, <1>9, <1>10 DEF FiguresAgree

\* The graph, the rollup, the ledger, the ranking and the snapshot tell the same, for every
\* group, schedule and inventory whose ruleset weighs a broken connection: see FiguresAgree.
THEOREM OneFigureOnePlace == BrokenIsWeighed => (Spec => []FiguresAgree)
<1> SUFFICES ASSUME BrokenIsWeighed PROVE Spec => []FiguresAgree
  OBVIOUS
<1>1. FigureInv /\ [Next]_vars => FigureInv'
  BY FigureStep
<1> QED BY <1>1, FigureInit, FiguresFromInv, PTL DEF Spec

-----------------------------------------------------------------------------
(* The accounts of the rooms                                               *)

LEMMA RequiredAdd ==
    ASSUME NEW S, IsFiniteSet(S)
    PROVE  Sum(RequiredOf, S) = SumOf([a \in S |-> a.payload.required], S)
<1> DEFINE val  == [a \in S |-> a.payload.required]
           P(f) == f = [s \in SUBSET S |-> IF s = {} THEN 0
                          ELSE RequiredOf(CHOOSE x \in s : TRUE) + f[s \ {CHOOSE x \in s : TRUE}]]
<1>1. Sum(RequiredOf, S) = (CHOOSE f : P(f))[S]
  BY DEF Sum, MapThenSumSet, MapThenFoldSet
<1>2. \A s \in SUBSET S : s # {} => val[CHOOSE x \in s : TRUE] = RequiredOf(CHOOSE x \in s : TRUE)
  BY DEF RequiredOf
<1>3. \A f : Adds(f, val, S) <=> P(f)
  <2> HIDE DEF val
  <2> QED BY <1>2 DEF Adds
<1> HIDE DEF val, P
<1>4. P(CHOOSE f : P(f))
  BY <1>3, AddsExists
<1> QED BY <1>1, <1>3, <1>4, Bridge DEF val

LEMMA AllocatedAdd ==
    ASSUME NEW S, IsFiniteSet(S)
    PROVE  Sum(AllocatedOf, S) = SumOf([a \in S |-> a.payload.allocated], S)
<1> DEFINE val  == [a \in S |-> a.payload.allocated]
           P(f) == f = [s \in SUBSET S |-> IF s = {} THEN 0
                          ELSE AllocatedOf(CHOOSE x \in s : TRUE) + f[s \ {CHOOSE x \in s : TRUE}]]
<1>1. Sum(AllocatedOf, S) = (CHOOSE f : P(f))[S]
  BY DEF Sum, MapThenSumSet, MapThenFoldSet
<1>2. \A s \in SUBSET S : s # {} => val[CHOOSE x \in s : TRUE] = AllocatedOf(CHOOSE x \in s : TRUE)
  BY DEF AllocatedOf
<1>3. \A f : Adds(f, val, S) <=> P(f)
  <2> HIDE DEF val
  <2> QED BY <1>2 DEF Adds
<1> HIDE DEF val, P
<1>4. P(CHOOSE f : P(f))
  BY <1>3, AddsExists
<1> QED BY <1>1, <1>3, <1>4, Bridge DEF val

AllocatedIn(rows) == SumOf([a \in rows |-> a.payload.allocated], rows)
RequiredIn(rows)  == SumOf([a \in rows |-> a.payload.required], rows)

\* What the group holds, property by property.
GroupHeld == [h \in HotelId |-> held[h]["group"]]

\* The rooms the rows say are allocated are the rooms the ledger holds; none is held above
\* the rate; and if a row of the group stayed short, every property within the rate is full.
AccountOK ==
    /\ AllocatedIn(MemberRooms) = SumOf(GroupHeld, HotelId)
    /\ \A h \in Inventory : ~(h.rate <= Terms.rate) => held[h.id]["group"] = 0
    /\ (\E a \in MemberRooms : a.payload.allocated < a.payload.required) =>
          \A h \in Inventory : h.rate <= Terms.rate =>
             held[h.id]["group"] + held[h.id]["other"] = h.total

AccountInv == RoomsInv /\ AccountOK

LEMMA HotelsAreFinite == IsFiniteSet(HotelId)
<1> DEFINE name == [h \in Inventory |-> h.id]
<1>1. HotelId = {name[h] : h \in Inventory}
  BY DEF HotelId
<1> HIDE DEF name
<1> QED BY <1>1, ImageIsFinite, RecoveryAssumption

\* The account of one allocation: the properties' shares add up to it, none is above the
\* rate, and when it falls short it takes whatever there is.
LEMMA AllocationAccount ==
    ASSUME RoomsInv, NEW f \in Affected, reading[f] # Nothing
    PROVE  LET r == Result(f)
           IN  /\ SumOf([h \in HotelId |-> Taken(r, h)], HotelId) = r.allocated
               /\ \A h \in Inventory : ~(h.rate <= Terms.rate) => Taken(r, h.id) = 0
               /\ r.allocated < r.required =>
                     \A h \in Inventory : h.rate <= Terms.rate =>
                        held[h.id]["group"] + held[h.id]["other"] + Taken(r, h.id) = h.total
<1> DEFINE r == Result(f)
           options == reading[f]
           E == Eligible(options, Terms)
           share == [o \in E |-> Share(o, r.required, options, Terms)]
           taken == [h \in HotelId |-> Taken(r, h)]
           name == [o \in E |-> o.id]
           named == {name[o] : o \in E}
<1>1. BookInv /\ HeldOK /\ options = Options({})
  BY DEF RoomsInv, BookInv, ReadsAlone
<1>2. Ordered(options, Terms) /\ {o.id : o \in options} = HotelId
  BY DEF RoomsInv, BookInv, ReadingOK
<1>3. Passengers(f) \in Int /\ Terms.perRoom \in Nat \ {0}
  BY PassengerCount, TermsAre
<1>4. /\ r.required = RoomsRequired(Passengers(f), Terms) /\ r.required \in Nat
      /\ \A o \in E : Taken(r, o.id) = share[o]
      /\ \A h : (\A o \in E : o.id # h) => Taken(r, h) = 0
      /\ r.allocated = SumOf(share, E)
  BY <1>2, <1>3, AllocationTakes DEF Result
<1>5. /\ \A o \in E : share[o] \in 0..Available(o)
      /\ Rooms(E) \in Nat
      /\ SumOf(share, E) = IF r.required <= Rooms(E) THEN r.required ELSE Rooms(E)
      /\ r.required > Rooms(E) => \A o \in E : share[o] = Available(o)
  <2> HIDE DEF r
  <2> QED BY <1>2, <1>4, Greedy
<1>6. /\ E \subseteq options
      /\ \A o \in options : o.rate <= Terms.rate /\ Available(o) > 0 => o \in E
      /\ \A o \in E : o.rate <= Terms.rate
  BY DEF Eligible
<1>7. \A o \in options : Available(o) \in Nat /\ (o.held <= o.total => Available(o) = o.total - o.held)
  BY <1>2, AvailableRooms
<1>8. /\ \A o \in options : o.held = held[o.id]["group"] + held[o.id]["other"]
      /\ \A o \in options : \E h \in Inventory :
            o.id = h.id /\ o.total = h.total /\ o.rate = h.rate
  BY <1>1, OptionsAre
<1> HIDE DEF r, E, share, options
<1>9. SumOf(taken, HotelId) = r.allocated
  <2>1. IsFiniteSet(E)
    BY <1>2, <1>6, FS_Subset DEF Ordered
  <2>2. named \in SUBSET HotelId
    BY <1>2, <1>6
  <2>3. \A o \in E : share[o] \in Int /\ taken[name[o]] = share[o]
    BY <1>2, <1>4, <1>5, <1>6, <1>7
  <2>4. \A o, p \in E : name[o] = name[p] => o = p
    BY <1>2, <1>6 DEF Ordered
  <2>5. \A h \in HotelId : taken[h] \in Int
    BY <1>4, <1>5, <1>6, <1>7
  <2>6. \A h \in HotelId \ named : taken[h] = 0
    BY <1>4
  <2> HIDE DEF taken, name
  <2>7. SumOf(taken, named) = SumOf(share, E)
    BY <2>1, <2>3, <2>4, SumNames
  <2> HIDE DEF named
  <2>8. SumOf(taken, HotelId) = SumOf(taken, named)
    BY <2>2, <2>5, <2>6, HotelsAreFinite, SumOfPart
  <2> QED BY <1>4, <2>7, <2>8
<1>10. ASSUME NEW h \in Inventory
       PROVE  \E o \in options : /\ o.id = h.id /\ o.total = h.total /\ o.rate = h.rate
                                 /\ \A p \in options : p.id = h.id => p = o
  <2>1. h.id \in HotelId
    BY DEF HotelId
  <2>2. PICK o \in options : o.id = h.id
    BY <1>2, <2>1
  <2> QED BY <1>2, <1>8, <2>2, RecoveryAssumption DEF Ordered
<1>11. ASSUME NEW h \in Inventory, ~(h.rate <= Terms.rate) PROVE Taken(r, h.id) = 0
  BY <1>4, <1>6, <1>10, <1>11
<1>12. ASSUME r.allocated < r.required, NEW h \in Inventory, h.rate <= Terms.rate
       PROVE  held[h.id]["group"] + held[h.id]["other"] + Taken(r, h.id) = h.total
  <2>1. r.required > Rooms(E)
    BY <1>4, <1>5, <1>12
  <2>2. PICK o \in options : /\ o.id = h.id /\ o.total = h.total /\ o.rate = h.rate
                             /\ \A p \in options : p.id = h.id => p = o
    BY <1>10
  <2>3. o.held \in Nat /\ o.held <= o.total /\ o.total \in Nat
    <3>1. h.id \in HotelId /\ h.total \in Nat
      BY RecoveryAssumption DEF HotelId
    <3>2. HeldIn(h.id, {"group", "other"}) = held[h.id]["group"] + held[h.id]["other"]
      BY <1>1, <3>1, HeldSums
    <3>3. held[h.id]["group"] \in Nat /\ held[h.id]["other"] \in Nat
      BY <1>1, <3>1 DEF HeldOK
    <3> QED BY <1>8, <2>2, <3>1, <3>2, <3>3 DEF RoomsInv, NoRoomTwice
  <2>4. Taken(r, h.id) = Available(o)
    <3>1. CASE o \in E
      BY <1>4, <1>5, <2>1, <2>2, <3>1
    <3>2. CASE o \notin E
      <4>1. Available(o) = 0
        BY <1>6, <1>7, <1>12, <2>2, <3>2
      <4>2. Taken(r, h.id) = 0
        BY <1>4, <1>6, <2>2, <3>2
      <4> QED BY <4>1, <4>2
    <3> QED BY <3>1, <3>2
  <2> QED BY <1>7, <1>8, <2>2, <2>3, <2>4
<1> QED BY <1>9, <1>11, <1>12 DEF r

LEMMA AccountInit == Init => AccountInv
<1> SUFFICES ASSUME Init PROVE AccountInv
  OBVIOUS
<1>1. MemberRooms = {}
  BY DEF Init, MemberRooms
<1>2. \A h \in HotelId : held[h]["group"] = 0 /\ GroupHeld[h] = 0
  BY DEF Init, GroupHeld
<1>3. AllocatedIn({}) = 0
  BY SumEmpty DEF AllocatedIn
<1>4. SumOf(GroupHeld, HotelId) = 0
  <2>1. {} \in SUBSET HotelId /\ \A h \in HotelId \ {} : GroupHeld[h] = 0
    BY <1>2
  <2>2. \A h \in HotelId : GroupHeld[h] \in Int
    BY <1>2
  <2>3. SumOf(GroupHeld, HotelId) = SumOf(GroupHeld, {})
    BY <2>1, <2>2, HotelsAreFinite, SumOfPart
  <2> QED BY <2>3, SumEmpty
<1>5. \A h \in Inventory : h.id \in HotelId
  BY DEF HotelId
<1> QED BY <1>1, <1>2, <1>3, <1>4, <1>5, RoomsInit DEF AccountInv, AccountOK

LEMMA AccountStands ==
    ASSUME AccountOK, MemberRooms' = MemberRooms, held' = held
    PROVE  AccountOK'
BY DEF AccountOK, AllocatedIn, GroupHeld

\* The ledger as the invariant of the rooms bounds it.
Within ==
    \A h \in Inventory : /\ held[h.id]["group"] \in Nat /\ held[h.id]["other"] \in Nat
                         /\ held[h.id]["group"] + held[h.id]["other"] <= h.total

LEMMA RoomsAreWithin == RoomsInv => Within
<1> SUFFICES ASSUME RoomsInv, NEW h \in Inventory
             PROVE  /\ held[h.id]["group"] \in Nat /\ held[h.id]["other"] \in Nat
                    /\ held[h.id]["group"] + held[h.id]["other"] <= h.total
  BY DEF Within
<1>1. h.id \in HotelId
  BY DEF HotelId
<1>2. HeldIn(h.id, {"group", "other"}) = held[h.id]["group"] + held[h.id]["other"]
  BY <1>1, HeldSums DEF RoomsInv, BookInv
<1> QED BY <1>1, <1>2 DEF RoomsInv, BookInv, HeldOK, NoRoomTwice

\* One row more among the rows that are added.
LEMMA AllocatedGrows ==
    ASSUME NEW S, IsFiniteSet(S), NEW row, row \notin S,
           \A a \in S \cup {row} : a.payload.allocated \in Int
    PROVE  AllocatedIn(S \cup {row}) = row.payload.allocated + AllocatedIn(S)
<1> DEFINE wide == [a \in S \cup {row} |-> a.payload.allocated]
           val  == [a \in S |-> a.payload.allocated]
<1>1. /\ \A a \in S \cup {row} : wide[a] \in Int
      /\ \A a \in S : wide[a] \in Int /\ val[a] = wide[a]
      /\ wide[row] = row.payload.allocated
  OBVIOUS
<1> HIDE DEF wide, val
<1>2. SumOf(wide, S \cup {row}) = wide[row] + SumOf(wide, S)
  BY <1>1, SumAddsOne
<1>3. SumOf(wide, S) = SumOf(val, S)
  BY <1>1, SumSame
<1> QED BY <1>1, <1>2, <1>3 DEF AllocatedIn, wide, val

LEMMA ReserveKeepsAccount ==
    ASSUME AccountInv, RoomsInv', NEW f \in Affected, ReserveHotelBlock(f)
    PROVE  AccountOK'
<1> DEFINE r == Result(f)
           row == RoomRow(f, r)
           taken == [h \in HotelId |-> Taken(r, h)]
<1>1. /\ \A h : Taken(r, h) \in Nat
      /\ row.incident = f /\ row.type = Reserve /\ recorded' = recorded \cup {row}
      /\ row.payload.required = r.required /\ row.payload.allocated = r.allocated
      /\ r.required \in Nat /\ r.allocated \in 0..r.required
      /\ held' = [h \in HotelId |-> [held[h] EXCEPT ![Group(f)] = @ + Taken(r, h)]]
  BY ReserveStep DEF AccountInv, RoomsInv
<1>2. /\ SumOf(taken, HotelId) = r.allocated
      /\ \A h \in Inventory : ~(h.rate <= Terms.rate) => Taken(r, h.id) = 0
      /\ r.allocated < r.required =>
            \A h \in Inventory : h.rate <= Terms.rate =>
               held[h.id]["group"] + held[h.id]["other"] + Taken(r, h.id) = h.total
  BY AllocationAccount DEF AccountInv, ReserveHotelBlock
<1>3. Within /\ Within'
  <2>1. (RoomsInv => Within)'
    BY RoomsAreWithin, PTL
  <2> QED BY <2>1, RoomsAreWithin DEF AccountInv
<1>4. \A h \in Inventory : h.id \in HotelId /\ h.total \in Nat
  BY RecoveryAssumption DEF HotelId
<1>5. \A h \in HotelId : /\ held[h] \in [{"group", "other"} -> Nat]
                         /\ held'[h] = [held[h] EXCEPT ![Group(f)] = @ + Taken(r, h)]
  BY <1>1 DEF AccountInv, RoomsInv, BookInv, HeldOK
<1> HIDE DEF r, row
\* A property that was full has nothing to give, and stays full.
<1>6. ASSUME NEW h \in Inventory, held[h.id]["group"] + held[h.id]["other"] = h.total
      PROVE  held'[h.id]["group"] + held'[h.id]["other"] = h.total
  <2>1. held'[h.id]["group"] + held'[h.id]["other"]
           = held[h.id]["group"] + held[h.id]["other"] + Taken(r, h.id)
    BY <1>1, <1>4, <1>5 DEF Group
  <2>2. held'[h.id]["group"] + held'[h.id]["other"] <= h.total
    BY <1>3 DEF Within
  <2> QED BY <1>1, <1>4, <1>6, <2>1, <2>2
<1>7. CASE f \notin Member
  <2>1. MemberRooms' = MemberRooms
    BY <1>1, <1>7 DEF MemberRooms
  <2>2. \A h \in HotelId : held'[h]["group"] = held[h]["group"]
    BY <1>5, <1>7 DEF Group
  <2>3. GroupHeld' = GroupHeld
    BY <2>2 DEF GroupHeld
  <2> QED BY <1>4, <1>6, <2>1, <2>2, <2>3 DEF AccountInv, AccountOK, AllocatedIn
<1>8. CASE f \in Member
  <2>1. MemberRooms' = MemberRooms \cup {row}
    BY <1>1, <1>8 DEF MemberRooms
  <2>2. \A h \in HotelId : /\ held[h]["group"] \in Nat
                           /\ held'[h]["group"] = held[h]["group"] + Taken(r, h)
                           /\ held'[h]["other"] = held[h]["other"]
    BY <1>5, <1>8 DEF Group
  <2>3. row \notin MemberRooms
    <3>1. Recorded({f}, Reserve, RoomStatuses) = {}
      BY DEF AccountInv, RoomsInv, BookInv, ReadingOK, ReserveHotelBlock
    <3> QED BY <1>1, <3>1 DEF Recorded, MemberRooms, AccountInv, RoomsInv, BookInv, RowsOK, GoodRow
  <2>4. IsFiniteSet(MemberRooms) /\ \A a \in MemberRooms : a.payload.allocated \in Int
    <3>1. MemberRooms \subseteq recorded /\ IsFiniteSet(recorded)
      BY DEF MemberRooms, AccountInv, RoomsInv, BookInv, RowsOK
    <3>2. \A a \in recorded : a.payload.required \in Nat /\ a.payload.allocated \in 0..a.payload.required
      BY DEF AccountInv, RoomsInv, BookInv, RowsOK, GoodRow
    <3> QED BY <3>1, <3>2, FS_Subset
  <2>5. AllocatedIn(MemberRooms \cup {row}) = r.allocated + AllocatedIn(MemberRooms)
    <3>1. \A a \in MemberRooms \cup {row} : a.payload.allocated \in Int
      BY <1>1, <2>4
    <3> QED BY <1>1, <2>3, <2>4, <3>1, AllocatedGrows
  <2>6. SumOf(GroupHeld', HotelId) = SumOf(GroupHeld, HotelId) + SumOf(taken, HotelId)
    <3>1. \A h \in HotelId : /\ GroupHeld[h] \in Int /\ taken[h] \in Int
                             /\ GroupHeld'[h] = GroupHeld[h] + taken[h]
      BY <1>1, <2>2 DEF GroupHeld
    <3> HIDE DEF taken
    <3> QED BY <3>1, HotelsAreFinite, SumPlus
  <2>7. AllocatedIn(MemberRooms') = SumOf(GroupHeld', HotelId)
    <3>1. AllocatedIn(MemberRooms) = SumOf(GroupHeld, HotelId)
      BY DEF AccountInv, AccountOK
    <3>2. AllocatedIn(MemberRooms) \in Int
      <4> DEFINE val == [a \in MemberRooms |-> a.payload.allocated]
      <4>1. \A a \in MemberRooms : val[a] \in Int
        BY <2>4
      <4> HIDE DEF val
      <4> QED BY <2>4, <4>1, SumInt DEF AllocatedIn, val
    <3> HIDE DEF taken
    <3> QED BY <1>1, <1>2, <2>1, <2>5, <2>6, <3>1, <3>2
  <2>8. ASSUME NEW h \in Inventory, ~(h.rate <= Terms.rate) PROVE held'[h.id]["group"] = 0
    BY <1>2, <1>4, <2>2, <2>8 DEF AccountInv, AccountOK
  <2>9. ASSUME \E a \in MemberRooms' : a.payload.allocated < a.payload.required,
               NEW h \in Inventory, h.rate <= Terms.rate
        PROVE  held'[h.id]["group"] + held'[h.id]["other"] = h.total
    <3>1. CASE r.allocated < r.required
      BY <1>1, <1>2, <1>3, <1>4, <2>2, <2>9, <3>1 DEF Within
    <3>2. CASE ~(r.allocated < r.required)
      <4>1. \E a \in MemberRooms : a.payload.allocated < a.payload.required
        BY <1>1, <2>1, <2>9, <3>2
      <4> QED BY <1>6, <2>9, <4>1 DEF AccountInv, AccountOK
    <3> QED BY <3>1, <3>2
  <2>10. /\ AllocatedIn(MemberRooms)' = AllocatedIn(MemberRooms')
         /\ SumOf(GroupHeld, HotelId)' = SumOf(GroupHeld', HotelId)
    BY DEF AllocatedIn
  <2> QED BY <2>7, <2>8, <2>9, <2>10 DEF AccountOK
<1> QED BY <1>7, <1>8

LEMMA AccountStep == ~Overlapping /\ AccountInv /\ [Next]_vars => AccountInv'
<1> SUFFICES ASSUME ~Overlapping, AccountInv, [Next]_vars PROVE AccountInv'
  OBVIOUS
<1>1. RoomsInv /\ RoomsInv'
  BY RoomsStep DEF AccountInv
<1>2. ASSUME recorded' = recorded, held' = held PROVE AccountInv'
  BY <1>1, <1>2, AccountStands DEF AccountInv, MemberRooms
<1>3. ASSUME NEW f \in Affected, NEW type, RecordsOne(f, type) PROVE AccountInv'
  <2>1. MemberRooms' = MemberRooms /\ held' = held
    BY <1>3 DEF RecordsOne, MemberRooms
  <2> QED BY <1>1, <2>1, AccountStands DEF AccountInv
<1>4. ASSUME NEW f \in Affected, ReserveHotelBlock(f) PROVE AccountInv'
  BY <1>1, <1>4, ReserveKeepsAccount DEF AccountInv
<1>5. CASE UNCHANGED vars
  BY <1>2, <1>5 DEF vars
<1>6. CASE Next
  BY <1>6, <1>2, <1>3, <1>4, Steps DEF RecordCascade, OpenIncident, AssessDelayRisk, ReadHotelOptions
<1> QED BY <1>5, <1>6

\* What the what-if calls the baseline is the group's passengers with a recorded room
\* allocated at once, from the properties as the other groups left them.
Baseline == AllocateRooms(AccommodationBasis, Options({"group"}), Terms)

LEMMA BaselineIs ==
    ASSUME Incidents # {}
    PROVE  /\ WhatIf([depth |-> 2]).required.baseline = Baseline.required
           /\ WhatIf([depth |-> 2]).short.baseline = Shortfall(Baseline)
<1> DEFINE levers   == [depth |-> 2]
           accepted == ValidateLevers(levers).accepted
           before   == ReEvaluate(<<>>)
           after    == ReEvaluate(accepted)
<1>1. DOMAIN accepted # {}
  <2>1. DOMAIN accepted = DOMAIN levers \cap AllowedLevers
    BY DEF ValidateLevers
  <2>2. "depth" \in DOMAIN levers /\ "depth" \in AllowedLevers
    BY DEF AllowedLevers
  <2> QED BY <2>1, <2>2
<1>2. \A name, default : Lever(<<>>, name, default) = default
  <2>1. DOMAIN <<>> = {}
    OBVIOUS
  <2> QED BY <2>1, Zenon DEF Lever
<1>3. [Terms EXCEPT !.perRoom = Terms.perRoom, !.rate = Terms.rate] = Terms
  <2>1. Terms = [x \in DOMAIN Terms |-> Terms[x]]
    BY Zenon DEF Terms, HotelTerms
  <2>2. [Terms EXCEPT !.perRoom = Terms.perRoom, !.rate = Terms.rate]
           = [[Terms EXCEPT !.perRoom = Terms.perRoom] EXCEPT !.rate = Terms.rate]
    BY Zenon
  <2>3. /\ [Terms EXCEPT !.perRoom = Terms.perRoom] = Terms
        /\ [Terms EXCEPT !.rate = Terms.rate] = Terms
    BY <2>1
  <2> QED BY <2>2, <2>3
<1>4. ReEvaluateRooms(<<>>) = [required |-> Baseline.required, short |-> Shortfall(Baseline)]
  <2>1. OwnGroup = {"group"}
    BY DEF OwnGroup
  <2> QED BY <1>2, <1>3, <2>1, Zenon DEF ReEvaluateRooms, Baseline
<1>5. /\ "required" \in DOMAIN before /\ "short" \in DOMAIN before
      /\ before.required = Baseline.required /\ before.short = Shortfall(Baseline)
  BY <1>4 DEF ReEvaluate, Figures
<1>6. WhatIf(levers) = [k \in DOMAIN before |-> [baseline |-> before[k], scenario |-> after[k]]]
  BY <1>1, Zenon DEF WhatIf, Deltas
<1> HIDE DEF before, after, levers
<1>7. WhatIf(levers).required.baseline = before.required /\ WhatIf(levers).short.baseline = before.short
  BY <1>5, <1>6
<1> QED BY <1>5, <1>7 DEF levers

\* The same sum, of what the group holds.
LEMMA GroupAdds ==
    LET HeldByGroup(h) == held[h]["group"]
    IN  MapThenSumSet(HeldByGroup, HotelId) = SumOf(GroupHeld, HotelId)
<1> DEFINE HeldByGroup(h) == held[h]["group"]
           P(f) == f = [s \in SUBSET HotelId |-> IF s = {} THEN 0
                          ELSE HeldByGroup(CHOOSE x \in s : TRUE) + f[s \ {CHOOSE x \in s : TRUE}]]
<1>1. MapThenSumSet(HeldByGroup, HotelId) = (CHOOSE f : P(f))[HotelId]
  BY DEF MapThenSumSet, MapThenFoldSet
<1>2. \A s \in SUBSET HotelId : s # {} =>
         GroupHeld[CHOOSE x \in s : TRUE] = HeldByGroup(CHOOSE x \in s : TRUE)
  BY DEF GroupHeld
<1>3. \A f : Adds(f, GroupHeld, HotelId) <=> P(f)
  BY <1>2 DEF Adds
<1> HIDE DEF P
<1>4. P(CHOOSE f : P(f))
  BY <1>3, AddsExists, HotelsAreFinite
<1> QED BY <1>1, <1>3, <1>4, Bridge, HotelsAreFinite

\* The rows of the group, and what they ask for and got.
LEMMA RowSums ==
    ASSUME BookInv
    PROVE  /\ RoomRows(Incidents) = MemberRooms /\ IsFiniteSet(MemberRooms)
           /\ \A a \in MemberRooms : a.payload.required \in Nat
                                     /\ a.payload.allocated \in 0..a.payload.required
           /\ Sum(RequiredOf, MemberRooms) = RequiredIn(MemberRooms)
           /\ Sum(AllocatedOf, MemberRooms) = AllocatedIn(MemberRooms)
           /\ RequiredIn(MemberRooms) \in Nat /\ AllocatedIn(MemberRooms) \in Int
           /\ AllocatedIn(MemberRooms) <= RequiredIn(MemberRooms)
           /\ AllocatedIn(MemberRooms) < RequiredIn(MemberRooms) =>
                 \E a \in MemberRooms : a.payload.allocated < a.payload.required
<1> DEFINE req == [a \in MemberRooms |-> a.payload.required]
           got == [a \in MemberRooms |-> a.payload.allocated]
<1>1. RoomRows(Incidents) = MemberRooms
  BY DEF BookInv, RowsOK, GoodRow, RoomRows, Recorded, Incidents, MemberRooms, Reserve
<1>2. IsFiniteSet(MemberRooms)
  <2>1. MemberRooms \subseteq recorded /\ IsFiniteSet(recorded)
    BY DEF MemberRooms, BookInv, RowsOK
  <2> QED BY <2>1, FS_Subset
<1>3. \A a \in MemberRooms : a.payload.required \in Nat /\ a.payload.allocated \in 0..a.payload.required
  BY DEF MemberRooms, BookInv, RowsOK, GoodRow
<1>4. /\ Sum(RequiredOf, MemberRooms) = RequiredIn(MemberRooms)
      /\ Sum(AllocatedOf, MemberRooms) = AllocatedIn(MemberRooms)
  BY <1>2, RequiredAdd, AllocatedAdd DEF RequiredIn, AllocatedIn
<1>5. /\ \A a \in MemberRooms : req[a] \in Nat /\ req[a] \in Int /\ got[a] \in Int /\ got[a] <= req[a]
      /\ \A a \in MemberRooms : req[a] = a.payload.required /\ got[a] = a.payload.allocated
  BY <1>3
<1> HIDE DEF req, got
<1>6. SumOf(req, MemberRooms) \in Nat /\ SumOf(got, MemberRooms) \in Int
      /\ SumOf(got, MemberRooms) <= SumOf(req, MemberRooms)
  BY <1>2, <1>5, SumNat, SumInt, SumAtMost
<1>7. ASSUME \A a \in MemberRooms : ~(a.payload.allocated < a.payload.required)
      PROVE  SumOf(got, MemberRooms) = SumOf(req, MemberRooms)
  <2>1. \A a \in MemberRooms : got[a] \in Int /\ req[a] = got[a]
    BY <1>5, <1>7
  <2> QED BY <1>2, <2>1, SumSame
<1> QED BY <1>1, <1>2, <1>3, <1>4, <1>6, <1>7 DEF RequiredIn, AllocatedIn, req, got

\* Allocating for all at once takes what the incidents took one by one.
LEMMA BaselineAgrees ==
    ASSUME AccountInv
    PROVE  /\ Baseline.required = RequiredIn(MemberRooms)
           /\ Baseline.allocated = AllocatedIn(MemberRooms)
<1> DEFINE options == Options({"group"})
           E == Eligible(options, Terms)
           n == RequiredIn(MemberRooms)
           G == AllocatedIn(MemberRooms)
           share == [o \in E |-> Share(o, Baseline.required, options, Terms)]
           avail == [o \in E |-> Available(o)]
           ours  == [o \in E |-> GroupHeld[o.id]]
           name  == [o \in E |-> o.id]
           named == {name[o] : o \in E}
<1>1. BookInv /\ HeldOK /\ Within
  BY RoomsAreWithin DEF AccountInv, RoomsInv, BookInv
<1>2. /\ Ordered(options, Terms) /\ {o.id : o \in options} = HotelId
      /\ \A o \in options : o.held = held[o.id]["other"]
      /\ \A o \in options : \E h \in Inventory : o.id = h.id /\ o.total = h.total /\ o.rate = h.rate
  BY <1>1, OptionsAre
<1>3. /\ n \in Nat /\ G \in Int /\ G <= n
      /\ G < n => \E a \in MemberRooms : a.payload.allocated < a.payload.required
      /\ AccommodationBasis = n * Terms.perRoom
  BY <1>1, RowSums DEF AccommodationBasis
<1>4. AccommodationBasis \in Int /\ Terms.perRoom \in Nat \ {0}
  BY <1>3, TermsAre
<1>5. /\ Baseline.required = RoomsRequired(AccommodationBasis, Terms) /\ Baseline.required \in Nat
      /\ Baseline.allocated = SumOf(share, E)
  BY <1>2, <1>4, AllocationTakes DEF Baseline
<1>6. Baseline.required = n
  BY <1>3, <1>4, <1>5, RequiredRooms
<1>7. /\ Rooms(E) \in Nat
      /\ SumOf(share, E) = IF Baseline.required <= Rooms(E) THEN Baseline.required ELSE Rooms(E)
  BY <1>2, <1>5, Greedy
<1>8. /\ IsFiniteSet(E) /\ E \subseteq options
      /\ \A o \in options : o.rate <= Terms.rate /\ Available(o) > 0 => o \in E
      /\ \A o \in E : o.rate <= Terms.rate
  <2>1. E \subseteq options /\ IsFiniteSet(options)
    BY <1>2 DEF Eligible, Ordered
  <2>2. IsFiniteSet(E)
    BY <2>1, FS_Subset
  <2> QED BY <2>1, <2>2 DEF Eligible
<1>9. ASSUME NEW o \in options
      PROVE  /\ o.id \in HotelId /\ GroupHeld[o.id] \in Nat
             /\ Available(o) \in Nat /\ GroupHeld[o.id] <= Available(o)
             /\ ~(o.rate <= Terms.rate) => GroupHeld[o.id] = 0
             /\ G < n /\ o.rate <= Terms.rate => GroupHeld[o.id] = Available(o)
  <2>1. PICK h \in Inventory : o.id = h.id /\ o.total = h.total /\ o.rate = h.rate
    BY <1>2
  <2>2. /\ o.id \in HotelId /\ h.total \in Nat
        /\ held[h.id]["group"] \in Nat /\ held[h.id]["other"] \in Nat
        /\ held[h.id]["group"] + held[h.id]["other"] <= h.total
    BY <1>1, <1>2, <2>1, RecoveryAssumption DEF Within
  <2>3. GroupHeld[o.id] = held[h.id]["group"] /\ o.held = held[h.id]["other"]
    BY <1>2, <2>1, <2>2 DEF GroupHeld
  <2>4. Available(o) = h.total - held[h.id]["other"]
    <3>1. o.held <= o.total
      BY <2>1, <2>2, <2>3
    <3>2. Available(o) = o.total - o.held
      BY <1>2, <3>1, AvailableRooms
    <3> QED BY <2>1, <2>3, <3>2
  <2>5. ~(h.rate <= Terms.rate) => held[h.id]["group"] = 0
    BY DEF AccountInv, AccountOK
  <2>6. G < n /\ h.rate <= Terms.rate => held[h.id]["group"] + held[h.id]["other"] = h.total
    BY <1>3 DEF AccountInv, AccountOK
  <2> HIDE DEF G, n
  <2> QED BY <2>1, <2>2, <2>3, <2>4, <2>5, <2>6
<1> HIDE DEF options, E, n, G, share
<1>10. /\ \A o \in E : /\ ours[o] \in Int /\ avail[o] \in Int /\ ours[o] <= avail[o]
                       /\ GroupHeld[name[o]] = ours[o]
       /\ \A o, p \in E : name[o] = name[p] => o = p
       /\ G < n => \A o \in E : ours[o] \in Int /\ avail[o] = ours[o]
  BY <1>2, <1>8, <1>9 DEF Ordered
<1>11. G = SumOf(ours, E)
  <2>1. named \in SUBSET HotelId
    BY <1>8, <1>9
  <2>2. ASSUME NEW h \in HotelId \ named PROVE GroupHeld[h] = 0
    <3>1. PICK o \in options : o.id = h
      BY <1>2
    <3>2. o \notin E
      BY <2>2, <3>1
    <3> QED BY <1>8, <1>9, <3>1, <3>2
  <2>3. \A h \in HotelId : GroupHeld[h] \in Int
    BY <1>1 DEF HeldOK, GroupHeld
  <2> HIDE DEF named
  <2>4. SumOf(GroupHeld, HotelId) = SumOf(GroupHeld, named)
    BY <2>1, <2>2, <2>3, HotelsAreFinite, SumOfPart
  <2>5. SumOf(GroupHeld, named) = SumOf(ours, E)
    <3> HIDE DEF name, ours, avail
    <3> QED BY <1>8, <1>10, SumNames DEF named
  <2>6. G = SumOf(GroupHeld, HotelId)
    BY DEF G, AccountInv, AccountOK
  <2> QED BY <2>4, <2>5, <2>6
<1> HIDE DEF ours, name, named
<1>12. Rooms(E) = SumOf(avail, E)
  BY <1>8, RoomsAdd
<1> HIDE DEF avail
<1>13. G <= Rooms(E)
  BY <1>8, <1>10, <1>11, <1>12, SumAtMost
<1>14. G < n => G = Rooms(E)
  <2> SUFFICES ASSUME G < n PROVE G = Rooms(E)
    OBVIOUS
  <2>1. SumOf(ours, E) = SumOf(avail, E)
    BY <1>8, <1>10, SumSame
  <2> QED BY <1>11, <1>12, <2>1
<1>15. Baseline.allocated = G
  BY <1>3, <1>5, <1>6, <1>7, <1>13, <1>14
<1> QED BY <1>6, <1>15 DEF n, G

LEMMA AccountAddsUp == AccountInv => RoomsAddUp
<1> SUFFICES ASSUME AccountInv, RoomRows(Incidents) # {}
             PROVE  LET whatIf == WhatIf([depth |-> 2])
                        HeldByGroup(h) == held[h]["group"]
                    IN  /\ Totals.allocated = MapThenSumSet(HeldByGroup, HotelId)
                        /\ whatIf.required.baseline = Totals.required
                        /\ whatIf.short.baseline = Totals.short
  BY DEF RoomsAddUp
<1>1. BookInv
  BY DEF AccountInv, RoomsInv
<1>2. Incidents # {}
  BY DEF RoomRows, Recorded
<1>3. /\ Totals.required = RequiredIn(MemberRooms) /\ Totals.allocated = AllocatedIn(MemberRooms)
      /\ Totals.short = Max({0, RequiredIn(MemberRooms) - AllocatedIn(MemberRooms)})
  BY <1>1, RowSums DEF Totals
<1>4. AllocatedIn(MemberRooms) = SumOf(GroupHeld, HotelId)
  BY DEF AccountInv, AccountOK
<1>5. Shortfall(Baseline) = Max({0, RequiredIn(MemberRooms) - AllocatedIn(MemberRooms)})
  BY BaselineAgrees DEF Shortfall
<1>6. Baseline.required = RequiredIn(MemberRooms)
  BY BaselineAgrees
<1> QED BY <1>2, <1>3, <1>4, <1>5, <1>6, BaselineIs, GroupAdds

\* The payloads, the ledger and the what-if's baseline account for the same rooms, for every
\* inventory, rate, group and order of the allocations: see RoomsAddUp.  As for
\* RoomsHeldOnce, where requests allocate one after the other.
THEOREM RoomsAccountedFor == ~Overlapping => (Spec => []RoomsAddUp)
<1> SUFFICES ASSUME ~Overlapping PROVE Spec => []RoomsAddUp
  OBVIOUS
<1>1. AccountInv /\ [Next]_vars => AccountInv'
  BY AccountStep
<1> QED BY <1>1, AccountInit, AccountAddsUp, PTL DEF Spec
=============================================================================
