----------------------------- MODULE SumLemmas -----------------------------
(***************************************************************************)
(* Sums over finite sets, as SumFunction and SumFunctionOnSet of Functions *)
(* define them: what the proofs about totals, stocks and revenue need.     *)
(***************************************************************************)
EXTENDS Functions, FiniteSetTheorems, TLAPS

AnyOf(s) == CHOOSE y \in s : TRUE

\* g adds up f over the subsets of S, one chosen element after another.
Adds(g, f, S) ==
    g = [s \in SUBSET S |->
            IF s = {} THEN 0 ELSE f[AnyOf(s)] + g[s \ {AnyOf(s)}]]

Adder(f, S) == CHOOSE g : Adds(g, f, S)

LEMMA SumIsAdds ==
    ASSUME NEW f, NEW S
    PROVE  SumFunctionOnSet(f, S) = Adder(f, S)[S]
BY DEF SumFunctionOnSet, FoldFunctionOnSet, MapThenFoldSet, Adds, Adder, AnyOf

LEMMA AnyOfIn == ASSUME NEW s, s # {} PROVE AnyOf(s) \in s
BY DEF AnyOf

\* Of the subsets of a finite set with some property one has no part with it.
LEMMA SmallestSubset ==
    ASSUME NEW S, IsFiniteSet(S), NEW T, T \subseteq SUBSET S, T # {}
    PROVE  \E s \in T : \A t \in T : t \subseteq s => t = s
<1> DEFINE R == StrictSubsetOrdering(S)
           U == FiniteSubsetsOf(S)
<1>1. IsWellFoundedOn(R, U)
  BY FS_StrictSubsetOrderingWellFounded
<1>2. U = SUBSET S
  BY FS_FiniteSubsetsOfFinite
<1>3. \A s, t \in SUBSET S : t \subseteq s /\ t # s => <<t, s>> \in R
  BY DEF StrictSubsetOrdering
<1> HIDE DEF R, U
<1>4. \E s \in T : \A t \in T : ~ (<<t, s>> \in R)
  BY <1>1, <1>2, WFMin
<1> QED
  BY <1>3, <1>4

LEMMA AddsNothing ==
    ASSUME NEW f, NEW S, NEW g, Adds(g, f, S)
    PROVE  g[{}] = 0
BY DEF Adds

LEMMA AddsValue ==
    ASSUME NEW f, NEW S, NEW g, Adds(g, f, S), NEW s \in SUBSET S, s # {}
    PROVE  g[s] = f[AnyOf(s)] + g[s \ {AnyOf(s)}]
BY DEF Adds

\* Two such functions agree where both are defined.
LEMMA AddsAgree ==
    ASSUME NEW f, NEW S, NEW T, IsFiniteSet(S), NEW g, NEW h,
           Adds(g, f, S), Adds(h, f, T), NEW s \in SUBSET S, s \subseteq T
    PROVE  g[s] = h[s]
<1> DEFINE Bad == {t \in SUBSET S : t \subseteq T /\ g[t] # h[t]}
<1> SUFFICES ASSUME Bad # {} PROVE FALSE
  OBVIOUS
<1>1. Bad \subseteq SUBSET S
  OBVIOUS
<1>2. PICK t \in Bad : \A u \in Bad : u \subseteq t => u = t
  <2> HIDE DEF Bad
  <2> QED
    BY <1>1, SmallestSubset
<1>3. t \in SUBSET S /\ t \in SUBSET T /\ g[t] # h[t]
  BY <1>2
<1> DEFINE x == AnyOf(t)
<1>4. t # {} /\ g[t] = f[x] + g[t \ {x}] /\ h[t] = f[x] + h[t \ {x}]
  <2>1. g[{}] = 0
    BY AddsNothing
  <2>2. h[{}] = 0
    BY AddsNothing
  <2>3. t # {}
    <3> SUFFICES ASSUME t = {} PROVE FALSE
      OBVIOUS
    <3> QED
      BY <1>3, <2>1, <2>2
  <2>4. g[t] = f[x] + g[t \ {x}]
    BY <1>3, <2>3, AddsValue
  <2>5. h[t] = f[x] + h[t \ {x}]
    BY <1>3, <2>3, AddsValue
  <2> QED
    BY <2>3, <2>4, <2>5
<1>5. x \in t
  BY <1>4, AnyOfIn
<1>6. t \ {x} \notin Bad
  BY <1>2, <1>5
<1> QED
  BY <1>3, <1>4, <1>6

LEMMA AddsExist ==
    ASSUME NEW f, NEW S, IsFiniteSet(S)
    PROVE  Adds(Adder(f, S), f, S)
<1> DEFINE Bad == {t \in SUBSET S : ~ Adds(Adder(f, t), f, t)}
<1> SUFFICES ASSUME Bad # {} PROVE FALSE
  OBVIOUS
<1>0. Bad \subseteq SUBSET S
  OBVIOUS
<1>1. PICK t \in Bad : \A u \in Bad : u \subseteq t => u = t
  <2> HIDE DEF Bad
  <2> QED
    BY <1>0, SmallestSubset
<1> DEFINE Sum(u) == Adder(f, u)[u]
           new == [u \in SUBSET t |-> IF u = {} THEN 0
                                      ELSE f[AnyOf(u)] + Sum(u \ {AnyOf(u)})]
<1>2. ASSUME NEW u \in SUBSET t, u # t
      PROVE  Adds(Adder(f, u), f, u) /\ IsFiniteSet(u)
  BY <1>1, <1>2, FS_Subset
<1>3. ASSUME NEW v \in SUBSET t, v # t
      PROVE  new[v] = Sum(v)
  <2> DEFINE g == Adder(f, v)
             w == v \ {AnyOf(v)}
  <2>1. Adds(g, f, v) /\ IsFiniteSet(v)
    BY <1>2, <1>3
  <2>2. v \in SUBSET v
    OBVIOUS
  <2>3. CASE v = {}
    <3>1. g[{}] = 0
      BY <2>1, AddsNothing
    <3>2. new[{}] = 0
      OBVIOUS
    <3> HIDE DEF new
    <3> QED
      BY <2>3, <3>1, <3>2
  <2>4. CASE v # {}
    <3>1. AnyOf(v) \in v
      BY <2>4, AnyOfIn
    <3>2. w \in SUBSET t /\ w # t /\ w \in SUBSET v /\ w \subseteq w
      BY <1>3, <3>1
    <3>3. Adds(Adder(f, w), f, w)
      BY <3>2, <1>2
    <3> HIDE DEF w
    <3>4. g[w] = Adder(f, w)[w]
      BY <2>1, <3>2, <3>3, AddsAgree
    <3>5. g[v] = f[AnyOf(v)] + g[w]
      BY <2>1, <2>2, <2>4, AddsValue DEF w
    <3>6. new[v] = f[AnyOf(v)] + Sum(w)
      BY <2>4 DEF w
    <3> QED
      BY <3>4, <3>5, <3>6
  <2> QED
    BY <2>3, <2>4
<1>4. Adds(new, f, t)
  <2>1. ASSUME NEW u \in SUBSET t, u # {}
        PROVE  new[u \ {AnyOf(u)}] = Sum(u \ {AnyOf(u)})
    <3>1. AnyOf(u) \in u
      BY <2>1, AnyOfIn
    <3>2. u \ {AnyOf(u)} \in SUBSET t /\ u \ {AnyOf(u)} # t
      BY <3>1
    <3> QED
      BY <3>2, <1>3
  <2>2. new = [u \in SUBSET t |->
                 IF u = {} THEN 0 ELSE f[AnyOf(u)] + new[u \ {AnyOf(u)}]]
    BY <2>1
  <2> QED
    BY <2>2 DEF Adds
<1> QED
  BY <1>1, <1>4 DEF Adder

-----------------------------------------------------------------------------
LEMMA SumNothing == ASSUME NEW f PROVE SumFunctionOnSet(f, {}) = 0
<1>1. Adds(Adder(f, {}), f, {})
  BY FS_EmptySet, AddsExist
<1> QED
  BY <1>1, SumIsAdds, AddsNothing

LEMMA SumChosen ==
    ASSUME NEW f, NEW S, IsFiniteSet(S), S # {}
    PROVE  SumFunctionOnSet(f, S) =
               f[AnyOf(S)] + SumFunctionOnSet(f, S \ {AnyOf(S)})
<1> DEFINE T == S \ {AnyOf(S)}
           g == Adder(f, S)
           h == Adder(f, T)
<1>1. IsFiniteSet(T)
  BY FS_Subset
<1>2. Adds(g, f, S) /\ Adds(h, f, T)
  BY <1>1, AddsExist
<1>3. g[S] = f[AnyOf(S)] + g[T]
  BY <1>2, AddsValue
<1> HIDE DEF T, g, h
<1>4. T \in SUBSET S /\ T \subseteq T
  BY DEF T
<1>5. g[T] = h[T]
  BY <1>2, <1>4, AddsAgree
<1>6. SumFunctionOnSet(f, S) = g[S] /\ SumFunctionOnSet(f, T) = h[T]
  BY SumIsAdds DEF g, h
<1> QED
  BY <1>3, <1>5, <1>6 DEF T

\* A sum of integers is one.
LEMMA SumInt ==
    ASSUME NEW f, NEW S, IsFiniteSet(S), \A x \in S : f[x] \in Int
    PROVE  SumFunctionOnSet(f, S) \in Int
<1> DEFINE Bad == {t \in SUBSET S : SumFunctionOnSet(f, t) \notin Int}
<1> SUFFICES ASSUME Bad # {} PROVE FALSE
  OBVIOUS
<1>1. Bad \subseteq SUBSET S
  OBVIOUS
<1>2. PICK t \in Bad : \A u \in Bad : u \subseteq t => u = t
  <2> HIDE DEF Bad
  <2> QED
    BY <1>1, SmallestSubset
<1>3. t \in SUBSET S /\ IsFiniteSet(t) /\ SumFunctionOnSet(f, t) \notin Int
  BY <1>2, FS_Subset
<1>4. t # {}
  <2> SUFFICES ASSUME t = {} PROVE FALSE
    OBVIOUS
  <2>1. SumFunctionOnSet(f, {}) = 0
    BY SumNothing
  <2> QED
    BY <1>3, <2>1
<1>5. AnyOf(t) \in t
  BY <1>4, AnyOfIn
<1> DEFINE u == t \ {AnyOf(t)}
<1>6. SumFunctionOnSet(f, u) \in Int
  BY <1>2, <1>3, <1>5
<1>7. SumFunctionOnSet(f, t) = f[AnyOf(t)] + SumFunctionOnSet(f, u)
  BY <1>3, <1>4, SumChosen
<1> QED
  BY <1>3, <1>5, <1>6, <1>7

\* Any element may come first.
LEMMA SumElement ==
    ASSUME NEW f, NEW S, IsFiniteSet(S), \A x \in S : f[x] \in Int, NEW e \in S
    PROVE  SumFunctionOnSet(f, S) = f[e] + SumFunctionOnSet(f, S \ {e})
<1> DEFINE Sum(t) == SumFunctionOnSet(f, t)
           Bad == {t \in SUBSET S : \E x \in t : Sum(t) # f[x] + Sum(t \ {x})}
<1> SUFFICES ASSUME Bad # {} PROVE FALSE
  OBVIOUS
<1>1. Bad \subseteq SUBSET S
  OBVIOUS
<1>2. PICK t \in Bad : \A u \in Bad : u \subseteq t => u = t
  <2> HIDE DEF Bad
  <2> QED
    BY <1>1, SmallestSubset
<1>3. t \in SUBSET S /\ IsFiniteSet(t)
  BY <1>2, FS_Subset
<1>4. PICK x \in t : Sum(t) # f[x] + Sum(t \ {x})
  BY <1>2
<1> DEFINE c == AnyOf(t)
<1>5. c \in t /\ Sum(t) = f[c] + Sum(t \ {c})
  BY <1>3, <1>4, AnyOfIn, SumChosen
<1> HIDE DEF c
<1>6. c # x
  BY <1>4, <1>5
<1>7. Sum(t \ {c}) = f[x] + Sum((t \ {c}) \ {x})
  <2>1. t \ {c} \in SUBSET S /\ t \ {c} # t /\ t \ {c} \subseteq t
    BY <1>3, <1>5
  <2>2. t \ {c} \notin Bad
    BY <1>2, <2>1
  <2>3. x \in t \ {c}
    BY <1>4, <1>6
  <2> QED
    BY <2>1, <2>2, <2>3
<1>8. Sum(t \ {x}) = f[c] + Sum((t \ {x}) \ {c})
  <2>1. t \ {x} \in SUBSET S /\ t \ {x} # t /\ t \ {x} \subseteq t
    BY <1>3, <1>4
  <2>2. t \ {x} \notin Bad
    BY <1>2, <2>1
  <2>3. c \in t \ {x}
    BY <1>5, <1>6
  <2> QED
    BY <2>1, <2>2, <2>3
<1> DEFINE r == (t \ {c}) \ {x}
<1>9. (t \ {x}) \ {c} = r /\ IsFiniteSet(r) /\ r \subseteq S
  BY <1>3, FS_Subset
<1>10. Sum(r) \in Int
  BY <1>9, SumInt
<1>11. f[x] \in Int /\ f[c] \in Int
  BY <1>3, <1>4, <1>5
<1>12. Sum(t \ {c}) = f[x] + Sum(r) /\ Sum(t \ {x}) = f[c] + Sum(r)
  BY <1>7, <1>8, <1>9
<1>13. Sum(t) = f[c] + (f[x] + Sum(r)) /\ Sum(t) # f[x] + (f[c] + Sum(r))
  BY <1>4, <1>5, <1>12
<1> HIDE DEF r, Sum
<1> QED
  BY <1>10, <1>11, <1>13

\* A sum depends on the values of the elements alone.
LEMMA SumAgree ==
    ASSUME NEW f, NEW g, NEW S, IsFiniteSet(S), \A x \in S : f[x] = g[x]
    PROVE  SumFunctionOnSet(f, S) = SumFunctionOnSet(g, S)
<1> DEFINE Bad == {t \in SUBSET S : SumFunctionOnSet(f, t) # SumFunctionOnSet(g, t)}
<1> SUFFICES ASSUME Bad # {} PROVE FALSE
  OBVIOUS
<1>1. Bad \subseteq SUBSET S
  OBVIOUS
<1>2. PICK t \in Bad : \A u \in Bad : u \subseteq t => u = t
  <2> HIDE DEF Bad
  <2> QED
    BY <1>1, SmallestSubset
<1>3. /\ t \in SUBSET S /\ IsFiniteSet(t)
      /\ SumFunctionOnSet(f, t) # SumFunctionOnSet(g, t)
  BY <1>2, FS_Subset
<1>4. t # {}
  <2> SUFFICES ASSUME t = {} PROVE FALSE
    OBVIOUS
  <2>1. SumFunctionOnSet(f, {}) = 0
    BY SumNothing
  <2>2. SumFunctionOnSet(g, {}) = 0
    BY SumNothing
  <2> QED
    BY <1>3, <2>1, <2>2
<1>5. AnyOf(t) \in t
  BY <1>4, AnyOfIn
<1> DEFINE u == t \ {AnyOf(t)}
<1>6. SumFunctionOnSet(f, u) = SumFunctionOnSet(g, u)
  BY <1>2, <1>3, <1>5
<1>7. SumFunctionOnSet(f, t) = f[AnyOf(t)] + SumFunctionOnSet(f, u)
  BY <1>3, <1>4, SumChosen
<1>8. SumFunctionOnSet(g, t) = g[AnyOf(t)] + SumFunctionOnSet(g, u)
  BY <1>3, <1>4, SumChosen
<1> HIDE DEF u
<1> QED
  BY <1>3, <1>5, <1>6, <1>7, <1>8

\* One element more.
LEMMA SumAdded ==
    ASSUME NEW f, NEW S, IsFiniteSet(S), NEW e, e \notin S,
           \A x \in S \cup {e} : f[x] \in Int
    PROVE  SumFunctionOnSet(f, S \cup {e}) = f[e] + SumFunctionOnSet(f, S)
<1>1. IsFiniteSet(S \cup {e}) /\ (S \cup {e}) \ {e} = S
  BY FS_AddElement
<1> DEFINE T == S \cup {e}
<1>2. IsFiniteSet(T) /\ e \in T /\ T \ {e} = S /\ \A x \in T : f[x] \in Int
  BY <1>1
<1> HIDE DEF T
<1>3. SumFunctionOnSet(f, T) = f[e] + SumFunctionOnSet(f, T \ {e})
  BY <1>2, SumElement
<1> QED
  BY <1>2, <1>3 DEF T

\* One value changed.
LEMMA SumChanged ==
    ASSUME NEW f, NEW g, NEW S, IsFiniteSet(S), NEW e \in S,
           \A x \in S : f[x] \in Int /\ g[x] \in Int,
           \A x \in S \ {e} : f[x] = g[x]
    PROVE  SumFunctionOnSet(g, S) = SumFunctionOnSet(f, S) - f[e] + g[e]
<1> DEFINE T == S \ {e}
<1>1. IsFiniteSet(T) /\ \A x \in T : f[x] = g[x] /\ f[x] \in Int
  BY FS_Subset
<1>2. SumFunctionOnSet(f, S) = f[e] + SumFunctionOnSet(f, T)
  BY SumElement
<1>3. SumFunctionOnSet(g, S) = g[e] + SumFunctionOnSet(g, T)
  BY SumElement
<1> HIDE DEF T
<1>4. SumFunctionOnSet(f, T) = SumFunctionOnSet(g, T) /\ SumFunctionOnSet(f, T) \in Int
  BY <1>1, SumAgree, SumInt
<1> QED
  BY <1>2, <1>3, <1>4
\* Of nothing but zeros.
LEMMA SumZero ==
    ASSUME NEW f, NEW S, IsFiniteSet(S), \A x \in S : f[x] = 0
    PROVE  SumFunctionOnSet(f, S) = 0
<1> DEFINE Bad == {t \in SUBSET S : SumFunctionOnSet(f, t) # 0}
<1> SUFFICES ASSUME Bad # {} PROVE FALSE
  OBVIOUS
<1>1. Bad \subseteq SUBSET S
  OBVIOUS
<1>2. PICK t \in Bad : \A u \in Bad : u \subseteq t => u = t
  <2> HIDE DEF Bad
  <2> QED
    BY <1>1, SmallestSubset
<1>3. t \in SUBSET S /\ IsFiniteSet(t) /\ SumFunctionOnSet(f, t) # 0
  BY <1>2, FS_Subset
<1>4. t # {}
  <2> SUFFICES ASSUME t = {} PROVE FALSE
    OBVIOUS
  <2>1. SumFunctionOnSet(f, {}) = 0
    BY SumNothing
  <2> QED
    BY <1>3, <2>1
<1>5. AnyOf(t) \in t
  BY <1>4, AnyOfIn
<1> DEFINE u == t \ {AnyOf(t)}
<1>6. SumFunctionOnSet(f, u) = 0
  BY <1>2, <1>3, <1>5
<1>7. SumFunctionOnSet(f, t) = f[AnyOf(t)] + SumFunctionOnSet(f, u)
  BY <1>3, <1>4, SumChosen
<1> QED
  BY <1>3, <1>5, <1>6, <1>7
=============================================================================
