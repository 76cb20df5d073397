----------------------------- MODULE SumTheorems -----------------------------
(***************************************************************************)
(* Sums over finite sets: what SumFunctionOnSet of the community modules   *)
(* adds up, for every function and every finite set, in whatever order it  *)
(* chooses the elements.                                                   *)
(*                                                                         *)
(* Inductions go over the counterexamples: a set of subsets of a finite    *)
(* set has a smallest one.                                                 *)
(***************************************************************************)
EXTENDS Integers, FiniteSets, Functions, FiniteSetTheorems, WellFoundedInduction, TLAPS

LEMMA SmallestIn ==
    ASSUME NEW S, IsFiniteSet(S), NEW B \in SUBSET SUBSET S, B # {}
    PROVE  \E T \in B : \A U \in SUBSET T : U # T => U \notin B
<1>1. IsWellFoundedOn(StrictSubsetOrdering(S), FiniteSubsetsOf(S))
  BY FS_StrictSubsetOrderingWellFounded
<1>2. B \subseteq FiniteSubsetsOf(S)
  BY FS_Subset DEF FiniteSubsetsOf
<1>3. PICK T \in B : \A U \in B : <<U, T>> \notin StrictSubsetOrdering(S)
  <2>1. PICK T \in FiniteSubsetsOf(S) : T \in B
    BY <1>2
  <2> QED
    BY <1>1, <1>2, WFMin
<1>4. ASSUME NEW U \in SUBSET T, U # T, U \in B PROVE FALSE
  BY <1>3, <1>4 DEF StrictSubsetOrdering
<1> QED
  BY <1>3, <1>4

-----------------------------------------------------------------------------
(* The sum as its definition computes it.                                  *)

pickOf(s) == CHOOSE x \in s : TRUE
SumOf(f, S) == SumFunctionOnSet(f, S)

\* The function that SumFunctionOnSet defines on the subsets of S.
SumsOn(f, S, g) == g = [s \in SUBSET S |-> IF s = {} THEN 0 ELSE f[pickOf(s)] + g[s \ {pickOf(s)}]]

LEMMA PickIs == \A s : s # {} => pickOf(s) \in s
  BY DEF pickOf

LEMMA SumIs ==
    ASSUME NEW f, NEW S
    PROVE  SumOf(f, S) = (CHOOSE g : SumsOn(f, S, g))[S]
  BY DEF SumOf, SumFunctionOnSet, FoldFunctionOnSet, MapThenFoldSet, SumsOn, pickOf

LEMMA SumsIs ==
    ASSUME NEW f, NEW S, NEW g, SumsOn(f, S, g), NEW s \in SUBSET S
    PROVE  g[s] = IF s = {} THEN 0 ELSE f[pickOf(s)] + g[s \ {pickOf(s)}]
  BY DEF SumsOn

LEMMA SumsAgree ==
    ASSUME NEW f, NEW S, IsFiniteSet(S), NEW T \in SUBSET S,
           NEW g, NEW h, SumsOn(f, S, g), SumsOn(f, T, h)
    PROVE  g[T] = h[T]
<1> DEFINE B == {s \in SUBSET T : g[s] # h[s]}
<1>1. SUFFICES ASSUME B # {} PROVE FALSE
  OBVIOUS
<1>2. IsFiniteSet(T)
  BY FS_Subset
<1>3. PICK s \in B : \A u \in SUBSET s : u # s => u \notin B
  <2> HIDE DEF B
  <2>1. B \in SUBSET SUBSET T
    BY DEF B
  <2> QED
    BY <1>1, <1>2, <2>1, SmallestIn
<1>4. /\ g[s] = IF s = {} THEN 0 ELSE f[pickOf(s)] + g[s \ {pickOf(s)}]
      /\ h[s] = IF s = {} THEN 0 ELSE f[pickOf(s)] + h[s \ {pickOf(s)}]
  BY SumsIs
<1>5. s # {}
  BY <1>4
<1>6. g[s \ {pickOf(s)}] = h[s \ {pickOf(s)}]
  BY <1>3, <1>5, PickIs
<1> QED
  BY <1>4, <1>5, <1>6

LEMMA SumsExist ==
    ASSUME NEW f, NEW S, IsFiniteSet(S)
    PROVE  \E g : SumsOn(f, S, g)
<1> DEFINE B == {T \in SUBSET S : ~\E g : SumsOn(f, T, g)}
<1>1. SUFFICES ASSUME B # {} PROVE FALSE
  BY DEF B
<1>2. PICK T \in B : \A U \in SUBSET T : U # T => U \notin B
  <2> HIDE DEF B
  <2>1. B \in SUBSET SUBSET S
    BY DEF B
  <2> QED
    BY <1>1, <2>1, SmallestIn
<1> DEFINE v(U) == (CHOOSE g : SumsOn(f, U, g))[U]
           h == [s \in SUBSET T |-> IF s = {} THEN 0 ELSE f[pickOf(s)] + v(s \ {pickOf(s)})]
<1>3. ASSUME NEW U \in SUBSET T, U # T
      PROVE  h[U] = v(U)
  <2>1. PICK g : SumsOn(f, U, g) /\ v(U) = g[U]
    BY <1>2, <1>3
  <2>2. g[U] = IF U = {} THEN 0 ELSE f[pickOf(U)] + g[U \ {pickOf(U)}]
    BY <2>1, SumsIs
  <2>3. ASSUME U # {} PROVE g[U \ {pickOf(U)}] = v(U \ {pickOf(U)})
    <3> DEFINE W == U \ {pickOf(U)}
    <3>1. W \in SUBSET U /\ W # T /\ W \in SUBSET T
      BY <2>3, PickIs
    <3> HIDE DEF W
    <3>2. PICK k : SumsOn(f, W, k) /\ v(W) = k[W]
      BY <1>2, <3>1
    <3>3. IsFiniteSet(U)
      BY <1>2, FS_Subset
    <3>4. g[W] = k[W]
      BY <2>1, <3>1, <3>2, <3>3, SumsAgree
    <3> QED
      BY <3>2, <3>4 DEF W
  <2>4. h[U] = IF U = {} THEN 0 ELSE f[pickOf(U)] + v(U \ {pickOf(U)})
    OBVIOUS
  <2> QED
    BY <2>1, <2>2, <2>3, <2>4
<1>4. ASSUME NEW s \in SUBSET T, s # {}
      PROVE  h[s \ {pickOf(s)}] = v(s \ {pickOf(s)})
  <2>1. s \ {pickOf(s)} \in SUBSET T /\ s \ {pickOf(s)} # T
    BY <1>4, PickIs
  <2> QED
    BY <1>3, <2>1
<1>5. \A s \in SUBSET T : h[s] = IF s = {} THEN 0 ELSE f[pickOf(s)] + v(s \ {pickOf(s)})
  OBVIOUS
<1>6. h = [s \in SUBSET T |-> h[s]]
  OBVIOUS
<1> HIDE DEF h, v
<1>7. \A s \in SUBSET T : h[s] = IF s = {} THEN 0 ELSE f[pickOf(s)] + h[s \ {pickOf(s)}]
  BY <1>4, <1>5
<1>8. h = [s \in SUBSET T |-> IF s = {} THEN 0 ELSE f[pickOf(s)] + h[s \ {pickOf(s)}]]
  BY <1>6, <1>7
<1>9. SumsOn(f, T, h)
  BY <1>8 DEF SumsOn
<1> QED
  BY <1>2, <1>9

\* A sum is that of one element and of the others.
LEMMA SumStep ==
    ASSUME NEW f, NEW S, IsFiniteSet(S)
    PROVE  SumOf(f, S) = IF S = {} THEN 0 ELSE f[pickOf(S)] + SumOf(f, S \ {pickOf(S)})
<1>1. PICK g : SumsOn(f, S, g) /\ SumOf(f, S) = g[S]
  BY SumsExist, SumIs
<1>2. g[S] = IF S = {} THEN 0 ELSE f[pickOf(S)] + g[S \ {pickOf(S)}]
  <2>1. g = [s \in SUBSET S |-> IF s = {} THEN 0 ELSE f[pickOf(s)] + g[s \ {pickOf(s)}]]
    BY <1>1 DEF SumsOn
  <2>2. S \in SUBSET S
    OBVIOUS
  <2> QED
    BY <2>1, <2>2
<1>3. ASSUME S # {} PROVE g[S \ {pickOf(S)}] = SumOf(f, S \ {pickOf(S)})
  <2> DEFINE W == S \ {pickOf(S)}
  <2>1. W \in SUBSET S /\ IsFiniteSet(W)
    BY FS_Subset
  <2> HIDE DEF W
  <2>2. PICK k : SumsOn(f, W, k) /\ SumOf(f, W) = k[W]
    BY <2>1, SumsExist, SumIs
  <2> QED
    BY <1>1, <2>1, <2>2, SumsAgree DEF W
<1> QED
  BY <1>1, <1>2, <1>3

-----------------------------------------------------------------------------
(* What a sum is.                                                          *)

LEMMA SumEmpty == \A f : SumOf(f, {}) = 0
  BY SumStep, FS_EmptySet

\* The elements in any order.
LEMMA SumAdds ==
    ASSUME NEW S, IsFiniteSet(S), NEW f, \A y \in S : f[y] \in Int
    PROVE  SumOf(f, S) \in Int /\ \A x \in S : SumOf(f, S) = f[x] + SumOf(f, S \ {x})
<1> DEFINE good(T) == /\ SumOf(f, T) \in Int
                      /\ \A x \in T : SumOf(f, T) = f[x] + SumOf(f, T \ {x})
           B == {T \in SUBSET S : ~good(T)}
<1>1. SUFFICES ASSUME B # {} PROVE FALSE
  BY DEF B
<1>2. PICK T \in B : \A U \in SUBSET T : U # T => U \notin B
  <2> HIDE DEF B
  <2>1. B \in SUBSET SUBSET S
    BY DEF B
  <2> QED
    BY <1>1, <2>1, SmallestIn
<1>3. T \in SUBSET S /\ ~good(T) /\ \A U \in SUBSET T : U # T => good(U)
  BY <1>2
<1> HIDE DEF B
<1>4. IsFiniteSet(T)
  BY <1>3, FS_Subset
<1>5. T # {}
  <2> SUFFICES ASSUME T = {} PROVE FALSE
    OBVIOUS
  <2>1. SumOf(f, T) = 0
    BY SumEmpty
  <2> QED
    BY <1>3, <2>1
<1> DEFINE c == pickOf(T)
<1>6. c \in T /\ SumOf(f, T) = f[c] + SumOf(f, T \ {c})
  BY <1>4, <1>5, SumStep, PickIs
<1> HIDE DEF c
<1>7. f[c] \in Int /\ good(T \ {c})
  BY <1>3, <1>6
<1>8. SumOf(f, T) \in Int
  BY <1>6, <1>7
<1>9. ASSUME NEW x \in T PROVE SumOf(f, T) = f[x] + SumOf(f, T \ {x})
  <2>1. CASE x = c
    BY <1>6, <2>1
  <2>2. CASE x # c
    <3> DEFINE R == (T \ {c}) \ {x}
    <3>1. x \in T \ {c} /\ c \in T \ {x} /\ R = (T \ {x}) \ {c} /\ R \in SUBSET T /\ R # T
      BY <1>6, <2>2
    <3>2. SumOf(f, T \ {c}) = f[x] + SumOf(f, R)
      BY <1>7, <3>1
    <3>3. good(T \ {x}) /\ good(R)
      BY <1>3, <3>1
    <3>4. SumOf(f, T \ {x}) = f[c] + SumOf(f, R)
      BY <3>1, <3>3
    <3>5. f[x] \in Int /\ SumOf(f, R) \in Int
      BY <1>3, <3>3
    <3> HIDE DEF R
    <3> QED
      BY <1>6, <1>7, <3>2, <3>4, <3>5
  <2> QED
    BY <2>1, <2>2
<1> QED
  BY <1>3, <1>8, <1>9

\* One element more.
LEMMA SumPut ==
    ASSUME NEW S, IsFiniteSet(S), NEW x, x \notin S, NEW f, \A y \in S \cup {x} : f[y] \in Int
    PROVE  SumOf(f, S \cup {x}) = SumOf(f, S) + f[x]
<1>1. IsFiniteSet(S \cup {x}) /\ (S \cup {x}) \ {x} = S
  BY FS_AddElement
<1>2. SumOf(f, S) \in Int /\ f[x] \in Int
  BY SumAdds
<1>3. SumOf(f, S \cup {x}) = f[x] + SumOf(f, S)
  BY <1>1, SumAdds
<1> QED
  BY <1>2, <1>3

\* The same values have the same sum.
LEMMA SumSame ==
    ASSUME NEW S, IsFiniteSet(S), NEW f, NEW g, \A y \in S : f[y] = g[y]
    PROVE  SumOf(f, S) = SumOf(g, S)
<1> DEFINE B == {T \in SUBSET S : SumOf(f, T) # SumOf(g, T)}
<1>1. SUFFICES ASSUME B # {} PROVE FALSE
  BY DEF B
<1>2. PICK T \in B : \A U \in SUBSET T : U # T => U \notin B
  <2> HIDE DEF B
  <2>1. B \in SUBSET SUBSET S
    BY DEF B
  <2> QED
    BY <1>1, <2>1, SmallestIn
<1>3. IsFiniteSet(T) /\ T \in SUBSET S
  BY <1>2, FS_Subset
<1>4. T # {}
  BY <1>2, SumEmpty
<1> DEFINE c == pickOf(T)
<1>5. c \in T /\ SumOf(f, T) = f[c] + SumOf(f, T \ {c}) /\ SumOf(g, T) = g[c] + SumOf(g, T \ {c})
  BY <1>3, <1>4, SumStep, PickIs
<1>6. SumOf(f, T \ {c}) = SumOf(g, T \ {c})
  BY <1>2, <1>5
<1> QED
  BY <1>2, <1>3, <1>5, <1>6

\* No value below zero has a sum below zero, nor one below any of its values.
LEMMA SumNat ==
    ASSUME NEW S, IsFiniteSet(S), NEW f, \A y \in S : f[y] \in Nat
    PROVE  SumOf(f, S) \in Nat /\ \A x \in S : f[x] <= SumOf(f, S)
<1> DEFINE B == {T \in SUBSET S : SumOf(f, T) \notin Nat}
<1>1. ASSUME B # {} PROVE FALSE
  <2>1. PICK T \in B : \A U \in SUBSET T : U # T => U \notin B
    <3> HIDE DEF B
    <3>1. B \in SUBSET SUBSET S
      BY DEF B
    <3> QED
      BY <1>1, <3>1, SmallestIn
  <2>2. IsFiniteSet(T) /\ T \in SUBSET S
    BY <2>1, FS_Subset
  <2>3. T # {}
    <3> SUFFICES ASSUME T = {} PROVE FALSE
      OBVIOUS
    <3>1. SumOf(f, T) = 0
      BY SumEmpty
    <3> QED
      BY <2>1, <3>1
  <2> DEFINE c == pickOf(T)
  <2>4. c \in T /\ SumOf(f, T) = f[c] + SumOf(f, T \ {c})
    BY <2>2, <2>3, SumStep, PickIs
  <2>5. SumOf(f, T \ {c}) \in Nat /\ f[c] \in Nat
    BY <2>1, <2>2, <2>4
  <2> HIDE DEF c
  <2> QED
    BY <2>1, <2>4, <2>5
<1>2. \A T \in SUBSET S : SumOf(f, T) \in Nat
  BY <1>1
<1> HIDE DEF B
<1>3. ASSUME NEW x \in S PROVE f[x] <= SumOf(f, S)
  <2>1. SumOf(f, S) = f[x] + SumOf(f, S \ {x}) /\ f[x] \in Nat
    BY SumAdds
  <2>2. SumOf(f, S \ {x}) \in Nat
    BY <1>2
  <2> QED
    BY <2>1, <2>2
<1> QED
  BY <1>2, <1>3

\* Another value for one element.
LEMMA SumChange ==
    ASSUME NEW S, IsFiniteSet(S), NEW x \in S, NEW f, NEW g,
           \A y \in S : f[y] \in Int /\ g[y] \in Int,
           \A y \in S \ {x} : f[y] = g[y]
    PROVE  SumOf(g, S) = SumOf(f, S) + (g[x] - f[x])
<1>1. IsFiniteSet(S \ {x})
  BY FS_RemoveElement
<1>2. SumOf(f, S) = f[x] + SumOf(f, S \ {x})
  BY SumAdds
<1>3. SumOf(g, S) = g[x] + SumOf(g, S \ {x})
  BY SumAdds
<1>4. SumOf(f, S \ {x}) = SumOf(g, S \ {x})
  BY <1>1, SumSame
<1>5. SumOf(f, S \ {x}) \in Int
  BY <1>1, SumAdds
<1> QED
  BY <1>2, <1>3, <1>4, <1>5
=============================================================================
