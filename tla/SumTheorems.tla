------------------------------ MODULE SumTheorems ------------------------------
(***************************************************************************)
(* Sums over finite sets.  The totals of this project are written with     *)
(* SumFunctionOnSet, a fold; these lemmas say what a proof needs of it: it *)
(* depends only on the values, splits over disjoint sets, changes by what  *)
(* one value changes, and is bounded by its parts.                         *)
(*                                                                         *)
(* The library states induction for an operator, which no prover here can  *)
(* instantiate: the two principles used are restated for sets, and follow  *)
(* from the well-foundedness of < (WFMin).                                 *)
(***************************************************************************)
EXTENDS Functions, FiniteSets, FiniteSetTheorems, WellFoundedInduction, TLAPS

\* Induction on the natural numbers, for a set T in place of a predicate: a
\* least counterexample exists because < is well-founded.
LEMMA InductiveNat ==
  ASSUME NEW T, 0 \in T, \A n \in Nat : n \in T => n + 1 \in T
  PROVE  \A n \in Nat : n \in T
<1> DEFINE B == {n \in Nat : n \notin T}
<1> SUFFICES ASSUME B # {} PROVE FALSE
  OBVIOUS
<1>1. PICK m \in B : \A n \in B : ~(<<n, m>> \in OpToRel(<, Nat))
  BY NatLessThanWellFounded, WFMin
<1>2. m \in Nat /\ m # 0
  OBVIOUS
<1>3. m - 1 \in Nat /\ m - 1 < m
  BY <1>2
<1>4. <<m - 1, m>> \in OpToRel(<, Nat)
  BY <1>2, <1>3 DEF OpToRel
<1>5. m - 1 \in T
  BY <1>1, <1>3, <1>4
<1> QED
  BY <1>2, <1>3, <1>5

\* Induction on the subsets of a finite set: a family that holds the empty set
\* and is closed under adding one element holds the whole set.
LEMMA InductiveFamily ==
  ASSUME NEW S, IsFiniteSet(S), NEW F, {} \in F,
         \A A \in SUBSET S : A \in F => \A x \in S \ A : A \cup {x} \in F
  PROVE  S \in F
<1> DEFINE T == {n \in Nat : \A A \in SUBSET S : Cardinality(A) = n => A \in F}
<1>1. 0 \in T
  BY FS_Subset, FS_EmptySet
<1>2. ASSUME NEW n \in Nat, n \in T
      PROVE  n + 1 \in T
  <2> SUFFICES ASSUME NEW A \in SUBSET S, Cardinality(A) = n + 1 PROVE A \in F
    OBVIOUS
  <2>1. IsFiniteSet(A)
    BY FS_Subset
  <2>2. PICK x \in A : TRUE
    BY FS_EmptySet, <2>1
  <2>3. Cardinality(A \ {x}) = n
    <3>1. Cardinality(A \ {x}) = Cardinality(A) - 1
      BY <2>1, <2>2, FS_RemoveElement
    <3> QED
      BY <3>1
  <2>4. A \ {x} \in F
    BY <1>2, <2>3
  <2> QED
    <3>1. x \in S \ (A \ {x}) /\ (A \ {x}) \in SUBSET S
      BY <2>2
    <3>2. (A \ {x}) \cup {x} = A
      BY <2>2
    <3> QED
      BY <2>4, <3>1, <3>2
<1>3. Cardinality(S) \in T
  <2> HIDE DEF T
  <2> QED BY <1>1, <1>2, InductiveNat, FS_CardinalityType
<1> QED
  BY <1>3

Chosen(s) == CHOOSE x \in s : TRUE

SumsOn(h, g, D) ==
  h = [s \in D |-> IF s = {} THEN 0 ELSE g[Chosen(s)] + h[s \ {Chosen(s)}]]

\* The element a fold takes next is one of the set.
LEMMA ChosenIn ==
  ASSUME NEW s, s # {}
  PROVE  Chosen(s) \in s
  BY DEF Chosen

\* The recursion of the fold has a solution on the subsets of a finite set.
LEMMA SumTableExists ==
  ASSUME NEW g, NEW S, IsFiniteSet(S)
  PROVE  \E h : SumsOn(h, g, SUBSET S)
<1> DEFINE D(n) == {s \in SUBSET S : Cardinality(s) <= n}
           T == {n \in Nat : \E h : SumsOn(h, g, D(n))}
<1>0. \A s \in SUBSET S : IsFiniteSet(s) /\ Cardinality(s) \in Nat
  BY FS_Subset, FS_CardinalityType
<1>a. \A n \in Nat : \A s : s \in D(n) /\ s # {} => s \ {Chosen(s)} \in D(n)
  BY <1>0, ChosenIn, FS_RemoveElement
<1>b. \A n \in Nat : \A s : s \in D(n + 1) /\ s # {} => s \ {Chosen(s)} \in D(n)
  BY <1>0, ChosenIn, FS_RemoveElement
<1>c. \A n \in Nat : \A s : s \in D(n) => s \in D(n + 1)
  BY <1>0
<1>1. 0 \in T
  <2> DEFINE h == [s \in D(0) |-> 0]
  <2>1. \A s \in D(0) : s = {}
    BY <1>0, FS_EmptySet
  <2>2. SumsOn(h, g, D(0))
    BY <2>1 DEF SumsOn
  <2> QED
    BY <2>2
<1>2. ASSUME NEW n \in Nat, n \in T
      PROVE  n + 1 \in T
  <2> HIDE DEF D
  <2>1. PICK h : SumsOn(h, g, D(n))
    BY <1>2
  <2> DEFINE k == [s \in D(n + 1) |->
                     IF s = {} THEN 0 ELSE g[Chosen(s)] + h[s \ {Chosen(s)}]]
  <2>2. \A s \in D(n) : k[s] = h[s]
    BY <2>1, <1>c DEF SumsOn
  <2>3. SumsOn(k, g, D(n + 1))
    <3>1. \A s \in D(n + 1) : s # {} => k[s \ {Chosen(s)}] = h[s \ {Chosen(s)}]
      BY <2>2, <1>b
    <3> QED
      BY <3>1 DEF SumsOn
  <2> QED
    BY <2>3
<1>3. Cardinality(S) \in T
  <2> HIDE DEF T
  <2> QED
    BY <1>1, <1>2, InductiveNat, FS_CardinalityType
<1>4. D(Cardinality(S)) = SUBSET S
  BY FS_Subset, <1>0
<1> QED
  BY <1>3, <1>4

\* the table computed for S
SumTable(g, S) == CHOOSE h : SumsOn(h, g, SUBSET S)

\* SumFunctionOnSet reads the sum of S off the table for S.
LEMMA SumIs ==
  ASSUME NEW g, NEW S
  PROVE  SumFunctionOnSet(g, S) = SumTable(g, S)[S]
  BY DEF SumFunctionOnSet, FoldFunctionOnSet, MapThenFoldSet, SumsOn, Chosen, SumTable

\* The table satisfies the recursion.
LEMMA SumTableDef ==
  ASSUME NEW g, NEW S, IsFiniteSet(S)
  PROVE  SumsOn(SumTable(g, S), g, SUBSET S)
<1> DEFINE P(h) == SumsOn(h, g, SUBSET S)
<1>1. \E h : P(h)
  BY SumTableExists
<1> HIDE DEF P
<1>2. P(CHOOSE h : P(h))
  BY <1>1
<1> QED
  BY <1>2 DEF P, SumTable

\* One step of the recursion.
LEMMA SumTableAt ==
  ASSUME NEW g, NEW S, IsFiniteSet(S), NEW s \in SUBSET S
  PROVE  SumTable(g, S)[s] =
           IF s = {} THEN 0
           ELSE g[Chosen(s)] + SumTable(g, S)[s \ {Chosen(s)}]
<1> DEFINE h == SumTable(g, S)
<1> HIDE DEF h
<1>1. SumsOn(h, g, SUBSET S)
  BY SumTableDef DEF h
<1> QED
  BY <1>1 DEF SumsOn, h

\* Tables agree.
LEMMA SumTableAgree ==
  ASSUME NEW f, NEW g, NEW S, IsFiniteSet(S), NEW T, IsFiniteSet(T), 
         NEW A \in SUBSET (S \cap T), \A x \in A : f[x] = g[x]
  PROVE  SumTable(f, S)[A] = SumTable(g, T)[A]
<1> DEFINE h == SumTable(f, S)
           k == SumTable(g, T)
           N == {n \in Nat : \A B \in SUBSET A : Cardinality(B) = n => h[B] = k[B]}
<1>0. \A B \in SUBSET A : /\ IsFiniteSet(B) /\ Cardinality(B) \in Nat
                          /\ B \in SUBSET S /\ B \in SUBSET T
  BY FS_Subset, FS_CardinalityType
<1>a. \A B \in SUBSET A :
        /\ h[B] = IF B = {} THEN 0 ELSE f[Chosen(B)] + h[B \ {Chosen(B)}]
        /\ k[B] = IF B = {} THEN 0 ELSE g[Chosen(B)] + k[B \ {Chosen(B)}]
  BY <1>0, SumTableAt
<1> HIDE DEF h, k
<1>1. 0 \in N
  BY <1>0, <1>a, FS_EmptySet
<1>2. ASSUME NEW n \in Nat, n \in N
      PROVE  n + 1 \in N
  <2> SUFFICES ASSUME NEW B \in SUBSET A, Cardinality(B) = n + 1
               PROVE  h[B] = k[B]
    OBVIOUS
  <2>1. B # {}
    BY FS_EmptySet
  <2>2. Chosen(B) \in B
    BY <2>1, ChosenIn
  <2>3. Cardinality(B \ {Chosen(B)}) = n
    <3>1. Cardinality(B \ {Chosen(B)}) = Cardinality(B) - 1
      BY <2>2, <1>0, FS_RemoveElement
    <3> QED
      BY <3>1
  <2>4. h[B \ {Chosen(B)}] = k[B \ {Chosen(B)}]
    BY <1>2, <2>3
  <2> QED
    BY <2>1, <2>2, <2>4, <1>a
<1>3. Cardinality(A) \in N
  <2> HIDE DEF N
  <2> QED
    BY <1>0, <1>1, <1>2, InductiveNat
<1>4. h[A] = k[A]
  BY <1>3
<1> QED
  BY <1>4 DEF h, k

\* ---------------- the facts used elsewhere
LEMMA SumCongruent ==
  ASSUME NEW f, NEW g, NEW S, IsFiniteSet(S), \A x \in S : f[x] = g[x]
  PROVE  SumFunctionOnSet(f, S) = SumFunctionOnSet(g, S)
  BY SumTableAgree, SumIs

\* Nothing adds up to zero.
LEMMA SumEmpty ==
  ASSUME NEW g
  PROVE  SumFunctionOnSet(g, {}) = 0
  BY SumIs, SumTableAt, FS_EmptySet

\* The sum of a set, from the element the fold takes first.
LEMMA SumChosen ==
  ASSUME NEW g, NEW S, IsFiniteSet(S), S # {}
  PROVE  SumFunctionOnSet(g, S) =
           g[Chosen(S)] + SumFunctionOnSet(g, S \ {Chosen(S)})
<1> DEFINE R == S \ {Chosen(S)}
<1>1. IsFiniteSet(R) /\ R \in SUBSET (S \cap R)
  BY FS_Subset
<1>2. SumTable(g, S)[R] = SumTable(g, R)[R]
  BY <1>1, SumTableAgree
<1>3. SumTable(g, S)[S] = g[Chosen(S)] + SumTable(g, S)[R]
  BY SumTableAt
<1> QED
  BY <1>2, <1>3, SumIs

\* A sum of integers is an integer.
LEMMA SumInt ==
  ASSUME NEW g, NEW S, IsFiniteSet(S), \A x \in S : g[x] \in Int
  PROVE  SumFunctionOnSet(g, S) \in Int
<1> DEFINE Sm(A) == SumFunctionOnSet(g, A)
           N == {n \in Nat : \A A \in SUBSET S : Cardinality(A) = n => Sm(A) \in Int}
<1>0. \A A \in SUBSET S : IsFiniteSet(A) /\ Cardinality(A) \in Nat
  BY FS_Subset, FS_CardinalityType
<1>a. Sm({}) = 0
  BY SumEmpty
<1>b. \A A \in SUBSET S : A # {} => /\ Chosen(A) \in A
                                    /\ Sm(A) = g[Chosen(A)] + Sm(A \ {Chosen(A)})
                                    /\ Cardinality(A \ {Chosen(A)}) = Cardinality(A) - 1
  BY <1>0, SumChosen, ChosenIn, FS_RemoveElement
<1> HIDE DEF Sm
<1>1. 0 \in N
  BY <1>0, <1>a, FS_EmptySet
<1>2. ASSUME NEW n \in Nat, n \in N
      PROVE  n + 1 \in N
  <2> SUFFICES ASSUME NEW A \in SUBSET S, Cardinality(A) = n + 1
               PROVE  Sm(A) \in Int
    OBVIOUS
  <2>1. A # {}
    BY FS_EmptySet
  <2>2. Cardinality(A \ {Chosen(A)}) = n
    BY <2>1, <1>b
  <2>3. Sm(A \ {Chosen(A)}) \in Int
    BY <1>2, <2>2
  <2>4. g[Chosen(A)] \in Int
    BY <2>1, <1>b
  <2> QED
    BY <2>1, <2>3, <2>4, <1>b
<1>3. Cardinality(S) \in N
  <2> HIDE DEF N
  <2> QED
    BY <1>0, <1>1, <1>2, InductiveNat
<1> QED
  BY <1>3 DEF Sm

\* Any element may be split off, not only the one the fold happens to choose.
LEMMA SumSplit ==
  ASSUME NEW g, NEW S, IsFiniteSet(S), \A x \in S : g[x] \in Int, NEW e \in S
  PROVE  SumFunctionOnSet(g, S) = g[e] + SumFunctionOnSet(g, S \ {e})
<1> DEFINE Sm(A) == SumFunctionOnSet(g, A)
           N == {n \in Nat : \A A \in SUBSET S : Cardinality(A) = n =>
                               \A x \in A : Sm(A) = g[x] + Sm(A \ {x})}
<1>0. \A A \in SUBSET S : IsFiniteSet(A) /\ Cardinality(A) \in Nat /\ Sm(A) \in Int
  BY FS_Subset, FS_CardinalityType, SumInt
<1>b. \A A \in SUBSET S : A # {} => /\ Chosen(A) \in A
                                    /\ Sm(A) = g[Chosen(A)] + Sm(A \ {Chosen(A)})
                                    /\ Cardinality(A \ {Chosen(A)}) = Cardinality(A) - 1
  BY <1>0, SumChosen, ChosenIn, FS_RemoveElement
<1>c. \A A \in SUBSET S : \A x \in A : Cardinality(A \ {x}) = Cardinality(A) - 1
  BY <1>0, FS_RemoveElement
<1> HIDE DEF Sm
<1>1. 0 \in N
  BY <1>0, FS_EmptySet
<1>2. ASSUME NEW n \in Nat, n \in N
      PROVE  n + 1 \in N
  <2> SUFFICES ASSUME NEW A \in SUBSET S, Cardinality(A) = n + 1, NEW x \in A
               PROVE  Sm(A) = g[x] + Sm(A \ {x})
    OBVIOUS
  <2> DEFINE c == Chosen(A)
  <2>1. c \in A /\ Sm(A) = g[c] + Sm(A \ {c})
    BY <1>b
  <2> HIDE DEF c
  <2>2. CASE x = c
    BY <2>1, <2>2
  <2>3. CASE x # c
    <3>1. Cardinality(A \ {c}) = n /\ Cardinality(A \ {x}) = n
      BY <1>c, <2>1
    <3>2. Sm(A \ {c}) = g[x] + Sm((A \ {c}) \ {x})
      BY <1>2, <3>1, <2>3
    <3>3. Sm(A \ {x}) = g[c] + Sm((A \ {x}) \ {c})
      BY <1>2, <3>1, <2>3, <2>1
    <3>4. (A \ {x}) \ {c} = (A \ {c}) \ {x}
      OBVIOUS
    <3>5. Sm((A \ {c}) \ {x}) \in Int
      <4>1. PICK R \in SUBSET S : R = (A \ {c}) \ {x}
        OBVIOUS
      <4> QED
        BY <1>0, <4>1
    <3>6. g[x] \in Int /\ g[c] \in Int
      BY <2>1
    <3>7. PICK r \in Int, u \in Int, w \in Int :
            r = Sm((A \ {c}) \ {x}) /\ u = g[x] /\ w = g[c]
      BY <3>5, <3>6
    <3>8. Sm(A) = w + (u + r)
      BY <2>1, <3>2, <3>7, Zenon
    <3>9. Sm(A \ {x}) = w + r
      BY <3>3, <3>4, <3>7, Zenon
    <3>10. w + (u + r) = u + (w + r)
      OBVIOUS
    <3> QED
      BY <3>7, <3>8, <3>9, <3>10, Zenon
  <2> QED
    BY <2>2, <2>3
<1>3. Cardinality(S) \in N
  <2> HIDE DEF N
  <2> QED
    BY <1>0, <1>1, <1>2, InductiveNat
<1> QED
  BY <1>3 DEF Sm

\* A sum of naturals is a natural.
LEMMA SumNat ==
  ASSUME NEW g, NEW S, IsFiniteSet(S), \A x \in S : g[x] \in Nat
  PROVE  SumFunctionOnSet(g, S) \in Nat
<1> DEFINE F == {A \in SUBSET S : SumFunctionOnSet(g, A) \in Nat}
<1>1. {} \in F
  BY SumEmpty
<1>2. ASSUME NEW A \in SUBSET S, A \in F, NEW x \in S \ A
      PROVE  A \cup {x} \in F
  <2>1. IsFiniteSet(A \cup {x}) /\ (A \cup {x}) \ {x} = A
    BY FS_Subset
  <2>2. SumFunctionOnSet(g, A \cup {x}) = g[x] + SumFunctionOnSet(g, A)
    BY <2>1, SumSplit
  <2> QED
    BY <2>2, <1>2
<1> HIDE DEF F
<1>3. S \in F
  BY <1>1, <1>2, InductiveFamily
<1> QED
  BY <1>3 DEF F

\* The sum grows by the value at a new element.
LEMMA SumAdd ==
  ASSUME NEW g, NEW S, IsFiniteSet(S), NEW e, e \notin S,
         \A x \in S \cup {e} : g[x] \in Int
  PROVE  SumFunctionOnSet(g, S \cup {e}) = g[e] + SumFunctionOnSet(g, S)
<1>1. IsFiniteSet(S \cup {e}) /\ (S \cup {e}) \ {e} = S /\ e \in S \cup {e}
  BY FS_AddElement
<1> QED
  BY <1>1, SumSplit

\* No part of a sum of naturals exceeds it.
LEMMA SumBound ==
  ASSUME NEW g, NEW S, IsFiniteSet(S), \A x \in S : g[x] \in Nat, NEW e \in S
  PROVE  g[e] <= SumFunctionOnSet(g, S)
<1>1. IsFiniteSet(S \ {e})
  BY FS_RemoveElement
<1>2. SumFunctionOnSet(g, S \ {e}) \in Nat
  BY <1>1, SumNat
<1>3. SumFunctionOnSet(g, S) = g[e] + SumFunctionOnSet(g, S \ {e})
  BY SumSplit
<1> QED
  BY <1>2, <1>3

\* Two functions that differ at one element.
LEMMA SumChange ==
  ASSUME NEW f, NEW g, NEW S, IsFiniteSet(S), NEW e \in S,
         \A x \in S : f[x] \in Int /\ g[x] \in Int,
         \A x \in S : x # e => f[x] = g[x]
  PROVE  SumFunctionOnSet(g, S) = SumFunctionOnSet(f, S) + (g[e] - f[e])
<1>1. IsFiniteSet(S \ {e})
  BY FS_RemoveElement
<1>2. SumFunctionOnSet(f, S \ {e}) \in Int
  BY <1>1, SumInt
<1>3. SumFunctionOnSet(g, S \ {e}) = SumFunctionOnSet(f, S \ {e})
  BY <1>1, SumCongruent
<1>4. /\ SumFunctionOnSet(g, S) = g[e] + SumFunctionOnSet(g, S \ {e})
      /\ SumFunctionOnSet(f, S) = f[e] + SumFunctionOnSet(f, S \ {e})
  BY SumSplit
<1> QED
  BY <1>2, <1>3, <1>4

\* A sum of zeros is zero.
LEMMA SumZero ==
  ASSUME NEW g, NEW S, IsFiniteSet(S), \A x \in S : g[x] = 0
  PROVE  SumFunctionOnSet(g, S) = 0
<1> DEFINE F == {A \in SUBSET S : SumFunctionOnSet(g, A) = 0}
<1>1. {} \in F
  BY SumEmpty
<1>2. ASSUME NEW A \in SUBSET S, A \in F, NEW x \in S \ A
      PROVE  A \cup {x} \in F
  <2>1. IsFiniteSet(A \cup {x}) /\ (A \cup {x}) \ {x} = A
    BY FS_Subset
  <2>2. SumFunctionOnSet(g, A \cup {x}) = g[x] + SumFunctionOnSet(g, A)
    BY <2>1, SumSplit
  <2> QED
    BY <2>2, <1>2
<1> HIDE DEF F
<1>3. S \in F
  BY <1>1, <1>2, InductiveFamily
<1> QED
  BY <1>3 DEF F

\* The sum over two disjoint sets is the sum of their sums.
LEMMA SumUnion ==
  ASSUME NEW g, NEW S, IsFiniteSet(S), NEW T, IsFiniteSet(T), S \cap T = {},
         \A x \in S \cup T : g[x] \in Int
  PROVE  SumFunctionOnSet(g, S \cup T)
           = SumFunctionOnSet(g, S) + SumFunctionOnSet(g, T)
<1> DEFINE sum == SumFunctionOnSet(g, S)
           F == {A \in SUBSET T : SumFunctionOnSet(g, S \cup A)
                                    = sum + SumFunctionOnSet(g, A)}
<1>0. sum \in Int /\ \A A \in SUBSET T : SumFunctionOnSet(g, A) \in Int
  BY SumInt, FS_Subset
<1>1. {} \in F
  <2>1. S \cup {} = S
    OBVIOUS
  <2> QED BY <1>0, <2>1, SumEmpty
<1>2. ASSUME NEW A \in SUBSET T, A \in F, NEW x \in T \ A
      PROVE  A \cup {x} \in F
  <2>1. IsFiniteSet(A) /\ IsFiniteSet(S \cup A)
    BY FS_Subset, FS_Union
  <2>2. SumFunctionOnSet(g, A \cup {x}) = g[x] + SumFunctionOnSet(g, A)
    BY <2>1, SumAdd
  <2>3. x \notin S \cup A /\ \A y \in (S \cup A) \cup {x} : g[y] \in Int
    OBVIOUS
  <2>4. SumFunctionOnSet(g, (S \cup A) \cup {x})
          = g[x] + SumFunctionOnSet(g, S \cup A)
    BY <2>1, <2>3, SumAdd
  <2>5. S \cup (A \cup {x}) = (S \cup A) \cup {x}
    OBVIOUS
  <2>6. SumFunctionOnSet(g, S \cup A) = sum + SumFunctionOnSet(g, A)
    BY <1>2
  <2>7. PICK a \in Int, b \in Int, c \in Int :
          a = SumFunctionOnSet(g, A) /\ b = g[x] /\ c = sum
    BY <1>0, <2>3
  <2> HIDE DEF sum
  <2>8. /\ SumFunctionOnSet(g, S \cup (A \cup {x})) = b + (c + a)
        /\ SumFunctionOnSet(g, A \cup {x}) = b + a
    BY <2>2, <2>4, <2>5, <2>6, <2>7, Zenon
  <2>9. b + (c + a) = c + (b + a)
    OBVIOUS
  <2>10. SumFunctionOnSet(g, S \cup (A \cup {x}))
           = sum + SumFunctionOnSet(g, A \cup {x})
    BY <2>7, <2>8, <2>9, Zenon
  <2> QED BY <2>10
<1> HIDE DEF F
<1>3. T \in F
  BY <1>1, <1>2, InductiveFamily
<1> QED
  BY <1>3 DEF F

\* The values of a function on a finite set are finitely many.
LEMMA ImageFinite ==
  ASSUME NEW m, NEW S, IsFiniteSet(S)
  PROVE  IsFiniteSet({m[x] : x \in S})
<1> DEFINE Im(A) == {m[x] : x \in A}
           F == {A \in SUBSET S : IsFiniteSet(Im(A))}
<1>1. {} \in F
  <2>1. Im({}) = {}
    OBVIOUS
  <2> QED BY <2>1, FS_EmptySet
<1>2. ASSUME NEW A \in SUBSET S, A \in F, NEW x \in S \ A
      PROVE  A \cup {x} \in F
  <2>1. Im(A \cup {x}) = Im(A) \cup {m[x]}
    OBVIOUS
  <2>2. IsFiniteSet(Im(A) \cup {m[x]})
    BY <1>2, FS_AddElement
  <2> QED BY <2>1, <2>2
<1> HIDE DEF F
<1>3. S \in F
  BY <1>1, <1>2, InductiveFamily
<1> QED
  BY <1>3 DEF F

\* m renames the elements of S to those of T, and f to g.
Renames(m, f, S, g, T) ==
  /\ T = {m[x] : x \in S}
  /\ \A x, y \in S : m[x] = m[y] => x = y
  /\ \A x \in S : f[x] = g[m[x]] /\ f[x] \in Int

\* The sum does not depend on how the elements are named.
LEMMA SumRenamed ==
  ASSUME NEW f, NEW g, NEW m, NEW S, NEW T, IsFiniteSet(S),
         Renames(m, f, S, g, T)
  PROVE  SumFunctionOnSet(f, S) = SumFunctionOnSet(g, T)
<1> USE DEF Renames
<1> DEFINE Im(A) == {m[x] : x \in A}
           F == {A \in SUBSET S :
                   SumFunctionOnSet(f, A) = SumFunctionOnSet(g, Im(A))}
<1>1. {} \in F
  <2>1. Im({}) = {}
    OBVIOUS
  <2> QED BY <2>1, SumEmpty
<1>2. ASSUME NEW A \in SUBSET S, A \in F, NEW x \in S \ A
      PROVE  A \cup {x} \in F
  <2>1. IsFiniteSet(A)
    BY FS_Subset
  <2>2. IsFiniteSet(Im(A))
    BY <2>1, ImageFinite
  <2>3. m[x] \notin Im(A) /\ Im(A \cup {x}) = Im(A) \cup {m[x]}
        /\ \A y \in Im(A) \cup {m[x]} : g[y] \in Int
    OBVIOUS
  <2>4. SumFunctionOnSet(f, A \cup {x}) = f[x] + SumFunctionOnSet(f, A)
    BY <2>1, SumAdd
  <2>5. SumFunctionOnSet(g, Im(A) \cup {m[x]})
          = g[m[x]] + SumFunctionOnSet(g, Im(A))
    BY <2>2, <2>3, SumAdd
  <2>6. SumFunctionOnSet(f, A) = SumFunctionOnSet(g, Im(A)) /\ f[x] = g[m[x]]
    BY <1>2
  <2> HIDE DEF Im
  <2>7. SumFunctionOnSet(f, A \cup {x}) = SumFunctionOnSet(g, Im(A \cup {x}))
    BY <2>3, <2>4, <2>5, <2>6, Zenon
  <2> QED BY <2>7
<1> HIDE DEF F
<1>3. S \in F
  BY <1>1, <1>2, InductiveFamily
<1> QED
  BY <1>3 DEF F

\* A finite nonempty set of integers has a least and a greatest element.
LEMMA Extremes ==
  ASSUME NEW S \in SUBSET Int, IsFiniteSet(S), S # {}
  PROVE  /\ \E x \in S : \A y \in S : x <= y
         /\ \E x \in S : \A y \in S : x >= y
<1> DEFINE F == {A \in SUBSET S : A # {} =>
                   /\ \E x \in A : \A y \in A : x <= y
                   /\ \E x \in A : \A y \in A : x >= y}
<1>1. {} \in F
  OBVIOUS
<1>2. ASSUME NEW A \in SUBSET S, A \in F, NEW z \in S \ A
      PROVE  A \cup {z} \in F
  <2>1. CASE A = {}
    <3>1. A \cup {z} = {z} /\ z <= z /\ z >= z
      BY <2>1
    <3> QED BY <3>1
  <2>2. CASE A # {}
    <3>1. PICK lo \in A, hi \in A : \A y \in A : lo <= y /\ hi >= y
      BY <1>2, <2>2
    <3>2. \E x \in A \cup {z} : \A y \in A \cup {z} : x <= y
      <4>1. CASE lo <= z BY <3>1, <4>1
      <4>2. CASE ~(lo <= z) BY <3>1, <4>2
      <4> QED BY <4>1, <4>2
    <3>3. \E x \in A \cup {z} : \A y \in A \cup {z} : x >= y
      <4>1. CASE hi >= z BY <3>1, <4>1
      <4>2. CASE ~(hi >= z) BY <3>1, <4>2
      <4> QED BY <4>1, <4>2
    <3> QED BY <3>2, <3>3
  <2> QED BY <2>1, <2>2
<1> HIDE DEF F
<1>3. S \in F
  BY <1>1, <1>2, InductiveFamily
<1> QED
  BY <1>3 DEF F
===============================================================================
