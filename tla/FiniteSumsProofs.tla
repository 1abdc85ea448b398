-------------------------- MODULE FiniteSumsProofs --------------------------
(***************************************************************************)
(* Sums over a finite set, as MapThenSumSet of the community modules       *)
(* computes them: that recursion has a solution, what type the sum has and *)
(* how it moves when one summand changes. There is no induction principle  *)
(* to instantiate; each lemma takes a smallest subset at which it fails.   *)
(***************************************************************************)
EXTENDS Integers, FiniteSetsExt, FiniteSetTheorems, WellFoundedInduction, TLAPS

\* The element MapThenSumSet takes from a set, and the set it leaves.
Taken(s) == CHOOSE x \in s : TRUE
Left(s) == s \ {Taken(s)}

\* g is the recursion of MapThenSumSet over the subsets of A.
Sums(h, A, g) ==
  g = [s \in SUBSET A |-> IF s = {} THEN 0 ELSE h[Taken(s)] + g[Left(s)]]

\* The sum of h over S.
SumOver(h, S) == MapThenSumSet(LAMBDA a : h[a], S)

\* The sum is the value at S of the function the community module chooses.
LEMMA SumIsRecursion ==
  ASSUME NEW h, NEW S
  PROVE  SumOver(h, S) = (CHOOSE g : Sums(h, S, g))[S]
  BY DEF SumOver, MapThenSumSet, MapThenFoldSet, Sums, Taken, Left

\* Taking an element out of a set that has one leaves less.
LEMMA LeftIsLess ==
  ASSUME NEW s, s # {}
  PROVE  Taken(s) \in s /\ Left(s) \subseteq s /\ Left(s) # s
  BY DEF Taken, Left

\* A set of subsets of a finite set has a smallest one; stands for induction.
LEMMA SmallestSubset ==
  ASSUME NEW S, IsFiniteSet(S), NEW T \in SUBSET (SUBSET S), T # {}
  PROVE  \E s \in T : \A r \in T : r \subseteq s => r = s
<1>1. T \subseteq FiniteSubsetsOf(S)
  BY FS_Subset DEF FiniteSubsetsOf
<1>2. IsWellFoundedOn(StrictSubsetOrdering(S), FiniteSubsetsOf(S))
  BY FS_StrictSubsetOrderingWellFounded
<1>3. \E s \in T : \A r \in T : <<r, s>> \notin StrictSubsetOrdering(S)
  BY <1>1, <1>2, WFMin
<1> QED BY <1>3 DEF StrictSubsetOrdering

\* Two solutions of the recursion agree wherever both are defined.
LEMMA SumsAgree ==
  ASSUME NEW S, IsFiniteSet(S), NEW h, NEW A \in SUBSET S, NEW B \in SUBSET S,
         NEW f, Sums(h, A, f), NEW g, Sums(h, B, g), NEW r \in SUBSET (A \cap B)
  PROVE  f[r] = g[r]
<1> DEFINE T == {s \in SUBSET r : f[s] # g[s]}
<1> SUFFICES ASSUME T # {} PROVE FALSE
  OBVIOUS
<1>0. T \in SUBSET (SUBSET S)
  OBVIOUS
<1> HIDE DEF T
<1>1. PICK s \in T : \A q \in T : q \subseteq s => q = s
  BY <1>0, SmallestSubset
<1> USE DEF T
<1>2. s \in SUBSET A /\ s \in SUBSET B /\ s \in SUBSET r /\ f[s] # g[s]
  OBVIOUS
<1>3. /\ f[s] = IF s = {} THEN 0 ELSE h[Taken(s)] + f[Left(s)]
      /\ g[s] = IF s = {} THEN 0 ELSE h[Taken(s)] + g[Left(s)]
  BY <1>2 DEF Sums
<1>4. s # {}
  BY <1>2, <1>3
<1>5. Left(s) \subseteq s /\ Left(s) # s
  BY <1>4, LeftIsLess
<1>6. f[Left(s)] = g[Left(s)]
  BY <1>1, <1>2, <1>5
<1> QED BY <1>2, <1>3, <1>6

\* The recursion has a solution over every finite set.
LEMMA SumsExist ==
  ASSUME NEW S, IsFiniteSet(S), NEW h
  PROVE  \E g : Sums(h, S, g)
<1> DEFINE T == {A \in SUBSET S : ~ \E g : Sums(h, A, g)}
<1> SUFFICES ASSUME T # {} PROVE FALSE
  OBVIOUS
<1>0. T \in SUBSET (SUBSET S)
  OBVIOUS
<1> HIDE DEF T
<1>1. PICK A \in T : \A q \in T : q \subseteq A => q = A
  BY <1>0, SmallestSubset
<1> USE DEF T
<1> DEFINE G(r) == CHOOSE g : Sums(h, r, g)
           V(r) == G(r)[r]
           f == [s \in SUBSET A |-> IF s = {} THEN 0 ELSE h[Taken(s)] + V(Left(s))]
<1>2. A \in SUBSET S /\ ~ \E g : Sums(h, A, g)
  OBVIOUS
<1>3. ASSUME NEW r \in SUBSET A, r # A
      PROVE  Sums(h, r, G(r))
  <2>1. r \notin T
    BY <1>1, <1>3
  <2>2. \E g : Sums(h, r, g)
    BY <1>2, <2>1
  <2> QED BY <2>2
<1>4. ASSUME NEW r \in SUBSET A, r # A
      PROVE  V(r) = IF r = {} THEN 0 ELSE h[Taken(r)] + V(Left(r))
  <2>1. Sums(h, r, G(r))
    BY <1>3, <1>4
  <2>2. V(r) = IF r = {} THEN 0 ELSE h[Taken(r)] + G(r)[Left(r)]
    BY <2>1 DEF Sums
  <2>3. CASE r # {}
    <3>1. Left(r) \subseteq r /\ Left(r) # r
      BY <2>3, LeftIsLess
    <3>2. Left(r) \in SUBSET A /\ Left(r) # A
      BY <3>1
    <3>3. Sums(h, Left(r), G(Left(r)))
      BY <1>3, <3>2
    <3> HIDE DEF G
    <3>4. G(r)[Left(r)] = G(Left(r))[Left(r)]
      BY <1>2, <2>1, <3>1, <3>2, <3>3, SumsAgree
    <3> QED BY <2>2, <3>4
  <2> QED BY <2>2, <2>3
<1> HIDE DEF V
<1>5. ASSUME NEW s \in SUBSET A, s # {}
      PROVE  f[Left(s)] = V(Left(s))
  <2>1. Left(s) \in SUBSET A /\ Left(s) # A
    BY <1>5, LeftIsLess
  <2> QED BY <1>4, <2>1
<1>6. f = [s \in SUBSET A |-> IF s = {} THEN 0 ELSE h[Taken(s)] + f[Left(s)]]
  BY <1>5
<1> QED BY <1>2, <1>6 DEF Sums

\* The chosen function is a solution, so the sum unfolds by it.
LEMMA SumHasFunction ==
  ASSUME NEW S, IsFiniteSet(S), NEW h
  PROVE  \E g : Sums(h, S, g) /\ SumOver(h, S) = g[S]
<1> DEFINE f == CHOOSE g : Sums(h, S, g)
<1>1. Sums(h, S, f)
  BY SumsExist
<1>2. SumOver(h, S) = f[S]
  BY SumIsRecursion
<1> HIDE DEF f
<1> QED BY <1>1, <1>2

\* A sum of naturals is a natural, a sum of integers an integer.
LEMMA SumType ==
  ASSUME NEW S, IsFiniteSet(S), NEW N \in {Nat, Int}, NEW h \in [S -> N]
  PROVE  SumOver(h, S) \in N
<1>1. PICK g : Sums(h, S, g) /\ SumOver(h, S) = g[S]
  BY SumHasFunction
<1> DEFINE T == {s \in SUBSET S : g[s] \notin N}
<1> SUFFICES ASSUME T # {} PROVE FALSE
  BY <1>1
<1>0. T \in SUBSET (SUBSET S)
  OBVIOUS
<1> HIDE DEF T
<1>2. PICK s \in T : \A q \in T : q \subseteq s => q = s
  BY <1>0, SmallestSubset
<1> USE DEF T
<1>3. g[s] = IF s = {} THEN 0 ELSE h[Taken(s)] + g[Left(s)]
  BY <1>1 DEF Sums
<1>4. CASE s = {}
  BY <1>3, <1>4
<1>5. CASE s # {}
  <2>1. Taken(s) \in S /\ Left(s) \in SUBSET S /\ g[Left(s)] \in N
    BY <1>2, <1>5, LeftIsLess
  <2>2. h[Taken(s)] \in N
    BY <2>1
  <2> QED BY <1>3, <1>5, <2>1, <2>2
<1> QED BY <1>4, <1>5

\* When one summand grows by n, so does the sum.
LEMMA SumUpdate ==
  ASSUME NEW S, IsFiniteSet(S), NEW h \in [S -> Int], NEW a \in S, NEW n \in Int
  PROVE  SumOver([h EXCEPT ![a] = h[a] + n], S) = SumOver(h, S) + n
<1> DEFINE k == [h EXCEPT ![a] = h[a] + n]
<1>1. PICK f : Sums(h, S, f) /\ SumOver(h, S) = f[S]
  BY SumHasFunction
<1>2. PICK g : Sums(k, S, g) /\ SumOver(k, S) = g[S]
  BY SumHasFunction
<1> DEFINE Off(s) == IF a \in s THEN n ELSE 0
           T == {s \in SUBSET S : ~ (f[s] \in Int /\ g[s] = f[s] + Off(s))}
<1> SUFFICES ASSUME T # {} PROVE FALSE
  BY <1>1, <1>2
<1>0. T \in SUBSET (SUBSET S)
  OBVIOUS
<1> HIDE DEF T
<1>3. PICK s \in T : \A q \in T : q \subseteq s => q = s
  BY <1>0, SmallestSubset
<1> USE DEF T
<1>4. /\ f[s] = IF s = {} THEN 0 ELSE h[Taken(s)] + f[Left(s)]
      /\ g[s] = IF s = {} THEN 0 ELSE k[Taken(s)] + g[Left(s)]
  BY <1>1, <1>2 DEF Sums
<1>5. CASE s = {}
  BY <1>4, <1>5
<1>6. CASE s # {}
  <2> DEFINE x == Taken(s)
             q == Left(s)
  <2>1. x \in S /\ x \in s /\ q \in SUBSET S /\ q = s \ {x} /\ q # s
    BY <1>6, LeftIsLess DEF Left
  <2>2. f[q] \in Int /\ g[q] = f[q] + Off(q)
    BY <1>3, <2>1
  <2>3. h[x] \in Int /\ k[x] = IF x = a THEN h[x] + n ELSE h[x]
    BY <2>1
  <2>4. f[s] = h[x] + f[q] /\ g[s] = k[x] + g[q]
    BY <1>4, <1>6
  <2> HIDE DEF x, q, k
  <2> QED BY <2>1, <2>2, <2>3, <2>4
<1> QED BY <1>5, <1>6
\* Every partial sum of naturals is natural, of integers an integer.
LEMMA SumsTyped ==
  ASSUME NEW S, IsFiniteSet(S), NEW N \in {Nat, Int}, NEW h, \A x \in S : h[x] \in N,
         NEW g, Sums(h, S, g), NEW r \in SUBSET S
  PROVE  g[r] \in N
<1> DEFINE T == {s \in SUBSET S : g[s] \notin N}
<1> SUFFICES ASSUME T # {} PROVE FALSE
  OBVIOUS
<1>0. T \in SUBSET (SUBSET S)
  OBVIOUS
<1> HIDE DEF T
<1>2. PICK s \in T : \A q \in T : q \subseteq s => q = s
  BY <1>0, SmallestSubset
<1> USE DEF T
<1>3. g[s] = IF s = {} THEN 0 ELSE h[Taken(s)] + g[Left(s)]
  BY DEF Sums
<1>4. CASE s = {}
  BY <1>3, <1>4
<1>5. CASE s # {}
  <2>1. Taken(s) \in S /\ Left(s) \in SUBSET S /\ g[Left(s)] \in N
    BY <1>2, <1>5, LeftIsLess
  <2>2. h[Taken(s)] \in N
    BY <2>1
  <2> QED BY <1>3, <1>5, <2>1, <2>2
<1> QED BY <1>4, <1>5

\* A partial sum does not depend on which element is taken out first.
LEMMA SumTakeOut ==
  ASSUME NEW S, IsFiniteSet(S), NEW h, \A x \in S : h[x] \in Int,
         NEW g, Sums(h, S, g), NEW r \in SUBSET S, NEW e \in r
  PROVE  g[r] = h[e] + g[r \ {e}]
<1> DEFINE T == {s \in SUBSET S : \E d \in s : g[s] # h[d] + g[s \ {d}]}
<1> SUFFICES ASSUME T # {} PROVE FALSE
  OBVIOUS
<1>0. T \in SUBSET (SUBSET S)
  OBVIOUS
<1> HIDE DEF T
<1>1. PICK s \in T : \A q \in T : q \subseteq s => q = s
  BY <1>0, SmallestSubset
<1> USE DEF T
<1>2. PICK d \in s : g[s] # h[d] + g[s \ {d}]
  OBVIOUS
<1> DEFINE x == Taken(s)
           q == s \ {x}
           w == s \ {d}
<1>3. s \in SUBSET S /\ x \in s /\ q # s /\ g[s] = h[x] + g[q]
  BY <1>2, LeftIsLess DEF Sums, Left
<1> HIDE DEF x
<1>4. x # d
  BY <1>2, <1>3
<1>5. g[q] = h[d] + g[q \ {d}]
  BY <1>1, <1>2, <1>3, <1>4
<1>6. g[w] = h[x] + g[w \ {x}]
  BY <1>1, <1>2, <1>3, <1>4
<1>7. w \ {x} = q \ {d}
  OBVIOUS
<1>8. h[x] \in Int /\ h[d] \in Int /\ g[q \ {d}] \in Int
  <2>1. q \ {d} \in SUBSET S /\ x \in S /\ d \in S
    BY <1>3
  <2> HIDE DEF q
  <2>2. Int \in {Nat, Int}
    OBVIOUS
  <2>3. g[q \ {d}] \in Int
    BY <2>1, <2>2, SumsTyped
  <2> QED BY <2>1, <2>3
<1>9. g[s] # h[d] + g[w]
  BY <1>2
<1>10. g[w \ {x}] = g[q \ {d}]
  BY <1>7
<1> HIDE DEF q, w
<1> QED BY <1>3, <1>5, <1>6, <1>8, <1>9, <1>10

\* The sum over a finite set is that over a part of it and that over the
\* rest.
LEMMA SumJoined ==
  ASSUME NEW S, IsFiniteSet(S), NEW h, \A x \in S : h[x] \in Int, NEW A \in SUBSET S
  PROVE  SumOver(h, S) = SumOver(h, A) + SumOver(h, S \ A)
<1>1. IsFiniteSet(A) /\ IsFiniteSet(S \ A)
  BY FS_Subset
<1>2. PICK g : Sums(h, S, g) /\ SumOver(h, S) = g[S]
  BY SumHasFunction
<1>3. PICK ga : Sums(h, A, ga) /\ SumOver(h, A) = ga[A]
  BY <1>1, SumHasFunction
<1>4. PICK gb : Sums(h, S \ A, gb) /\ SumOver(h, S \ A) = gb[S \ A]
  BY <1>1, SumHasFunction
<1>5. ga[A] = g[A] /\ gb[S \ A] = g[S \ A]
  <2>1. A \in SUBSET (A \cap S) /\ (S \ A) \in SUBSET ((S \ A) \cap S) /\ S \in SUBSET S
        /\ (S \ A) \in SUBSET S
    OBVIOUS
  <2>2. ga[A] = g[A]
    BY <1>2, <1>3, <2>1, SumsAgree
  <2>3. gb[S \ A] = g[S \ A]
    BY <1>2, <1>4, <2>1, SumsAgree
  <2> QED BY <2>2, <2>3
<1> DEFINE T == {s \in SUBSET S : g[s] # g[s \cap A] + g[s \ A]}
<1>6. T = {}
  <2> SUFFICES ASSUME T # {} PROVE FALSE
    OBVIOUS
  <2>0. T \in SUBSET (SUBSET S)
    OBVIOUS
  <2> HIDE DEF T
  <2>1. PICK s \in T : \A q \in T : q \subseteq s => q = s
    BY <2>0, SmallestSubset
  <2> USE DEF T
  <2>2. s \in SUBSET S /\ g[s] # g[s \cap A] + g[s \ A]
    OBVIOUS
  <2>3. s # {}
    <3>1. g[{}] = 0
      BY <1>2 DEF Sums
    <3>2. s = {} => s \cap A = {} /\ s \ A = {}
      OBVIOUS
    <3>3. s = {} => g[s] = 0 /\ g[s \cap A] = 0 /\ g[s \ A] = 0
      BY <3>1, <3>2
    <3> QED BY <2>2, <3>3
  <2>4. PICK x : x \in s
    BY <2>3
  <2> DEFINE q == s \ {x}
  <2>5. q \in SUBSET S /\ q # s /\ q \subseteq s /\ x \in S
    BY <2>2, <2>4
  <2>6. g[q] = g[q \cap A] + g[q \ A]
    BY <2>1, <2>5
  <2>7. g[s] = h[x] + g[q]
    BY <1>2, <2>2, <2>4, SumTakeOut
  <2>8. Int \in {Nat, Int} /\ q \cap A \in SUBSET S /\ q \ A \in SUBSET S /\ h[x] \in Int
    BY <2>5
  <2>9. g[q \cap A] \in Int /\ g[q \ A] \in Int
    BY <1>2, <2>8, SumsTyped
  <2>10. CASE x \in A
    <3> DEFINE r == s \cap A
    <3>1. r \in SUBSET S /\ x \in r /\ r \ {x} = q \cap A /\ s \ A = q \ A
      BY <2>2, <2>4, <2>10
    <3> HIDE DEF r, q
    <3>2. g[r] = h[x] + g[r \ {x}]
      BY <1>2, <3>1, SumTakeOut
    <3>3. g[s \cap A] = h[x] + g[q \cap A]
      BY <3>1, <3>2 DEF r
    <3>4. g[s \ A] = g[q \ A]
      BY <3>1
    <3> QED BY <2>2, <2>6, <2>7, <2>8, <2>9, <3>3, <3>4
  <2>11. CASE x \notin A
    <3> DEFINE r == s \ A
    <3>1. r \in SUBSET S /\ x \in r /\ r \ {x} = q \ A /\ s \cap A = q \cap A
      BY <2>2, <2>4, <2>11
    <3> HIDE DEF r, q
    <3>2. g[r] = h[x] + g[r \ {x}]
      BY <1>2, <3>1, SumTakeOut
    <3>3. g[s \ A] = h[x] + g[q \ A]
      BY <3>1, <3>2 DEF r
    <3>4. g[s \cap A] = g[q \cap A]
      BY <3>1
    <3> QED BY <2>2, <2>6, <2>7, <2>8, <2>9, <3>3, <3>4
  <2> QED BY <2>10, <2>11
<1>7. S \cap A = A /\ g[S] = g[S \cap A] + g[S \ A]
  BY <1>6
<1> QED BY <1>2, <1>3, <1>4, <1>5, <1>7
\* What f makes of the members of s.
Image(f, s) == {f[x] : x \in s}

\* A sum may run over other names of its summands, one for each.
LEMMA SumMoved ==
  ASSUME NEW S, IsFiniteSet(S), NEW T, IsFiniteSet(T), NEW f \in [S -> T],
         \A x, y \in S : f[x] = f[y] => x = y, Image(f, S) = T,
         NEW h, \A x \in S : h[x] \in Int, NEW k, \A x \in S : k[f[x]] = h[x]
  PROVE  SumOver(h, S) = SumOver(k, T)
<1>1. PICK g : Sums(h, S, g) /\ SumOver(h, S) = g[S]
  BY SumHasFunction
<1>2. PICK w : Sums(k, T, w) /\ SumOver(k, T) = w[T]
  BY SumHasFunction
<1>0. \A y \in T : k[y] \in Int
  BY DEF Image
<1> DEFINE Bad == {s \in SUBSET S : g[s] # w[Image(f, s)]}
<1>3. Bad = {}
  <2> SUFFICES ASSUME Bad # {} PROVE FALSE
    OBVIOUS
  <2>0. Bad \in SUBSET (SUBSET S)
    OBVIOUS
  <2> HIDE DEF Bad
  <2>1. PICK s \in Bad : \A q \in Bad : q \subseteq s => q = s
    BY <2>0, SmallestSubset
  <2> USE DEF Bad
  <2>2. s \in SUBSET S /\ g[s] # w[Image(f, s)]
    OBVIOUS
  <2>3. s # {}
    <3>1. g[{}] = 0 /\ w[{}] = 0
      BY <1>1, <1>2 DEF Sums
    <3>2. Image(f, {}) = {}
      BY DEF Image
    <3> QED BY <2>2, <3>1, <3>2
  <2>4. PICK x : x \in s
    BY <2>3
  <2> DEFINE q == s \ {x}
             r == Image(f, s)
  <2>5. q \in SUBSET S /\ q # s /\ q \subseteq s /\ x \in S
    BY <2>2, <2>4
  <2>6. g[q] = w[Image(f, q)]
    BY <2>1, <2>5
  <2>7. g[s] = h[x] + g[q]
    BY <1>1, <2>2, <2>4, SumTakeOut
  <2> DEFINE e == f[x]
  <2>8. r \in SUBSET T /\ e \in r /\ r \ {e} = Image(f, q)
    BY <2>2, <2>4 DEF Image
  <2>10. k[e] = h[x]
    BY <2>5
  <2> HIDE DEF r, q, e
  <2>9. w[r] = k[e] + w[r \ {e}]
    BY <1>0, <1>2, <2>8, SumTakeOut
  <2> QED BY <2>2, <2>6, <2>7, <2>8, <2>9, <2>10 DEF r
<1>4. S \in SUBSET S
  OBVIOUS
<1>5. g[S] = w[Image(f, S)]
  BY <1>3, <1>4
<1> QED BY <1>1, <1>2, <1>5
=============================================================================
