----------------------------- MODULE FeedProofs -----------------------------
(***************************************************************************)
(* Machine-checked proofs about what markets, wallet and mempool list: the *)
(* three implement HonestView, no transaction is listed twice by the       *)
(* wallet, and the cards of the markets page agree with the memos they     *)
(* were made from.                                                         *)
(***************************************************************************)
EXTENDS SiteProofs

(***************************************************************************)
(* Lists. Kept is a recursive function, FlattenSeq and SetToSeq of the     *)
(* community modules are a recursive function and a choice: what each      *)
(* returns is found place by place, by the smallest place at which a claim *)
(* about it could fail.                                                    *)
(***************************************************************************)

\* What holds at 0 and is handed on from each number to the next holds up to
\* n: induction, with a set in place of the predicate.
LEMMA Induct ==
  ASSUME NEW n \in Nat, NEW S, 0 \in S, \A i \in 1..n : i - 1 \in S => i \in S
  PROVE  \A i \in 0..n : i \in S
<1> DEFINE T == {i \in 0..n : i \notin S}
<1> SUFFICES ASSUME T # {} PROVE FALSE
  OBVIOUS
<1>1. T \in SUBSET Nat
  OBVIOUS
<1> HIDE DEF T
<1>2. Min(T) \in T /\ \A y \in T : Min(T) <= y
  BY <1>1, LeastNatural
<1> DEFINE m == Min(T)
<1>3. m \in T /\ \A y \in T : m <= y
  BY <1>2
<1> HIDE DEF m
<1> USE DEF T
<1>4. m \in 1..n /\ m \notin S
  BY <1>3
<1>5. m - 1 \in 0..n /\ ~(m <= m - 1)
  BY <1>4
<1>6. m - 1 \in S
  BY <1>3, <1>5
<1> QED BY <1>4, <1>6

\* r starts with b, and each of its values up to n comes from the one before.
Unfolds(r, n, b, step) ==
  r[0] = b /\ \A i \in 1..n : r[i] = step[i][r[i - 1]]

\* A value at 0 and a step from each number to the next define a function.
LEMMA NatRecursion ==
  ASSUME NEW n \in Nat, NEW V, NEW b \in V, NEW step \in [1..n -> [V -> V]]
  PROVE  \E r \in [0..n -> V] : Unfolds(r, n, b, step)
<1> USE DEF Unfolds
<1> DEFINE Upto(m, r) == r \in [0..m -> V] /\ Unfolds(r, m, b, step)
           S == {m \in 0..n : \E r : Upto(m, r)}
<1>1. 0 \in S
  <2>1. Upto(0, [i \in 0..0 |-> b])
    OBVIOUS
  <2> HIDE DEF Upto
  <2> QED BY <2>1
<1>2. ASSUME NEW m \in 1..n, m - 1 \in S PROVE m \in S
  <2>1. PICK r : Upto(m - 1, r)
    BY <1>2
  <2> DEFINE v == step[m][r[m - 1]]
             q == [i \in 0..m |-> IF i = m THEN v ELSE r[i]]
  <2>2. r[m - 1] \in V
    BY <2>1
  <2>3. v \in V
    BY <2>2
  <2> HIDE DEF v
  <2>4. q \in [0..m -> V] /\ q[0] = b /\ q[m] = v
    BY <2>1, <2>3
  <2>5. \A i \in 0..(m - 1) : q[i] = r[i]
    OBVIOUS
  <2>6. ASSUME NEW i \in 1..m PROVE q[i] = step[i][q[i - 1]]
    <3>1. q[i - 1] = r[i - 1]
      BY <2>5
    <3>2. CASE i = m
      BY <2>4, <3>1, <3>2 DEF v
    <3>3. CASE i # m
      <4>1. i \in 1..(m - 1)
        BY <3>3
      <4>2. r[i] = step[i][r[i - 1]] /\ q[i] = r[i]
        BY <2>1, <2>5, <4>1
      <4> QED BY <3>1, <4>2
    <3> QED BY <3>2, <3>3
  <2> HIDE DEF q
  <2>7. Upto(m, q)
    BY <2>4, <2>6
  <2> HIDE DEF Upto
  <2> QED BY <2>7
<1> HIDE DEF S
<1>3. \A i \in 1..n : i - 1 \in S => i \in S
  BY <1>2
<1>4. \A i \in 0..n : i \in S
  BY <1>1, <1>3, Induct
<1>5. n \in S
  BY <1>4
<1> QED BY <1>5 DEF S
-----------------------------------------------------------------------------
(* Lists: what a filter keeps, and what joining many lists gives.          *)

\* f is the recursion of Kept.
Keeps(seq, S, f) ==
  f = [i \in 0..Len(seq) |->
         IF i = 0 THEN <<>>
         ELSE IF seq[i] \in S THEN Append(f[i - 1], seq[i]) ELSE f[i - 1]]

\* The values of that recursion.
Filters(seq, S, f) ==
  /\ f[0] = <<>>
  /\ \A i \in 1..Len(seq) :
       f[i] = IF seq[i] \in S THEN Append(f[i - 1], seq[i]) ELSE f[i - 1]

\* Kept is the last value of that recursion, which has a solution.
LEMMA KeptUnfolds ==
  ASSUME NEW D, NEW seq \in Seq(D), NEW S
  PROVE  \E f \in [0..Len(seq) -> Seq(D)] :
           Filters(seq, S, f) /\ Kept(seq, S) = f[Len(seq)]
<1> DEFINE n == Len(seq)
           step == [i \in 1..n |-> [v \in Seq(D) |->
                      IF seq[i] \in S THEN Append(v, seq[i]) ELSE v]]
           f == CHOOSE g : Keeps(seq, S, g)
<1>1. n \in Nat /\ <<>> \in Seq(D) /\ \A i \in 1..n : seq[i] \in D
  OBVIOUS
<1>0. n = Len(seq)
  OBVIOUS
<1> HIDE DEF n
<1>2. step \in [1..n -> [Seq(D) -> Seq(D)]]
  BY <1>1
<1>3. \A i \in 1..n, v \in Seq(D) :
        step[i][v] = IF seq[i] \in S THEN Append(v, seq[i]) ELSE v
  OBVIOUS
<1> HIDE DEF step
<1>4. PICK r \in [0..n -> Seq(D)] : Unfolds(r, n, <<>>, step)
  BY <1>1, <1>2, NatRecursion
<1>5. \A i \in 1..n : r[i] = IF seq[i] \in S THEN Append(r[i - 1], seq[i]) ELSE r[i - 1]
  <2> SUFFICES ASSUME NEW i \in 1..n
               PROVE  r[i] = IF seq[i] \in S THEN Append(r[i - 1], seq[i]) ELSE r[i - 1]
    OBVIOUS
  <2>1. r[i - 1] \in Seq(D)
    BY <1>1
  <2> QED BY <1>3, <1>4, <2>1 DEF Unfolds
<1>6. Keeps(seq, S, r)
  <2> DEFINE q(i) == IF i = 0 THEN <<>> ELSE
                     IF seq[i] \in S THEN Append(r[i - 1], seq[i]) ELSE r[i - 1]
  <2>1. \A i \in 0..n : i = 0 \/ i \in 1..n
    BY <1>1
  <2>2. \A i \in 0..n : r[i] = q(i)
    BY <1>4, <1>5, <2>1 DEF Unfolds
  <2>3. Keeps(seq, S, r) <=> r = [i \in 0..n |-> q(i)]
    BY <1>0 DEF Keeps
  <2> HIDE DEF q
  <2> QED BY <2>2, <2>3
<1>7. Keeps(seq, S, f)
  BY <1>6
<1>8. Kept(seq, S) = f[n]
  BY <1>0 DEF Kept, Keeps
<1> HIDE DEF f
<1>9. f = [i \in 0..n |-> f[i]] /\ f[0] = <<>>
      /\ \A i \in 1..n : f[i] = IF seq[i] \in S THEN Append(f[i - 1], seq[i]) ELSE f[i - 1]
  <2> DEFINE q(i) == IF i = 0 THEN <<>> ELSE
                     IF seq[i] \in S THEN Append(f[i - 1], seq[i]) ELSE f[i - 1]
  <2>1. f = [i \in 0..n |-> q(i)]
    BY <1>0, <1>7 DEF Keeps
  <2>2. q(0) = <<>> /\ \A i \in 1..n : q(i) =
          IF seq[i] \in S THEN Append(f[i - 1], seq[i]) ELSE f[i - 1]
    OBVIOUS
  <2>3. 0 \in 0..n /\ \A i \in 1..n : i \in 0..n
    BY <1>1
  <2> HIDE DEF q
  <2> QED BY <2>1, <2>2, <2>3
<1> DEFINE I == {i \in 0..n : f[i] \in Seq(D)}
<1>10. 0 \in I /\ \A i \in 1..n : i - 1 \in I => i \in I
  <2>1. 0 \in I
    BY <1>1, <1>9
  <2>2. ASSUME NEW i \in 1..n, i - 1 \in I PROVE i \in I
    <3>1. f[i - 1] \in Seq(D) /\ seq[i] \in D /\ i \in 0..n
      BY <1>1, <2>2
    <3>2. f[i] = Append(f[i - 1], seq[i]) \/ f[i] = f[i - 1]
      BY <1>9
    <3>3. \A v \in Seq(D), x \in D : Append(v, x) \in Seq(D)
      OBVIOUS
    <3>4. f[i] \in Seq(D)
      BY <3>1, <3>2, <3>3
    <3> QED BY <3>1, <3>4
  <2> QED BY <2>1, <2>2
<1> HIDE DEF I
<1>11. \A i \in 0..n : i \in I
  BY <1>1, <1>10, Induct
<1>12. f \in [0..n -> Seq(D)]
  BY <1>9, <1>11 DEF I
<1> QED BY <1>0, <1>8, <1>9, <1>12 DEF Filters

\* u tells where the elements of l, those of the first m of seq that are in S,
\* stand in seq.
Places(seq, S, m, l, u) ==
  /\ u \in [1..Len(l) -> 1..m]
  /\ \A i, j \in 1..Len(l) : i < j => u[i] < u[j]
  /\ \A i \in 1..Len(l) : l[i] = seq[u[i]] /\ seq[u[i]] \in S
  /\ \A j \in 1..m : seq[j] \in S => \E i \in 1..Len(l) : u[i] = j

\* One element more.
LEMMA OneMorePlace ==
  ASSUME NEW D, NEW seq \in Seq(D), NEW S, NEW m \in 1..Len(seq), NEW l \in Seq(D), NEW u,
         Places(seq, S, m - 1, l, u)
  PROVE  \E v : Places(seq, S, m, IF seq[m] \in S THEN Append(l, seq[m]) ELSE l, v)
<1> DEFINE n == Len(l)
<1>0. n \in Nat /\ m \in Nat /\ m - 1 \in Nat /\ n = Len(l)
  OBVIOUS
<1> HIDE DEF n
<1>1. /\ u \in [1..n -> 1..(m - 1)]
      /\ \A i, j \in 1..n : i < j => u[i] < u[j]
      /\ \A i \in 1..n : l[i] = seq[u[i]] /\ seq[u[i]] \in S
      /\ \A j \in 1..(m - 1) : seq[j] \in S => \E i \in 1..n : u[i] = j
  BY <1>0 DEF Places
<1>2. \A j \in 1..m : j = m \/ j \in 1..(m - 1)
  BY <1>0
<1>3. 1..(m - 1) \subseteq 1..m
  BY <1>0
<1>4. CASE seq[m] \notin S
  <2>1. Places(seq, S, m, l, u)
    BY <1>0, <1>1, <1>2, <1>3, <1>4 DEF Places
  <2> QED BY <1>4, <2>1
<1>5. CASE seq[m] \in S
  <2> DEFINE k == Append(l, seq[m])
             v == [i \in 1..(n + 1) |-> IF i = n + 1 THEN m ELSE u[i]]
  <2>1. /\ Len(k) = n + 1 /\ k[n + 1] = seq[m]
        /\ \A i \in 1..n : k[i] = l[i]
    BY <1>0
  <2>2. v[n + 1] = m /\ (\A i \in 1..n : v[i] = u[i]) /\ DOMAIN v = 1..(n + 1)
    BY <1>0
  <2>3. \A i \in 1..(n + 1) : i = n + 1 \/ i \in 1..n
    BY <1>0
  <2>4. v \in [1..(n + 1) -> 1..m]
    BY <1>0, <1>1, <1>3
  <2> HIDE DEF k, v
  <2>5. ASSUME NEW i \in 1..(n + 1), NEW j \in 1..(n + 1), i < j
        PROVE  v[i] < v[j]
    <3>1. i \in 1..n
      BY <1>0, <2>5
    <3>2. v[i] = u[i] /\ u[i] \in 1..(m - 1)
      BY <1>1, <2>2, <3>1
    <3>3. CASE j = n + 1
      BY <1>0, <2>2, <3>2, <3>3
    <3>4. CASE j \in 1..n
      BY <1>1, <2>2, <2>5, <3>1, <3>4
    <3> QED BY <2>3, <3>3, <3>4
  <2>6. \A i \in 1..(n + 1) : k[i] = seq[v[i]] /\ seq[v[i]] \in S
    BY <1>1, <1>5, <2>1, <2>2, <2>3
  <2>7. ASSUME NEW j \in 1..m, seq[j] \in S
        PROVE  \E i \in 1..(n + 1) : v[i] = j
    <3>1. n + 1 \in 1..(n + 1) /\ \A i \in 1..n : i \in 1..(n + 1)
      BY <1>0
    <3>2. CASE j = m
      BY <2>2, <3>1, <3>2
    <3>3. CASE j \in 1..(m - 1)
      BY <1>1, <2>2, <2>7, <3>1, <3>3
    <3> QED BY <1>2, <3>2, <3>3
  <2>8. Places(seq, S, m, k, v)
    BY <2>1, <2>4, <2>5, <2>6, <2>7 DEF Places
  <2> QED BY <1>5, <2>8 DEF k
<1> QED BY <1>4, <1>5

\* The elements kept stand in seq in the same order.
LEMMA KeptPlaces ==
  ASSUME NEW D, NEW seq \in Seq(D), NEW S
  PROVE  Kept(seq, S) \in Seq(D) /\ \E u : Places(seq, S, Len(seq), Kept(seq, S), u)
<1>1. PICK f \in [0..Len(seq) -> Seq(D)] :
        Filters(seq, S, f) /\ Kept(seq, S) = f[Len(seq)]
  BY KeptUnfolds
<1> DEFINE n == Len(seq)
           I == {m \in 0..n : \E u : Places(seq, S, m, f[m], u)}
<1>2. n \in Nat /\ n = Len(seq)
  OBVIOUS
<1> HIDE DEF n
<1>3. 0 \in I
  <2>1. Places(seq, S, 0, <<>>, [i \in 1..0 |-> 0])
    BY DEF Places
  <2> QED BY <1>1, <1>2, <2>1 DEF Filters
<1>4. ASSUME NEW m \in 1..n, m - 1 \in I PROVE m \in I
  <2>1. m \in 1..Len(seq) /\ m - 1 \in 0..n /\ m \in 0..n
    BY <1>2
  <2>2. PICK u : Places(seq, S, m - 1, f[m - 1], u)
    BY <1>4
  <2> DEFINE l == f[m - 1]
  <2>3. l \in Seq(D) /\ f[m] = IF seq[m] \in S THEN Append(l, seq[m]) ELSE l
    BY <1>1, <1>2, <2>1 DEF Filters
  <2>4. Places(seq, S, m - 1, l, u)
    BY <2>2
  <2> HIDE DEF l
  <2>5. \E v : Places(seq, S, m, IF seq[m] \in S THEN Append(l, seq[m]) ELSE l, v)
    BY <2>1, <2>3, <2>4, OneMorePlace
  <2> QED BY <2>1, <2>3, <2>5
<1>5. \A m \in 1..n : m - 1 \in I => m \in I
  BY <1>4
<1> HIDE DEF I
<1>6. \A m \in 0..n : m \in I
  BY <1>2, <1>3, <1>5, Induct
<1>7. n \in I /\ n \in 0..n
  BY <1>2, <1>6
<1> QED BY <1>1, <1>2, <1>7 DEF I

\* Any two elements of l, in the order they have there, are in R.
Ordered(l, R) == \A i, j \in DOMAIN l : i < j => <<l[i], l[j]>> \in R

\* A filter keeps what is in S and the order.
LEMMA KeptFacts ==
  ASSUME NEW D, NEW seq \in Seq(D), NEW S
  PROVE  /\ Kept(seq, S) \in Seq(D)
         /\ ToSet(Kept(seq, S)) = ToSet(seq) \cap S
         /\ \A R : Ordered(seq, R) => Ordered(Kept(seq, S), R)
<1> DEFINE l == Kept(seq, S)
<1>1. l \in Seq(D) /\ \E u : Places(seq, S, Len(seq), l, u)
  BY KeptPlaces
<1> HIDE DEF l
<1>2. PICK u : Places(seq, S, Len(seq), l, u)
  BY <1>1
<1>3. DOMAIN l = 1..Len(l) /\ DOMAIN seq = 1..Len(seq) /\ Len(seq) \in Nat /\ Len(l) \in Nat
  BY <1>1
<1>4. ToSet(l) = ToSet(seq) \cap S
  BY <1>2, <1>3 DEF Places, ToSet
<1>5. ASSUME NEW R, Ordered(seq, R) PROVE Ordered(l, R)
  <2> SUFFICES ASSUME NEW i \in DOMAIN l, NEW j \in DOMAIN l, i < j
               PROVE  <<l[i], l[j]>> \in R
    BY DEF Ordered
  <2>1. u[i] \in DOMAIN seq /\ u[j] \in DOMAIN seq /\ u[i] < u[j]
        /\ l[i] = seq[u[i]] /\ l[j] = seq[u[j]]
    BY <1>2, <1>3 DEF Places
  <2> QED BY <1>5, <2>1 DEF Ordered
<1> QED BY <1>1, <1>4, <1>5 DEF l

\* The last element kept is the last one of seq that is in S.
LEMMA KeptLast ==
  ASSUME NEW D, NEW seq \in Seq(D), NEW S, Kept(seq, S) # <<>>
  PROVE  \E i \in 1..Len(seq) : /\ Last(Kept(seq, S)) = seq[i] /\ seq[i] \in S
                                /\ \A j \in 1..Len(seq) : seq[j] \in S => j <= i
<1> DEFINE l == Kept(seq, S)
           n == Len(l)
<1>1. l \in Seq(D) /\ \E u : Places(seq, S, Len(seq), l, u)
  BY KeptPlaces
<1>2. l # <<>> /\ Last(l) = l[n]
  BY DEF Last
<1> HIDE DEF l
<1>3. PICK u : Places(seq, S, Len(seq), l, u)
  BY <1>1
<1>4. n \in Nat /\ n # 0 /\ n = Len(l)
  BY <1>1, <1>2
<1> HIDE DEF n
<1>5. n \in 1..n /\ \A i \in 1..n : i = n \/ i < n
  BY <1>4
<1>6. u[n] \in 1..Len(seq) /\ l[n] = seq[u[n]] /\ seq[u[n]] \in S
  BY <1>3, <1>4, <1>5 DEF Places
<1>7. ASSUME NEW j \in 1..Len(seq), seq[j] \in S PROVE j <= u[n]
  <2>1. PICK i \in 1..n : u[i] = j
    BY <1>3, <1>4, <1>7 DEF Places
  <2>2. i = n \/ u[i] < u[n]
    BY <1>3, <1>4, <1>5 DEF Places
  <2> QED BY <1>6, <2>1, <2>2
<1> QED BY <1>2, <1>6, <1>7 DEF l

\* Two lists, one after the other.
LEMMA Joined ==
  ASSUME NEW D, NEW s \in Seq(D), NEW t \in Seq(D), NEW R, Ordered(s, R), Ordered(t, R),
         \A x \in ToSet(s), y \in ToSet(t) : <<x, y>> \in R
  PROVE  s \o t \in Seq(D) /\ ToSet(s \o t) = ToSet(s) \cup ToSet(t) /\ Ordered(s \o t, R)
<1> DEFINE l == s \o t
           a == Len(s)
           b == Len(t)
<1>1. /\ l \in Seq(D) /\ Len(l) = a + b /\ a \in Nat /\ b \in Nat
      /\ DOMAIN l = 1..(a + b) /\ DOMAIN s = 1..a /\ DOMAIN t = 1..b
      /\ \A i \in 1..a : l[i] = s[i]
      /\ \A i \in (a + 1)..(a + b) : l[i] = t[i - a]
  OBVIOUS
<1>2. \A i \in 1..b : l[a + i] = t[i]
  <2> SUFFICES ASSUME NEW i \in 1..b PROVE l[a + i] = t[i]
    OBVIOUS
  <2>1. a + i \in (a + 1)..(a + b) /\ (a + i) - a = i
    BY <1>1
  <2> HIDE DEF l, a, b
  <2> QED BY <1>1, <2>1
<1> HIDE DEF l, a, b
<1>3. \A i \in 1..(a + b) : i \in 1..a \/ (i \in (a + 1)..(a + b) /\ i - a \in 1..b)
  BY <1>1
<1>4. \A i \in 1..a : i \in 1..(a + b)
  BY <1>1
<1>5. \A i \in 1..b : a + i \in 1..(a + b)
  BY <1>1
<1>6. ToSet(l) = ToSet(s) \cup ToSet(t)
  <2>1. ASSUME NEW x \in ToSet(l) PROVE x \in ToSet(s) \cup ToSet(t)
    <3>1. PICK i \in 1..(a + b) : x = l[i]
      BY <1>1 DEF ToSet
    <3> QED BY <1>1, <1>3, <3>1 DEF ToSet
  <2>2. ToSet(s) \subseteq ToSet(l)
    BY <1>1, <1>4 DEF ToSet
  <2>3. ASSUME NEW y \in ToSet(t) PROVE y \in ToSet(l)
    <3>1. PICK i \in 1..b : y = t[i]
      BY <1>1 DEF ToSet
    <3>2. a + i \in DOMAIN l /\ y = l[a + i]
      BY <1>1, <1>2, <1>5, <3>1
    <3> QED BY <3>2 DEF ToSet
  <2> QED BY <2>1, <2>2, <2>3
<1>7. ASSUME NEW i \in 1..(a + b), NEW j \in 1..(a + b), i < j
      PROVE  <<l[i], l[j]>> \in R
  <2>1. CASE i \in 1..a /\ j \in 1..a
    BY <1>1, <1>7, <2>1 DEF Ordered
  <2>2. CASE i \in 1..a /\ j \in (a + 1)..(a + b) /\ j - a \in 1..b
    <3>1. l[i] \in ToSet(s) /\ l[j] \in ToSet(t)
      BY <1>1, <2>2 DEF ToSet
    <3> QED BY <3>1
  <2>3. CASE i \in (a + 1)..(a + b) /\ i - a \in 1..b /\ j \in (a + 1)..(a + b) /\ j - a \in 1..b
    <3>1. l[i] = t[i - a] /\ l[j] = t[j - a] /\ i - a < j - a
      BY <1>1, <1>7, <2>3
    <3> QED BY <1>1, <2>3, <3>1 DEF Ordered
  <2>4. CASE i \in (a + 1)..(a + b) /\ j \in 1..a
    BY <1>1, <1>7, <2>4
  <2> QED BY <1>3, <2>1, <2>2, <2>3, <2>4
<1>8. Ordered(l, R)
  BY <1>1, <1>7 DEF Ordered
<1> QED BY <1>1, <1>6, <1>8 DEF l

\* f is the recursion of FlattenSeq.
Joins(seqs, f) ==
  f = [i \in 1..Len(seqs) |-> IF i = 1 THEN seqs[i] ELSE f[i - 1] \o seqs[i]]

\* The values of that recursion.
Joining(seqs, n, f) ==
  f[1] = seqs[1] /\ \A i \in 2..n : f[i] = f[i - 1] \o seqs[i]

\* FlattenSeq is the last value of that recursion, which has a solution.
LEMMA FlattenUnfolds ==
  ASSUME NEW D, NEW n \in Nat \ {0}, NEW seqs \in [1..n -> Seq(D)]
  PROVE  \E f : Joining(seqs, n, f) /\ FlattenSeq(seqs) = f[n]
<1> DEFINE step == [i \in 1..n |-> [v \in Seq(D) |-> IF i = 1 THEN seqs[i] ELSE v \o seqs[i]]]
           f == CHOOSE g : Joins(seqs, g)
<1>1. seqs \in Seq(Seq(D)) /\ Len(seqs) = n /\ <<>> \in Seq(D) /\ n \in Nat
      /\ \A i \in 1..n : seqs[i] \in Seq(D)
  OBVIOUS
<1>2. step \in [1..n -> [Seq(D) -> Seq(D)]]
  <2>1. \A i \in 1..n, v \in Seq(D) : (IF i = 1 THEN seqs[i] ELSE v \o seqs[i]) \in Seq(D)
    BY <1>1
  <2> QED BY <2>1
<1>3. \A i \in 1..n, v \in Seq(D) : step[i][v] = IF i = 1 THEN seqs[i] ELSE v \o seqs[i]
  OBVIOUS
<1> HIDE DEF step
<1>4. PICK r \in [0..n -> Seq(D)] : Unfolds(r, n, <<>>, step)
  BY <1>1, <1>2, NatRecursion
<1>5. \A i \in 1..n : r[i] = IF i = 1 THEN seqs[i] ELSE r[i - 1] \o seqs[i]
  <2> SUFFICES ASSUME NEW i \in 1..n
               PROVE  r[i] = IF i = 1 THEN seqs[i] ELSE r[i - 1] \o seqs[i]
    OBVIOUS
  <2>1. r[i - 1] \in Seq(D)
    BY <1>1
  <2> QED BY <1>3, <1>4, <2>1 DEF Unfolds
<1> DEFINE q == [i \in 1..n |-> r[i]]
           p(i) == IF i = 1 THEN seqs[i] ELSE q[i - 1] \o seqs[i]
<1>6. Joins(seqs, q)
  <2>1. \A i \in 1..n : i # 1 => i - 1 \in 1..n
    BY <1>1
  <2>2. \A i \in 1..n : i # 1 => q[i - 1] = r[i - 1]
    BY <2>1
  <2>3. \A i \in 1..n : r[i] = p(i)
    <3> HIDE DEF q
    <3> QED BY <1>5, <2>2
  <2>4. q = [i \in 1..n |-> r[i]]
    OBVIOUS
  <2>5. Joins(seqs, q) <=> q = [i \in 1..n |-> p(i)]
    BY <1>1 DEF Joins
  <2> HIDE DEF p, q
  <2> QED BY <2>3, <2>4, <2>5
<1>7. Joins(seqs, f)
  BY <1>6
<1>8. FlattenSeq(seqs) = f[n]
  BY <1>1 DEF FlattenSeq, Joins
<1> HIDE DEF f, q
<1> DEFINE w(i) == IF i = 1 THEN seqs[i] ELSE f[i - 1] \o seqs[i]
<1>9. f = [i \in 1..n |-> w(i)]
  BY <1>1, <1>7 DEF Joins
<1>10. 1 \in 1..n /\ \A i \in 2..n : i \in 1..n /\ i # 1
  BY <1>1
<1>11. w(1) = seqs[1] /\ \A i \in 2..n : w(i) = f[i - 1] \o seqs[i]
  BY <1>10
<1> HIDE DEF w
<1>12. Joining(seqs, n, f)
  BY <1>9, <1>10, <1>11 DEF Joining
<1> QED BY <1>8, <1>12

\* What the lists at the places H of c hold: blocks at heights, mostly.
Blocks(c, H) == UNION {ToSet(c[h]) : h \in H}

\* Each of the first n lists is in order, and so are the elements of one and
\* those of a later one.
InLine(seqs, n, R) ==
  /\ \A k \in 1..n : Ordered(seqs[k], R)
  /\ \A j, k \in 1..n : j < k =>
       \A x \in ToSet(seqs[j]), y \in ToSet(seqs[k]) : <<x, y>> \in R

\* Many lists, one after the other: what is in one of them, in an order that
\* goes over each and from one to the next.
LEMMA FlattenFacts ==
  ASSUME NEW D, NEW n \in Nat, NEW seqs \in [1..n -> Seq(D)], NEW R,
         InLine(seqs, n, R)
  PROVE  /\ FlattenSeq(seqs) \in Seq(D) /\ Ordered(FlattenSeq(seqs), R)
         /\ ToSet(FlattenSeq(seqs)) = Blocks(seqs, 1..n)
<1>1. CASE n = 0
  <2>1. FlattenSeq(seqs) = <<>>
    BY <1>1 DEF FlattenSeq
  <2> QED BY <1>1, <2>1 DEF Ordered, ToSet, Blocks
<1>2. CASE n # 0
  <2>1. PICK f : Joining(seqs, n, f) /\ FlattenSeq(seqs) = f[n]
    BY <1>2, FlattenUnfolds
  <2>2. f[1] = seqs[1] /\ \A i \in 2..n : f[i] = f[i - 1] \o seqs[i]
    BY <2>1 DEF Joining
  <2> DEFINE U(i) == Blocks(seqs, 1..i)
             Fine(i) == f[i] \in Seq(D) /\ Ordered(f[i], R) /\ ToSet(f[i]) = U(i)
             m == n - 1
             I == {i \in 0..m : Fine(i + 1)}
  <2>3. n \in Nat /\ m \in Nat /\ n = m + 1 /\ \A i \in 1..n : seqs[i] \in Seq(D)
    BY <1>2
  <2>4. 1 \in 1..n /\ 0 \in 0..m /\ 0 + 1 = 1
    BY <2>3
  <2>5. Fine(1)
    <3>1. f[1] \in Seq(D) /\ Ordered(f[1], R)
      BY <2>2, <2>3, <2>4 DEF InLine
    <3>2. U(1) = ToSet(seqs[1])
      <4>1. 1..1 = {1}
        OBVIOUS
      <4> QED BY <4>1 DEF Blocks
    <3> QED BY <2>2, <3>1, <3>2
  <2>6. ASSUME NEW i \in 2..n, Fine(i - 1) PROVE Fine(i)
    <3> DEFINE s == f[i - 1]
               t == seqs[i]
    <3>1. i \in 1..n /\ i - 1 \in 1..n
      BY <2>3
    <3>2. s \in Seq(D) /\ Ordered(s, R) /\ ToSet(s) = U(i - 1) /\ t \in Seq(D)
          /\ Ordered(t, R) /\ f[i] = s \o t
      BY <2>2, <2>3, <2>6, <3>1 DEF InLine
    <3>3. \A x \in ToSet(s), y \in ToSet(t) : <<x, y>> \in R
      <4> SUFFICES ASSUME NEW x \in ToSet(s), NEW y \in ToSet(t) PROVE <<x, y>> \in R
        OBVIOUS
      <4>1. PICK k \in 1..(i - 1) : x \in ToSet(seqs[k])
        BY <3>2 DEF Blocks
      <4>2. k \in 1..n /\ k < i
        BY <2>3, <4>1
      <4> QED BY <3>1, <4>1, <4>2 DEF InLine
    <3>4. U(i) = U(i - 1) \cup ToSet(t)
      <4>1. 1..i = (1..(i - 1)) \cup {i}
        BY <2>3
      <4> QED BY <4>1 DEF Blocks
    <3> HIDE DEF s, t, U
    <3>5. s \o t \in Seq(D) /\ ToSet(s \o t) = ToSet(s) \cup ToSet(t) /\ Ordered(s \o t, R)
      BY <3>2, <3>3, Joined
    <3> QED BY <3>2, <3>4, <3>5
  <2> HIDE DEF Fine
  <2>7. 0 \in I
    BY <2>4, <2>5
  <2>8. \A i \in 1..m : i - 1 \in I => i \in I
    <3> SUFFICES ASSUME NEW i \in 1..m, i - 1 \in I PROVE i \in I
      OBVIOUS
    <3>1. i + 1 \in 2..n /\ (i - 1) + 1 = i /\ (i + 1) - 1 = i /\ i \in 0..m
      BY <2>3
    <3>2. Fine((i - 1) + 1)
      OBVIOUS
    <3>3. Fine(i)
      BY <3>1, <3>2
    <3>4. Fine(i + 1)
      BY <2>6, <3>1, <3>3
    <3> QED BY <3>1, <3>4
  <2> HIDE DEF I, m
  <2>9. \A i \in 0..m : i \in I
    BY <2>3, <2>7, <2>8, Induct
  <2>10. m \in I
    BY <2>3, <2>9
  <2>11. Fine(n)
    BY <2>3, <2>10 DEF I
  <2> QED BY <2>1, <2>11 DEF Fine
<1> QED BY <1>1, <1>2

\* The list of a finite set holds each of its elements once.
LEMMA SetToSeqFacts ==
  ASSUME NEW P, IsFiniteSet(P)
  PROVE  SetToSeq(P) \in Seq(P) /\ ToSet(SetToSeq(P)) = P /\ IsInjective(SetToSeq(P))
<1> DEFINE n == Cardinality(P)
           f == SetToSeq(P)
<1>1. n \in Nat /\ ExistsBijection(1..n, P)
  BY FS_CardinalityType
<1>2. \E g \in [1..n -> P] : IsInjective(g)
  BY <1>1 DEF ExistsBijection, Bijection, Injection
<1>3. f \in [1..n -> P] /\ IsInjective(f)
  BY <1>2 DEF SetToSeq
<1> HIDE DEF f
<1>4. f \in Injection(1..n, P)
  BY <1>3 DEF Injection
<1>5. IsFiniteSet(1..n) /\ Cardinality(1..n) = n
  <2>1. 1 \in Int /\ n \in Int
    BY <1>1
  <2>2. Cardinality(1..n) = IF 1 > n THEN 0 ELSE n - 1 + 1
    BY <2>1, FS_Interval
  <2> HIDE DEF n
  <2> QED BY <1>1, <2>1, <2>2, FS_Interval
<1>6. f \in Surjection(1..n, P)
  <2> DEFINE S == 1..n
  <2>1. f \in Injection(S, P) /\ IsFiniteSet(P) /\ Cardinality(S) = Cardinality(P)
    BY <1>4, <1>5
  <2> HIDE DEF S
  <2>2. f \in Surjection(S, P)
    BY <2>1, FS_Injection
  <2> QED BY <2>2 DEF S
<1>7. ToSet(f) = P
  BY <1>3, <1>6 DEF ToSet, Surjection
<1>8. f \in Seq(P)
  BY <1>1, <1>3
<1> QED BY <1>3, <1>7, <1>8 DEF f

\* The heights the page counts down from h are those of its window.
LEMMA WindowHeights ==
  ASSUME NEW h \in Nat, NEW w \in Nat
  PROVE  {h + 1 - i : i \in 1..Cardinality(Window(h, w))} = Window(h, w)
<1> DEFINE lo == IF h > w THEN h - w + 1 ELSE 1
           n == Cardinality(lo..h)
<1>1. lo \in Nat /\ 1 <= lo /\ lo <= h + 1 /\ Window(h, w) = lo..h
  BY DEF Window
<1> HIDE DEF lo
<1>2. lo \in Int /\ h \in Int
  BY <1>1
<1>3. n = IF lo > h THEN 0 ELSE h - lo + 1
  BY <1>2, FS_Interval
<1> HIDE DEF n
<1>4. n = h - lo + 1
  BY <1>1, <1>3
<1>5. \A i \in 1..n : h + 1 - i \in lo..h
  BY <1>1, <1>4
<1>6. \A k \in lo..h : h + 1 - k \in 1..n /\ k = h + 1 - (h + 1 - k)
  BY <1>1, <1>4
<1>7. {h + 1 - i : i \in 1..n} = lo..h
  BY <1>5, <1>6
<1> QED BY <1>1, <1>7 DEF n

\* A list for each of the n heights from h down.
Down(h, n, F) == [i \in 1..n |-> F[h + 1 - i]]

\* The list of each height of W is in order, and so are the elements of one
\* and those of a lower one.
Falling(F, W, R) ==
  /\ \A k \in W : Ordered(F[k], R)
  /\ \A j, k \in W : k < j => \A x \in ToSet(F[j]), y \in ToSet(F[k]) : <<x, y>> \in R

\* The lists of the blocks of a window, newest first, one after the other.
LEMMA BlockLists ==
  ASSUME NEW h \in Nat, NEW w \in Nat, NEW D, NEW F \in [Window(h, w) -> Seq(D)], NEW R,
         Falling(F, Window(h, w), R),
         NEW l, l = FlattenSeq(Down(h, Cardinality(Window(h, w)), F))
  PROVE  /\ l \in Seq(D) /\ Ordered(l, R)
         /\ ToSet(l) = Blocks(F, Window(h, w))
<1> DEFINE W == Window(h, w)
           n == Cardinality(W)
           seqs == [i \in 1..n |-> F[h + 1 - i]]
<1>1. {h + 1 - i : i \in 1..n} = W
  BY WindowHeights
<1>2. n \in 0..h /\ W \subseteq 1..h
  BY WindowSize, WindowIn
<1>3. l = FlattenSeq(seqs)
  BY DEF Down
<1> HIDE DEF n, W
<1>4. n \in Nat /\ \A i \in 1..n : h + 1 - i \in W
  BY <1>1, <1>2
<1>5. seqs \in [1..n -> Seq(D)] /\ \A i \in 1..n : seqs[i] = F[h + 1 - i]
  BY <1>4 DEF W
<1>6. \A k \in 1..n : Ordered(seqs[k], R)
  BY <1>4, <1>5 DEF W, Falling
<1>7. \A j, k \in 1..n : j < k =>
        \A x \in ToSet(seqs[j]), y \in ToSet(seqs[k]) : <<x, y>> \in R
  <2> SUFFICES ASSUME NEW j \in 1..n, NEW k \in 1..n, j < k,
                      NEW x \in ToSet(seqs[j]), NEW y \in ToSet(seqs[k])
               PROVE  <<x, y>> \in R
    OBVIOUS
  <2> DEFINE a == h + 1 - j
             b == h + 1 - k
  <2>1. a \in W /\ b \in W /\ b < a
    BY <1>2, <1>4
  <2>2. x \in ToSet(F[a]) /\ y \in ToSet(F[b])
    BY <1>5
  <2> HIDE DEF a, b, seqs
  <2> QED BY <2>1, <2>2 DEF W, Falling
<1>8. Blocks(seqs, 1..n) = Blocks(F, W)
  <2>1. \A x : (\E i \in 1..n : x \in ToSet(seqs[i])) <=> (\E k \in W : x \in ToSet(F[k]))
    BY <1>1, <1>5
  <2> QED BY <2>1 DEF Blocks
<1> HIDE DEF seqs
<1>10. InLine(seqs, n, R)
  BY <1>6, <1>7 DEF InLine
<1>9. /\ FlattenSeq(seqs) \in Seq(D) /\ Ordered(FlattenSeq(seqs), R)
      /\ ToSet(FlattenSeq(seqs)) = Blocks(seqs, 1..n)
  BY <1>4, <1>5, <1>10, FlattenFacts
<1> QED BY <1>3, <1>8, <1>9 DEF W
-----------------------------------------------------------------------------
(* The wallet: what its list holds.                                        *)

\* Entries, and pairs of entries of different transactions.
Entries == [tx : Txs, height : Nat]
Apart == {p \in Entries \X Entries : p[1].tx # p[2].tx}

\* The transactions a list of the wallet shows in blocks, and as pending.
InBlocks(l) == {e.tx : e \in {e \in ToSet(l) : e.height # 0}}
InPool(l)   == {e.tx : e \in {e \in ToSet(l) : e.height = 0}}

\* A list of entries made from different transactions.
LEMMA DecodedTxs ==
  ASSUME NEW txs \in Seq(Txs), IsInjective(txs), NEW k \in Nat
  PROVE  /\ DecodeTxs(txs, k) \in Seq(Entries) /\ Ordered(DecodeTxs(txs, k), Apart)
         /\ ToSet(DecodeTxs(txs, k)) = {Entry(t, k) : t \in ToSet(txs)}
<1> DEFINE l == DecodeTxs(txs, k)
<1>1. DOMAIN txs = 1..Len(txs) /\ \A i \in DOMAIN txs : txs[i] \in Txs
  OBVIOUS
<1>2. DOMAIN l = DOMAIN txs /\ \A i \in DOMAIN txs : l[i] = Entry(txs[i], k)
  BY DEF DecodeTxs
<1>3. \A t \in Txs : Entry(t, k) \in Entries /\ Entry(t, k).tx = t
  BY DEF Entry, Entries
<1>4. l \in Seq(Entries)
  <2>1. l \in [1..Len(txs) -> Entries]
    BY <1>1, <1>3 DEF DecodeTxs
  <2> HIDE DEF l
  <2> QED BY <2>1
<1> HIDE DEF l
<1>5. Ordered(l, Apart)
  <2> SUFFICES ASSUME NEW i \in DOMAIN txs, NEW j \in DOMAIN txs, i < j
               PROVE  <<l[i], l[j]>> \in Apart
    BY <1>2 DEF Ordered
  <2>1. i # j
    BY <1>1
  <2>2. txs[i] # txs[j]
    BY <2>1 DEF IsInjective
  <2>3. l[i] \in Entries /\ l[j] \in Entries /\ l[i].tx # l[j].tx
    BY <1>1, <1>2, <1>3, <2>2
  <2> QED BY <2>3 DEF Apart
<1>6. ToSet(l) = {Entry(t, k) : t \in ToSet(txs)}
  BY <1>2 DEF ToSet
<1> QED BY <1>4, <1>5, <1>6 DEF l

\* The confirmed entries: one for each transaction of the window.
LEMMA ConfirmedEntries ==
  ASSUME NodeInv, NEW h \in 1..tip
  PROVE  /\ ConfirmedList(h) \in Seq(Entries) /\ Ordered(ConfirmedList(h), Apart)
         /\ ToSet(ConfirmedList(h)) =
              UNION {{Entry(t, k) : t \in ToSet(chain[k])} : k \in Window(h, WaWindow)}
<1> DEFINE W == Window(h, WaWindow)
           F == [k \in W |-> DecodeTxs(chain[k], k)]
           n == Cardinality(W)
           l == ConfirmedList(h)
<1>1. h \in Nat /\ WaWindow \in Nat /\ tip \in Nat
  BY WalletAssumption DEF NodeInv, NodeTypeOK, tip
<1>0. {h + 1 - i : i \in 1..n} = W
  BY <1>1, WindowHeights
<1>2. W \subseteq 1..tip /\ n \in 0..h
  <2>1. W \subseteq 1..h
    BY <1>1, WindowIn
  <2> HIDE DEF W
  <2>2. W \subseteq 1..tip
    BY <1>1, <2>1
  <2> QED BY <1>1, <2>2, WindowSize DEF W
<1>3. l = FlattenSeq([i \in 1..n |-> DecodeTxs(chain[h + 1 - i], h + 1 - i)])
  BY DEF ConfirmedList
<1> HIDE DEF W, n, l
<1>4. ASSUME NEW k \in W
      PROVE  /\ F[k] \in Seq(Entries) /\ Ordered(F[k], Apart)
             /\ ToSet(F[k]) = {Entry(t, k) : t \in ToSet(chain[k])}
  <2>1. chain[k] \in Seq(Txs) /\ IsInjective(chain[k]) /\ k \in Nat
    BY <1>1, <1>2 DEF NodeInv, NodeTypeOK, tip
  <2>2. F[k] = DecodeTxs(chain[k], k)
    OBVIOUS
  <2> QED BY <2>1, <2>2, DecodedTxs
<1>5. l = FlattenSeq(Down(h, n, F))
  <2>1. \A i \in 1..n : h + 1 - i \in W
    BY <1>0
  <2>2. \A i \in 1..n : F[h + 1 - i] = DecodeTxs(chain[h + 1 - i], h + 1 - i)
    BY <2>1
  <2>3. Down(h, n, F) = [i \in 1..n |-> DecodeTxs(chain[h + 1 - i], h + 1 - i)]
    <3> HIDE DEF F
    <3> QED BY <2>2 DEF Down
  <2> QED BY <1>3, <2>3
<1>6. F \in [W -> Seq(Entries)]
  BY <1>4
<1> HIDE DEF F
<1>7. \A j, k \in W : k < j => \A x \in ToSet(F[j]), y \in ToSet(F[k]) : <<x, y>> \in Apart
  <2> SUFFICES ASSUME NEW j \in W, NEW k \in W, k < j,
                      NEW x \in ToSet(F[j]), NEW y \in ToSet(F[k])
               PROVE  <<x, y>> \in Apart
    OBVIOUS
  <2>1. PICK t \in ToSet(chain[j]) : x = Entry(t, j)
    BY <1>4
  <2>2. PICK u \in ToSet(chain[k]) : y = Entry(u, k)
    BY <1>4
  <2>3. j # k /\ j \in 1..tip /\ k \in 1..tip
    BY <1>1, <1>2
  <2>4. t # u
    BY <2>3 DEF NodeInv
  <2>5. x \in Entries /\ y \in Entries
    <3>1. \A r \in W : F[r] \in Seq(Entries)
      BY <1>4
    <3> QED BY <3>1 DEF ToSet
  <2> QED BY <2>1, <2>2, <2>4, <2>5 DEF Apart, Entry
<1>8. /\ l \in Seq(Entries) /\ Ordered(l, Apart)
      /\ ToSet(l) = Blocks(F, W)
  <2>1. Falling(F, W, Apart)
    BY <1>4, <1>7 DEF Falling
  <2> QED BY <1>1, <1>5, <1>6, <2>1, BlockLists DEF W, n
<1> DEFINE E(k) == {Entry(t, k) : t \in ToSet(chain[k])}
<1>9. Blocks(F, W) = UNION {E(k) : k \in W}
  <2>1. \A k \in W : ToSet(F[k]) = E(k)
    BY <1>4
  <2> HIDE DEF E
  <2> QED BY <2>1 DEF Blocks
<1> QED BY <1>8, <1>9 DEF l, W

\* A list of the wallet for an address it was given, at height h: the
\* transactions of the window that mention it, and of what was submitted some
\* that do and are in no block below h; none twice.
WaListed(l, h, q, c) ==
  /\ l \in Seq(Entries) /\ Ordered(l, Apart)
  /\ \E a \in Entered :
       /\ InBlocks(l) = Mentioning(a) \cap Blocks(c, Window(h, WaWindow))
       /\ InPool(l) \subseteq (Mentioning(a) \cap q) \ Blocks(c, 1..(h - 1))

\* The pending entries: those of no transaction of the window.
LEMMA PendingEntries ==
  ASSUME NodeInv, NEW h \in 1..tip, NEW P \in SUBSET Txs
  PROVE  /\ PendingOnly(h, P) \in Seq(Entries) /\ Ordered(PendingOnly(h, P), Apart)
         /\ ToSet(PendingOnly(h, P)) =
              {Entry(t, 0) : t \in P \ {e.tx : e \in ToSet(ConfirmedList(h))}}
<1> DEFINE Q == P \ {e.tx : e \in ToSet(ConfirmedList(h))}
           s == SetToSeq(Q)
<1>1. Q \subseteq Txs /\ PendingOnly(h, P) = DecodeTxs(s, 0)
  BY DEF PendingOnly
<1> HIDE DEF Q
<1>2. IsFiniteSet(Q)
  BY <1>1, NodeAssumption, FS_Subset
<1>3. s \in Seq(Q) /\ ToSet(s) = Q /\ IsInjective(s)
  BY <1>2, SetToSeqFacts
<1> HIDE DEF s
<1>4. s \in Seq(Txs) /\ 0 \in Nat
  BY <1>1, <1>3
<1>5. /\ DecodeTxs(s, 0) \in Seq(Entries) /\ Ordered(DecodeTxs(s, 0), Apart)
      /\ ToSet(DecodeTxs(s, 0)) = {Entry(t, 0) : t \in ToSet(s)}
  BY <1>3, <1>4, DecodedTxs
<1> QED BY <1>1, <1>3, <1>5 DEF Q

\* The list a poll makes is one of an honest look at the chain.
LEMMA ActivityListed ==
  ASSUME NodeInv, NEW h \in 1..tip, NEW P \in SUBSET Txs, NEW a \in Entered,
         P \subseteq sent, P \cap Blocks(chain, 1..(h - 1)) = {}
  PROVE  WaListed(ActivityOf(a, h, P), h, sent, chain)
<1> DEFINE W == Window(h, WaWindow)
           conf == ConfirmedList(h)
           pend == PendingOnly(h, P)
           all == pend \o conf
           S == {e \in ToSet(all) : Involves(e, a)}
           l == ActivityOf(a, h, P)
           C == {e.tx : e \in ToSet(conf)}
<1>1. W \subseteq 1..tip
  <2>1. h \in Nat /\ WaWindow \in Nat /\ tip \in Nat
    BY WalletAssumption DEF NodeInv, NodeTypeOK, tip
  <2>2. W \subseteq 1..h
    BY <2>1, WindowIn
  <2> HIDE DEF W
  <2> QED BY <2>1, <2>2
<1>2. /\ conf \in Seq(Entries) /\ Ordered(conf, Apart)
      /\ ToSet(conf) = UNION {{Entry(t, k) : t \in ToSet(chain[k])} : k \in W}
  BY ConfirmedEntries
<1>3. /\ pend \in Seq(Entries) /\ Ordered(pend, Apart)
      /\ ToSet(pend) = {Entry(t, 0) : t \in P \ C}
  BY PendingEntries
<1>4. l = Kept(all, S)
  BY DEF ActivityOf
<1> HIDE DEF conf, pend, l, W
<1>5. \A x \in ToSet(pend), y \in ToSet(conf) : <<x, y>> \in Apart
  <2> SUFFICES ASSUME NEW x \in ToSet(pend), NEW y \in ToSet(conf) PROVE <<x, y>> \in Apart
    OBVIOUS
  <2>1. x \in Entries /\ y \in Entries
    BY <1>2, <1>3 DEF ToSet
  <2>2. x.tx \notin C /\ y.tx \in C
    BY <1>3 DEF Entry
  <2> QED BY <2>1, <2>2 DEF Apart
<1>6. all \in Seq(Entries) /\ ToSet(all) = ToSet(pend) \cup ToSet(conf) /\ Ordered(all, Apart)
  BY <1>2, <1>3, <1>5, Joined
<1> HIDE DEF all
<1>7. l \in Seq(Entries) /\ ToSet(l) = ToSet(all) \cap S /\ Ordered(l, Apart)
  BY <1>4, <1>6, KeptFacts
<1>8. \A e : e \in ToSet(l) <=> (e \in ToSet(pend) \/ e \in ToSet(conf)) /\ Involves(e, a)
  BY <1>6, <1>7
<1> HIDE DEF S
<1>9. \A t \in Txs : \A k : Involves(Entry(t, k), a) <=> t \in Mentioning(a)
  BY DEF Involves, Entry, Mentioning
<1>10. \A k \in W : ToSet(chain[k]) \subseteq Txs /\ k # 0 /\ k \in 1..tip
  <2> SUFFICES ASSUME NEW k \in W PROVE ToSet(chain[k]) \subseteq Txs /\ k # 0 /\ k \in 1..tip
    OBVIOUS
  <2>1. k \in 1..tip /\ k # 0
    BY <1>1 DEF NodeInv, NodeTypeOK, tip
  <2>2. chain[k] \in Seq(Txs)
    BY <2>1 DEF NodeInv, NodeTypeOK, tip
  <2> QED BY <2>1, <2>2 DEF ToSet
<1>11. \A e : e \in ToSet(conf) <=> \E k \in W : \E t \in ToSet(chain[k]) : e = Entry(t, k)
  BY <1>2
<1>12. InBlocks(l) = Mentioning(a) \cap Blocks(chain, W)
  <2>1. ASSUME NEW x \in InBlocks(l) PROVE x \in Mentioning(a) \cap Blocks(chain, W)
    <3>1. PICK e \in ToSet(l) : e.height # 0 /\ x = e.tx
      BY <2>1 DEF InBlocks
    <3>2. e \notin ToSet(pend)
      BY <1>3, <3>1 DEF Entry
    <3>3. PICK k \in W : \E t \in ToSet(chain[k]) : e = Entry(t, k)
      BY <1>8, <1>11, <3>2
    <3>4. PICK t \in ToSet(chain[k]) : e = Entry(t, k)
      BY <3>3
    <3>5. x = t /\ t \in Txs /\ t \in Blocks(chain, W)
      BY <1>10, <3>1, <3>4 DEF Entry, Blocks
    <3> QED BY <1>8, <1>9, <3>4, <3>5
  <2>2. ASSUME NEW x \in Mentioning(a), x \in Blocks(chain, W) PROVE x \in InBlocks(l)
    <3>1. PICK k \in W : x \in ToSet(chain[k])
      BY <2>2 DEF Blocks
    <3>2. Entry(x, k) \in ToSet(conf) /\ x \in Txs /\ k # 0
      BY <1>10, <1>11, <3>1
    <3>3. Entry(x, k) \in ToSet(l)
      BY <1>8, <1>9, <3>2
    <3> QED BY <3>2, <3>3 DEF InBlocks, Entry
  <2> QED BY <2>1, <2>2
<1>13. InPool(l) \subseteq (Mentioning(a) \cap sent) \ Blocks(chain, 1..(h - 1))
  <2> SUFFICES ASSUME NEW x \in InPool(l)
               PROVE  x \in Mentioning(a) /\ x \in P
    OBVIOUS
  <2>1. PICK e \in ToSet(l) : e.height = 0 /\ x = e.tx
    BY DEF InPool
  <2>2. e \notin ToSet(conf)
    BY <1>10, <1>11, <2>1 DEF Entry
  <2>3. PICK t \in P \ C : e = Entry(t, 0)
    BY <1>3, <1>8, <2>2
  <2> QED BY <1>8, <1>9, <2>1, <2>3 DEF Entry
<1> QED BY <1>7, <1>12, <1>13 DEF WaListed, l, W
-----------------------------------------------------------------------------
(* What the polls of markets, wallet and mempool carry across their awaits. *)

\* The pages that show what a look at the chain shows.
Feeds == {"markets", "wallet", "mempool"}

\* Some transactions taken for pending at height h were submitted and are in
\* no block below h: the node saves a block before it clears its pool, so they
\* may be in the block at that height.
Pending(P, h, q, c) == P \subseteq q /\ P \cap Blocks(c, 1..(h - 1)) = {}

\* A poll that has its height looks at blocks that are there; what it took for
\* pending is; the list it is about to write is one of its height.
Looking(p, n, q, c) ==
  /\ p.pc \in {"lists", "pool", "blocks", "balance"} => p.h \in 1..n
  /\ p.pc = "blocks" => Pending(p.P, p.h, q, c)
  /\ p.pc = "balance" => WaListed(p.txs, p.h, q, c)

\* All the polls of a page.
Looks == \A s \in Slots : Looking(polls[s], tip, sent, chain)

\* What a look relies on: the pool holds nothing from below the newest block.
PoolInv ==
  /\ Blocks(chain, 1..tip) \subseteq sent
  /\ pool \cap Blocks(chain, 1..(tip - 1)) = {}

\* What blocks hold does not change.
LEMMA BlocksKept ==
  ASSUME Grown, NEW H \in SUBSET (1..tip)
  PROVE  Blocks(chain', H) = Blocks(chain, H)
BY DEF Grown, Blocks

\* What a poll carries stays right as the chain grows: blocks come at or above
\* its height.
LEMMA LookingStays ==
  ASSUME Grown, NEW p, Looking(p, tip, sent, chain)
  PROVE  Looking(p, tip', sent', chain')
<1>1. p.h \in 1..tip => p.h \in 1..tip' /\ p.h \in Nat
  BY DEF Grown
<1>2. ASSUME p.h \in 1..tip, Pending(p.P, p.h, sent, chain)
      PROVE  Pending(p.P, p.h, sent', chain')
  <2>1. 1..(p.h - 1) \in SUBSET (1..tip)
    BY <1>2 DEF Grown
  <2>2. Blocks(chain', 1..(p.h - 1)) = Blocks(chain, 1..(p.h - 1))
    BY <2>1, BlocksKept
  <2> QED BY <1>2, <2>2 DEF Pending, Grown
<1>3. ASSUME p.h \in 1..tip, WaListed(p.txs, p.h, sent, chain)
      PROVE  WaListed(p.txs, p.h, sent', chain')
  <2> DEFINE h == p.h
             W == Window(h, WaWindow)
             L == 1..(h - 1)
  <2>1. W \subseteq 1..h
    BY <1>1, <1>3, WalletAssumption, WindowIn
  <2>2. 1..h \subseteq 1..tip /\ L \in SUBSET (1..tip)
    BY <1>3 DEF Grown
  <2> HIDE DEF W, L
  <2>3. Blocks(chain', W) = Blocks(chain, W) /\ Blocks(chain', L) = Blocks(chain, L)
    BY <2>1, <2>2, BlocksKept
  <2>4. sent \subseteq sent'
    BY DEF Grown
  <2> QED BY <1>3, <2>3, <2>4 DEF WaListed, W, L
<1> QED BY <1>1, <1>2, <1>3 DEF Looking

\* One poll goes on.
LEMMA LooksOn ==
  ASSUME PollsInv, Looks, Grown, NEW s \in Slots, NEW p,
         polls' = [polls EXCEPT ![s] = p], Looking(p, tip, sent, chain)
  PROVE  Looks'
<1> SUFFICES ASSUME NEW r \in Slots PROVE Looking(polls'[r], tip', sent', chain')
  BY DEF Looks
<1>1. polls'[r] = p \/ polls'[r] = polls[r]
  BY DEF PollsInv
<1>2. Looking(polls[r], tip, sent, chain)
  BY DEF Looks
<1> QED BY <1>1, <1>2, LookingStays

\* None does.
LEMMA LooksStay ==
  ASSUME Looks, Grown, UNCHANGED polls
  PROVE  Looks'
<1> SUFFICES ASSUME NEW r \in Slots PROVE Looking(polls'[r], tip', sent', chain')
  BY DEF Looks
<1>2. Looking(polls[r], tip, sent, chain)
  BY DEF Looks
<1> QED BY <1>2, LookingStays

\* A poll that begins or ends carries nothing.
LEMMA LooksEnd ==
  ASSUME PollsInv, Looks, Grown, NEW s \in Slots,
         polls' = [polls EXCEPT ![s] = Idle] \/ polls' = [polls EXCEPT ![s] = Waiting]
  PROVE  Looks'
<1>1. Looking(Idle, tip, sent, chain) /\ Looking(Waiting, tip, sent, chain)
  BY DEF Looking, Idle, Waiting
<1> QED BY <1>1, LooksOn

\* A poll that has its height from /status.
LEMMA LooksAt ==
  ASSUME PollsInv, Looks, Grown, tip > 0, NEW s \in Slots, NEW l \in {"lists", "pool"},
         polls' = [polls EXCEPT ![s] = [pc |-> l, h |-> tip]]
  PROVE  Looks'
<1> DEFINE p == [pc |-> l, h |-> tip]
<1>1. p.pc = l /\ p.h \in 1..tip
  BY DEF Grown
<1> HIDE DEF p
<1>2. Looking(p, tip, sent, chain)
  BY <1>1 DEF Looking
<1> QED BY <1>2, LooksOn DEF p

\* A poll that has the pool.
LEMMA LooksIn ==
  ASSUME NodeInv, PoolInv, PollsInv, Looks, Grown, NEW s \in Slots,
         polls[s].pc \in {"lists", "pool"},
         polls' = [polls EXCEPT ![s] = [pc |-> "blocks", h |-> polls[s].h, P |-> pool]]
  PROVE  Looks'
<1> DEFINE h == polls[s].h
           p == [pc |-> "blocks", h |-> h, P |-> pool]
<1>1. h \in 1..tip /\ tip \in Nat
  BY DEF Looks, Looking, Grown
<1>0. polls' = [polls EXCEPT ![s] = p]
  OBVIOUS
<1> HIDE DEF h
<1>2. Blocks(chain, 1..(h - 1)) \subseteq Blocks(chain, 1..(tip - 1))
  BY <1>1 DEF Blocks
<1>3. Pending(pool, h, sent, chain)
  BY <1>2 DEF Pending, PoolInv, NodeInv, NodeTypeOK
<1>4. p.pc = "blocks" /\ p.h = h /\ p.P = pool
  OBVIOUS
<1> HIDE DEF p
<1>5. Looking(p, tip, sent, chain)
  BY <1>1, <1>3, <1>4 DEF Looking
<1> QED BY <1>0, <1>5, LooksOn
-----------------------------------------------------------------------------
\* What the wallet page shows: a list in which no transaction stands twice.
WaPage ==
  /\ address \in Entered
  /\ shown = [online |-> shown.online, h |-> shown.h, txs |-> shown.txs]
  /\ shown.txs \in Seq(Entries) /\ Ordered(shown.txs, Apart)

\* The steps of the wallet page.
WaMove == WaUser \/ \E s \in Slots : WaTick(s) \/ WaStep(s)

\* Any other step leaves it alone.
LEMMA WaMoves ==
  ASSUME [Next]_vars, page = "wallet"
  PROVE  (WaMove /\ UNCHANGED nodeVars) \/ UNCHANGED <<polls, shown, address>>
<1>1. CASE Chain
  BY <1>1 DEF Chain, pageVars, walletVars
<1>2. CASE Timer
  BY <1>2 DEF Timer, othersThan, WaMove
<1>3. CASE \E s \in Slots : Answer(s)
  BY <1>3 DEF Answer, othersThan, WaMove
<1>4. CASE User
  BY <1>4 DEF User, othersThan, WaMove
<1>5. CASE UNCHANGED vars
  BY <1>5 DEF vars, pageVars, walletVars
<1> QED BY <1>1, <1>2, <1>3, <1>4, <1>5 DEF Next

\* For what is no address the list is empty, as it should be: transactions
\* mention addresses only.
LEMMA NoneListed ==
  ASSUME NEW a \in Entered, a \notin IreAddrs, NEW h
  PROVE  WaListed(<<>>, h, sent, chain)
<1>1. Mentioning(a) = {}
  BY WalletAssumption DEF Mentioning
<1>2. InBlocks(<<>>) = {} /\ InPool(<<>>) = {} /\ <<>> \in Seq(Entries)
  BY DEF InBlocks, InPool, ToSet
<1>3. Ordered(<<>>, Apart)
  BY DEF Ordered
<1> QED BY <1>1, <1>2, <1>3 DEF WaListed

\* The polls of the wallet page keep what they carry.
LEMMA WaLooks ==
  ASSUME NodeInv, PoolInv, PollsInv, Looks, Grown, page = "wallet", WaPage,
         WaMove, UNCHANGED nodeVars
  PROVE  Looks'
<1>1. CASE WaUser
  <2>1. PICK a \in Entered : WaSubmitOther(a) \/ \E s \in Slots : WaSubmit(s, a)
    BY <1>1 DEF WaUser
  <2>2. CASE WaSubmitOther(a)
    BY <2>2, LooksStay DEF WaSubmitOther
  <2>3. ASSUME NEW s \in Slots, WaSubmit(s, a) PROVE Looks'
    <3> DEFINE p == [pc |-> "lookup", addr |-> a]
    <3>1. polls' = [polls EXCEPT ![s] = Waiting] \/ polls' = [polls EXCEPT ![s] = p]
      BY <2>3 DEF WaSubmit, Goto
    <3>2. p.pc = "lookup"
      OBVIOUS
    <3> HIDE DEF p
    <3>3. Looking(p, tip, sent, chain)
      BY <3>2 DEF Looking
    <3> QED BY <3>1, <3>3, LooksOn, LooksEnd
  <2> QED BY <2>1, <2>2, <2>3
<1>2. ASSUME NEW s \in Slots, WaTick(s) \/ WaStep(s) PROVE Looks'
  <2>1. CASE WaTick(s) \/ WaBalance(s) \/ WaFails(s) \/ WaLookup(s)
    BY <2>1, LooksEnd DEF WaTick, WaBalance, WaFails, WaLookup, Goto
  <2>2. CASE WaStatus(s)
    BY <2>2, LooksAt DEF WaStatus, Goto
  <2>3. CASE WaPool(s)
    BY <2>3, LooksIn DEF WaPool, Goto, At
  <2>4. CASE WaBlocks(s)
    <3> DEFINE h == polls[s].h
               P == polls[s].P
               l == ActivityOf(address, h, P)
               p == [pc |-> "balance", h |-> h, addr |-> address, txs |-> l]
    <3>1. polls' = [polls EXCEPT ![s] = Idle] \/ polls' = [polls EXCEPT ![s] = p]
      BY <2>4 DEF WaBlocks, Goto
    <3>2. polls[s].pc = "blocks" /\ Looking(polls[s], tip, sent, chain)
      BY <2>4 DEF WaBlocks, At, Looks
    <3>3. h \in 1..tip /\ Pending(P, h, sent, chain)
      BY <3>2 DEF Looking
    <3> HIDE DEF h, P
    <3>4. P \in SUBSET Txs /\ P \subseteq sent /\ P \cap Blocks(chain, 1..(h - 1)) = {}
          /\ address \in Entered
      BY <3>3 DEF Pending, NodeInv, NodeTypeOK, WaPage
    <3>5. WaListed(l, h, sent, chain)
      BY <3>3, <3>4, ActivityListed
    <3> HIDE DEF l
    <3>6. p.pc = "balance" /\ p.h = h /\ p.txs = l
      OBVIOUS
    <3> HIDE DEF p
    <3>7. Looking(p, tip, sent, chain)
      BY <3>3, <3>5, <3>6 DEF Looking
    <3> QED BY <3>1, <3>7, LooksOn, LooksEnd
  <2> QED BY <1>2, <2>1, <2>2, <2>3, <2>4 DEF WaStep
<1> QED BY <1>1, <1>2 DEF WaMove

\* A list of one look at the chain, written.
LEMMA WalletSight ==
  ASSUME Grown, page = "wallet", WaPage, UNCHANGED nodeVars, NEW h \in 1..tip,
         NEW l, WaListed(l, h, sent, chain), WaWrite(h, l), address' \in Entered
  PROVE  WaPage' /\ HV!Look
<1>1. PICK a \in Entered :
       /\ InBlocks(l) = Mentioning(a) \cap Blocks(chain, Window(h, WaWindow))
       /\ InPool(l) \subseteq (Mentioning(a) \cap sent) \ Blocks(chain, 1..(h - 1))
  BY DEF WaListed
<1>2. shown'.h = h /\ shown'.txs = l /\ shown' = [online |-> shown'.online, h |-> h, txs |-> l]
  BY DEF WaWrite
<1>3. WaPage'
  BY <1>2 DEF WaPage, WaListed
<1>4. Seen'.n = WaWindow /\ Seen'.h = h /\ Seen'.lenses = {Mentioning(b) : b \in Entered}
      /\ Seen'.confirmed = InBlocks(l) /\ Seen'.pending = InPool(l)
  BY <1>2 DEF Seen, Grown, InBlocks, InPool
<1>5. Seen.n = WaWindow /\ Seen.lenses = {Mentioning(b) : b \in Entered}
  BY DEF Seen
<1>6. HV!Recent(h, WaWindow) = Window(h, WaWindow)
  BY DEF HV!Recent, Window
<1>7. \A H : HV!In(H) = Blocks(chain, H)
  BY DEF HV!In, Blocks, HV!ToSet, ToSet
<1> DEFINE L == Mentioning(a)
<1>8. L \in Seen.lenses
  BY <1>5
<1> HIDE DEF L
<1>9. /\ Seen'.confirmed = L \cap HV!In(HV!Recent(Seen'.h, Seen.n))
      /\ Seen'.pending \subseteq (L \cap sent) \ HV!In(1..(Seen'.h - 1))
  BY <1>1, <1>4, <1>5, <1>6, <1>7 DEF L
<1>10. Seen'.h \in 1..Len(chain) /\ UNCHANGED <<chain, sent>>
  BY <1>4 DEF tip, nodeVars
<1> QED BY <1>3, <1>4, <1>5, <1>8, <1>9, <1>10 DEF HV!Look

\* A view with nothing in it.
Emptied(v) == [v EXCEPT !.confirmed = {}, !.pending = {}]

\* All else of it stays.
LEMMA Cleared ==
  ASSUME NEW n, NEW h, NEW L, NEW y, NEW z, NEW v,
         v = [n |-> n, h |-> h, lenses |-> L, confirmed |-> y, pending |-> z]
  PROVE  Emptied(v) =
         [n |-> n, h |-> h, lenses |-> L, confirmed |-> {}, pending |-> {}]
<1> DEFINE u == [v EXCEPT !.confirmed = {}]
           w == [v EXCEPT !.confirmed = {}, !.pending = {}]
<1>1. u = [n |-> n, h |-> h, lenses |-> L, confirmed |-> {}, pending |-> z]
  OBVIOUS
<1>2. w = [u EXCEPT !.pending = {}]
  OBVIOUS
<1> HIDE DEF u, w
<1>3. w = [n |-> n, h |-> h, lenses |-> L, confirmed |-> {}, pending |-> {}]
  BY <1>1, <1>2
<1> QED BY <1>3 DEF w, Emptied

\* No list: offline, or what was submitted is no address.
LEMMA WalletClears ==
  ASSUME Grown, page = "wallet", WaPage, UNCHANGED nodeVars, address' \in Entered,
         NEW on, shown' = [shown EXCEPT !.online = on, !.txs = <<>>]
  PROVE  WaPage' /\ HV!Clear
<1>1. shown' = [online |-> on, h |-> shown.h, txs |-> <<>>]
  BY DEF WaPage
<1>2. shown'.h = shown.h /\ shown'.txs = <<>> /\ shown'.online = on
  BY <1>1
<1>3. InBlocks(<<>>) = {} /\ InPool(<<>>) = {} /\ <<>> \in Seq(Entries)
      /\ Ordered(<<>>, Apart)
  BY DEF InBlocks, InPool, ToSet, Ordered
<1>4. WaPage'
  BY <1>1, <1>2, <1>3 DEF WaPage
<1>5. Seen' = [n |-> WaWindow, h |-> shown.h, lenses |-> {Mentioning(b) : b \in Entered},
               confirmed |-> {}, pending |-> {}]
  BY <1>2, <1>3 DEF Seen, Grown, InBlocks, InPool
<1>6. Seen = [n |-> WaWindow, h |-> shown.h, lenses |-> {Mentioning(b) : b \in Entered},
              confirmed |-> Seen.confirmed, pending |-> Seen.pending]
  BY DEF Seen
<1>7. Seen' = [Seen EXCEPT !.confirmed = {}, !.pending = {}]
  <2> DEFINE v == Seen
             w == Seen'
             L == {Mentioning(b) : b \in Entered}
             y == Seen.confirmed
             z == Seen.pending
             h == shown.h
  <2>1. /\ v = [n |-> WaWindow, h |-> h, lenses |-> L, confirmed |-> y, pending |-> z]
        /\ w = [n |-> WaWindow, h |-> h, lenses |-> L,
                confirmed |-> {}, pending |-> {}]
    BY <1>5, <1>6
  <2> HIDE DEF v, w, L, y, z, h
  <2>2. w = Emptied(v)
    BY <2>1, Cleared
  <2> QED BY <2>2 DEF v, w, Emptied
<1> QED BY <1>4, <1>7 DEF HV!Clear, nodeVars

\* What a step of the wallet page does to what it shows.
LEMMA WaShows ==
  ASSUME NodeInv, Looks, Grown, page = "wallet", WaPage, WaMove, UNCHANGED nodeVars
  PROVE  WaPage' /\ (Seen' = Seen \/ HV!Look \/ HV!Clear)
<1>1. ASSUME shown' = shown, address' \in Entered
      PROVE  WaPage' /\ Seen' = Seen
  BY <1>1 DEF WaPage, Seen, Grown
<1>2. CASE WaUser
  <2>1. PICK a \in Entered : WaSubmitOther(a) \/ \E s \in Slots : WaSubmit(s, a)
    BY <1>2 DEF WaUser
  <2>2. CASE WaSubmitOther(a)
    <3>1. shown' = [shown EXCEPT !.txs = <<>>] /\ address' = a
      BY <2>2 DEF WaSubmitOther
    <3>2. [shown EXCEPT !.txs = <<>>] = [shown EXCEPT !.online = shown.online, !.txs = <<>>]
      BY DEF WaPage
    <3> QED BY <3>1, <3>2, WalletClears
  <2>3. CASE \E s \in Slots : WaSubmit(s, a)
    BY <1>1, <2>3 DEF WaSubmit
  <2> QED BY <2>1, <2>2, <2>3
<1>3. ASSUME NEW s \in Slots, WaTick(s) \/ WaStep(s)
      PROVE  WaPage' /\ (Seen' = Seen \/ HV!Look \/ HV!Clear)
  <2>0. address' = address /\ address \in Entered /\ Looking(polls[s], tip, sent, chain)
    BY <1>3 DEF WaTick, WaStep, WaStatus, WaPool, WaBlocks, WaBalance, WaFails, WaLookup,
                walletVars, WaPage, Looks
  <2>1. CASE shown' = shown
    BY <1>1, <2>0, <2>1
  <2>2. CASE WaFails(s)
    BY <2>0, <2>2, WalletClears DEF WaFails
  <2>3. CASE WaBalance(s)
    <3>1. WaWrite(polls[s].h, polls[s].txs) /\ polls[s].pc = "balance"
      BY <2>3 DEF WaBalance, At
    <3>2. polls[s].h \in 1..tip /\ WaListed(polls[s].txs, polls[s].h, sent, chain)
      BY <2>0, <3>1 DEF Looking
    <3> QED BY <2>0, <3>1, <3>2, WalletSight
  <2>4. CASE WaBlocks(s) /\ shown' # shown
    <3>1. WaWrite(polls[s].h, <<>>) /\ polls[s].pc = "blocks" /\ address \notin IreAddrs
      BY <2>4 DEF WaBlocks, At
    <3>2. polls[s].h \in 1..tip /\ WaListed(<<>>, polls[s].h, sent, chain)
      BY <2>0, <3>1, NoneListed DEF Looking
    <3> QED BY <2>0, <3>1, <3>2, WalletSight
  <2> QED BY <1>3, <2>1, <2>2, <2>3, <2>4 DEF WaTick, WaStep, WaStatus, WaPool, WaLookup
<1> QED BY <1>2, <1>3 DEF WaMove
-----------------------------------------------------------------------------
(* Markets: what its list holds.                                           *)

\* Events, and pairs of them the first of which is of a block no older;
\* pending ones come last. The two are not of one transaction, unless one has
\* it from a block and the other from the pool.
MkEvents == [tx : Bets, height : Nat, pending : BOOLEAN]
Newest == {p \in MkEvents \X MkEvents :
             /\ p[1].height >= p[2].height
             /\ p[1].tx = p[2].tx => p[1].pending # p[2].pending}
\* Pairs of different transactions.
Different == {p \in Txs \X Txs : p[1] # p[2]}

\* The events of a list of transactions, all at one height.
LEMMA DecodedBets ==
  ASSUME NEW txs \in Seq(Txs), IsInjective(txs), NEW k \in Nat
  PROVE  /\ DecodeBets(txs, k) \in Seq(MkEvents) /\ Ordered(DecodeBets(txs, k), Newest)
         /\ ToSet(DecodeBets(txs, k)) = {Event(t, k) : t \in ToSet(txs) \cap Bets}
<1> DEFINE bets == Kept(txs, Bets)
           l == DecodeBets(txs, k)
<1>0. Ordered(txs, Different)
  <2> SUFFICES ASSUME NEW i \in DOMAIN txs, NEW j \in DOMAIN txs, i < j
               PROVE  <<txs[i], txs[j]>> \in Different
    BY DEF Ordered
  <2>1. txs[i] \in Txs /\ txs[j] \in Txs /\ i \in Nat /\ j \in Nat
    OBVIOUS
  <2>2. txs[i] # txs[j]
    BY <2>1 DEF IsInjective
  <2> QED BY <2>1, <2>2 DEF Different
<1>1. /\ bets \in Seq(Txs) /\ ToSet(bets) = ToSet(txs) \cap Bets
      /\ Ordered(bets, Different)
  BY <1>0, KeptFacts
<1>2. l = [i \in DOMAIN bets |-> Event(bets[i], k)]
  BY DEF DecodeBets
<1> HIDE DEF bets, l
<1>3. DOMAIN bets = 1..Len(bets) /\ Len(bets) \in Nat /\ \A i \in DOMAIN bets : bets[i] \in Bets
  BY <1>1 DEF ToSet
<1>4. \A t \in Bets : Event(t, k) \in MkEvents /\ Event(t, k).height = k
  BY DEF Event, MkEvents
<1>5. l \in Seq(MkEvents)
  <2>1. l \in [1..Len(bets) -> MkEvents]
    BY <1>2, <1>3, <1>4
  <2> QED BY <1>3, <2>1
<1>6. Ordered(l, Newest)
  <2> SUFFICES ASSUME NEW i \in DOMAIN l, NEW j \in DOMAIN l, i < j
               PROVE  <<l[i], l[j]>> \in Newest
    BY DEF Ordered
  <2>1. l[i] \in MkEvents /\ l[j] \in MkEvents /\ l[i].height = k /\ l[j].height = k
    BY <1>2, <1>3, <1>4
  <2>2. l[i].tx = bets[i] /\ l[j].tx = bets[j]
    BY <1>2 DEF Event
  <2>3. bets[i] # bets[j]
    BY <1>1, <1>2 DEF Ordered, Different
  <2> QED BY <2>1, <2>2, <2>3 DEF Newest
<1>7. ToSet(l) = {Event(t, k) : t \in ToSet(bets)}
  BY <1>2 DEF ToSet
<1> QED BY <1>1, <1>5, <1>6, <1>7 DEF l

\* The page looks at no more blocks than there are.
LEMMA SpanIn == MkSpan \in Nat
BY MarketsAssumption DEF MkSpan

\* The event of a confirmed or a pending transaction.
LEMMA EventIs ==
  ASSUME NEW t, NEW k \in Nat
  PROVE  Event(t, k).tx = t /\ Event(t, k).height = k /\ Event(t, k).pending = (k = 0)
BY DEF Event

\* The events of the blocks of a window: each is of a block that holds it.
LEMMA BlockEvents ==
  ASSUME NodeInv, NEW h \in 1..tip, NEW l,
         l = FlattenSeq([i \in DOMAIN Heights(h) |-> LoadBlock(Heights(h)[i])])
  PROVE  /\ l \in Seq(MkEvents) /\ Ordered(l, Newest)
         /\ \A e : e \in ToSet(l) <=> \E k \in Window(h, MkSpan) :
              \E t \in ToSet(chain[k]) \cap Bets : e = Event(t, k)
<1> DEFINE W == Window(h, MkSpan)
           F == [k \in W |-> DecodeBets(chain[k], k)]
           n == Cardinality(W)
           H == Heights(h)
<1>1. h \in Nat /\ MkSpan \in Nat /\ tip \in Nat
  BY SpanIn DEF NodeInv, NodeTypeOK, tip
<1>0. {h + 1 - i : i \in 1..n} = W
  BY <1>1, WindowHeights
<1>2. W \subseteq 1..tip /\ n \in 0..h
  <2>1. W \subseteq 1..h
    BY <1>1, WindowIn
  <2> HIDE DEF W
  <2>2. W \subseteq 1..tip
    BY <1>1, <2>1
  <2> QED BY <1>1, <2>2, WindowSize DEF W
<1>3. H = [i \in 1..n |-> h + 1 - i]
  BY DEF Heights
<1>4. l = FlattenSeq([i \in 1..n |-> DecodeBets(chain[h + 1 - i], h + 1 - i)])
  <2> HIDE DEF n, H
  <2>1. DOMAIN H = 1..n /\ \A i \in 1..n : H[i] = h + 1 - i
    BY <1>3
  <2>2. [i \in DOMAIN H |-> LoadBlock(H[i])] =
          [i \in 1..n |-> DecodeBets(chain[h + 1 - i], h + 1 - i)]
    BY <2>1 DEF LoadBlock
  <2> QED BY <2>2 DEF H
<1> HIDE DEF W, n, H
<1>5. ASSUME NEW k \in W
      PROVE  /\ F[k] \in Seq(MkEvents) /\ Ordered(F[k], Newest)
             /\ ToSet(F[k]) = {Event(t, k) : t \in ToSet(chain[k]) \cap Bets}
  <2>1. chain[k] \in Seq(Txs) /\ k \in Nat /\ IsInjective(chain[k])
    BY <1>1, <1>2 DEF NodeInv, NodeTypeOK, tip
  <2>2. F[k] = DecodeBets(chain[k], k)
    OBVIOUS
  <2> QED BY <2>1, <2>2, DecodedBets
<1>6. l = FlattenSeq(Down(h, n, F))
  <2>1. \A i \in 1..n : h + 1 - i \in W
    BY <1>0
  <2>2. \A i \in 1..n : F[h + 1 - i] = DecodeBets(chain[h + 1 - i], h + 1 - i)
    BY <2>1
  <2>3. Down(h, n, F) = [i \in 1..n |-> DecodeBets(chain[h + 1 - i], h + 1 - i)]
    <3> HIDE DEF F
    <3> QED BY <2>2 DEF Down
  <2> QED BY <1>4, <2>3
<1>7. F \in [W -> Seq(MkEvents)]
  BY <1>5
<1> HIDE DEF F
<1>8. \A j, k \in W : k < j => \A x \in ToSet(F[j]), y \in ToSet(F[k]) : <<x, y>> \in Newest
  <2> SUFFICES ASSUME NEW j \in W, NEW k \in W, k < j,
                      NEW x \in ToSet(F[j]), NEW y \in ToSet(F[k])
               PROVE  <<x, y>> \in Newest
    OBVIOUS
  <2>1. j \in Nat /\ k \in Nat
    BY <1>1, <1>2
  <2>2. x \in MkEvents /\ y \in MkEvents
    <3>1. \A r \in W : F[r] \in Seq(MkEvents)
      BY <1>5
    <3> QED BY <3>1 DEF ToSet
  <2>4. PICK t \in ToSet(chain[j]) : x = Event(t, j)
    BY <1>5
  <2>5. PICK u \in ToSet(chain[k]) : y = Event(u, k)
    BY <1>5
  <2>3. x.height = j /\ y.height = k /\ x.tx = t /\ y.tx = u
    BY <2>1, <2>4, <2>5, EventIs
  <2>6. t # u
    BY <1>2, <2>1 DEF NodeInv
  <2> QED BY <2>1, <2>2, <2>3, <2>6 DEF Newest
<1>9. /\ l \in Seq(MkEvents) /\ Ordered(l, Newest)
      /\ ToSet(l) = Blocks(F, W)
  <2>1. Falling(F, W, Newest)
    BY <1>5, <1>8 DEF Falling
  <2> QED BY <1>1, <1>6, <1>7, <2>1, BlockLists DEF W, n
<1>10. \A e : e \in Blocks(F, W) <=>
         \E k \in W : \E t \in ToSet(chain[k]) \cap Bets : e = Event(t, k)
  BY <1>5 DEF Blocks
<1> QED BY <1>9, <1>10 DEF W

\* What the page lists after one look: events of the blocks of its window,
\* newest first, then those of the pool.
LEMMA EventsListed ==
  ASSUME NodeInv, NEW h \in 1..tip, NEW P \in SUBSET Txs
  PROVE  /\ Events(h, P) \in Seq(MkEvents) /\ Ordered(Events(h, P), Newest)
         /\ \A e : e \in ToSet(Events(h, P)) <=>
              \/ \E k \in Window(h, MkSpan) :
                   \E t \in ToSet(chain[k]) \cap Bets : e = Event(t, k)
              \/ \E t \in P \cap Bets : e = Event(t, 0)
<1> DEFINE b == FlattenSeq([i \in DOMAIN Heights(h) |-> LoadBlock(Heights(h)[i])])
           p == DecodeBets(SetToSeq(P), 0)
<1>1. Events(h, P) = b \o p
  BY DEF Events
<1>2. /\ b \in Seq(MkEvents) /\ Ordered(b, Newest)
      /\ \A e : e \in ToSet(b) <=> \E k \in Window(h, MkSpan) :
           \E t \in ToSet(chain[k]) \cap Bets : e = Event(t, k)
  BY BlockEvents
<1>3. IsFiniteSet(P)
  BY NodeAssumption, FS_Subset
<1>4. SetToSeq(P) \in Seq(P) /\ ToSet(SetToSeq(P)) = P /\ IsInjective(SetToSeq(P))
  BY <1>3, SetToSeqFacts
<1>5. SetToSeq(P) \in Seq(Txs) /\ 0 \in Nat
  BY <1>4
<1>6. /\ p \in Seq(MkEvents) /\ Ordered(p, Newest)
      /\ ToSet(p) = {Event(t, 0) : t \in P \cap Bets}
  BY <1>4, <1>5, DecodedBets
<1> HIDE DEF b, p
<1>7. \A x \in ToSet(b), y \in ToSet(p) : <<x, y>> \in Newest
  <2> SUFFICES ASSUME NEW x \in ToSet(b), NEW y \in ToSet(p) PROVE <<x, y>> \in Newest
    OBVIOUS
  <2>1. x \in MkEvents /\ y \in MkEvents
    BY <1>2, <1>6 DEF ToSet
  <2>2. y.height = 0 /\ y.pending = TRUE
    <3>1. PICK t \in P \cap Bets : y = Event(t, 0)
      BY <1>6
    <3>2. (0 = 0) = TRUE
      OBVIOUS
    <3> QED BY <1>5, <3>1, <3>2, EventIs
  <2>3. x.pending = FALSE
    <3>1. PICK k \in Window(h, MkSpan), t \in Bets : x = Event(t, k)
      BY <1>2
    <3>2. h \in Nat /\ MkSpan \in Nat
      BY SpanIn DEF NodeInv, NodeTypeOK, tip
    <3>3. k \in 1..h
      BY <3>1, <3>2, WindowIn
    <3>4. k \in Nat /\ (k = 0) = FALSE
      BY <3>2, <3>3
    <3> QED BY <3>1, <3>4, EventIs
  <2> QED BY <2>1, <2>2, <2>3 DEF Newest, MkEvents
<1>8. b \o p \in Seq(MkEvents) /\ ToSet(b \o p) = ToSet(b) \cup ToSet(p)
      /\ Ordered(b \o p, Newest)
  BY <1>2, <1>6, <1>7, Joined
<1>9. \A e : e \in ToSet(p) <=> \E t \in P \cap Bets : e = Event(t, 0)
  BY <1>6
<1> QED BY <1>1, <1>2, <1>8, <1>9
-----------------------------------------------------------------------------
\* What the markets page shows at height h: events in order, each one of the
\* block it names, or of the pool and of no block below h.
MkFeed(l, h, n, c) ==
  /\ h \in 0..n
  /\ l \in Seq(MkEvents) /\ Ordered(l, Newest)
  /\ \A e \in ToSet(l) :
       /\ e.pending <=> e.height = 0
       /\ e.height # 0 => e.height \in 1..h /\ e.tx \in ToSet(c[e.height])
       /\ e.pending => e.tx \notin Blocks(c, 1..(h - 1))

\* The page, online or not.
MkPage ==
  /\ shown = [online |-> shown.online, h |-> shown.h,
              windowMin |-> shown.windowMin, evs |-> shown.evs]
  /\ MkFeed(shown.evs, shown.h, tip, chain)

\* The steps of the markets page.
MkMove == \E s \in Slots : MkTick(s) \/ MkStep(s)

\* Any other step leaves it alone.
LEMMA MkMoves ==
  ASSUME [Next]_vars, page = "markets"
  PROVE  (MkMove /\ UNCHANGED nodeVars) \/ UNCHANGED <<polls, shown>>
<1>1. CASE Chain
  BY <1>1 DEF Chain, pageVars
<1>2. CASE Timer
  BY <1>2 DEF Timer, othersThan, MkMove
<1>3. CASE \E s \in Slots : Answer(s)
  BY <1>3 DEF Answer, othersThan, MkMove
<1>4. CASE User
  BY <1>4 DEF User
<1>5. CASE UNCHANGED vars
  BY <1>5 DEF vars, pageVars
<1> QED BY <1>1, <1>2, <1>3, <1>4, <1>5 DEF Next

\* The list stays right as the chain grows.
LEMMA FeedStays ==
  ASSUME Grown, NEW l, NEW h, MkFeed(l, h, tip, chain)
  PROVE  MkFeed(l, h, tip', chain')
<1>1. h \in 0..tip' /\ 1..h \subseteq 1..tip /\ 1..(h - 1) \in SUBSET (1..tip)
  BY DEF Grown, MkFeed
<1>2. Blocks(chain', 1..(h - 1)) = Blocks(chain, 1..(h - 1))
  BY <1>1, BlocksKept
<1>3. \A k \in 1..h : chain'[k] = chain[k]
  BY <1>1 DEF Grown
<1> QED BY <1>1, <1>2, <1>3 DEF MkFeed

\* The polls of the markets page keep what they carry.
LEMMA MkLooks ==
  ASSUME NodeInv, PoolInv, PollsInv, Looks, Grown, MkMove
  PROVE  Looks'
<1>1. PICK s \in Slots : MkTick(s) \/ MkStep(s)
  BY DEF MkMove
<1>2. CASE MkTick(s) \/ MkBlocks(s) \/ MkFails(s)
  BY <1>2, LooksEnd DEF MkTick, MkBlocks, MkFails, Goto
<1>3. CASE MkStatus(s)
  BY <1>3, LooksAt DEF MkStatus, Goto
<1>4. CASE MkLists(s)
  BY <1>4, LooksIn DEF MkLists, Goto, At
<1> QED BY <1>1, <1>2, <1>3, <1>4 DEF MkStep

\* A list of one look at the chain, written.
LEMMA MarketsSight ==
  ASSUME NodeInv, Looks, Grown, page = "markets", MkPage, UNCHANGED nodeVars,
         NEW s \in Slots, MkBlocks(s)
  PROVE  MkPage' /\ HV!Look
<1> DEFINE h == polls[s].h
           P == polls[s].P
           W == Window(h, MkSpan)
           l == Events(h, P)
           conf == {e.tx : e \in {e \in ToSet(l) : ~e.pending}}
           pend == {e.tx : e \in {e \in ToSet(l) : e.pending}}
<1>1. polls[s].pc = "blocks" /\ Looking(polls[s], tip, sent, chain)
  BY DEF MkBlocks, At, Looks
<1>2. h \in 1..tip /\ Pending(P, h, sent, chain) /\ tip \in Nat
  BY <1>1 DEF Looking, Grown
<1>3. shown' = [online |-> TRUE, h |-> h, windowMin |-> MinH(h), evs |-> l]
  BY DEF MkBlocks, MkWrite
<1>4. P \in SUBSET Txs /\ P \subseteq sent /\ P \cap Blocks(chain, 1..(h - 1)) = {}
  BY <1>2 DEF Pending, NodeInv, NodeTypeOK
<1> HIDE DEF h, P
<1>5. /\ l \in Seq(MkEvents) /\ Ordered(l, Newest)
      /\ \A e : e \in ToSet(l) <=>
           \/ \E k \in W : \E t \in ToSet(chain[k]) \cap Bets : e = Event(t, k)
           \/ \E t \in P \cap Bets : e = Event(t, 0)
  BY <1>2, <1>4, EventsListed
<1>6. W \subseteq 1..h
  <2>1. h \in Nat /\ MkSpan \in Nat
    BY <1>2, SpanIn
  <2> QED BY <2>1, WindowIn
<1> HIDE DEF l, W
<1>7. \A k \in W : k \in Nat /\ k # 0
  BY <1>2, <1>6
<1>8. ASSUME NEW e \in ToSet(l)
      PROVE  \/ e.height \in W /\ e.tx \in ToSet(chain[e.height]) \cap Bets /\ e.pending = FALSE
             \/ e.height = 0 /\ e.pending = TRUE /\ e.tx \in P \cap Bets
  <2>1. CASE \E k \in W : \E t \in ToSet(chain[k]) \cap Bets : e = Event(t, k)
    <3>1. PICK k \in W : \E t \in ToSet(chain[k]) \cap Bets : e = Event(t, k)
      BY <2>1
    <3>2. PICK t \in ToSet(chain[k]) \cap Bets : e = Event(t, k)
      BY <3>1
    <3> QED BY <1>7, <3>2 DEF Event
  <2>2. CASE \E t \in P \cap Bets : e = Event(t, 0)
    <3>1. PICK t \in P \cap Bets : e = Event(t, 0)
      BY <2>2
    <3> QED BY <3>1 DEF Event
  <2> QED BY <1>5, <2>1, <2>2
<1>9. MkFeed(l, h, tip, chain)
  <2>1. h \in 0..tip /\ l \in Seq(MkEvents) /\ Ordered(l, Newest)
    BY <1>2, <1>5
  <2>2. ASSUME NEW e \in ToSet(l)
        PROVE  /\ e.pending <=> e.height = 0
               /\ e.height # 0 => e.height \in 1..h /\ e.tx \in ToSet(chain[e.height])
               /\ e.pending => e.tx \notin Blocks(chain, 1..(h - 1))
    BY <1>4, <1>6, <1>7, <1>8
  <2> QED BY <2>1, <2>2 DEF MkFeed
<1>10. conf = Bets \cap Blocks(chain, W)
  <2>1. ASSUME NEW x \in conf PROVE x \in Bets \cap Blocks(chain, W)
    <3>1. PICK e \in ToSet(l) : ~e.pending /\ x = e.tx
      OBVIOUS
    <3>2. e.height \in W /\ e.tx \in ToSet(chain[e.height]) \cap Bets
      BY <1>8, <3>1
    <3> QED BY <3>1, <3>2 DEF Blocks
  <2>2. ASSUME NEW x \in Bets, x \in Blocks(chain, W) PROVE x \in conf
    <3>1. PICK k \in W : x \in ToSet(chain[k])
      BY <2>2 DEF Blocks
    <3>2. Event(x, k) \in ToSet(l)
      BY <1>5, <3>1
    <3>3. Event(x, k).tx = x /\ ~Event(x, k).pending
      BY <1>7 DEF Event
    <3> HIDE DEF conf
    <3> QED BY <3>2, <3>3 DEF conf
  <2> QED BY <2>1, <2>2
<1>11. pend \subseteq (Bets \cap sent) \ Blocks(chain, 1..(h - 1))
  <2> SUFFICES ASSUME NEW x \in pend PROVE x \in P \cap Bets
    BY <1>4
  <2>1. PICK e \in ToSet(l) : e.pending /\ x = e.tx
    OBVIOUS
  <2> QED BY <1>8, <2>1
<1>12. shown'.h = h /\ shown'.evs = l
       /\ shown' = [online |-> shown'.online, h |-> h, windowMin |-> shown'.windowMin,
                    evs |-> l]
  BY <1>3
<1>13. MkPage'
  <2>1. tip' = tip /\ chain' = chain
    BY DEF nodeVars, tip
  <2> QED BY <1>9, <1>12, <2>1 DEF MkPage
<1>14. /\ Seen'.n = MkSpan /\ Seen'.h = h /\ Seen'.lenses = {Bets}
       /\ Seen'.confirmed = conf /\ Seen'.pending = pend
  BY <1>12 DEF Seen, Grown
<1> HIDE DEF conf, pend
<1>15. Seen.n = MkSpan /\ Seen.lenses = {Bets}
  BY DEF Seen
<1>16. HV!Recent(h, MkSpan) = W
  BY DEF HV!Recent, Window, W
<1>17. \A H : HV!In(H) = Blocks(chain, H)
  BY DEF HV!In, Blocks, HV!ToSet, ToSet
<1>18. /\ Seen'.confirmed = Bets \cap HV!In(HV!Recent(Seen'.h, Seen.n))
       /\ Seen'.pending \subseteq (Bets \cap sent) \ HV!In(1..(Seen'.h - 1))
  BY <1>10, <1>11, <1>14, <1>15, <1>16, <1>17
<1>19. Seen'.h \in 1..Len(chain) /\ UNCHANGED <<chain, sent>>
  BY <1>2, <1>14 DEF tip, nodeVars
<1> QED BY <1>13, <1>14, <1>15, <1>18, <1>19 DEF HV!Look

\* Offline: no event is shown.
LEMMA MarketsClears ==
  ASSUME Grown, page = "markets", MkPage, UNCHANGED nodeVars,
         shown' = [shown EXCEPT !.online = FALSE, !.evs = <<>>]
  PROVE  MkPage' /\ HV!Clear
<1>1. shown' = [online |-> FALSE, h |-> shown.h, windowMin |-> shown.windowMin,
                evs |-> <<>>]
  BY DEF MkPage
<1>2. shown'.h = shown.h /\ shown'.evs = <<>> /\ shown'.online = FALSE
      /\ shown'.windowMin = shown.windowMin
  BY <1>1
<1>3. MkFeed(<<>>, shown.h, tip', chain')
  <2>1. shown.h \in 0..tip'
    BY DEF MkPage, MkFeed, nodeVars, tip
  <2> QED BY <2>1 DEF MkFeed, Ordered, ToSet
<1>4. MkPage'
  BY <1>1, <1>2, <1>3 DEF MkPage
<1>5. Seen' = [n |-> MkSpan, h |-> shown.h, lenses |-> {Bets},
               confirmed |-> {}, pending |-> {}]
  BY <1>2 DEF Seen, Grown, ToSet
<1>6. Seen = [n |-> MkSpan, h |-> shown.h, lenses |-> {Bets},
              confirmed |-> Seen.confirmed, pending |-> Seen.pending]
  BY DEF Seen
<1>7. Seen' = [Seen EXCEPT !.confirmed = {}, !.pending = {}]
  <2> DEFINE v == Seen
             w == Seen'
             L == {Bets}
             y == Seen.confirmed
             z == Seen.pending
             h == shown.h
  <2>1. /\ v = [n |-> MkSpan, h |-> h, lenses |-> L, confirmed |-> y, pending |-> z]
        /\ w = [n |-> MkSpan, h |-> h, lenses |-> L, confirmed |-> {}, pending |-> {}]
    BY <1>5, <1>6
  <2> HIDE DEF v, w, L, y, z, h
  <2>2. w = Emptied(v)
    BY <2>1, Cleared
  <2> QED BY <2>2 DEF v, w, Emptied
<1> QED BY <1>4, <1>7 DEF HV!Clear, nodeVars

\* What a step of the markets page does to what it shows.
LEMMA MkShows ==
  ASSUME NodeInv, Looks, Grown, page = "markets", MkPage, MkMove, UNCHANGED nodeVars
  PROVE  MkPage' /\ (Seen' = Seen \/ HV!Look \/ HV!Clear)
<1>1. PICK s \in Slots : MkTick(s) \/ MkStep(s)
  BY DEF MkMove
<1>2. CASE MkTick(s) \/ MkStatus(s) \/ MkLists(s)
  <2>1. shown' = shown /\ page' = page
    BY <1>2 DEF MkTick, MkStatus, MkLists, Grown
  <2> QED BY <2>1, FeedStays DEF MkPage, Seen
<1>3. CASE MkBlocks(s)
  BY <1>3, MarketsSight
<1>4. CASE MkFails(s)
  BY <1>4, MarketsClears DEF MkFails
<1> QED BY <1>1, <1>2, <1>3, <1>4 DEF MkStep
-----------------------------------------------------------------------------
(* The mempool page.                                                       *)

\* Its polls keep what they carry.
LEMMA MpLooks ==
  ASSUME NodeInv, PoolInv, PollsInv, Looks, Grown, MpMove
  PROVE  Looks'
<1>1. CASE MpUser
  BY <1>1, LooksStay DEF MpUser, MpClickTx, MpClickBlock, MpEnrich
<1>2. ASSUME NEW s \in Slots, MpTick(s) \/ MpStep(s) PROVE Looks'
  <2>1. CASE MpTick(s) \/ MpBlocks(s) \/ MpFails(s)
    BY <2>1, LooksEnd DEF MpTick, MpBlocks, MpFails, Goto
  <2>2. CASE MpStatus(s)
    BY <2>2, LooksAt DEF MpStatus, Goto
  <2>3. CASE MpLists(s)
    BY <2>3, LooksIn DEF MpLists, Goto, At
  <2> QED BY <1>2, <2>1, <2>2, <2>3 DEF MpStep
<1> QED BY <1>1, <1>2 DEF MpMove

\* The end of a poll, cached blocks and the pool of an earlier request
\* together, is one look at the chain.
LEMMA MempoolSight ==
  ASSUME NodeInv, Looks, Grown, page = "mempool", MpPage, UNCHANGED nodeVars,
         NEW s \in Slots, MpBlocks(s)
  PROVE  HV!Look
<1> DEFINE h == polls[s].h
           P == polls[s].P
           n == Cardinality(Window(h, MpWindow))
           cached == {b.height : b \in ToSet(shown.blocks)}
           block(k) == IF k \in cached THEN ShownBlock(k) ELSE MpBlock(k)
           list == [i \in 1..n |-> block(h + 1 - i)]
<1>1. Looking(polls[s], tip, sent, chain)
  BY DEF Looks
<1>2. shown' = [online |-> TRUE, h |-> h, unconfirmed |-> P, blocks |-> list]
      /\ polls[s].pc = "blocks"
  BY DEF MpBlocks, At
<1>3. h \in 1..tip /\ P \subseteq Txs /\ P \subseteq sent
      /\ P \cap Blocks(chain, 1..(h - 1)) = {}
  BY <1>1, <1>2 DEF Looking, Pending, NodeInv, NodeTypeOK
<1>4. \A k \in 1..tip : block(k).txs = chain[k]
  <2> SUFFICES ASSUME NEW k \in 1..tip PROVE block(k).txs = chain[k]
    OBVIOUS
  <2>1. CASE k \notin cached
    BY <2>1 DEF MpBlock
  <2>2. CASE k \in cached
    <3>1. ShownBlock(k) \in ToSet(shown.blocks) /\ ShownBlock(k).height = k
      BY <2>2 DEF ShownBlock
    <3> QED BY <2>2, <3>1 DEF MpPage
  <2> QED BY <2>1, <2>2
<1> HIDE DEF block, P
<1>5. h \in Nat /\ MpWindow \in Nat /\ Window(h, MpWindow) \subseteq 1..tip
  <2>1. h \in Nat /\ MpWindow \in Nat /\ tip \in Nat
    BY <1>3, MempoolAssumption DEF Grown
  <2> QED BY <1>3, <2>1, WindowIn
<1>6. {h + 1 - i : i \in 1..n} = Window(h, MpWindow)
  BY <1>5, WindowHeights
<1>7. n \in 0..h
  BY <1>5, WindowSize
<1> HIDE DEF h, n
<1>8. ToSet(list) = {block(k) : k \in Window(h, MpWindow)}
  BY <1>6, <1>7 DEF ToSet
<1> HIDE DEF list
<1>9. UNION {ToSet(b.txs) : b \in ToSet(list)} = Blocks(chain, Window(h, MpWindow))
  BY <1>4, <1>5, <1>8 DEF Blocks
<1>10. Blocks(chain, Window(h, MpWindow)) \subseteq Txs
  <2>1. \A k \in 1..tip : chain[k] \in Seq(Txs)
    BY DEF NodeInv, NodeTypeOK, tip
  <2> QED BY <1>5, <2>1 DEF Blocks, ToSet
<1>11. Seen' = [n |-> MpWindow, h |-> h, lenses |-> {Txs}, pending |-> P,
                confirmed |-> Blocks(chain, Window(h, MpWindow))]
  BY <1>2, <1>9 DEF Seen, Grown
<1>12. Seen.n = MpWindow /\ Seen.lenses = {Txs}
  BY DEF Seen
<1>13. \A H : HV!In(H) = Blocks(chain, H)
  BY DEF HV!In, Blocks, HV!ToSet, ToSet
<1>14. HV!Recent(h, MpWindow) = Window(h, MpWindow)
  BY DEF HV!Recent, Window
<1>15. /\ Seen'.h = h /\ Seen'.n = MpWindow /\ Seen'.lenses = {Txs}
       /\ Seen'.confirmed = Blocks(chain, Window(h, MpWindow)) /\ Seen'.pending = P
  BY <1>11
<1>16. /\ Seen'.confirmed = Txs \cap HV!In(HV!Recent(Seen'.h, Seen.n))
       /\ Seen'.pending \subseteq (Txs \cap sent) \ HV!In(1..(Seen'.h - 1))
  BY <1>3, <1>10, <1>12, <1>13, <1>14, <1>15
<1>17. Seen'.h \in 1..Len(chain) /\ UNCHANGED <<chain, sent>>
  BY <1>3, <1>15 DEF tip, nodeVars
<1> QED BY <1>12, <1>15, <1>16, <1>17 DEF HV!Look

\* What a step of the mempool page does to what it shows.
LEMMA MpShows ==
  ASSUME NodeInv, Looks, Grown, page = "mempool", MpPage, MpMove, UNCHANGED nodeVars
  PROVE  Seen' = Seen \/ HV!Look
<1>1. ASSUME shown' = shown \/ shown' = [shown EXCEPT !.online = FALSE]
      PROVE  Seen' = Seen
  <2>1. page' = page
    BY DEF Grown
  <2>2. shown'.h = shown.h /\ shown'.unconfirmed = shown.unconfirmed
        /\ shown'.blocks = shown.blocks
    BY <1>1 DEF MpPage
  <2> QED BY <2>1, <2>2 DEF Seen
<1>2. CASE MpUser
  BY <1>1, <1>2 DEF MpUser, MpClickTx, MpClickBlock, MpEnrich
<1>3. ASSUME NEW s \in Slots, MpTick(s) \/ MpStatus(s) \/ MpLists(s) \/ MpFails(s)
      PROVE  Seen' = Seen
  BY <1>1, <1>3 DEF MpTick, MpStatus, MpLists, MpFails
<1> QED BY <1>2, <1>3, MempoolSight DEF MpMove, MpStep
-----------------------------------------------------------------------------
\* What a look relies on, and what the pages that look keep.
LookInv ==
  /\ PoolInv
  /\ page \in Feeds => Looks
  /\ page = "markets" => MkPage
  /\ page = "wallet" => WaPage

\* A step of the node, or one that leaves it alone.
LEMMA NodeMoves ==
  ASSUME [Next]_vars
  PROVE  Chain \/ UNCHANGED nodeVars
BY DEF Next, Timer, Answer, User, Chain, othersThan, vars

\* The pool never holds anything from below the newest block: SaveBlock waits
\* for UpdatePool.
LEMMA PoolStep ==
  ASSUME NodeInv, PoolInv, Grown, page \in Opened, [Next]_vars
  PROVE  PoolInv'
<1>0. /\ tip \in Nat /\ Blocks(chain, 1..tip) \subseteq sent
      /\ pool \cap Blocks(chain, 1..(tip - 1)) = {} /\ pool \subseteq sent
      /\ Committed = Blocks(chain, 1..tip)
  BY DEF Grown, PoolInv, NodeInv, NodeTypeOK, Committed, TxsIn, Blocks
<1>1. CASE UNCHANGED nodeVars
  BY <1>0, <1>1 DEF nodeVars, tip, PoolInv
<1>2. CASE SaveBlock
  <2>1. PICK block \in SetToAllKPermutations(pool) : chain' = Append(chain, block)
    BY <1>2 DEF SaveBlock
  <2>2. PICK S \in SUBSET pool : block \in SetToSeqs(S)
    BY <2>1 DEF SetToAllKPermutations
  <2>3. ToSet(block) \subseteq pool
    BY <2>2 DEF SetToSeqs, ToSet
  <2>4. /\ tip' = tip + 1 /\ chain'[tip + 1] = block /\ sent' = sent /\ pool' = pool
        /\ pool \cap Committed = {}
    BY <1>0, <1>2, <2>1 DEF SaveBlock, tip, NodeInv, NodeTypeOK
  <2>5. Blocks(chain', 1..tip) = Blocks(chain, 1..tip)
    BY BlocksKept
  <2>6. Blocks(chain', 1..tip') = Blocks(chain', 1..tip) \cup ToSet(block)
    <3>1. 1..(tip + 1) = (1..tip) \cup {tip + 1}
      BY <1>0
    <3> QED BY <2>4, <3>1 DEF Blocks
  <2>7. 1..(tip' - 1) = 1..tip
    BY <1>0, <2>4
  <2> QED BY <1>0, <2>3, <2>4, <2>5, <2>6, <2>7 DEF PoolInv
<1>3. CASE \E t \in Posted[page] : Submit(t)
  <2>1. PICK t : t \notin sent /\ sent' = sent \cup {t} /\ pool' = pool \cup {t}
                 /\ chain' = chain
    BY <1>3 DEF Submit
  <2>2. tip' = tip
    BY <2>1 DEF tip
  <2>3. Blocks(chain, 1..(tip - 1)) \subseteq Blocks(chain, 1..tip)
    BY <1>0 DEF Blocks
  <2> QED BY <1>0, <2>1, <2>2, <2>3 DEF PoolInv
<1>4. CASE UpdatePool \/ Drop \/ Outage
  <2>1. chain' = chain /\ sent' = sent /\ pool' \subseteq pool
    BY <1>4 DEF UpdatePool, Drop, Outage
  <2>2. tip' = tip
    BY <2>1 DEF tip
  <2> QED BY <1>0, <2>1, <2>2 DEF PoolInv
<1> QED BY <1>1, <1>2, <1>3, <1>4, NodeMoves DEF Chain

\* A step that leaves alone what the page shows is one of HonestView about
\* the node, or none.
LEMMA SameSight ==
  ASSUME NodeInv, NodeInv', Grown, page \in Opened, [Next]_vars, Seen' = Seen
  PROVE  [HV!Next]_(HV!vars)
<1>0. tip \in Nat /\ chain \in Seq(Seq(Txs)) /\ chain' \in Seq(Seq(Txs))
  BY DEF Grown, NodeInv, NodeTypeOK
<1>1. CASE UNCHANGED nodeVars
  BY <1>1 DEF nodeVars, HV!vars
<1>2. CASE SaveBlock
  <2>1. PICK block : chain' = Append(chain, block)
    BY <1>2 DEF SaveBlock
  <2>2. Len(chain') = Len(chain) + 1
    BY <1>0, <2>1
  <2>3. \A h \in 1..Len(chain) : chain'[h] = chain[h]
    BY DEF Grown, tip
  <2>4. SubSeq(chain, 1, Len(chain)) = SubSeq(chain', 1, Len(chain))
    BY <1>0, <2>2, <2>3
  <2>5. HV!IsPrefix(chain, chain')
    BY <1>0, <2>2, <2>4 DEF HV!IsPrefix
  <2> QED BY <1>2, <2>2, <2>5 DEF SaveBlock, HV!Next, HV!BlockSaved
<1>3. CASE \E t \in Posted[page] : Submit(t)
  BY <1>3 DEF Submit, HV!Next, HV!Submitted
<1>4. CASE UpdatePool \/ Drop \/ Outage
  BY <1>4 DEF UpdatePool, Drop, Outage, HV!vars
<1> QED BY <1>1, <1>2, <1>3, <1>4, NodeMoves DEF Chain

\* Each page that looks, step by step: it keeps what it relies on, and what it
\* does to what it shows is a look, a clearing or nothing.
LEMMA FeedStep ==
  ASSUME SiteInv, LookInv, Grown, page \in Feeds, [Next]_vars
  PROVE  /\ Looks' /\ (page = "markets" => MkPage') /\ (page = "wallet" => WaPage')
         /\ Seen' = Seen \/ HV!Look \/ HV!Clear
<1>0. NodeInv /\ PoolInv /\ PollsInv /\ Looks
  BY DEF SiteInv, LookInv
<1>1. CASE page = "markets"
  <2>1. CASE UNCHANGED <<polls, shown>>
    <3>1. Seen' = Seen
      BY <1>1, <2>1 DEF Seen, Grown
    <3> QED BY <1>0, <1>1, <2>1, <3>1, LooksStay, FeedStays DEF LookInv, MkPage
  <2> QED BY <1>0, <1>1, <2>1, MkMoves, MkLooks, MkShows DEF LookInv
<1>2. CASE page = "wallet"
  <2>1. CASE UNCHANGED <<polls, shown, address>>
    <3>1. Seen' = Seen
      BY <1>2, <2>1 DEF Seen, Grown
    <3> QED BY <1>0, <1>2, <2>1, <3>1, LooksStay DEF LookInv, WaPage
  <2> QED BY <1>0, <1>2, <2>1, WaMoves, WaLooks, WaShows DEF LookInv
<1>3. CASE page = "mempool"
  <2>0. MpPage
    BY <1>3 DEF SiteInv, MpInv
  <2>1. CASE UNCHANGED <<polls, shown>>
    <3>1. Seen' = Seen
      BY <1>3, <2>1 DEF Seen, Grown
    <3> QED BY <1>0, <1>3, <2>1, <3>1, LooksStay
  <2> QED BY <1>0, <1>3, <2>0, <2>1, MpMoves, MpLooks, MpShows
<1> QED BY <1>1, <1>2, <1>3 DEF Feeds

\* Every step keeps LookInv.
LEMMA LookStepInv ==
  ASSUME SiteInv, LookInv, [Next]_vars
  PROVE  LookInv'
<1>1. NodeInv /\ page \in Opened /\ Grown /\ page' = page
  BY NodeStep DEF SiteInv, Grown
<1>2. PoolInv'
  BY <1>1, PoolStep DEF LookInv
<1>3. CASE page \in Feeds
  BY <1>1, <1>2, <1>3, FeedStep DEF LookInv
<1>4. CASE page \notin Feeds
  BY <1>1, <1>2, <1>4 DEF LookInv, Feeds
<1> QED BY <1>3, <1>4

\* Every step is a step of HonestView or none.
LEMMA SightStep ==
  ASSUME SiteInv, LookInv, [Next]_vars
  PROVE  [HV!Next]_(HV!vars)
<1>1. NodeInv /\ page \in Opened /\ NodeInv' /\ Grown
  BY NodeStep DEF SiteInv
<1>2. Seen' = Seen => [HV!Next]_(HV!vars)
  BY <1>1, SameSight
<1>3. CASE page \notin Feeds
  <2>1. page' = page
    BY <1>1 DEF Grown
  <2>2. Seen' = Seen
    BY <1>3, <2>1 DEF Seen, Feeds
  <2> QED BY <1>2, <2>2
<1>4. CASE page \in Feeds
  BY <1>1, <1>2, <1>4, FeedStep DEF HV!Next
<1> QED BY <1>3, <1>4

\* A page just opened shows what HonestView starts from.
LEMMA SightStart ==
  ASSUME Init
  PROVE  LookInv /\ HV!Init
<1>1. /\ sent = Blocks(chain, 1..tip) /\ pool = {} /\ polls = [s \in Slots |-> Idle]
      /\ shown = Blank(page)
  BY DEF Init, NodeInit, Committed, TxsIn, Blocks
<1>2. Looks
  BY <1>1 DEF Looks, Looking, Idle
<1>3. HV!In(1..Len(chain)) = Blocks(chain, 1..tip)
  BY DEF HV!In, Blocks, HV!ToSet, ToSet, tip
<1>4. ToSet(<<>>) = {}
  BY DEF ToSet
<1>5. CASE page = "mempool"
  <2>1. shown = [online |-> FALSE, h |-> 0, unconfirmed |-> {}, blocks |-> <<>>]
    BY <1>1, <1>5 DEF Blank, mpBlank
  <2>2. Seen.h = 0 /\ Seen.confirmed = {} /\ Seen.pending = {}
    BY <1>4, <1>5, <2>1 DEF Seen
  <2> QED BY <1>1, <1>2, <1>3, <1>5, <2>2 DEF LookInv, PoolInv, HV!Init
<1>6. CASE page = "markets"
  <2>1. shown = [online |-> FALSE, h |-> 0, windowMin |-> 0, evs |-> <<>>]
    BY <1>1, <1>6 DEF Blank, mkBlank
  <2>2. Seen.h = 0 /\ Seen.confirmed = {} /\ Seen.pending = {}
    BY <1>4, <1>6, <2>1 DEF Seen
  <2>3. MkFeed(<<>>, 0, tip, chain)
    <3>1. 0 \in 0..tip
      <4>1. History[page] \in Seq(Seq(Txs)) /\ chain = History[page]
        BY SiteAssumption DEF Init, NodeInit, Opened
      <4> QED BY <4>1 DEF tip
    <3> QED BY <1>4, <3>1 DEF MkFeed, Ordered
  <2>4. MkPage
    BY <2>1, <2>3 DEF MkPage
  <2> QED BY <1>1, <1>2, <1>3, <1>6, <2>2, <2>4 DEF LookInv, PoolInv, HV!Init
<1>7. CASE page = "wallet"
  <2>1. shown = [online |-> FALSE, h |-> 0, txs |-> <<>>] /\ address \in Entered
    BY <1>1, <1>7 DEF Blank, waBlank, Init, WaInit
  <2>2. Seen.h = 0 /\ Seen.confirmed = {} /\ Seen.pending = {}
    BY <1>4, <1>7, <2>1 DEF Seen
  <2>3. <<>> \in Seq(Entries) /\ Ordered(<<>>, Apart)
    BY DEF Ordered
  <2>4. WaPage
    BY <2>1, <2>3 DEF WaPage
  <2> QED BY <1>1, <1>2, <1>3, <1>7, <2>2, <2>4 DEF LookInv, PoolInv, HV!Init
<1>8. CASE page \notin Feeds
  <2>1. Seen.h = 0 /\ Seen.confirmed = {} /\ Seen.pending = {}
    BY <1>8 DEF Seen, Feeds
  <2> QED BY <1>1, <1>2, <1>3, <1>8, <2>1 DEF LookInv, PoolInv, HV!Init, Feeds
<1> QED BY <1>5, <1>6, <1>7, <1>8 DEF Feeds

\* What the pages that look rely on holds in every state.
THEOREM LookInvariant == Spec => [](SiteInv /\ LookInv)
<1>1. SiteInv /\ LookInv /\ [Next]_vars => SiteInv' /\ LookInv'
  BY NextSiteInv, LookStepInv
<1> QED BY <1>1, InitSiteInv, SightStart, PTL DEF Spec

(***************************************************************************)
(* Markets, wallet and mempool implement HonestView: several requests per  *)
(* poll, polls that overlap, cached blocks, failures, outages and an       *)
(* address submitted while an answer is awaited never show what no single  *)
(* look at the chain could have shown. (The pages that show no such list   *)
(* do trivially.)                                                          *)
(***************************************************************************)
THEOREM HonestPages == Spec => HonestViewSpec
BY LookInvariant, SightStart, SightStep, PTL DEF Spec, HonestViewSpec, HV!Spec

\* The wallet lists no transaction twice, as pending and as confirmed, although
\* it reads the pool after the height and the two may overlap.
THEOREM NothingListedTwice == Spec => []WaListedOnce
<1>1. ASSUME LookInv PROVE WaListedOnce
  <2> SUFFICES ASSUME page = "wallet", NEW i \in DOMAIN shown.txs, NEW j \in DOMAIN shown.txs,
                      shown.txs[i].tx = shown.txs[j].tx
               PROVE  i = j
    BY DEF WaListedOnce
  <2>1. shown.txs \in Seq(Entries) /\ Ordered(shown.txs, Apart)
    BY <1>1 DEF LookInv, WaPage
  <2>2. i \in Nat /\ j \in Nat
    BY <2>1
  <2>3. ~(i < j) /\ ~(j < i)
    BY <2>1 DEF Ordered, Apart
  <2> QED BY <2>2, <2>3
<1> QED BY <1>1, LookInvariant, PTL
-----------------------------------------------------------------------------
(* The cards of the markets page.                                          *)

\* The stake of a transaction, and those of a list, as functions.
StakeOf == [t \in Txs |-> Bet[t].a]
StakesIn(l) == [i \in DOMAIN l |-> Bet[l[i].tx].a]

\* The recursions behind Staked and Amount.
StakedSums(S, g) ==
  g = [s \in SUBSET S |-> IF s = {} THEN 0 ELSE Bet[Taken(s)].a + g[Left(s)]]

\* The second: over the places of a list.
AmountSums(l, g) ==
  g = [s \in SUBSET (DOMAIN l) |->
         IF s = {} THEN 0 ELSE Bet[l[Taken(s)].tx].a + g[Left(s)]]

\* Staked is its recursion.
LEMMA StakedIsRecursion ==
  ASSUME NEW S
  PROVE  Staked(S) = (CHOOSE g : StakedSums(S, g))[S]
  BY DEF Staked, MapThenSumSet, MapThenFoldSet, StakedSums, Taken, Left

\* So is Amount.
LEMMA AmountIsRecursion ==
  ASSUME NEW l
  PROVE  Amount(l) = (CHOOSE g : AmountSums(l, g))[DOMAIN l]
  BY DEF Amount, MapThenSumSet, MapThenFoldSet, AmountSums, Taken, Left

\* A solution of the recursion of a sum has the sum as its last value.
LEMMA SumIs ==
  ASSUME NEW S, IsFiniteSet(S), NEW h, NEW g, Sums(h, S, g)
  PROVE  g[S] = SumOver(h, S)
<1>1. PICK f : Sums(h, S, f) /\ SumOver(h, S) = f[S]
  BY SumHasFunction
<1>2. S \in SUBSET S /\ S \in SUBSET (S \cap S)
  OBVIOUS
<1>3. g[S] = f[S]
  BY <1>1, <1>2, SumsAgree
<1> QED BY <1>1, <1>3

\* The stakes of a set of transactions, as a sum of FiniteSumsProofs.
LEMMA StakedIsSum ==
  ASSUME NEW S \in SUBSET Txs
  PROVE  Staked(S) = SumOver(StakeOf, S)
<1>1. IsFiniteSet(S)
  BY NodeAssumption, FS_Subset
<1>2. ASSUME NEW g PROVE StakedSums(S, g) <=> Sums(StakeOf, S, g)
  <2>1. \A s \in SUBSET S : s # {} => StakeOf[Taken(s)] = Bet[Taken(s)].a
    BY DEF StakeOf, Taken
  <2>2. [s \in SUBSET S |-> IF s = {} THEN 0 ELSE Bet[Taken(s)].a + g[Left(s)]] =
        [s \in SUBSET S |-> IF s = {} THEN 0 ELSE StakeOf[Taken(s)] + g[Left(s)]]
    BY <2>1
  <2> QED BY <2>2 DEF StakedSums, Sums
<1> DEFINE G == CHOOSE g : StakedSums(S, g)
<1>3. StakedSums(S, G)
  BY <1>1, <1>2, SumsExist
<1>4. Sums(StakeOf, S, G)
  BY <1>2, <1>3
<1>5. Staked(S) = G[S]
  BY StakedIsRecursion
<1> HIDE DEF G
<1> QED BY <1>1, <1>4, <1>5, SumIs

\* The stakes of a list, likewise.
LEMMA AmountIsSum ==
  ASSUME NEW l \in Seq(MkEvents)
  PROVE  Amount(l) = SumOver(StakesIn(l), DOMAIN l)
<1> DEFINE S == DOMAIN l
           h == StakesIn(l)
<1>1. IsFiniteSet(S)
  <2>1. S = 1..Len(l) /\ Len(l) \in Nat
    OBVIOUS
  <2>2. 1 \in Int /\ Len(l) \in Int
    BY <2>1
  <2>3. IsFiniteSet(1..Len(l))
    BY <2>2, FS_Interval
  <2> QED BY <2>1, <2>3
<1>2. ASSUME NEW g PROVE AmountSums(l, g) <=> Sums(h, S, g)
  <2>1. \A s \in SUBSET S : s # {} => h[Taken(s)] = Bet[l[Taken(s)].tx].a
    BY DEF StakesIn, Taken
  <2> HIDE DEF h
  <2>2. [s \in SUBSET S |-> IF s = {} THEN 0 ELSE Bet[l[Taken(s)].tx].a + g[Left(s)]] =
        [s \in SUBSET S |-> IF s = {} THEN 0 ELSE h[Taken(s)] + g[Left(s)]]
    BY <2>1
  <2> QED BY <2>2 DEF AmountSums, Sums
<1> DEFINE G == CHOOSE g : AmountSums(l, g)
<1>3. AmountSums(l, G)
  BY <1>1, <1>2, SumsExist
<1>4. Sums(h, S, G)
  BY <1>2, <1>3
<1>5. Amount(l) = G[S]
  BY AmountIsRecursion
<1> HIDE DEF G, S, h
<1>6. G[S] = SumOver(h, S)
  BY <1>1, <1>4, SumIs
<1> QED BY <1>5, <1>6 DEF S, h

\* The stakes at some places of a list, of different bets, are those of their
\* transactions.
LEMMA PartStaked ==
  ASSUME NEW l \in Seq(MkEvents), NEW A \in SUBSET (DOMAIN l),
         \A i \in A : Bet[l[i].tx].op = "buy",
         \A i, j \in A : l[i].tx = l[j].tx => i = j
  PROVE  /\ IsFiniteSet(A) /\ \A i \in A : StakesIn(l)[i] \in Nat
         /\ SumOver(StakesIn(l), A) = Staked({l[i].tx : i \in A})
<1> DEFINE T == {l[i].tx : i \in A}
           f == [i \in A |-> l[i].tx]
           h == StakesIn(l)
<1>1. DOMAIN l = 1..Len(l) /\ Len(l) \in Nat /\ \A i \in A : l[i] \in MkEvents
  OBVIOUS
<1>2. IsFiniteSet(A)
  <2>1. 1 \in Int /\ Len(l) \in Int
    BY <1>1
  <2>2. IsFiniteSet(1..Len(l))
    BY <2>1, FS_Interval
  <2> QED BY <1>1, <2>2, FS_Subset
<1>3. T \in SUBSET Txs
  BY <1>1 DEF MkEvents, Bets
<1>4. f \in [A -> T] /\ Image(f, A) = T
  BY DEF Image
<1>5. \A i, j \in A : f[i] = f[j] => i = j
  OBVIOUS
<1>6. \A i \in A : h[i] = Bet[l[i].tx].a /\ f[i] = l[i].tx /\ l[i].tx \in Txs
  BY <1>3 DEF StakesIn
<1>7. \A i \in A : h[i] \in Nat
  BY <1>6, MarketsAssumption
<1>8. \A i \in A : StakeOf[f[i]] = h[i]
  BY <1>6 DEF StakeOf
<1>9. IsFiniteSet(T)
  BY <1>3, NodeAssumption, FS_Subset
<1>10. Staked(T) = SumOver(StakeOf, T)
  BY <1>3, StakedIsSum
<1> HIDE DEF T, f, h
<1>11. \A i \in A : h[i] \in Int
  BY <1>7
<1>12. SumOver(h, A) = SumOver(StakeOf, T)
  BY <1>2, <1>4, <1>5, <1>8, <1>9, <1>11, SumMoved
<1> QED BY <1>2, <1>7, <1>10, <1>12 DEF T, h

\* The stakes of a list of bets are those of the settled ones and those of the
\* pooled ones: of either kind it has a transaction once.
LEMMA AmountStaked ==
  ASSUME NEW l \in Seq(MkEvents), Ordered(l, Newest),
         \A e \in ToSet(l) : Bet[e.tx].op = "buy"
  PROVE  Amount(l) = Staked(Settled(l)) + Staked(Pooled(l))
<1> DEFINE S == DOMAIN l
           A == {i \in S : l[i].pending}
           h == StakesIn(l)
<1>1. S = 1..Len(l) /\ Len(l) \in Nat
      /\ \A i \in S : l[i] \in MkEvents /\ l[i] \in ToSet(l)
  BY DEF ToSet
<1>2. \A i \in S : Bet[l[i].tx].op = "buy" /\ l[i].pending \in BOOLEAN
  BY <1>1 DEF MkEvents
<1>3. ASSUME NEW i \in S, NEW j \in S, l[i].tx = l[j].tx, l[i].pending = l[j].pending
      PROVE  i = j
  <2>1. i \in Nat /\ j \in Nat
    BY <1>1
  <2>2. ~(i < j) /\ ~(j < i)
    BY <1>3 DEF Ordered, Newest
  <2> QED BY <2>1, <2>2
<1>4. IsFiniteSet(S)
  <2>1. 1 \in Int /\ Len(l) \in Int
    BY <1>1
  <2>2. IsFiniteSet(1..Len(l))
    BY <2>1, FS_Interval
  <2> QED BY <1>1, <2>2
<1>5. A \in SUBSET S /\ S \ A \in SUBSET S
  OBVIOUS
<1>6. {l[i].tx : i \in A} = Pooled(l) /\ {l[i].tx : i \in S \ A} = Settled(l)
  BY <1>1 DEF Pooled, Settled, ToSet
<1>7. \A i, j \in A : l[i].tx = l[j].tx => i = j
  BY <1>2, <1>3
<1>8. \A i, j \in S \ A : l[i].tx = l[j].tx => i = j
  BY <1>2, <1>3
<1>9. Amount(l) = SumOver(h, S)
  BY AmountIsSum
<1> HIDE DEF A, h
<1>10. SumOver(h, A) = Staked(Pooled(l)) /\ \A i \in A : h[i] \in Nat
  BY <1>2, <1>5, <1>6, <1>7, PartStaked DEF h
<1>11. SumOver(h, S \ A) = Staked(Settled(l)) /\ \A i \in S \ A : h[i] \in Nat
  BY <1>2, <1>5, <1>6, <1>8, PartStaked DEF h
<1>12. \A i \in S : h[i] \in Int
  BY <1>10, <1>11
<1> HIDE DEF S
<1>13. SumOver(h, S) = SumOver(h, A) + SumOver(h, S \ A)
  BY <1>4, <1>5, <1>12, SumJoined
<1>14. SumOver(h, A) \in Int /\ SumOver(h, S \ A) \in Int
  <2>1. ASSUME NEW C \in SUBSET S PROVE SumOver(h, C) \in Int
    <3>1. IsFiniteSet(C) /\ \A i \in C : h[i] \in Int
      BY <1>4, <1>12, FS_Subset
    <3>2. PICK g : Sums(h, C, g) /\ SumOver(h, C) = g[C]
      BY <3>1, SumHasFunction
    <3>3. Int \in {Nat, Int} /\ C \in SUBSET C
      OBVIOUS
    <3> QED BY <3>1, <3>2, <3>3, SumsTyped
  <2> QED BY <1>5, <2>1
<1> QED BY <1>9, <1>10, <1>11, <1>13, <1>14

\* The stakes of two sides together.
LEMMA StakedJoined ==
  ASSUME NEW A \in SUBSET Txs, NEW B \in SUBSET Txs, A \cap B = {},
         \A t \in A \cup B : Bet[t].op = "buy"
  PROVE  /\ Staked(A \cup B) = Staked(A) + Staked(B)
         /\ Staked(A) \in Nat /\ Staked(B) \in Nat
<1> DEFINE S == A \cup B
<1>1. S \in SUBSET Txs /\ A \in SUBSET S /\ S \ A = B
  OBVIOUS
<1>2. IsFiniteSet(S) /\ IsFiniteSet(A) /\ IsFiniteSet(B)
  BY <1>1, NodeAssumption, FS_Subset
<1>3. \A t \in S : StakeOf[t] \in Nat
  BY <1>1, MarketsAssumption DEF StakeOf
<1>4. ASSUME NEW C \in SUBSET S PROVE Staked(C) = SumOver(StakeOf, C) /\ Staked(C) \in Nat
  <2>1. C \in SUBSET Txs /\ IsFiniteSet(C) /\ \A t \in C : StakeOf[t] \in Nat
    BY <1>1, <1>2, <1>3, <1>4, FS_Subset
  <2>2. Staked(C) = SumOver(StakeOf, C)
    BY <2>1, StakedIsSum
  <2>3. PICK g : Sums(StakeOf, C, g) /\ SumOver(StakeOf, C) = g[C]
    BY <2>1, SumHasFunction
  <2>4. Nat \in {Nat, Int} /\ C \in SUBSET C
    OBVIOUS
  <2>5. g[C] \in Nat
    BY <2>1, <2>3, <2>4, SumsTyped
  <2> QED BY <2>2, <2>3, <2>5
<1>5. A \in SUBSET S /\ B \in SUBSET S /\ S \in SUBSET S
  OBVIOUS
<1>6. \A t \in S : StakeOf[t] \in Int
  BY <1>3
<1>7. SumOver(StakeOf, S) = SumOver(StakeOf, A) + SumOver(StakeOf, S \ A)
  BY <1>2, <1>5, <1>6, SumJoined
<1>8. SumOver(StakeOf, S \ A) = SumOver(StakeOf, B)
  BY <1>1
<1> QED BY <1>4, <1>5, <1>7, <1>8

\* The stakes of two sets add up to those of both and, again, those they share.
LEMMA StakedShared ==
  ASSUME NEW A \in SUBSET Txs, NEW B \in SUBSET Txs,
         \A t \in A \cup B : Bet[t].op = "buy"
  PROVE  Staked(A) + Staked(B) = Staked(A \cup B) + Staked(A \cap B)
<1> DEFINE C == B \ A
           D == A \cap B
<1>1. C \in SUBSET Txs /\ D \in SUBSET Txs /\ A \cap C = {} /\ C \cap D = {}
      /\ A \cup C = A \cup B /\ C \cup D = B /\ A \cup C \subseteq A \cup B
      /\ C \cup D \subseteq A \cup B
  OBVIOUS
<1> HIDE DEF C, D
<1>2. Staked(A \cup C) = Staked(A) + Staked(C) /\ Staked(A) \in Nat /\ Staked(C) \in Nat
  BY <1>1, StakedJoined
<1>3. Staked(C \cup D) = Staked(C) + Staked(D) /\ Staked(D) \in Nat
  BY <1>1, StakedJoined
<1>4. Staked(A \cup C) = Staked(A \cup B) /\ Staked(C \cup D) = Staked(B)
  BY <1>1, Zenon
<1> QED BY <1>2, <1>3, <1>4 DEF D

\* No transaction, no stake.
LEMMA NoneStaked ==
  ASSUME NEW S \in SUBSET Txs, S = {}
  PROVE  Staked(S) = 0
<1>1. S \cap S = {} /\ S \cup S = S /\ \A t \in S \cup S : FALSE
  OBVIOUS
<1>2. Staked(S \cup S) = Staked(S) + Staked(S) /\ Staked(S) \in Nat
  BY <1>1, StakedJoined
<1>3. Staked(S \cup S) = Staked(S)
  BY <1>1, Zenon
<1> DEFINE x == Staked(S)
           y == Staked(S \cup S)
<1>4. y = x + x /\ x \in Nat /\ y = x
  BY <1>2, <1>3
<1> HIDE DEF x, y
<1>5. x = 0
  BY <1>4
<1> QED BY <1>5 DEF x

\* The events about a market.
LEMMA AboutFacts ==
  ASSUME NEW evs \in Seq(MkEvents), NEW op, NEW m
  PROVE  /\ About(evs, op, m) \in Seq(MkEvents)
         /\ ToSet(About(evs, op, m)) =
              {e \in ToSet(evs) : Bet[e.tx].op = op /\ Bet[e.tx].m = m}
         /\ \A R : Ordered(evs, R) => Ordered(About(evs, op, m), R)
<1> DEFINE S == {e \in ToSet(evs) : Bet[e.tx].op = op /\ Bet[e.tx].m = m}
<1>1. About(evs, op, m) = Kept(evs, S) /\ ToSet(evs) \cap S = S
  BY DEF About
<1> HIDE DEF S
<1>2. /\ Kept(evs, S) \in Seq(MkEvents) /\ ToSet(Kept(evs, S)) = ToSet(evs) \cap S
      /\ \A R : Ordered(evs, R) => Ordered(Kept(evs, S), R)
  BY KeptFacts
<1> QED BY <1>1, <1>2 DEF S

\* The bets on one side, and those of them that are pending.
Side(evs, m, s) ==
  Kept(About(evs, "buy", m), {e \in ToSet(About(evs, "buy", m)) : Bet[e.tx].s = s})
Waits(evs, m, s) == Kept(Side(evs, m, s), {e \in ToSet(evs) : e.pending})

\* What Market makes of them.
LEMMA MarketIs ==
  ASSUME NEW evs, NEW m
  PROVE  /\ Market(evs, m).yes = Amount(Side(evs, m, "y"))
         /\ Market(evs, m).no = Amount(Side(evs, m, "n"))
         /\ Market(evs, m).pendingVol = Amount(Waits(evs, m, "y")) + Amount(Waits(evs, m, "n"))
         /\ Market(evs, m).resolve = LastOf(About(evs, "resolve", m))
BY DEF Market, Side, Waits

\* The bets on one side are those of the memos.
LEMMA SideFacts ==
  ASSUME NEW evs \in Seq(MkEvents), Ordered(evs, Newest), NEW m, NEW s
  PROVE  /\ Side(evs, m, s) \in Seq(MkEvents) /\ Ordered(Side(evs, m, s), Newest)
         /\ \A e : e \in ToSet(Side(evs, m, s)) <=>
              e \in ToSet(evs) /\ e.tx \in Backing(evs, m, s)
<1> DEFINE buys == About(evs, "buy", m)
           S == {e \in ToSet(buys) : Bet[e.tx].s = s}
           l == Side(evs, m, s)
<1>1. /\ buys \in Seq(MkEvents) /\ Ordered(buys, Newest)
      /\ ToSet(buys) = {e \in ToSet(evs) : Bet[e.tx].op = "buy" /\ Bet[e.tx].m = m}
  BY AboutFacts
<1>2. l = Kept(buys, S) /\ ToSet(buys) \cap S = S
  BY DEF Side
<1>3. \A e : e \in S <=> e \in ToSet(buys) /\ Bet[e.tx].s = s
  OBVIOUS
<1> HIDE DEF buys, S, l
<1>4. l \in Seq(MkEvents) /\ ToSet(l) = ToSet(buys) \cap S /\ Ordered(l, Newest)
  BY <1>1, <1>2, KeptFacts
<1>5. \A e \in ToSet(evs) : e.tx \in TxsOf(evs)
  BY DEF TxsOf
<1>6. \A e \in ToSet(evs) : e \in S <=> e.tx \in Backing(evs, m, s)
  BY <1>1, <1>3, <1>5 DEF Backing, Of
<1> QED BY <1>1, <1>2, <1>3, <1>4, <1>6 DEF l

\* Every transaction listed is settled or pooled.
LEMMA TxsListed ==
  ASSUME NEW evs \in Seq(MkEvents)
  PROVE  TxsOf(evs) = Settled(evs) \cup Pooled(evs) /\ TxsOf(evs) \subseteq Txs
<1>1. \A e \in ToSet(evs) : e \in MkEvents
  BY DEF ToSet
<1> QED BY <1>1 DEF TxsOf, Settled, Pooled, MkEvents, Bets

\* What is added up for one side: each of its memos, and those once more that
\* the list has twice.
LEMMA SideStaked ==
  ASSUME NEW evs \in Seq(MkEvents), Ordered(evs, Newest), NEW m, NEW s
  PROVE  Amount(Side(evs, m, s)) = Tallied(evs, Backing(evs, m, s))
<1> DEFINE l == Side(evs, m, s)
           T == Backing(evs, m, s)
           Y == T \cap Settled(evs)
           Z == T \cap Pooled(evs)
<1>1. /\ l \in Seq(MkEvents) /\ Ordered(l, Newest)
      /\ \A e : e \in ToSet(l) <=> e \in ToSet(evs) /\ e.tx \in T
  BY SideFacts
<1>2. T \in SUBSET TxsOf(evs) /\ \A t \in T : Bet[t].op = "buy"
  BY DEF Backing, Of
<1> HIDE DEF l, T
<1>3. Settled(l) = Y /\ Pooled(l) = Z
  BY <1>1 DEF Settled, Pooled
<1>4. \A e \in ToSet(l) : Bet[e.tx].op = "buy"
  BY <1>1, <1>2
<1>5. Amount(l) = Staked(Y) + Staked(Z)
  BY <1>1, <1>3, <1>4, AmountStaked
<1>6. /\ Y \in SUBSET Txs /\ Z \in SUBSET Txs /\ Y \cup Z = T
      /\ Y \cap Z = T \cap Twice(evs) /\ \A t \in Y \cup Z : Bet[t].op = "buy"
  BY <1>2, TxsListed DEF Twice
<1> HIDE DEF Y, Z
<1>7. Staked(Y) + Staked(Z) = Staked(Y \cup Z) + Staked(Y \cap Z)
  BY <1>6, StakedShared
<1> QED BY <1>5, <1>6, <1>7 DEF l, T, Tallied

\* What is added up for the pending ones of a side: those of the pool.
LEMMA WaitsStaked ==
  ASSUME NEW evs \in Seq(MkEvents), Ordered(evs, Newest), NEW m, NEW s
  PROVE  Amount(Waits(evs, m, s)) = Staked(Backing(evs, m, s) \cap Pooled(evs))
<1> DEFINE side == Side(evs, m, s)
           S == {e \in ToSet(evs) : e.pending}
           l == Waits(evs, m, s)
           B == Backing(evs, m, s)
           Z == B \cap Pooled(evs)
<1>1. /\ side \in Seq(MkEvents) /\ Ordered(side, Newest)
      /\ \A e : e \in ToSet(side) <=> e \in ToSet(evs) /\ e.tx \in B
  BY SideFacts
<1>2. l = Kept(side, S)
  BY DEF Waits
<1>3. \A e : e \in S <=> e \in ToSet(evs) /\ e.pending
  OBVIOUS
<1>4. B \in SUBSET TxsOf(evs) /\ \A t \in B : Bet[t].op = "buy"
  BY DEF Backing, Of
<1> HIDE DEF side, S, l, B
<1>5. l \in Seq(MkEvents) /\ ToSet(l) = ToSet(side) \cap S /\ Ordered(l, Newest)
  BY <1>1, <1>2, KeptFacts
<1>6. \A e : e \in ToSet(l) <=> e \in ToSet(evs) /\ e.tx \in B /\ e.pending
  BY <1>1, <1>3, <1>5
<1>7. Settled(l) = {} /\ Pooled(l) = Z
  BY <1>6 DEF Settled, Pooled
<1>8. \A e \in ToSet(l) : Bet[e.tx].op = "buy"
  BY <1>4, <1>6
<1>9. Amount(l) = Staked(Settled(l)) + Staked(Z)
  BY <1>5, <1>7, <1>8, AmountStaked
<1>10. Z \in SUBSET Txs /\ Z \cap Z = Z /\ \A t \in Z : Bet[t].op = "buy"
  BY <1>4, TxsListed
<1> HIDE DEF Z
<1>11. Staked(Z) \in Nat
  <2>1. {} \in SUBSET Txs /\ Z \cap {} = {} /\ \A t \in Z \cup {} : Bet[t].op = "buy"
    BY <1>10
  <2> QED BY <1>10, <2>1, StakedJoined
<1>12. Staked(Settled(l)) = 0
  BY <1>7, NoneStaked
<1> QED BY <1>9, <1>11, <1>12 DEF l, Z, B

\* Whole percents, rounded down.
LEMMA RoundedDown ==
  ASSUME NEW a \in Nat, NEW b \in Nat, b # 0
  PROVE  (a \div b) * b <= a /\ (a \div b + 1) * b > a
OBVIOUS

\* The odds of a card.
LEMMA OddsExact ==
  ASSUME NEW evs \in Seq(MkEvents), Ordered(evs, Newest), NEW m
  PROVE  VolumeExact(evs, m, Odds(Market(evs, m)))
<1> DEFINE Y == Backing(evs, m, "y")
           N == Backing(evs, m, "n")
           mk == Market(evs, m)
           odds == Odds(mk)
           y == mk.yes
           n == mk.no
<1>1. TxsOf(evs) \subseteq Txs
  BY TxsListed
<1>2. /\ Y \in SUBSET Txs /\ N \in SUBSET Txs /\ Y \cap N = {}
      /\ \A t \in Y \cup N : Bet[t].op = "buy"
  BY <1>1 DEF Backing, Of
<1>3. y = Tallied(evs, Y) /\ n = Tallied(evs, N)
  BY MarketIs, SideStaked
<1> HIDE DEF Y, N, mk, y, n
<1>4. y \in Nat /\ n \in Nat /\ Tallied(evs, Y \cup N) = y + n
  <2> DEFINE YT == Y \cap Twice(evs)
             NT == N \cap Twice(evs)
  <2>1. /\ YT \in SUBSET Txs /\ NT \in SUBSET Txs /\ YT \cap NT = {}
        /\ YT \cup NT = (Y \cup N) \cap Twice(evs)
        /\ \A t \in YT \cup NT : Bet[t].op = "buy"
    BY <1>2
  <2>2. y = Staked(Y) + Staked(YT) /\ n = Staked(N) + Staked(NT)
    BY <1>3 DEF Tallied
  <2> HIDE DEF YT, NT
  <2>3. /\ Staked(Y \cup N) = Staked(Y) + Staked(N)
        /\ Staked(Y) \in Nat /\ Staked(N) \in Nat
    BY <1>2, StakedJoined
  <2>4. /\ Staked(YT \cup NT) = Staked(YT) + Staked(NT)
        /\ Staked(YT) \in Nat /\ Staked(NT) \in Nat
    BY <2>1, StakedJoined
  <2>5. Tallied(evs, Y \cup N) = Staked(Y \cup N) + Staked(YT \cup NT)
    BY <2>1 DEF Tallied
  <2> QED BY <2>2, <2>3, <2>4, <2>5
<1>5. /\ odds.vol = y + n /\ odds.known = (y + n # 0)
      /\ y + n # 0 => odds.yes = (y * 100) \div (y + n)
  BY DEF Odds, y, n
<1> HIDE DEF odds
<1>6. ASSUME odds.known
      PROVE  odds.yes * odds.vol <= 100 * y /\ (odds.yes + 1) * odds.vol > 100 * y
  <2> DEFINE a == y * 100
             b == y + n
  <2>0. b # 0
    <3>1. odds.known = (b # 0)
      BY <1>5
    <3> HIDE DEF b
    <3> QED BY <1>6, <3>1
  <2>1. a \in Nat /\ b \in Nat /\ b # 0 /\ a = 100 * y
    BY <1>4, <2>0
  <2>2. odds.yes = a \div b /\ odds.vol = b
    BY <1>5, <2>1
  <2> HIDE DEF a, b
  <2> QED BY <2>1, <2>2, RoundedDown
<1> QED BY <1>3, <1>4, <1>5, <1>6 DEF VolumeExact, Backers, Y, N, odds, mk

\* What a card says is pending.
LEMMA PendingExact ==
  ASSUME NEW evs \in Seq(MkEvents), Ordered(evs, Newest), NEW m
  PROVE  PoolExact(evs, m, Market(evs, m).pendingVol)
<1> DEFINE Z == Pooled(evs)
           Y == Backing(evs, m, "y") \cap Z
           N == Backing(evs, m, "n") \cap Z
<1>1. TxsOf(evs) \subseteq Txs
  BY TxsListed
<1>2. /\ Y \in SUBSET Txs /\ N \in SUBSET Txs /\ Y \cap N = {}
      /\ \A t \in Y \cup N : Bet[t].op = "buy"
  BY <1>1 DEF Backing, Of
<1>3. Market(evs, m).pendingVol = Staked(Y) + Staked(N)
  BY MarketIs, WaitsStaked
<1>4. Backers(evs, m) \cap Z = Y \cup N
  BY DEF Backers
<1> HIDE DEF Y, N
<1>5. Staked(Y \cup N) = Staked(Y) + Staked(N)
  BY <1>2, StakedJoined
<1> QED BY <1>3, <1>4, <1>5 DEF PoolExact

\* The block of a transaction is the one that holds it.
LEMMA BlockIs ==
  ASSUME NodeInv, NEW h \in 1..tip, NEW t \in ToSet(chain[h])
  PROVE  BlockOf(t) = h
<1>1. BlockOf(t) \in 1..tip /\ t \in ToSet(chain[BlockOf(t)])
  BY DEF BlockOf
<1> QED BY <1>1 DEF NodeInv

\* Of the resolves the oldest confirmed one is taken: the last of the list.
LEMMA ResolveOldest ==
  ASSUME NodeInv, NEW evs, NEW h, MkFeed(evs, h, tip, chain), NEW m
  PROVE  OldestResolve(evs, m, LastOf(About(evs, "resolve", m)))
<1> DEFINE S == {e \in ToSet(evs) : Bet[e.tx].op = "resolve" /\ Bet[e.tx].m = m}
           l == About(evs, "resolve", m)
           R == Of(evs, "resolve", m)
           r == LastOf(l)
<1>0. evs \in Seq(MkEvents) /\ Ordered(evs, Newest)
      /\ \A e \in ToSet(evs) : /\ e.pending <=> e.height = 0
                               /\ e.height # 0 => e.height \in 1..tip
                                                  /\ e.tx \in ToSet(chain[e.height])
  <2>1. 1..h \subseteq 1..tip
    BY DEF MkFeed, NodeInv, NodeTypeOK, tip
  <2> QED BY <2>1 DEF MkFeed
<1>1. l = Kept(evs, S) /\ ToSet(l) = S
  <2>1. l = Kept(evs, S)
    BY DEF About
  <2>2. ToSet(l) = S
    BY <1>0, AboutFacts
  <2> QED BY <2>1, <2>2
<1>2. R = {e.tx : e \in S}
  BY DEF Of, TxsOf
<1>3. \A e \in S : e \in ToSet(evs)
  OBVIOUS
<1>4. r = IF l = <<>> THEN NoEvent ELSE Last(l)
  BY DEF LastOf
<1> HIDE DEF S, l, R, r
<1>5. CASE l = <<>>
  <2>1. S = {}
    BY <1>1, <1>5 DEF ToSet
  <2>2. r = NoEvent /\ R = {}
    BY <1>2, <1>4, <1>5, <2>1
  <2> QED BY <2>2 DEF OldestResolve, r, l, R
<1>6. CASE l # <<>>
  <2>1. PICK i \in 1..Len(evs) : /\ r = evs[i] /\ evs[i] \in S
                                 /\ \A j \in 1..Len(evs) : evs[j] \in S => j <= i
    BY <1>0, <1>1, <1>4, <1>6, KeptLast
  <2>2. r \in ToSet(evs) /\ r.tx \in R /\ r \in MkEvents
    BY <1>0, <1>2, <1>3, <2>1
  <2>3. r # NoEvent /\ R # {}
    BY <1>0, <2>2 DEF NoEvent
  <2>4. ASSUME ~r.pending, NEW t \in R
        PROVE  t \in Settled(evs) /\ BlockOf(r.tx) <= BlockOf(t)
    <3>1. PICK d \in S : t = d.tx
      BY <1>2
    <3>2. PICK j \in DOMAIN evs : d = evs[j]
      BY <1>3 DEF ToSet
    <3>3. j \in 1..Len(evs) /\ DOMAIN evs = 1..Len(evs) /\ Len(evs) \in Nat
      BY <1>0, <3>2
    <3>4. j <= i
      BY <2>1, <3>2, <3>3
    <3>5. d \in MkEvents /\ d \in ToSet(evs)
      BY <1>0, <1>3, <3>2, <3>3
    <3>6. d.height >= r.height
      <4>1. CASE j = i
        BY <2>1, <2>2, <3>2, <4>1 DEF MkEvents
      <4>2. CASE j # i
        <5>1. j < i
          BY <3>3, <3>4, <4>2
        <5>2. <<d, r>> \in Newest
          BY <1>0, <2>1, <3>2, <3>3, <5>1 DEF Ordered
        <5> QED BY <5>2 DEF Newest
      <4> QED BY <4>1, <4>2
    <3>7. r.height \in 1..tip /\ r.tx \in ToSet(chain[r.height])
      BY <1>0, <2>2, <2>4
    <3>8. tip \in Nat /\ d.height \in Nat /\ d.height # 0
      BY <3>5, <3>6, <3>7 DEF MkEvents, NodeInv, NodeTypeOK, tip
    <3>9. d.height \in 1..tip /\ d.tx \in ToSet(chain[d.height]) /\ ~d.pending
      BY <1>0, <3>5, <3>8
    <3>10. BlockOf(r.tx) = r.height /\ BlockOf(t) = d.height
      BY <3>1, <3>7, <3>9, BlockIs
    <3>11. t \in Settled(evs)
      BY <3>1, <3>5, <3>9 DEF Settled
    <3> QED BY <3>6, <3>10, <3>11
  <2> QED BY <2>3, <2>4 DEF OldestResolve, r, l, R
<1> QED BY <1>5, <1>6

\* A transaction the list has twice is of the newest block the page read: the
\* pool was read after that block was saved, and holds nothing older.
LEMMA TwiceIsNewest ==
  ASSUME NodeInv, NEW evs, NEW h, MkFeed(evs, h, tip, chain)
  PROVE  Twice(evs) \subseteq ToSet(chain[h])
<1> SUFFICES ASSUME NEW t \in Twice(evs) PROVE t \in ToSet(chain[h])
  OBVIOUS
<1>1. PICK d \in ToSet(evs) : ~d.pending /\ d.tx = t
  BY DEF Twice, Settled
<1>2. PICK e \in ToSet(evs) : e.pending /\ e.tx = t
  BY DEF Twice, Pooled
<1>3. h \in Nat /\ d.height \in 1..h /\ t \in ToSet(chain[d.height])
  BY <1>1 DEF MkFeed, NodeInv, NodeTypeOK, tip
<1>4. t \notin Blocks(chain, 1..(h - 1))
  BY <1>2 DEF MkFeed
<1>5. d.height \notin 1..(h - 1)
  BY <1>3, <1>4 DEF Blocks
<1> QED BY <1>3, <1>5

(***************************************************************************)
(* Every card of the markets page agrees with the memos it was made from,  *)
(* whatever blocks they are in: stakes, shares, what is pending, and the   *)
(* oldest confirmed resolve wins. Each bet is counted once, except that    *)
(* one the index and the pool both reported is counted twice; only a bet   *)
(* of the newest block read can be such.                                   *)
(***************************************************************************)
THEOREM TallyExact == Spec => []MkTallyExact
<1>1. ASSUME SiteInv, LookInv PROVE MkTallyExact
  <2> DEFINE evs == shown.evs
             O == {e.tx : e \in {e \in ToSet(evs) : Bet[e.tx].op = "open"}}
  <2> SUFFICES ASSUME page = "markets", shown.online
               PROVE  /\ Twice(evs) \subseteq ToSet(chain[shown.h])
                      /\ DOMAIN Board = {t \in TxsOf(evs) : Bet[t].op = "open"}
                      /\ \A m \in DOMAIN Board : /\ VolumeExact(evs, m, Board[m].odds)
                                                 /\ PoolExact(evs, m, Board[m].poolVol)
                                                 /\ OldestResolve(evs, m, Board[m].resolve)
    BY DEF MkTallyExact
  <2>1. NodeInv /\ MkFeed(evs, shown.h, tip, chain)
    BY <1>1 DEF SiteInv, LookInv, MkPage
  <2>2. /\ evs \in Seq(MkEvents) /\ Ordered(evs, Newest)
        /\ Twice(evs) \subseteq ToSet(chain[shown.h])
    BY <2>1, TwiceIsNewest DEF MkFeed
  <2>3. Board = [m \in O |-> Card(Reconstruct(evs)[m])]
    BY DEF Board, Reconstruct
  <2>4. \A m \in O : Reconstruct(evs)[m] = Market(evs, m)
    BY DEF Reconstruct
  <2>5. O = {t \in TxsOf(evs) : Bet[t].op = "open"}
    BY DEF TxsOf
  <2> HIDE DEF evs, O
  <2>6. DOMAIN Board = O /\ \A m \in O : Board[m] = Card(Market(evs, m))
    BY <2>3, <2>4
  <2>7. \A m \in O : /\ Board[m].odds = Odds(Market(evs, m))
                     /\ Board[m].poolVol = Market(evs, m).pendingVol
                     /\ Board[m].resolve = LastOf(About(evs, "resolve", m))
    BY <2>6, MarketIs DEF Card
  <2>8. \A m \in O : /\ VolumeExact(evs, m, Odds(Market(evs, m)))
                     /\ PoolExact(evs, m, Market(evs, m).pendingVol)
                     /\ OldestResolve(evs, m, LastOf(About(evs, "resolve", m)))
    BY <2>1, <2>2, OddsExact, PendingExact, ResolveOldest
  <2> QED BY <2>2, <2>5, <2>6, <2>7, <2>8
<1> QED BY <1>1, LookInvariant, PTL
=============================================================================
