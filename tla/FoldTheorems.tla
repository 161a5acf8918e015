---------------------------- MODULE FoldTheorems ----------------------------
(***************************************************************************)
(* What FoldLeft computes, for every operator op: the facts that the other *)
(* proof modules need of the code's loops over the items of a batch (touch *)
(* reports, the lines of a list), which the model writes as folds.  What a *)
(* loop knows besides its state and its item is the parameter p.           *)
(*                                                                         *)
(* FoldLeft of the community modules is a choice of a function on the sets *)
(* of positions.  Its properties need an induction over the length of the  *)
(* sequence; here that is the least-number principle, which follows from   *)
(* the library's fact that < is well founded on the naturals.  A module    *)
(* that needs these facts of an operator of its own takes                  *)
(*   F == INSTANCE FoldTheorems WITH op <- itsOperator                     *)
(* and cites F!FoldAppend.                                                 *)
(***************************************************************************)
EXTENDS NaturalsInduction, WellFoundedInduction, SequencesExt, TLAPS

CONSTANT op(_, _, _)

(* The fold that the theorems are about: what a loop has that starts from
   base and applies op for each item of s. *)
Fold(p, base, s) == FoldLeft(LAMBDA x, e : op(p, x, e), base, s)

(* A set of natural numbers that is not empty has a least member. *)
LEMMA LeastNat ==
  ASSUME NEW S \in SUBSET Nat, S # {} PROVE \E n \in S : \A m \in S : n <= m
<1>1. IsWellFoundedOn(OpToRel(<, Nat), Nat)
  BY NatLessThanWellFounded
<1>2. \E x \in S : \A y \in S : ~(<<y, x>> \in OpToRel(<, Nat))
  BY <1>1, WFMin
<1>3. PICK x \in S :  \A y \in S : ~(<<y, x>> \in OpToRel(<, Nat))
  BY <1>2
<1>4. ASSUME NEW y \in S PROVE x <= y
  <2>1. ~(<<y, x>> \in {ss \in Nat \X Nat : ss[1] < ss[2]})
    BY <1>3 DEF OpToRel
  <2>2. <<y, x>> \in Nat \X Nat
    OBVIOUS
  <2>3. ~(<<y, x>>[1] < <<y,x>>[2])
    BY <2>1, <2>2
  <2> QED BY <2>3
<1> QED BY <1>4

(* g is the function by which MapThenFoldSet defines FoldLeft(op, base, s):
   the fold of the part of s on a set of positions. *)
Folding(g, p, base, s) ==
  g = [d \in SUBSET DOMAIN s |-> IF d = {} THEN base ELSE op(p, g[d \ {Max(d)}], s[Max(d)])]

(* FoldLeft is what that function has for all positions. *)
LEMMA FoldLeftIs == ASSUME NEW p, NEW base, NEW s PROVE
  Fold(p, base, s) = (CHOOSE g : Folding(g, p, base, s))[DOMAIN s]
BY DEF Fold, FoldLeft, MapThenFoldSet, Folding

(* The greatest member of a set is what Max chooses. *)
LEMMA MaxIs == ASSUME NEW n \in Nat, NEW d \in SUBSET Nat, n \in d, \A m \in d : m <= n PROVE Max(d) = n
<1>1. \E x \in d : \A y \in d : x >= y
  OBVIOUS
<1>2. Max(d) \in d /\ \A y \in d : Max(d) >= y
  BY <1>1 DEF Max
<1> DEFINE m == Max(d)
<1>3. m \in Nat /\ m >= n /\ m <= n
  BY <1>2
<1> QED BY <1>3

(* A set of numbers up to k has a greatest. *)
LEMMA MaxIn == ASSUME NEW k \in Nat, NEW d \in SUBSET (1..k), d # {} PROVE Max(d) \in d
<1> DEFINE S == {k - m : m \in d}
<1>1. S \in SUBSET Nat /\ S # {}
  OBVIOUS
<1>2. PICK n \in S : \A j \in S : n <= j
  BY <1>1, LeastNat
<1>3. PICK m \in d : n = k - m
  BY <1>2
<1>4. ASSUME NEW y \in d PROVE y <= m
  <2>1. k - y \in S /\ y \in Int /\ m \in Int
    OBVIOUS
  <2>2. n <= k - y
    BY <1>2, <2>1
  <2> QED BY <1>3, <2>1, <2>2
<1>5. Max(d) = m
  BY <1>3, <1>4, MaxIs
<1> QED BY <1>5

(* That function exists for every sequence: the one for all but the last
   item is extended to the sets that have the last position. *)
LEMMA FoldingExists ==
  ASSUME NEW T, NEW p, NEW base PROVE \A s \in Seq(T) : \E g : Folding(g, p, base, s)
<1> DEFINE Bad == {n \in Nat : \E s \in Seq(T) : Len(s) = n /\ ~\E g : Folding(g, p, base, s)}
<1>1. SUFFICES Bad = {}
  OBVIOUS
<1>2. SUFFICES ASSUME Bad # {} PROVE FALSE
  OBVIOUS
<1>3. PICK n \in Bad : \A m \in Bad : n <= m
  BY <1>2, LeastNat
<1>4. PICK s \in Seq(T) : Len(s) = n /\ ~\E g : Folding(g, p, base, s)
  BY <1>3
<1>5. n \in Nat /\ DOMAIN s = 1..n
  BY <1>3, <1>4
<1>6. CASE n = 0
  <2>1. SUBSET DOMAIN s = {{}}
    BY <1>5, <1>6
  <2>2. Folding([d \in {{}} |-> base], p, base, s)
    BY <2>1 DEF Folding
  <2> QED BY <2>2, <1>4
<1>7. CASE n # 0
  <2> DEFINE f == SubSeq(s, 1, n - 1)
  <2>1. f \in Seq(T) /\ Len(f) = n - 1 /\ DOMAIN f = 1..(n-1) /\ \A i \in 1..(n-1) : f[i] = s[i]
    BY <1>4, <1>5, <1>7
  <2> HIDE DEF f
  <2>2. PICK h : Folding(h, p, base, f)
    <3>1. n - 1 \in Nat /\ ~(n <= n - 1)
      BY <1>5, <1>7
    <3>2. n - 1 \notin Bad
      BY <1>3, <3>1
    <3> QED BY <2>1, <3>1, <3>2
  <2> DEFINE g == [d \in SUBSET (1..n) |-> IF n \in d THEN op(p, h[d \ {n}], s[n]) ELSE h[d]]
  <2>3. \A d \in SUBSET (1..(n-1)) : h[d] = IF d = {} THEN base ELSE op(p, h[d \ {Max(d)}], f[Max(d)])
    BY <2>1, <2>2 DEF Folding
  <2>4. ASSUME NEW d \in SUBSET (1..n)
        PROVE  g[d] = IF d = {} THEN base ELSE op(p, g[d \ {Max(d)}], s[Max(d)])
    <3>1. CASE n \in d
      <4>1. Max(d) = n
        BY <1>5, <3>1, MaxIs
      <4>2. d \ {n} \in SUBSET (1..n) /\ n \notin d \ {n}
        OBVIOUS
      <4> QED BY <3>1, <4>1, <4>2
    <3>2. CASE n \notin d
      <4>1. d \in SUBSET (1..(n-1))
        BY <1>5, <3>2
      <4>2. g[d] = h[d]
        BY <3>2
      <4>3. CASE d = {}
        BY <2>3, <4>1, <4>2, <4>3
      <4>4. CASE d # {}
        <5>1. Max(d) \in 1..(n-1)
          <6>1. Max(d) \in d
            BY <1>5, <1>7, <4>1, <4>4, MaxIn
          <6> QED BY <4>1, <6>1
        <5>2. d \ {Max(d)} \in SUBSET (1..n) /\ n \notin d \ {Max(d)}
          BY <3>2
        <5>3. g[d \ {Max(d)}] = h[d \ {Max(d)}]
          BY <5>2
        <5>4. f[Max(d)] = s[Max(d)]
          BY <5>1, <2>1
        <5> QED BY <2>3, <4>1, <4>2, <4>4, <5>3, <5>4
      <4> QED BY <4>3, <4>4
    <3> QED BY <3>1, <3>2
  <2>5. Folding(g, p, base, s)
    BY <1>5, <2>4 DEF Folding
  <2> QED BY <1>4, <2>5
<1> QED BY <1>6, <1>7

(* Two sequences that agree up to n have the same fold up to n. *)
LEMMA FoldingPrefixes ==
  ASSUME NEW T, NEW p, NEW base, NEW s \in Seq(T), NEW t \in Seq(T), NEW g, NEW h, Folding(g, p, base, s), Folding(h, p, base, t),
         NEW n \in Nat, n <= Len(s), n <= Len(t), \A i \in 1..n : s[i] = t[i]
  PROVE  g[1..n] = h[1..n]
<1> DEFINE Bad == {k \in 0..n : g[1..k] # h[1..k]}
<1>1. SUFFICES ASSUME Bad # {} PROVE FALSE
  <2>1. n \in 0..n
    OBVIOUS
  <2> QED BY <2>1
<1>2. Bad \in SUBSET Nat
  OBVIOUS
<1>3. PICK k \in Bad : \A m \in Bad : k <= m
  BY <1>1, <1>2, LeastNat
<1>4. k \in 0..n /\ g[1..k] # h[1..k]
  BY <1>3
<1>5. 1..k \in SUBSET DOMAIN s /\ 1..k \in SUBSET DOMAIN t
  BY <1>4
<1>6. /\ g[1..k] = IF 1..k = {} THEN base ELSE op(p, g[(1..k) \ {Max(1..k)}], s[Max(1..k)])
      /\ h[1..k] = IF 1..k = {} THEN base ELSE op(p, h[(1..k) \ {Max(1..k)}], t[Max(1..k)])
  BY <1>5 DEF Folding
<1>7. CASE k = 0
  <2>1. 1..k = {}
    BY <1>7
  <2> QED BY <1>4, <1>6, <2>1
<1>8. CASE k # 0
  <2>1. k \in Nat /\ k - 1 \in 0..n /\ k \in 1..k
    BY <1>4, <1>8
  <2>0. 1..k # {} /\ 1..k \in SUBSET Nat
    BY <2>1
  <2>2. Max(1..k) = k
    BY <2>1, <2>0, MaxIs
  <2>3. (1..k) \ {k} = 1..(k-1)
    BY <1>4
  <2>4. g[1..k] = op(p, g[1..(k-1)], s[k]) /\ h[1..k] = op(p, h[1..(k-1)], t[k])
    BY <1>6, <2>0, <2>1, <2>2, <2>3
  <2>5. k - 1 \notin Bad
    BY <1>3, <1>4
  <2>6. g[1..(k-1)] = h[1..(k-1)]
    BY <2>1, <2>5
  <2> QED BY <1>4, <2>1, <2>4, <2>6
<1> QED BY <1>7, <1>8

(* The fold of no items is where it starts. *)
THEOREM FoldEmpty == ASSUME NEW p, NEW base PROVE Fold(p, base, <<>>) = base
<1>0. <<>> \in Seq({})
  OBVIOUS
<1>1. PICK g : Folding(g, p, base, <<>>)
  BY <1>0, FoldingExists
<1> DEFINE f == CHOOSE h : Folding(h, p, base, <<>>)
<1>2. Folding(f, p, base, <<>>)
  BY <1>1
<1>3. {} \in SUBSET DOMAIN <<>> /\ DOMAIN <<>> = {}
  OBVIOUS
<1> HIDE DEF f
<1>4. f[{}] = base
  BY <1>2, <1>3 DEF Folding
<1> QED BY <1>3, <1>4, FoldLeftIs DEF f

(* The fold of one more item is one more application of op: a loop that
   collects s, e does what the loop over s did and then handles e. *)
THEOREM FoldAppend ==
  ASSUME NEW T, NEW p, NEW base, NEW s \in Seq(T), NEW e \in T
  PROVE  Fold(p, base, Append(s, e)) = op(p, Fold(p, base, s), e)
<1> DEFINE t == Append(s, e)
           n == Len(s)
           g == CHOOSE h : Folding(h, p, base, s)
           f == CHOOSE h : Folding(h, p, base, t)
<1>1. n \in Nat /\ DOMAIN s = 1..n /\ t \in Seq(T) /\ DOMAIN t = 1..(n + 1) /\ Len(t) = n + 1 /\ t[n+1] = e /\ \A i \in 1..n : t[i] = s[i]
  OBVIOUS
<1>2. Folding(g, p, base, s) /\ Folding(f, p, base, t)
  BY <1>1, FoldingExists
<1>3. Fold(p, base, s) = g[1..n] /\ Fold(p, base, t) = f[1..(n + 1)]
  BY <1>1, FoldLeftIs
<1> HIDE DEF f, g, t, n
<1>4. f[1..n] = g[1..n]
  <2>1. n <= Len(s) /\ n <= Len(t) /\ \A i \in 1..n : s[i] = t[i]
    BY <1>1 DEF n
  <2>2. s \in Seq(T) /\ t \in Seq(T) /\ n \in Nat
    BY <1>1
  <2>3. Folding(g, p, base, s) /\ Folding(f, p, base, t)
    BY <1>2
  <2> QED BY <2>1, <2>2, <2>3, FoldingPrefixes
<1>5. f[1..(n + 1)] = op(p, f[1..n], t[n + 1])
  <2>1. 1..(n+1) \in SUBSET DOMAIN t /\ 1..(n+1) # {} /\ 1..(n+1) \in SUBSET Nat /\ n + 1 \in 1..(n+1) /\ n + 1 \in Nat
    BY <1>1
  <2>2. Max(1..(n+1)) = n + 1
    BY <2>1, MaxIs
  <2>3. (1..(n+1)) \ {n+1} = 1..n
    BY <1>1
  <2>4. f[1..(n+1)] = op(p, f[(1..(n+1)) \ {Max(1..(n+1))}], t[Max(1..(n+1))])
    BY <1>2, <2>1 DEF Folding
  <2> QED BY <2>2, <2>3, <2>4
<1> QED BY <1>1, <1>3, <1>4, <1>5 DEF t

(* Every sequence that is not empty is a shorter one and a last item. *)
LEMMA LastOff ==
  ASSUME NEW T, NEW s \in Seq(T), s # <<>>
  PROVE  \E f \in Seq(T), e \in T : s = Append(f, e) /\ Len(s) = Len(f) + 1
<1> DEFINE n == Len(s)
           f == SubSeq(s, 1, n - 1)
<1>1. n \in Nat /\ n >= 1
  OBVIOUS
<1>2. f \in Seq(T) /\ Len(f) = n - 1 /\ \A i \in 1..(n - 1) : f[i] = s[i]
  BY <1>1
<1>3. s[n] \in T
  BY <1>1
<1>4. Append(f, s[n]) = s
  <2> DEFINE t == Append(f, s[n])
  <2>1. t \in Seq(T) /\ Len(t) = n /\ t[n] = s[n] /\ \A i \in 1..(n - 1) : t[i] = f[i]
    BY <1>1, <1>2, <1>3
  <2>2. \A i \in 1..n : t[i] = s[i]
    BY <1>1, <1>2, <2>1
  <2>3. s \in Seq(T) /\ Len(s) = n
    OBVIOUS
  <2> HIDE DEF t, n
  <2> QED BY <2>1, <2>2, <2>3
<1> HIDE DEF f
<1> QED BY <1>1, <1>2, <1>3, <1>4

(* What op keeps the fold keeps: if op leads from states in S and items in
   T to states in S, a fold that starts in S ends in S. *)
THEOREM FoldKeeps ==
  ASSUME NEW S, NEW T, NEW p, NEW base \in S,
         \A x \in S, e \in T : op(p, x, e) \in S
  PROVE  \A s \in Seq(T) : Fold(p, base, s) \in S
<1> DEFINE Bad == {n \in Nat : \E s \in Seq(T) : Len(s) = n /\ Fold(p, base, s) \notin S}
<1>1. SUFFICES ASSUME Bad # {} PROVE FALSE
  OBVIOUS
<1>2. Bad \in SUBSET Nat
  OBVIOUS
<1>3. PICK n \in Bad : \A m \in Bad : n <= m
  BY <1>1, <1>2, LeastNat
<1>4. PICK s \in Seq(T) : Len(s) = n /\ Fold(p, base, s) \notin S
  BY <1>3
<1>5. s # <<>>
  BY <1>4, FoldEmpty
<1>6. PICK f \in Seq(T), e \in T : s = Append(f, e) /\ Len(s) = Len(f) + 1
  BY <1>4, <1>5, LastOff
<1>7. Len(f) \notin Bad /\ Len(f) \in Nat
  BY <1>3, <1>4, <1>6
<1>8. Fold(p, base, f) \in S
  BY <1>6, <1>7
<1>9. Fold(p, base, s) = op(p, Fold(p, base, f), e)
  BY <1>6, FoldAppend
<1> QED BY <1>4, <1>6, <1>8, <1>9

(* Two loops over the same items that start in related states end in related
   states, if one turn keeps the relation R. *)
THEOREM FoldRelates ==
  ASSUME NEW R, NEW S, NEW T, NEW p, NEW a \in S, NEW b \in S, <<a, b>> \in R,
         \A x \in S, y \in S, e \in T :
           <<x, y>> \in R => <<op(p, x, e), op(p, y, e)>> \in R,
         \A x \in S, e \in T : op(p, x, e) \in S
  PROVE  \A s \in Seq(T) : <<Fold(p, a, s), Fold(p, b, s)>> \in R
<1> DEFINE Bad == {n \in Nat : \E s \in Seq(T) :
                     Len(s) = n /\ <<Fold(p, a, s), Fold(p, b, s)>> \notin R}
<1>1. SUFFICES ASSUME Bad # {} PROVE FALSE
  <2>1. ASSUME NEW s \in Seq(T), Bad = {} PROVE <<Fold(p, a, s), Fold(p, b, s)>> \in R
    <3>1. Len(s) \in Nat
      OBVIOUS
    <3>2. Len(s) \notin Bad
      BY ONLY <2>1
    <3> QED BY <3>1, <3>2
  <2> QED BY <2>1
<1>2. Bad \in SUBSET Nat
  OBVIOUS
<1>3. PICK n \in Bad : \A m \in Bad : n <= m
  BY <1>1, <1>2, LeastNat
<1>4. PICK s \in Seq(T) : Len(s) = n /\ <<Fold(p, a, s), Fold(p, b, s)>> \notin R
  BY <1>3
<1>5. s # <<>>
  BY <1>4, FoldEmpty
<1>6. PICK f \in Seq(T), e \in T : s = Append(f, e) /\ Len(s) = Len(f) + 1
  BY <1>4, <1>5, LastOff
<1>7. Len(f) \notin Bad /\ Len(f) \in Nat
  BY <1>3, <1>4, <1>6
<1>8. <<Fold(p, a, f), Fold(p, b, f)>> \in R
  BY <1>6, <1>7
<1>9. Fold(p, a, f) \in S /\ Fold(p, b, f) \in S
  BY <1>6, FoldKeeps
<1>10. Fold(p, a, s) = op(p, Fold(p, a, f), e) /\ Fold(p, b, s) = op(p, Fold(p, b, f), e)
  BY <1>6, FoldAppend
<1>11. <<op(p, Fold(p, a, f), e), op(p, Fold(p, b, f), e)>> \in R
  BY <1>6, <1>8, <1>9
<1> QED BY <1>4, <1>10, <1>11

(* Induction over the items of a loop: a relation R between the items that have
   been handled and the state, which holds before the first item and which one
   turn keeps, holds after the last. *)
THEOREM FoldInduction ==
  ASSUME NEW R, NEW T, NEW p, NEW base, << <<>>, base >> \in R,
         \A f \in Seq(T), e \in T : \A x : <<f, x>> \in R => <<Append(f, e), op(p, x, e)>> \in R
  PROVE  \A s \in Seq(T) : <<s, Fold(p, base, s)>> \in R
<1> DEFINE Bad == {n \in Nat : \E s \in Seq(T) : Len(s) = n /\ <<s, Fold(p, base, s)>> \notin R}
<1>1. SUFFICES ASSUME Bad # {} PROVE FALSE
  <2>1. ASSUME NEW s \in Seq(T), Bad = {} PROVE <<s, Fold(p, base, s)>> \in R
    <3>1. Len(s) \in Nat
      OBVIOUS
    <3>2. Len(s) \notin Bad
      BY ONLY <2>1
    <3> QED BY <3>1, <3>2
  <2> QED BY <2>1
<1>2. Bad \in SUBSET Nat
  OBVIOUS
<1>3. PICK n \in Bad : \A m \in Bad : n <= m
  BY <1>1, <1>2, LeastNat
<1>4. PICK s \in Seq(T) : Len(s) = n /\ <<s, Fold(p, base, s)>> \notin R
  BY <1>3
<1>5. s # <<>>
  BY <1>4, FoldEmpty
<1>6. PICK f \in Seq(T), e \in T : s = Append(f, e) /\ Len(s) = Len(f) + 1
  BY <1>4, <1>5, LastOff
<1>7. Len(f) \notin Bad /\ Len(f) \in Nat
  <2>1. Len(f) \in Nat /\ ~(n <= Len(f))
    BY <1>3, <1>4, <1>6
  <2> HIDE DEF Bad
  <2> QED BY <1>3, <2>1
<1>8. <<f, Fold(p, base, f)>> \in R
  BY <1>6, <1>7
<1>9. Fold(p, base, s) = op(p, Fold(p, base, f), e)
  BY <1>6, FoldAppend
<1>10. <<Append(f, e), op(p, Fold(p, base, f), e)>> \in R
  BY <1>6, <1>8
<1> QED BY <1>4, <1>6, <1>9, <1>10

(* A loop over two sequences is a loop over the first and then one over the
   second. *)
THEOREM FoldConcat ==
  ASSUME NEW T, NEW p, NEW base, NEW s \in Seq(T), NEW t \in Seq(T)
  PROVE  Fold(p, base, s \o t) = Fold(p, Fold(p, base, s), t)
<1> DEFINE R == {<<u, Fold(p, base, s \o u)>> : u \in Seq(T)}
           start == Fold(p, base, s)
<1>1. << <<>>, start >> \in R
  <2>1. s \o <<>> = s /\ <<>> \in Seq(T)
    OBVIOUS
  <2> QED BY <2>1
<1>2. ASSUME NEW f \in Seq(T), NEW e \in T, NEW x, <<f, x>> \in R
      PROVE  <<Append(f, e), op(p, x, e)>> \in R
  <2>1. x = Fold(p, base, s \o f)
    BY <1>2
  <2>2. s \o f \in Seq(T) /\ Append(f, e) \in Seq(T) /\ s \o Append(f, e) = Append(s \o f, e)
    OBVIOUS
  <2>3. Fold(p, base, Append(s \o f, e)) = op(p, x, e)
    <3>1. Fold(p, base, Append(s \o f, e)) = op(p, Fold(p, base, s \o f), e)
      <4> DEFINE v == s \o f
      <4>1. v \in Seq(T)
        OBVIOUS
      <4> HIDE DEF v
      <4>2. Fold(p, base, Append(v, e)) = op(p, Fold(p, base, v), e)
        BY ONLY <4>1, e \in T, FoldAppend
      <4> QED BY <4>2 DEF v
    <3> QED BY <2>1, <3>1
  <2> QED BY <2>2, <2>3
<1>3. <<t, Fold(p, start, t)>> \in R
  <2> HIDE DEF R, start
  <2>1. \A u \in Seq(T) : <<u, Fold(p, start, u)>> \in R
    BY <1>1, <1>2, FoldInduction
  <2> QED BY <2>1
<1> QED BY <1>3
=============================================================================
