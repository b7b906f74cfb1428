------------------------------ MODULE FoldFacts ------------------------------
(***************************************************************************)
(* What a fold over numbered data computes, for an operator op: the folds  *)
(* of the models are instances (FoldLeft of a sequence, which folds over   *)
(* its domain, and folds over sets of indices in ascending order).         *)
(***************************************************************************)
EXTENDS Integers, Sequences, Induction, TLAPS

CONSTANT op(_, _, _)   \* op(p, y, x): y is folded so far, x the next element

Largest(S) == CHOOSE x \in S : \A y \in S : x >= y

(* From base, the elements f[i] for i in D, in ascending order of i.       *)
Fold(p, base, f, D) ==
  LET iter[s \in SUBSET D] ==
        IF s = {} THEN base ELSE op(p, iter[s \ {Largest(s)}], f[Largest(s)])
  IN iter[D]

-----------------------------------------------------------------------------
(* The fold is well defined                                                 *)

(* g is the function the definition asks for.                              *)
Iterates(g, p, base, f, D) ==
  g = [s \in SUBSET D |->
         IF s = {} THEN base ELSE op(p, g[s \ {Largest(s)}], f[Largest(s)])]

LEMMA LargestIs ==
  ASSUME NEW n \in Nat, NEW S, S \subseteq 0 .. n, S # {}
  PROVE  /\ Largest(S) \in S
         /\ \A y \in S : y <= Largest(S)
<1>1. \E x \in S : \A y \in S : y <= x
  BY LargestOfBounded
<1>2. \E x \in S : \A y \in S : x >= y
  BY <1>1
<1>3. Largest(S) \in S /\ \A y \in S : Largest(S) >= y
  BY <1>2 DEF Largest
<1> QED
  BY <1>3

LEMMA IteratesExists ==
  ASSUME NEW p, NEW base, NEW f, NEW n \in Nat
  PROVE  \E g : Iterates(g, p, base, f, 0 .. n - 1)
<1> DEFINE S == {k \in Nat : \E g : Iterates(g, p, base, f, 0 .. k - 1)}
<1>1. 0 \in S
  <2>1. 0 .. 0 - 1 = {} /\ SUBSET {} = {{}}
    OBVIOUS
  <2>2. Iterates([s \in SUBSET {} |-> base], p, base, f, {})
    BY <2>1 DEF Iterates
  <2> QED
    BY <2>1, <2>2
<1>2. ASSUME NEW k \in Nat, k \in S PROVE k + 1 \in S
  <2>1. PICK g : Iterates(g, p, base, f, 0 .. k - 1)
    BY <1>2
  <2> DEFINE Step(s) == IF s = {} THEN base ELSE op(p, g[s \ {Largest(s)}], f[Largest(s)])
             h == [s \in SUBSET (0 .. k) |-> Step(s)]
  <2>2. \A s \in SUBSET (0 .. k - 1) : g[s] = Step(s)
    BY <2>1 DEF Iterates
  <2>3. ASSUME NEW s \in SUBSET (0 .. k), s # {}
        PROVE  /\ s \ {Largest(s)} \in SUBSET (0 .. k - 1)
    <3>1. /\ Largest(s) \in s /\ Largest(s) \in 0 .. k
          /\ \A y \in s : y \in 0 .. k /\ y <= Largest(s)
      BY <2>3, LargestIs
    <3>2. ASSUME NEW y \in s, y # Largest(s) PROVE y \in 0 .. k - 1
      <4>1. y \in 0 .. k /\ y <= Largest(s) /\ Largest(s) \in 0 .. k
        BY <3>1
      <4> QED
        BY <3>2, <4>1
    <3> QED
      BY <3>2
  <2>4. ASSUME NEW s \in SUBSET (0 .. k), s # {}
        PROVE  h[s \ {Largest(s)}] = g[s \ {Largest(s)}]
    <3>1. s \ {Largest(s)} \in SUBSET (0 .. k - 1) /\ s \ {Largest(s)} \in SUBSET (0 .. k)
      BY <2>3, <2>4
    <3> QED
      BY <2>2, <3>1
  <2>5. Iterates(h, p, base, f, 0 .. k)
    BY <2>4 DEF Iterates
  <2>6. (k + 1) - 1 = k
    OBVIOUS
  <2> QED
    BY <2>5, <2>6
<1>3. Nat \subseteq S
  <2> HIDE DEF S
  <2> QED
    BY <1>1, <1>2, SetInduction
<1> QED
  BY <1>3

(* Two functions the definition asks for agree where they overlap.         *)
Bounded(D, n) == D \subseteq 0 .. n
SameElements(f, e, C, D) == \A i \in D : i \in C => f[i] = e[i]
SameResults(g, h, C, D) == \A s \in SUBSET D : s \subseteq C => g[s] = h[s]

LEMMA IteratesAgree ==
  ASSUME NEW p, NEW base, NEW f, NEW e, NEW n \in Nat,
         NEW C, Bounded(C, n), NEW D, Bounded(D, n),
         SameElements(f, e, C, D),
         NEW g, Iterates(g, p, base, f, C), NEW h, Iterates(h, p, base, e, D)
  PROVE  SameResults(g, h, C, D)
<1> DEFINE S == {k \in Nat : \A s \in SUBSET (C \cap D) : s \subseteq 0 .. k - 1 => g[s] = h[s]}
<1>1. /\ \A s \in SUBSET C :
           g[s] = IF s = {} THEN base ELSE op(p, g[s \ {Largest(s)}], f[Largest(s)])
      /\ \A s \in SUBSET D :
           h[s] = IF s = {} THEN base ELSE op(p, h[s \ {Largest(s)}], e[Largest(s)])
  BY DEF Iterates
<1>2. 0 \in S
  <2>1. 0 .. 0 - 1 = {}
    OBVIOUS
  <2>2. g[{}] = base /\ h[{}] = base
    BY <1>1
  <2> QED
    BY <2>1, <2>2
<1>3. ASSUME NEW k \in Nat, k \in S PROVE k + 1 \in S
  <2> SUFFICES ASSUME NEW s \in SUBSET (C \cap D), s \subseteq 0 .. k, s # {}
               PROVE  g[s] = h[s]
    <3>1. 0 .. (k + 1) - 1 = 0 .. k
      OBVIOUS
    <3>2. g[{}] = base /\ h[{}] = base
      BY <1>1
    <3>3. \A s \in SUBSET (C \cap D) : s \subseteq 0 .. (k + 1) - 1 => g[s] = h[s]
      BY <3>1, <3>2
    <3> QED
      BY <3>3
  <2> DEFINE x == Largest(s)
  <2>1. x \in s /\ \A y \in s : y <= x
    BY LargestIs DEF Bounded
  <2> HIDE DEF x
  <2>2. s \ {x} \subseteq 0 .. k - 1
    <3>1. ASSUME NEW y \in s, y # x PROVE y \in 0 .. k - 1
      <4>1. y \in 0 .. k /\ y <= x /\ x \in 0 .. k
        BY <2>1
      <4> QED
        BY <3>1, <4>1
    <3> QED
      BY <3>1
  <2>3. g[s \ {x}] = h[s \ {x}]
    BY <1>3, <2>2
  <2>4. f[x] = e[x]
    BY <2>1 DEF SameElements
  <2> QED
    BY <1>1, <2>3, <2>4 DEF x
<1>4. n + 1 \in S
  <2> HIDE DEF S
  <2> QED
    BY <1>2, <1>3, SetInduction
<1>5. (n + 1) - 1 = n
  OBVIOUS
<1> QED
  BY <1>4, <1>5 DEF Bounded, SameResults

LEMMA FoldIterates ==
  ASSUME NEW p, NEW base, NEW f, NEW n \in Nat, NEW D, Bounded(D, n)
  PROVE  \E g : Iterates(g, p, base, f, D) /\ Fold(p, base, f, D) = g[D]
<1>0. D \subseteq 0 .. n
  BY DEF Bounded
<1>1. PICK g : Iterates(g, p, base, f, 0 .. (n + 1) - 1)
  BY IteratesExists
<1>2. Iterates(g, p, base, f, 0 .. n)
  <2>1. (n + 1) - 1 = n
    OBVIOUS
  <2> QED
    BY <1>1, <2>1
<1>3. \A s \in SUBSET (0 .. n) :
        g[s] = IF s = {} THEN base ELSE op(p, g[s \ {Largest(s)}], f[Largest(s)])
  BY <1>2 DEF Iterates
<1> DEFINE h == [s \in SUBSET D |-> g[s]]
<1>4. ASSUME NEW s \in SUBSET D
      PROVE  h[s] = IF s = {} THEN base ELSE op(p, h[s \ {Largest(s)}], f[Largest(s)])
  <2>1. s \in SUBSET (0 .. n) /\ s \ {Largest(s)} \in SUBSET D
    BY <1>0
  <2> QED
    BY <1>3, <2>1
<1>5. Iterates(h, p, base, f, D)
  BY <1>4 DEF Iterates
<1> HIDE DEF h
<1> DEFINE i == CHOOSE i : Iterates(i, p, base, f, D)
<1>6. Iterates(i, p, base, f, D)
  BY <1>5
<1>7. Fold(p, base, f, D) = i[D]
  BY DEF Fold, Iterates
<1> QED
  BY <1>6, <1>7

-----------------------------------------------------------------------------
(* Its equations                                                            *)

LEMMA FoldNone == ASSUME NEW p, NEW base, NEW f PROVE Fold(p, base, f, {}) = base
<1>1. PICK g : Iterates(g, p, base, f, {}) /\ Fold(p, base, f, {}) = g[{}]
  <2>1. Bounded({}, 0)
    BY DEF Bounded
  <2> QED
    BY <2>1, FoldIterates
<1> QED
  BY <1>1 DEF Iterates

LEMMA FoldSame ==
  ASSUME NEW p, NEW base, NEW f, NEW e, NEW n \in Nat, NEW D, Bounded(D, n),
         SameElements(f, e, D, D)
  PROVE  Fold(p, base, f, D) = Fold(p, base, e, D)
<1>1. PICK g : Iterates(g, p, base, f, D) /\ Fold(p, base, f, D) = g[D]
  BY FoldIterates
<1>2. PICK h : Iterates(h, p, base, e, D) /\ Fold(p, base, e, D) = h[D]
  BY FoldIterates
<1>3. SameResults(g, h, D, D)
  BY <1>1, <1>2, IteratesAgree
<1>4. g[D] = h[D]
  BY <1>3 DEF SameResults
<1> QED
  BY <1>1, <1>2, <1>4

(* The last element comes last.                                            *)
IsLast(x, D) == x \in D /\ \A y \in D : y <= x

LEMMA FoldLast ==
  ASSUME NEW p, NEW base, NEW f, NEW n \in Nat, NEW D, Bounded(D, n), NEW x, IsLast(x, D)
  PROVE  Fold(p, base, f, D) = op(p, Fold(p, base, f, D \ {x}), f[x])
<1>0. D \subseteq 0 .. n /\ x \in D /\ \A y \in D : y <= x
  BY DEF Bounded, IsLast
<1>1. Largest(D) = x
  <2>1. Largest(D) \in D /\ x <= Largest(D) /\ Largest(D) <= x
    BY <1>0, LargestIs
  <2>2. \A y \in D : y \in Nat
    BY <1>0
  <2>3. x \in Nat /\ Largest(D) \in Nat
    BY <1>0, <2>1, <2>2
  <2> QED
    BY <2>1, <2>3
<1>2. PICK g : Iterates(g, p, base, f, D) /\ Fold(p, base, f, D) = g[D]
  BY FoldIterates
<1>3. PICK h : Iterates(h, p, base, f, D \ {x}) /\ Fold(p, base, f, D \ {x}) = h[D \ {x}]
  <2>1. Bounded(D \ {x}, n)
    BY <1>0 DEF Bounded
  <2> QED
    BY <2>1, FoldIterates
<1>4. g[D \ {x}] = h[D \ {x}]
  <2>1. /\ Bounded(D, n) /\ Bounded(D \ {x}, n)
        /\ SameElements(f, f, D, D \ {x})
    BY DEF Bounded, SameElements
  <2>2. SameResults(g, h, D, D \ {x})
    BY <1>2, <1>3, <2>1, IteratesAgree
  <2> QED
    BY <2>2 DEF SameResults
<1>5. g[D] = op(p, g[D \ {x}], f[x])
  BY <1>0, <1>1, <1>2 DEF Iterates
<1> QED
  BY <1>2, <1>3, <1>4, <1>5

(* What is true of the base and kept by each step is true of the fold: J   *)
(* holds the pairs <<the indices done, what is folded so far>>.            *)
Keeps(p, f, D, J) ==
  \A T \in SUBSET D, x \in D : \A y :
    (\A t \in T : t < x) /\ (\A t \in D : t < x => t \in T) /\ <<T, y>> \in J
      => <<T \cup {x}, op(p, y, f[x])>> \in J

LEMMA FoldKeeps ==
  ASSUME NEW p, NEW base, NEW f, NEW n \in Nat, NEW D, D \subseteq 0 .. n,
         NEW J, <<{}, base>> \in J, Keeps(p, f, D, J)
  PROVE  <<D, Fold(p, base, f, D)>> \in J
<1> DEFINE C(k) == {i \in D : i < k}
           S == {k \in Nat : <<C(k), Fold(p, base, f, C(k))>> \in J}
<1>0. \A i \in D : i \in Nat /\ i <= n
  OBVIOUS
<1>1. 0 \in S
  <2>1. \A i \in D : ~(i < 0)
    BY <1>0
  <2>2. C(0) = {}
    BY <2>1
  <2> QED
    BY <2>2, FoldNone
<1>2. ASSUME NEW k \in Nat, k \in S PROVE k + 1 \in S
  <2>1. CASE k \in D
    <3>1. C(k + 1) = C(k) \cup {k} /\ C(k + 1) \ {k} = C(k) /\ C(k) \in SUBSET D
      <4>1. \A i \in D : i < k + 1 <=> i < k \/ i = k
        BY <1>0
      <4>2. ~(k < k)
        OBVIOUS
      <4> QED
        BY <2>1, <4>1, <4>2
    <3>2. /\ C(k + 1) \subseteq 0 .. n /\ k \in C(k + 1) /\ \A y \in C(k + 1) : y <= k
      <4>1. \A i \in D : i < k + 1 => i <= k
        BY <1>0
      <4>2. k < k + 1
        OBVIOUS
      <4> QED
        BY <2>1, <4>1, <4>2
    <3> HIDE DEF C
    <3>3. Fold(p, base, f, C(k + 1)) = op(p, Fold(p, base, f, C(k)), f[k])
      <4>1. Fold(p, base, f, C(k + 1)) = op(p, Fold(p, base, f, C(k + 1) \ {k}), f[k])
        <5>1. Bounded(C(k + 1), n) /\ IsLast(k, C(k + 1))
          BY <3>2 DEF Bounded, IsLast
        <5> QED
          BY <5>1, FoldLast
      <4> QED
        BY <3>1, <4>1
    <3>4. (\A t \in C(k) : t < k) /\ (\A t \in D : t < k => t \in C(k))
      BY DEF C
    <3>5. <<C(k), Fold(p, base, f, C(k))>> \in J
      BY <1>2
    <3>6. <<C(k) \cup {k}, op(p, Fold(p, base, f, C(k)), f[k])>> \in J
      BY <2>1, <3>1, <3>4, <3>5 DEF Keeps
    <3> QED
      BY <3>1, <3>3, <3>6
  <2>2. CASE k \notin D
    <3>1. C(k + 1) = C(k)
      <4>1. \A i \in D : i < k + 1 <=> i < k
        BY <1>0, <2>2
      <4> QED
        BY <4>1
    <3> HIDE DEF C
    <3> QED
      BY <1>2, <3>1
  <2> QED
    BY <2>1, <2>2
<1>3. n + 1 \in S
  <2> HIDE DEF S
  <2> QED
    BY <1>1, <1>2, SetInduction
<1>4. C(n + 1) = D
  <2>1. \A i \in D : i < n + 1
    BY <1>0
  <2> QED
    BY <2>1
<1> QED
  BY <1>3, <1>4

-----------------------------------------------------------------------------
(* Folds over sequences                                                     *)

LEMMA FoldAppend ==
  ASSUME NEW p, NEW base, NEW E, NEW q \in Seq(E), NEW e \in E
  PROVE  Fold(p, base, Append(q, e), DOMAIN Append(q, e)) = op(p, Fold(p, base, q, DOMAIN q), e)
<1> DEFINE a == Append(q, e)
           n == Len(q)
<1>1. /\ n \in Nat /\ n + 1 \in Nat /\ DOMAIN q = 1 .. n /\ DOMAIN a = 1 .. n + 1
      /\ \A i \in 1 .. n : a[i] = q[i]
      /\ a[n + 1] = e
  OBVIOUS
<1> HIDE DEF a, n
<1>2. /\ 1 .. n + 1 \subseteq 0 .. n + 1 /\ 1 .. n \subseteq 0 .. n
      /\ n + 1 \in 1 .. n + 1 /\ \A y \in 1 .. n + 1 : y <= n + 1
      /\ (1 .. n + 1) \ {n + 1} = 1 .. n
  BY <1>1
<1>3. Fold(p, base, a, 1 .. n + 1) = op(p, Fold(p, base, a, 1 .. n), e)
  <2>1. Bounded(1 .. n + 1, n + 1) /\ IsLast(n + 1, 1 .. n + 1)
    BY <1>2 DEF Bounded, IsLast
  <2> QED
    BY <1>1, <1>2, <2>1, FoldLast
<1>4. Fold(p, base, a, 1 .. n) = Fold(p, base, q, 1 .. n)
  <2>1. Bounded(1 .. n, n) /\ SameElements(a, q, 1 .. n, 1 .. n)
    BY <1>1, <1>2 DEF Bounded, SameElements
  <2> QED
    BY <1>1, <2>1, FoldSame
<1> QED
  BY <1>1, <1>3, <1>4 DEF a

-----------------------------------------------------------------------------
(* Folds over sets of indices: the elements are the indices                 *)

FoldIndices(p, base, D) ==
  LET iter[s \in SUBSET D] ==
        IF s = {} THEN base ELSE op(p, iter[s \ {Largest(s)}], Largest(s))
  IN iter[D]

LEMMA FoldOfIndices ==
  ASSUME NEW p, NEW base, NEW n \in Nat, NEW D, D \subseteq 0 .. n
  PROVE  FoldIndices(p, base, D) = Fold(p, base, [i \in D |-> i], D)
<1> DEFINE f == [i \in D |-> i]
           Of(g) == g = [s \in SUBSET D |->
                           IF s = {} THEN base ELSE op(p, g[s \ {Largest(s)}], Largest(s))]
           h == CHOOSE g : Of(g)
<1>1. ASSUME NEW s \in SUBSET D, s # {} PROVE f[Largest(s)] = Largest(s)
  <2>1. Largest(s) \in D
    BY <1>1, LargestIs
  <2> QED
    BY <2>1
<1> HIDE DEF f
<1>2. \A g : Of(g) <=> Iterates(g, p, base, f, D)
  <2> SUFFICES ASSUME NEW g PROVE Of(g) <=> Iterates(g, p, base, f, D)
    OBVIOUS
  <2>1. [s \in SUBSET D |-> IF s = {} THEN base ELSE op(p, g[s \ {Largest(s)}], Largest(s))]
          = [s \in SUBSET D |-> IF s = {} THEN base ELSE op(p, g[s \ {Largest(s)}], f[Largest(s)])]
    BY <1>1
  <2> QED
    BY <2>1 DEF Iterates
<1>3. PICK g : Iterates(g, p, base, f, D) /\ Fold(p, base, f, D) = g[D]
  <2>1. Bounded(D, n)
    BY DEF Bounded
  <2> QED
    BY <2>1, FoldIterates
<1>4. Of(h)
  <2>1. Of(g)
    BY <1>2, <1>3
  <2> QED
    BY <2>1
<1>5. FoldIndices(p, base, D) = h[D]
  BY DEF FoldIndices
<1> HIDE DEF h, Of
<1>6. SameResults(g, h, D, D)
  <2>1. Iterates(h, p, base, f, D)
    BY <1>2, <1>4
  <2>2. Bounded(D, n) /\ SameElements(f, f, D, D)
    BY DEF Bounded, SameElements
  <2> QED
    BY <1>3, <2>1, <2>2, IteratesAgree
<1>7. g[D] = h[D]
  BY <1>6 DEF SameResults
<1> QED
  BY <1>3, <1>5, <1>7 DEF f
=============================================================================
