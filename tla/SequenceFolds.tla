----------------------------- MODULE SequenceFolds -----------------------------
(***************************************************************************)
(* Induction over data, for the folds the models are built from.  A fold   *)
(* goes over a sequence with a step Op, a parameter of this module that    *)
(* may also depend on two values p and q from outside the loop: a module   *)
(* instantiates it once for each fold it proves something about.           *)
(***************************************************************************)
EXTENDS Integers, Sequences, Folds, WellFoundedInduction, TLAPS

CONSTANT Op(_, _, _, _)

(* FoldLeft is that of SequencesExt, written out: every instance of this   *)
(* module copies what the module extends, and SequencesExt is large.       *)
Max(S) == CHOOSE x \in S : \A y \in S : x >= y

FoldLeft(op(_, _), base, seq) ==
    MapThenFoldSet(LAMBDA x, y : op(y, x), base, LAMBDA i : seq[i],
                   LAMBDA S : Max(S), DOMAIN seq)

(* The loop: `result` starts at `base` and each element in turn changes it. *)
Fold(p, q, base, seq) ==
    FoldLeft(LAMBDA result, element : Op(p, q, result, element), base, seq)

(* A set of natural numbers has a least element.                           *)
LEMMA NatMinimum ==
    ASSUME NEW T \in SUBSET Nat, T # {}
    PROVE  \E n \in T : \A m \in T : n <= m
<1> DEFINE R == OpToRel(<, Nat)
<1>1. IsWellFoundedOn(R, Nat)
  BY NatLessThanWellFounded
<1>2. \A x, y \in Nat : << y, x >> \in R <=> y < x
  BY DEF OpToRel
<1> HIDE DEF R
<1>3. PICK n \in T : \A m \in T : ~(<< m, n >> \in R)
  BY WFMin, <1>1
<1>4. ASSUME NEW m \in T PROVE n <= m
  <2>1. ~(m < n)
    BY <1>2, <1>3
  <2> QED
    BY <2>1
<1> QED
  BY <1>4

(* Induction over the natural numbers, with a set in the place of a        *)
(* predicate: the provers can instantiate it.                              *)
LEMMA NatInductive ==
    ASSUME NEW S, 0 \in S, \A n \in Nat : n \in S => n + 1 \in S
    PROVE  \A n \in Nat : n \in S
<1> SUFFICES ASSUME {n \in Nat : n \notin S} # {} PROVE FALSE
  OBVIOUS
<1>1. PICK n \in {m \in Nat : m \notin S} :
          \A m \in {k \in Nat : k \notin S} : n <= m
  BY NatMinimum
<1>2. n # 0 /\ n - 1 \in Nat /\ n - 1 \in S
  BY <1>1
<1> QED
  BY <1>1, <1>2

(* The same up to a bound, as for the steps of a loop over a sequence.     *)
LEMMA StepByStep ==
    ASSUME NEW N \in Nat, NEW S, 0 \in S, \A n \in 1 .. N : n - 1 \in S => n \in S
    PROVE  \A n \in 0 .. N : n \in S
<1> DEFINE T == {n \in Nat : n <= N => n \in S}
<1>1. 0 \in T
  OBVIOUS
<1>2. ASSUME NEW n \in Nat, n \in T PROVE n + 1 \in T
  <2>1. SUFFICES ASSUME n + 1 <= N PROVE n + 1 \in S
    OBVIOUS
  <2>2. n + 1 \in 1 .. N /\ (n + 1) - 1 = n /\ n \in S
    BY <1>2, <2>1
  <2> QED
    BY <2>2
<1> HIDE DEF T
<1>3. \A n \in Nat : n \in T
  BY <1>1, <1>2, NatInductive
<1> QED
  BY <1>3 DEF T

(* Max picks the greatest element of a set of indices.                     *)
LEMMA MaxOfIndices ==
    ASSUME NEW n \in Nat, NEW s \in SUBSET (1 .. n), s # {}
    PROVE  Max(s) \in s /\ \A i \in s : i <= Max(s)
<1> DEFINE T == {n - i : i \in s}
<1>1. T \in SUBSET Nat /\ T # {}
  OBVIOUS
<1>2. PICK t \in T : \A u \in T : t <= u
  BY <1>1, NatMinimum
<1>3. n - t \in s /\ \A i \in s : n - t >= i
  <2>1. PICK j \in s : t = n - j
    OBVIOUS
  <2>2. ASSUME NEW i \in s PROVE j >= i
    <3>1. n - j <= n - i
      BY <1>2, <2>1
    <3>2. n \in Int /\ i \in Int /\ j \in Int
      OBVIOUS
    <3> QED
      BY <3>1, <3>2
  <2>3. n - t = j
    BY <2>1
  <2> QED
    BY <2>2, <2>3
<1>4. \E x \in s : \A y \in s : x >= y
  BY <1>3
<1>5. Max(s) \in s /\ \A i \in s : Max(s) >= i
  BY <1>4 DEF Max
<1> QED
  BY <1>5

(* The steps of a fold over subsets of indices, as FoldLeft defines it.    *)
Steps(p, q, base, seq, D, g) ==
    [s \in D |-> IF s = {} THEN base ELSE Op(p, q, g[s \ {Max(s)}], seq[Max(s)])]

LEMMA FoldUnfolded ==
    ASSUME NEW p, NEW q, NEW base, NEW seq
    PROVE  Fold(p, q, base, seq)
             = (CHOOSE g : g = Steps(p, q, base, seq, SUBSET DOMAIN seq, g))[DOMAIN seq]
  BY DEF Fold, FoldLeft, MapThenFoldSet, Steps

LEMMA StepsExist ==
    ASSUME NEW p, NEW q, NEW base, NEW seq
    PROVE  \A n \in Nat : \E g : g = Steps(p, q, base, seq, SUBSET (1 .. n), g)
<1> DEFINE Has(n) == \E g : g = Steps(p, q, base, seq, SUBSET (1 .. n), g)
           S == {n \in Nat : Has(n)}
<1>1. 0 \in S
  <2> DEFINE g == [s \in SUBSET (1 .. 0) |-> base]
  <2>1. g = Steps(p, q, base, seq, SUBSET (1 .. 0), g)
    <3>1. \A s \in SUBSET (1 .. 0) : s = {}
      OBVIOUS
    <3> QED
      BY <3>1 DEF Steps
  <2> QED
    BY <2>1
<1>2. ASSUME NEW n \in Nat, n \in S PROVE n + 1 \in S
  <2>1. PICK g : g = Steps(p, q, base, seq, SUBSET (1 .. n), g)
    BY <1>2
  <2> DEFINE h == Steps(p, q, base, seq, SUBSET (1 .. n + 1), g)
  <2>2. ASSUME NEW s \in SUBSET (1 .. n + 1), s # {}
        PROVE  s \ {Max(s)} \in SUBSET (1 .. n)
    <3>1. n + 1 \in Nat
      OBVIOUS
    <3>2. Max(s) \in s /\ \A i \in s : i <= Max(s)
      BY <2>2, <3>1, MaxOfIndices
    <3>3. ASSUME NEW i \in s, i # Max(s) PROVE i \in 1 .. n
      <4>1. i \in 1 .. n + 1 /\ Max(s) \in 1 .. n + 1 /\ i <= Max(s)
        BY <3>2
      <4> QED
        BY <3>3, <4>1
    <3> QED
      BY <3>3
  <2>3. ASSUME NEW s \in SUBSET (1 .. n) PROVE h[s] = g[s]
    <3>1. s \in SUBSET (1 .. n + 1)
      OBVIOUS
    <3>2. g[s] = IF s = {} THEN base ELSE Op(p, q, g[s \ {Max(s)}], seq[Max(s)])
      BY <2>1 DEF Steps
    <3> QED
      BY <3>1, <3>2 DEF Steps
  <2>4. ASSUME NEW s \in SUBSET (1 .. n + 1), s # {}
        PROVE  h[s \ {Max(s)}] = g[s \ {Max(s)}]
    BY <2>2, <2>3, <2>4
  <2> HIDE DEF h
  <2>5. h = Steps(p, q, base, seq, SUBSET (1 .. n + 1), h)
    <3>1. \A s \in SUBSET (1 .. n + 1) :
              (IF s = {} THEN base ELSE Op(p, q, g[s \ {Max(s)}], seq[Max(s)]))
            = (IF s = {} THEN base ELSE Op(p, q, h[s \ {Max(s)}], seq[Max(s)]))
      BY <2>4
    <3> QED
      BY <3>1 DEF Steps, h
  <2> QED
    BY <2>5
<1> HIDE DEF Has
<1>3. \A n \in Nat : n \in S
  BY <1>1, <1>2, NatInductive
<1> QED
  BY <1>3 DEF Has

(***************************************************************************)
(* A fold is what a loop computes: there is a sequence of intermediate     *)
(* results that starts at `base`, each from the one before.                *)
(***************************************************************************)
IsTrace(p, q, f, base, seq) ==
    /\ f[0] = base
    /\ \A n \in 1 .. Len(seq) : f[n] = Op(p, q, f[n - 1], seq[n])

LEMMA FoldTrace ==
    ASSUME NEW p, NEW q, NEW S, NEW seq \in Seq(S), NEW base
    PROVE  \E f : IsTrace(p, q, f, base, seq) /\ Fold(p, q, base, seq) = f[Len(seq)]
<1> DEFINE N == Len(seq)
<1>1. N \in Nat /\ DOMAIN seq = 1 .. N
  OBVIOUS
<1> DEFINE g == CHOOSE g : g = Steps(p, q, base, seq, SUBSET (1 .. N), g)
<1>2. g = Steps(p, q, base, seq, SUBSET (1 .. N), g)
  BY <1>1, StepsExist
<1>3. Fold(p, q, base, seq) = g[1 .. N]
  BY <1>1, FoldUnfolded
<1> HIDE DEF g
<1> DEFINE f == [n \in 0 .. N |-> g[1 .. n]]
<1>4. f[0] = base
  <2>1. 1 .. 0 = {} /\ 1 .. 0 \in SUBSET (1 .. N)
    OBVIOUS
  <2>2. g[1 .. 0] = base
    BY <1>2, <2>1 DEF Steps
  <2> QED
    BY <1>1, <2>2
<1>5. ASSUME NEW n \in 1 .. N PROVE f[n] = Op(p, q, f[n - 1], seq[n])
  <2>1. 1 .. n \in SUBSET (1 .. N) /\ 1 .. n # {}
    <3>1. n \in Nat /\ n <= N /\ n \in 1 .. n
      BY <1>1
    <3>2. \A i \in 1 .. n : i \in 1 .. N
      BY <1>1, <3>1
    <3> QED
      BY <3>1, <3>2
  <2>2. Max(1 .. n) = n
    <3>1. Max(1 .. n) \in 1 .. n /\ \A i \in 1 .. n : i <= Max(1 .. n)
      BY <1>1, <2>1, MaxOfIndices
    <3> QED
      BY <3>1
  <2>3. (1 .. n) \ {n} = 1 .. n - 1
    OBVIOUS
  <2>4. g[1 .. n] = Op(p, q, g[(1 .. n) \ {n}], seq[n])
    BY <1>2, <2>1, <2>2 DEF Steps
  <2>5. n \in 0 .. N /\ n - 1 \in 0 .. N
    BY <1>1
  <2> QED
    BY <2>3, <2>4, <2>5
<1>6. f[N] = g[1 .. N]
  BY <1>1
<1> HIDE DEF f
<1> QED
  BY <1>3, <1>4, <1>5, <1>6 DEF IsTrace

(* Two loops over the same elements go through the same results.           *)
LEMMA TraceUnique ==
    ASSUME NEW p, NEW q, NEW S, NEW seq \in Seq(S), NEW T, NEW more \in Seq(T), NEW base,
           Len(seq) <= Len(more), \A i \in 1 .. Len(seq) : seq[i] = more[i],
           NEW f, NEW h, IsTrace(p, q, f, base, seq), IsTrace(p, q, h, base, more)
    PROVE  \A n \in 0 .. Len(seq) : f[n] = h[n]
<1>1. Len(seq) \in Nat /\ Len(more) \in Nat
  OBVIOUS
<1> DEFINE Same == {n \in Nat : n <= Len(seq) => f[n] = h[n]}
<1>2. 0 \in Same
  BY DEF IsTrace
<1>3. ASSUME NEW n \in Nat, n \in Same PROVE n + 1 \in Same
  <2>1. SUFFICES ASSUME n + 1 <= Len(seq) PROVE f[n + 1] = h[n + 1]
    OBVIOUS
  <2>2. n + 1 \in 1 .. Len(seq) /\ n + 1 \in 1 .. Len(more) /\ (n + 1) - 1 = n
    BY <1>1, <2>1
  <2>3. f[n + 1] = Op(p, q, f[n], seq[n + 1]) /\ h[n + 1] = Op(p, q, h[n], more[n + 1])
    BY <2>2 DEF IsTrace
  <2>4. f[n] = h[n]
    BY <1>1, <1>3, <2>1
  <2> QED
    BY <2>2, <2>3, <2>4
<1> HIDE DEF Same
<1>4. \A n \in Nat : n \in Same
  BY <1>2, <1>3, NatInductive
<1> QED
  BY <1>1, <1>4 DEF Same

(* A fold over nothing is where it starts.                                 *)
LEMMA FoldEmpty ==
    ASSUME NEW p, NEW q, NEW base
    PROVE  Fold(p, q, base, << >>) = base
<1>1. << >> \in Seq({}) /\ Len(<< >>) = 0
  OBVIOUS
<1>2. PICK f : IsTrace(p, q, f, base, << >>) /\ Fold(p, q, base, << >>) = f[Len(<< >>)]
  BY <1>1, FoldTrace
<1> QED
  BY <1>1, <1>2 DEF IsTrace

(* One element more is one step more.                                      *)
LEMMA FoldAppend ==
    ASSUME NEW p, NEW q, NEW S, NEW seq \in Seq(S), NEW e \in S, NEW base
    PROVE  Fold(p, q, base, Append(seq, e)) = Op(p, q, Fold(p, q, base, seq), e)
<1> DEFINE more == Append(seq, e)
<1>1. /\ more \in Seq(S) /\ Len(more) = Len(seq) + 1 /\ Len(seq) \in Nat
      /\ \A i \in 1 .. Len(seq) : more[i] = seq[i]
      /\ more[Len(seq) + 1] = e
  OBVIOUS
<1> HIDE DEF more
<1>2. PICK f : IsTrace(p, q, f, base, seq) /\ Fold(p, q, base, seq) = f[Len(seq)]
  BY FoldTrace
<1>3. PICK h : IsTrace(p, q, h, base, more) /\ Fold(p, q, base, more) = h[Len(more)]
  BY <1>1, FoldTrace
<1>4. f[Len(seq)] = h[Len(seq)]
  <2>1. \A n \in 0 .. Len(seq) : f[n] = h[n]
    <3>1. Len(seq) <= Len(more) /\ \A i \in 1 .. Len(seq) : seq[i] = more[i]
      BY <1>1
    <3> QED
      BY <1>1, <1>2, <1>3, <3>1, TraceUnique
  <2> QED
    BY <1>1, <2>1
<1>5. h[Len(seq) + 1] = Op(p, q, h[Len(seq)], e)
  <2>1. Len(seq) + 1 \in 1 .. Len(more) /\ (Len(seq) + 1) - 1 = Len(seq)
    BY <1>1
  <2> QED
    BY <1>1, <1>3, <2>1 DEF IsTrace
<1> QED
  BY <1>1, <1>2, <1>3, <1>4, <1>5 DEF more

LEMMA FoldOne ==
    ASSUME NEW p, NEW q, NEW base, NEW e
    PROVE  Fold(p, q, base, << e >>) = Op(p, q, base, e)
<1> DEFINE none == << >>
           S    == {e}
<1>1. none \in Seq(S) /\ e \in S
  OBVIOUS
<1>2. Fold(p, q, base, none) = base
  BY FoldEmpty
<1>3. Append(none, e) = << e >>
  OBVIOUS
<1> HIDE DEF none, S
<1>4. Fold(p, q, base, Append(none, e)) = Op(p, q, Fold(p, q, base, none), e)
  BY <1>1, FoldAppend
<1> QED
  BY <1>2, <1>3, <1>4

(* What every step preserves holds of the result.                          *)
LEMMA FoldInvariant ==
    ASSUME NEW p, NEW q, NEW S, NEW T, NEW seq \in Seq(S), NEW base \in T,
           \A t \in T : \A i \in 1 .. Len(seq) : Op(p, q, t, seq[i]) \in T
    PROVE  Fold(p, q, base, seq) \in T
<1>1. Len(seq) \in Nat
  OBVIOUS
<1>2. PICK f : IsTrace(p, q, f, base, seq) /\ Fold(p, q, base, seq) = f[Len(seq)]
  BY FoldTrace
<1> DEFINE Typed == {n \in Nat : n <= Len(seq) => f[n] \in T}
<1>3. 0 \in Typed
  BY <1>2 DEF IsTrace
<1>4. ASSUME NEW n \in Nat, n \in Typed PROVE n + 1 \in Typed
  <2>1. SUFFICES ASSUME n + 1 <= Len(seq) PROVE f[n + 1] \in T
    OBVIOUS
  <2>2. n + 1 \in 1 .. Len(seq) /\ (n + 1) - 1 = n
    BY <1>1, <2>1
  <2>3. f[n + 1] = Op(p, q, f[n], seq[n + 1])
    BY <1>2, <2>2 DEF IsTrace
  <2>4. f[n] \in T
    BY <1>1, <1>4, <2>1
  <2> QED
    BY <2>2, <2>3, <2>4
<1> HIDE DEF Typed
<1>5. \A n \in Nat : n \in Typed
  BY <1>3, <1>4, NatInductive
<1> QED
  BY <1>1, <1>2, <1>5 DEF Typed
=============================================================================
