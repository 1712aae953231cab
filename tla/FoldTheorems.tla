---------------------------- MODULE FoldTheorems ----------------------------
(***************************************************************************)
(* What the provers need to know of the folds and the extrema of the       *)
(* community modules: induction, with sets for the predicates it is about; *)
(* the greatest and the least element of a set; sums over finite sets; and *)
(* folds over a sequence, as the runs of a function.                       *)
(***************************************************************************)
EXTENDS Integers, FiniteSets, Sequences, FiniteSetsExt, SequencesExt,
        FiniteSetTheorems, WellFoundedInduction, TLAPS

-----------------------------------------------------------------------------
(* Induction. *)

LEMMA Least ==
    ASSUME NEW T \in SUBSET Nat, T # {}
    PROVE  \E n \in T : \A k \in T : n <= k
<1> DEFINE R == OpToRel(<, Nat)
<1>1. IsWellFoundedOn(R, Nat)
  BY NatLessThanWellFounded
<1>2. PICK x \in T : \A y \in T : ~(<<y, x>> \in R)
  <2> HIDE DEF R
  <2> QED BY <1>1, WFMin
<1>3. ASSUME NEW y \in T PROVE x <= y
  <2>1. y < x => <<y, x>> \in R
    BY DEF OpToRel
  <2> HIDE DEF R
  <2> QED BY <2>1, <1>2
<1> QED BY <1>3

LEMMA Induct ==
    ASSUME NEW T, 0 \in T, \A n \in Nat : n \in T => n + 1 \in T
    PROVE  Nat \subseteq T
<1> DEFINE B == Nat \ T
<1>1. ASSUME B # {} PROVE FALSE
  <2>1. PICK n \in B : \A k \in B : n <= k
    <3> B \in SUBSET Nat
      OBVIOUS
    <3> HIDE DEF B
    <3> QED BY <1>1, Least
  <2>2. n # 0 /\ n - 1 \in Nat /\ n - 1 \notin B
    BY <2>1
  <2> QED BY <2>1, <2>2
<1> QED BY <1>1

\* A finite set without one of its elements.
LEMMA Smaller ==
    ASSUME NEW S, IsFiniteSet(S), NEW x \in S
    PROVE  /\ IsFiniteSet(S \ {x})
           /\ Cardinality(S) \in Nat /\ Cardinality(S \ {x}) \in Nat
           /\ Cardinality(S) = Cardinality(S \ {x}) + 1
BY FS_RemoveElement, FS_CardinalityType

-----------------------------------------------------------------------------
(* The least and the greatest. *)

LEMMA GreatestIs ==
    ASSUME NEW S \in SUBSET Int, IsFiniteSet(S), S # {}
    PROVE  \E x \in S : \A y \in S : x >= y
<1> DEFINE Has(U) == \E x \in U : \A y \in U : x >= y
           T == {n \in Nat : \A U \in SUBSET Int :
                    IsFiniteSet(U) /\ Cardinality(U) = n + 1 => Has(U)}
<1>1. 0 \in T
  <2> SUFFICES ASSUME NEW U \in SUBSET Int, IsFiniteSet(U), Cardinality(U) = 0 + 1
               PROVE  Has(U)
    OBVIOUS
  <2>0. Cardinality(U) = 1
    OBVIOUS
  <2>1. PICK x : U = {x}
    BY <2>0, FS_Singleton
  <2>2. x \in U /\ x \in Int /\ \A y \in U : x >= y
    BY <2>1
  <2> QED BY <2>2
<1>2. ASSUME NEW n \in Nat, n \in T PROVE n + 1 \in T
  <2> SUFFICES ASSUME NEW U \in SUBSET Int, IsFiniteSet(U), Cardinality(U) = (n + 1) + 1
               PROVE  Has(U)
    OBVIOUS
  <2>1. U # {}
    BY FS_EmptySet
  <2>2. PICK z \in U : TRUE
    BY <2>1
  <2> DEFINE V == U \ {z}
  <2>3. IsFiniteSet(V) /\ Cardinality(V) = n + 1 /\ V \in SUBSET Int
    BY <2>2, Smaller
  <2>4. Has(V)
    BY <1>2, <2>3
  <2>5. PICK x \in V : \A y \in V : x >= y
    BY <2>4
  <2>6. CASE x >= z
    <3>1. x \in U /\ \A y \in U : x >= y
      BY <2>5, <2>6
    <3> QED BY <3>1
  <2>7. CASE ~(x >= z)
    <3>1. \A y \in U : z >= y
      BY <2>5, <2>7
    <3> QED BY <3>1, <2>2
  <2> QED BY <2>6, <2>7
<1>3. Nat \subseteq T
  <2> HIDE DEF T
  <2> QED BY <1>1, <1>2, Induct
<1>4. PICK n \in Nat : Cardinality(S) = n + 1
  <2>1. Cardinality(S) \in Nat /\ Cardinality(S) # 0
    BY FS_EmptySet, FS_CardinalityType
  <2>2. Cardinality(S) - 1 \in Nat /\ Cardinality(S) = (Cardinality(S) - 1) + 1
    BY <2>1
  <2> QED BY <2>2
<1>5. n \in T
  BY <1>3
<1> QED BY <1>4, <1>5

LEMMA MaxIs ==
    ASSUME NEW S \in SUBSET Int, IsFiniteSet(S), S # {}
    PROVE  Max(S) \in S /\ \A y \in S : Max(S) >= y
BY GreatestIs DEF Max

LEMMA MinIs ==
    ASSUME NEW S \in SUBSET Nat, S # {}
    PROVE  Min(S) \in S /\ \A y \in S : Min(S) <= y
BY Least DEF Min

-----------------------------------------------------------------------------
(* Folds.  The fold of a set D takes its elements one by one, as Ch chooses *)
(* them, last first: run[s] is what it comes to for the elements of s.      *)

Chooses(Ch, D) == \A s \in SUBSET D : s # {} => Ch[s] \in s
Maps(F, M, D) == F \in [M \X D -> M]
IsRun(run, D, Ch, M, base, F) ==
    /\ run \in [SUBSET D -> M] /\ run[{}] = base
    /\ \A s \in SUBSET D : s # {} => run[s] = F[<<run[s \ {Ch[s]}], Ch[s]>>]

\* There is such a run, of every function.
LEMMA RunExists ==
    ASSUME NEW D, IsFiniteSet(D), NEW Ch, Chooses(Ch, D),
           NEW M, NEW base \in M, NEW F, Maps(F, M, D)
    PROVE  \E run : IsRun(run, D, Ch, M, base, F)
<1> DEFINE Upto(n) == {s \in SUBSET D : Cardinality(s) <= n}
           Runs(run, n) == \A s \in Upto(n) : run[s] = IF s = {} THEN base
                                              ELSE F[<<run[s \ {Ch[s]}], Ch[s]>>]
           T == {n \in Nat : \E run \in [Upto(n) -> M] : Runs(run, n)}
<1>0. \A s \in SUBSET D : IsFiniteSet(s) /\ Cardinality(s) \in Nat
  BY FS_Subset, FS_CardinalityType
<1>1. 0 \in T
  <2> DEFINE run == [s \in Upto(0) |-> base]
  <2>1. \A s \in Upto(0) : s = {}
    BY <1>0, FS_EmptySet
  <2>2. run \in [Upto(0) -> M] /\ Runs(run, 0)
    BY <2>1
  <2> QED BY <2>2
<1>2. ASSUME NEW n \in Nat, n \in T PROVE n + 1 \in T
  <2>1. PICK run \in [Upto(n) -> M] : Runs(run, n)
    BY <1>2
  <2> DEFINE more == [s \in Upto(n + 1) |-> IF s = {} THEN base
                                            ELSE F[<<run[s \ {Ch[s]}], Ch[s]>>]]
  <2>2. ASSUME NEW s \in Upto(n + 1), s # {}
        PROVE  Ch[s] \in D /\ s \ {Ch[s]} \in Upto(n)
    <3>1. Ch[s] \in s
      BY <2>2 DEF Chooses
    <3>2. Cardinality(s) = Cardinality(s \ {Ch[s]}) + 1 /\ Cardinality(s \ {Ch[s]}) \in Nat
      BY <3>1, <1>0, Smaller
    <3> QED BY <3>1, <3>2
  <2>3. more \in [Upto(n + 1) -> M]
    <3> SUFFICES ASSUME NEW s \in Upto(n + 1) PROVE more[s] \in M
      OBVIOUS
    <3>1. CASE s # {}
      <4>1. <<run[s \ {Ch[s]}], Ch[s]>> \in M \X D
        BY <2>2, <3>1
      <4> QED BY <4>1, <3>1 DEF Maps
    <3> QED BY <3>1
  <2>4. \A s \in Upto(n) : more[s] = run[s]
    BY <2>1, <1>0
  <2>5. Runs(more, n + 1)
    BY <2>2, <2>4
  <2>6. \E r \in [Upto(n + 1) -> M] : Runs(r, n + 1)
    <3> HIDE DEF more, Runs, Upto
    <3> QED BY <2>3, <2>5
  <2>7. n + 1 \in Nat
    OBVIOUS
  <2> HIDE DEF Runs, Upto
  <2> QED BY <2>6, <2>7
<1>3. Nat \subseteq T
  <2> HIDE DEF T
  <2> QED BY <1>1, <1>2, Induct
<1>4. Cardinality(D) \in Nat /\ Upto(Cardinality(D)) = SUBSET D
  BY FS_CardinalityType, FS_Subset
<1>5. Cardinality(D) \in T
  BY <1>3, <1>4
<1>6. PICK run \in [Upto(Cardinality(D)) -> M] : Runs(run, Cardinality(D))
  BY <1>5
<1>7. IsRun(run, D, Ch, M, base, F)
  BY <1>4, <1>6 DEF IsRun
<1> QED BY <1>7

\* What a run comes to is found for a set from what it is without one element.
LEMMA RunIsIn ==
    ASSUME NEW D, IsFiniteSet(D), NEW Ch, Chooses(Ch, D), NEW run, NEW N, run[{}] \in N[{}],
           \A s \in SUBSET D : s # {} /\ run[s \ {Ch[s]}] \in N[s \ {Ch[s]}] => run[s] \in N[s]
    PROVE  \A s \in SUBSET D : run[s] \in N[s]
<1> DEFINE T == {n \in Nat : \A s \in SUBSET D : Cardinality(s) = n => run[s] \in N[s]}
<1>0. \A s \in SUBSET D : IsFiniteSet(s) /\ Cardinality(s) \in Nat
  BY FS_Subset, FS_CardinalityType
<1>1. 0 \in T
  BY <1>0, FS_EmptySet
<1>2. ASSUME NEW n \in Nat, n \in T PROVE n + 1 \in T
  <2> SUFFICES ASSUME NEW s \in SUBSET D, Cardinality(s) = n + 1 PROVE run[s] \in N[s]
    OBVIOUS
  <2>1. s # {}
    BY <1>0, FS_EmptySet, n + 1 # 0
  <2>2. Ch[s] \in s
    BY <2>1 DEF Chooses
  <2>3. s \ {Ch[s]} \in SUBSET D /\ Cardinality(s \ {Ch[s]}) = n
    BY <2>2, <1>0, Smaller
  <2> QED BY <1>2, <2>1, <2>3
<1>3. Nat \subseteq T
  <2> HIDE DEF T
  <2> QED BY <1>1, <1>2, Induct
<1> QED BY <1>0, <1>3

-----------------------------------------------------------------------------
(* Sums. *)

SumOver(F, S) == MapThenSumSet(LAMBDA x : F[x], S)
One(s) == CHOOSE x \in s : TRUE
IsSumRun(run, F, S) ==
    run = [s \in SUBSET S |-> IF s = {} THEN 0 ELSE F[One(s)] + run[s \ {One(s)}]]

LEMMA SumRunExists ==
    ASSUME NEW S, IsFiniteSet(S), NEW F, \A x \in S : F[x] \in Int
    PROVE  \E run : IsSumRun(run, F, S)
<1> DEFINE Ch == [s \in SUBSET S |-> One(s)]
           G == [ax \in Int \X S |-> F[ax[2]] + ax[1]]
<1>1. Chooses(Ch, S)
  BY DEF Chooses, One
<1>2. G \in [Int \X S -> Int]
  OBVIOUS
<1>3. PICK run \in [SUBSET S -> Int] :
        /\ run[{}] = 0
        /\ \A s \in SUBSET S : s # {} => run[s] = G[<<run[s \ {Ch[s]}], Ch[s]>>]
  <2>1. 0 \in Int /\ Maps(G, Int, S)
    BY <1>2 DEF Maps
  <2> HIDE DEF Ch, G
  <2>2. \E run : IsRun(run, S, Ch, Int, 0, G)
    BY <1>1, <2>1, RunExists, Zenon
  <2> QED BY <2>2 DEF IsRun
<1>4. ASSUME NEW s \in SUBSET S
      PROVE  run[s] = IF s = {} THEN 0 ELSE F[One(s)] + run[s \ {One(s)}]
  <2>1. CASE s # {}
    <3>1. One(s) \in S /\ run[s \ {One(s)}] \in Int
      BY <2>1 DEF One
    <3>2. run[s] = G[<<run[s \ {One(s)}], One(s)>>]
      BY <1>3, <2>1
    <3> QED BY <2>1, <3>1, <3>2
  <2> QED BY <1>3, <2>1
<1>5. run = [s \in SUBSET S |-> IF s = {} THEN 0 ELSE F[One(s)] + run[s \ {One(s)}]]
  BY <1>3, <1>4
<1> QED BY <1>5, Zenon DEF IsSumRun

LEMMA SumIsRun ==
    ASSUME NEW S, IsFiniteSet(S), NEW F, \A x \in S : F[x] \in Int
    PROVE  \E run : IsSumRun(run, F, S) /\ SumOver(F, S) = run[S]
<1> DEFINE run == CHOOSE run : IsSumRun(run, F, S)
<1>1. IsSumRun(run, F, S)
  BY SumRunExists
<1>2. SumOver(F, S) = run[S]
  BY Zenon DEF SumOver, MapThenSumSet, MapThenFoldSet, IsSumRun, One
<1> QED BY <1>1, <1>2

\* A run on a set is one on its subsets: there is one total.
LEMMA SumOfPart ==
    ASSUME NEW S, IsFiniteSet(S), NEW F, \A x \in S : F[x] \in Int,
           NEW run, IsSumRun(run, F, S)
    PROVE  \A U \in SUBSET S : run[U] = SumOver(F, U) /\ run[U] \in Int
<1> DEFINE Ch == [s \in SUBSET S |-> One(s)]
           N == [s \in SUBSET S |-> {n \in Int : \A U \in SUBSET S :
                   \A r : s \subseteq U /\ IsSumRun(r, F, U) => r[s] = n}]
<1>1. Chooses(Ch, S)
  BY DEF Chooses, One
<1>2. run[{}] \in N[{}]
  <2>1. \A U, r : IsSumRun(r, F, U) => r[{}] = 0
    BY DEF IsSumRun
  <2> QED BY <2>1
<1>3. ASSUME NEW s \in SUBSET S, s # {}, run[s \ {Ch[s]}] \in N[s \ {Ch[s]}]
      PROVE  run[s] \in N[s]
  <2> DEFINE x == One(s)
  <2>1. x \in s /\ Ch[s] = x
    BY <1>3 DEF One
  <2>2. run[s] = F[x] + run[s \ {x}]
    BY <1>3 DEF IsSumRun
  <2>3. ASSUME NEW U \in SUBSET S, NEW r, s \subseteq U, IsSumRun(r, F, U)
        PROVE  r[s] = F[x] + r[s \ {x}]
    BY <1>3, <2>3 DEF IsSumRun
  <2>4. run[s \ {x}] \in Int
        /\ \A U \in SUBSET S : \A r : s \ {x} \subseteq U /\ IsSumRun(r, F, U) => r[s \ {x}] = run[s \ {x}]
    BY <1>3, <2>1
  <2> HIDE DEF x
  <2>5. run[s] \in Int
    <3>1. F[x] \in Int
      BY <2>1
    <3> QED BY <2>2, <2>4, <3>1
  <2>6. \A U \in SUBSET S : \A r : s \subseteq U /\ IsSumRun(r, F, U) => r[s] = run[s]
    BY <2>1, <2>2, <2>3, <2>4
  <2> QED BY <2>5, <2>6
<1>4. \A s \in SUBSET S : run[s] \in N[s]
  <2> HIDE DEF Ch, N
  <2> QED BY <1>1, <1>2, <1>3, RunIsIn
<1> SUFFICES ASSUME NEW U \in SUBSET S PROVE run[U] = SumOver(F, U) /\ run[U] \in Int
  OBVIOUS
<1>5. PICK r : IsSumRun(r, F, U) /\ SumOver(F, U) = r[U]
  BY SumIsRun, FS_Subset
<1> QED BY <1>4, <1>5

LEMMA SumEmpty ==
    ASSUME NEW F
    PROVE  SumOver(F, {}) = 0
<1>1. PICK run : IsSumRun(run, F, {}) /\ SumOver(F, {}) = run[{}]
  BY SumIsRun, FS_EmptySet
<1> QED BY <1>1 DEF IsSumRun

LEMMA SumInt ==
    ASSUME NEW S, IsFiniteSet(S), NEW F, \A x \in S : F[x] \in Int
    PROVE  SumOver(F, S) \in Int
<1>1. PICK run : IsSumRun(run, F, S) /\ SumOver(F, S) = run[S]
  BY SumIsRun
<1> QED BY <1>1, SumOfPart

LEMMA SumNat ==
    ASSUME NEW S, IsFiniteSet(S), NEW F, \A x \in S : F[x] \in Nat
    PROVE  SumOver(F, S) \in Nat
<1> DEFINE Ch == [s \in SUBSET S |-> One(s)]
           N == [s \in SUBSET S |-> Nat]
<1>1. PICK run : IsSumRun(run, F, S) /\ SumOver(F, S) = run[S]
  BY SumIsRun
<1>2. Chooses(Ch, S)
  BY DEF Chooses, One
<1>3. run[{}] \in N[{}]
  BY <1>1 DEF IsSumRun
<1>4. ASSUME NEW s \in SUBSET S, s # {}, run[s \ {Ch[s]}] \in N[s \ {Ch[s]}]
      PROVE  run[s] \in N[s]
  <2>1. run[s] = F[One(s)] + run[s \ {One(s)}]
    BY <1>1, <1>4 DEF IsSumRun
  <2>2. One(s) \in s /\ run[s \ {One(s)}] \in Nat
    BY <1>4 DEF One
  <2> QED BY <2>1, <2>2
<1>5. \A s \in SUBSET S : run[s] \in N[s]
  <2> HIDE DEF Ch, N
  <2> QED BY <1>2, <1>3, <1>4, RunIsIn
<1> QED BY <1>1, <1>5

LEMMA SumOfZeros ==
    ASSUME NEW S, IsFiniteSet(S), NEW F, \A x \in S : F[x] = 0
    PROVE  SumOver(F, S) = 0
<1> DEFINE Ch == [s \in SUBSET S |-> One(s)]
           N == [s \in SUBSET S |-> {0}]
<1>1. PICK run : IsSumRun(run, F, S) /\ SumOver(F, S) = run[S]
  BY SumIsRun
<1>2. Chooses(Ch, S)
  BY DEF Chooses, One
<1>3. run[{}] \in N[{}]
  BY <1>1 DEF IsSumRun
<1>4. ASSUME NEW s \in SUBSET S, s # {}, run[s \ {Ch[s]}] \in N[s \ {Ch[s]}]
      PROVE  run[s] \in N[s]
  <2>1. run[s] = F[One(s)] + run[s \ {One(s)}]
    BY <1>1, <1>4 DEF IsSumRun
  <2>2. One(s) \in s /\ run[s \ {One(s)}] = 0
    BY <1>4 DEF One
  <2> QED BY <2>1, <2>2
<1>5. \A s \in SUBSET S : run[s] \in N[s]
  <2> HIDE DEF Ch, N
  <2> QED BY <1>2, <1>3, <1>4, RunIsIn
<1> QED BY <1>1, <1>5

\* Any element may be taken out first.
LEMMA SumOut ==
    ASSUME NEW S, IsFiniteSet(S), NEW F, \A x \in S : F[x] \in Int, NEW x \in S
    PROVE  SumOver(F, S) = F[x] + SumOver(F, S \ {x})
<1> DEFINE T == {n \in Nat : \A U \in SUBSET S : Cardinality(U) = n =>
                    \A y \in U : SumOver(F, U) = F[y] + SumOver(F, U \ {y})}
<1>0. \A U \in SUBSET S : IsFiniteSet(U) /\ Cardinality(U) \in Nat /\ SumOver(F, U) \in Int
  BY FS_Subset, FS_CardinalityType, SumInt
<1>1. 0 \in T
  BY <1>0, FS_EmptySet
<1>2. ASSUME NEW n \in Nat, n \in T PROVE n + 1 \in T
  <2> SUFFICES ASSUME NEW U \in SUBSET S, Cardinality(U) = n + 1, NEW y \in U
               PROVE  SumOver(F, U) = F[y] + SumOver(F, U \ {y})
    OBVIOUS
  <2> DEFINE c == One(U)
  <2>1. c \in U
    BY DEF One
  <2>2. SumOver(F, U) = F[c] + SumOver(F, U \ {c})
    <3>1. PICK run : IsSumRun(run, F, U) /\ SumOver(F, U) = run[U]
      BY SumIsRun, <1>0
    <3>2. run[U] = F[c] + run[U \ {c}]
      BY <3>1, <2>1 DEF IsSumRun
    <3>3. run[U \ {c}] = SumOver(F, U \ {c})
      <4> HIDE DEF c
      <4> QED BY <3>1, SumOfPart, <1>0
    <3> QED BY <3>1, <3>2, <3>3
  <2> HIDE DEF c
  <2>3. CASE y # c
    <3>1. Cardinality(U \ {c}) = n /\ Cardinality(U \ {y}) = n
      BY <1>0, <2>1, Smaller
    <3>2. /\ U \ {c} \in SUBSET S /\ y \in U \ {c}
          /\ U \ {y} \in SUBSET S /\ c \in U \ {y}
      BY <2>1, <2>3
    <3>3. SumOver(F, U \ {c}) = F[y] + SumOver(F, (U \ {c}) \ {y})
      BY <1>2, <3>1, <3>2
    <3>4. SumOver(F, U \ {y}) = F[c] + SumOver(F, (U \ {y}) \ {c})
      BY <1>2, <3>1, <3>2
    <3>5. (U \ {c}) \ {y} = (U \ {y}) \ {c} /\ (U \ {c}) \ {y} \in SUBSET S
      OBVIOUS
    <3> DEFINE rest == SumOver(F, (U \ {c}) \ {y})
               without == SumOver(F, U \ {y})
    <3>6. F[c] \in Int /\ F[y] \in Int /\ rest \in Int
      BY <1>0, <2>1, <3>5
    <3>7. SumOver(F, U) = F[c] + (F[y] + rest) /\ without = F[c] + rest
      BY <2>2, <3>3, <3>4, <3>5
    <3> HIDE DEF rest, without
    <3>8. SumOver(F, U) = F[y] + without
      BY <3>6, <3>7
    <3> QED BY <3>8 DEF without
  <2> QED BY <2>2, <2>3
<1>3. Nat \subseteq T
  <2> HIDE DEF T
  <2> QED BY <1>1, <1>2, Induct
<1>4. Cardinality(S) \in T
  BY <1>0, <1>3
<1> QED BY <1>4

\* Equal summands have equal sums.
LEMMA SumSame ==
    ASSUME NEW S, IsFiniteSet(S), NEW F, NEW G, \A x \in S : F[x] \in Int /\ G[x] = F[x]
    PROVE  SumOver(G, S) = SumOver(F, S)
<1>1. PICK run : IsSumRun(run, F, S) /\ SumOver(F, S) = run[S]
  BY SumIsRun
<1>2. IsSumRun(run, G, S)
  <2>1. \A s \in SUBSET S : s # {} => G[One(s)] = F[One(s)]
    BY DEF One
  <2>2. run = [s \in SUBSET S |-> IF s = {} THEN 0 ELSE G[One(s)] + run[s \ {One(s)}]]
    BY <1>1, <2>1 DEF IsSumRun
  <2> QED BY <2>2, Zenon DEF IsSumRun
<1> QED BY <1>1, <1>2, SumOfPart

\* A sum of which one summand changes.
LEMMA SumChange ==
    ASSUME NEW S, IsFiniteSet(S), NEW F, NEW G, NEW x \in S,
           \A y \in S : F[y] \in Int /\ G[y] \in Int /\ (y # x => G[y] = F[y])
    PROVE  SumOver(G, S) = SumOver(F, S) - F[x] + G[x]
<1>1. IsFiniteSet(S \ {x})
  BY FS_Subset
<1>2. SumOver(G, S \ {x}) = SumOver(F, S \ {x}) /\ SumOver(F, S \ {x}) \in Int
  BY <1>1, SumSame, SumInt
<1>3. SumOver(F, S) = F[x] + SumOver(F, S \ {x}) /\ SumOver(G, S) = G[x] + SumOver(G, S \ {x})
  BY SumOut
<1> QED BY <1>2, <1>3

-----------------------------------------------------------------------------
(* Folds over the places of a sequence, last first.  N[s] is what there may *)
(* be after the places of s; M holds all of it.                             *)

Latest(D) == [s \in SUBSET D |-> Max(s)]
FoldStep(F, N, M, D) ==
    /\ \A s \in SUBSET D : N[s] \subseteq M
    /\ \A s \in SUBSET D : s # {} => \A a \in N[s \ {Max(s)}] : F[<<a, Max(s)>>] \in N[s]
FoldRun(run, F, M, base, D) ==
    /\ run[{}] = base
    /\ \A s \in SUBSET D : s # {} /\ run[s \ {Max(s)}] \in M => run[s] = F[<<run[s \ {Max(s)}], Max(s)>>]

LEMMA LatestChooses ==
    ASSUME NEW D \in SUBSET Nat, IsFiniteSet(D)
    PROVE  /\ Chooses(Latest(D), D)
           /\ \A s \in SUBSET D : s # {} => Latest(D)[s] = Max(s) /\ Max(s) \in s
                                            /\ \A y \in s : Max(s) >= y
<1>1. ASSUME NEW s \in SUBSET D, s # {} PROVE Max(s) \in s /\ \A y \in s : Max(s) >= y
  <2>1. IsFiniteSet(s)
    BY FS_Subset
  <2>2. \A x \in s : x \in Int
    OBVIOUS
  <2> QED BY <1>1, <2>1, <2>2, MaxIs
<1> QED BY <1>1 DEF Chooses, Latest

LEMMA FoldRunIn ==
    ASSUME NEW D \in SUBSET Nat, IsFiniteSet(D), NEW M, NEW N, NEW F, FoldStep(F, N, M, D),
           NEW base \in N[{}], NEW run, FoldRun(run, F, M, base, D)
    PROVE  \A s \in SUBSET D : run[s] \in N[s]
<1>1. /\ Chooses(Latest(D), D)
      /\ \A s \in SUBSET D : s # {} => Latest(D)[s] = Max(s) /\ Max(s) \in s
  BY LatestChooses
<1>2. run[{}] \in N[{}]
  BY DEF FoldRun
<1>3. ASSUME NEW s \in SUBSET D, s # {}, run[s \ {Latest(D)[s]}] \in N[s \ {Latest(D)[s]}]
      PROVE  run[s] \in N[s]
  <2>1. Latest(D)[s] = Max(s) /\ s \ {Max(s)} \in SUBSET D
    BY <1>1, <1>3
  <2>2. run[s \ {Max(s)}] \in N[s \ {Max(s)}] /\ run[s \ {Max(s)}] \in M
    BY <1>3, <2>1 DEF FoldStep
  <2> QED BY <1>3, <2>2 DEF FoldStep, FoldRun
<1> QED BY <1>1, <1>2, <1>3, RunIsIn

LEMMA FoldRunExists ==
    ASSUME NEW D \in SUBSET Nat, IsFiniteSet(D), NEW M, NEW N, NEW F, FoldStep(F, N, M, D),
           NEW base \in N[{}]
    PROVE  \E run : /\ run \in [SUBSET D -> M] /\ FoldRun(run, F, M, base, D)
                    /\ \A s \in SUBSET D : run[s] \in N[s]
<1> DEFINE G == [ax \in M \X D |-> IF F[<<ax[1], ax[2]>>] \in M THEN F[<<ax[1], ax[2]>>] ELSE ax[1]]
<1>1. /\ Chooses(Latest(D), D)
      /\ \A s \in SUBSET D : s # {} => Latest(D)[s] = Max(s) /\ Max(s) \in s
  BY LatestChooses
<1>2. Maps(G, M, D)
  BY DEF Maps
<1>3. base \in M
  BY DEF FoldStep
<1>4. \A a \in M, x \in D : F[<<a, x>>] \in M => G[<<a, x>>] = F[<<a, x>>]
  OBVIOUS
<1> HIDE DEF G
<1>5. PICK run : IsRun(run, D, Latest(D), M, base, G)
  BY <1>1, <1>2, <1>3, RunExists
<1>6. run \in [SUBSET D -> M] /\ run[{}] = base
  BY <1>5 DEF IsRun
<1>7. ASSUME NEW s \in SUBSET D, s # {}, run[s \ {Max(s)}] \in N[s \ {Max(s)}]
      PROVE  run[s] = F[<<run[s \ {Max(s)}], Max(s)>>] /\ run[s] \in N[s]
  <2>1. Latest(D)[s] = Max(s) /\ Max(s) \in D /\ s \ {Max(s)} \in SUBSET D
    BY <1>1, <1>7
  <2>2. run[s] = G[<<run[s \ {Max(s)}], Max(s)>>]
    BY <1>5, <1>7, <2>1 DEF IsRun
  <2>3. F[<<run[s \ {Max(s)}], Max(s)>>] \in N[s] /\ N[s] \subseteq M
    BY <1>7 DEF FoldStep
  <2>4. run[s \ {Max(s)}] \in M
    BY <1>7, <2>1 DEF FoldStep
  <2> QED BY <1>4, <2>1, <2>2, <2>3, <2>4
<1>8. \A s \in SUBSET D : run[s] \in N[s]
  <2>1. run[{}] \in N[{}]
    BY <1>6
  <2>2. ASSUME NEW s \in SUBSET D, s # {}, run[s \ {Latest(D)[s]}] \in N[s \ {Latest(D)[s]}]
        PROVE  run[s] \in N[s]
    BY <1>1, <1>7, <2>2
  <2> QED BY <1>1, <2>1, <2>2, RunIsIn
<1>9. FoldRun(run, F, M, base, D)
  BY <1>6, <1>7, <1>8 DEF FoldRun
<1> QED BY <1>6, <1>8, <1>9

-----------------------------------------------------------------------------
(* Sums over two sets, over a set and its image, and over sequences.       *)

LEMMA SumUnion ==
    ASSUME NEW S, IsFiniteSet(S), NEW T, IsFiniteSet(T), S \intersect T = {},
           NEW F, \A x \in S \union T : F[x] \in Int
    PROVE  SumOver(F, S \union T) = SumOver(F, S) + SumOver(F, T)
<1> DEFINE N == {n \in Nat : \A U \in SUBSET T : Cardinality(U) = n =>
                    SumOver(F, S \union U) = SumOver(F, S) + SumOver(F, U)}
<1>0. \A U \in SUBSET T : /\ IsFiniteSet(U) /\ Cardinality(U) \in Nat /\ SumOver(F, U) \in Int
                          /\ IsFiniteSet(S \union U) /\ SumOver(F, S \union U) \in Int
  <2> SUFFICES ASSUME NEW U \in SUBSET T
               PROVE  /\ IsFiniteSet(U) /\ Cardinality(U) \in Nat /\ SumOver(F, U) \in Int
                      /\ IsFiniteSet(S \union U) /\ SumOver(F, S \union U) \in Int
    OBVIOUS
  <2>1. IsFiniteSet(U) /\ Cardinality(U) \in Nat
    BY FS_Subset, FS_CardinalityType
  <2>2. IsFiniteSet(S \union U)
    BY <2>1, FS_Union
  <2> QED BY <2>1, <2>2, SumInt
<1>1. 0 \in N
  <2>1. \A U \in SUBSET T : Cardinality(U) = 0 => U = {}
    BY <1>0, FS_EmptySet
  <2>2. SumOver(F, S) \in Int /\ SumOver(F, {}) = 0 /\ S \union {} = S
    BY SumInt, SumEmpty
  <2>3. SumOver(F, S \union {}) = SumOver(F, S) + SumOver(F, {})
    BY <2>2
  <2>4. ASSUME NEW U \in SUBSET T, Cardinality(U) = 0
        PROVE  SumOver(F, S \union U) = SumOver(F, S) + SumOver(F, U)
    BY <2>1, <2>3, <2>4, Zenon
  <2> QED BY <2>4
<1>2. ASSUME NEW n \in Nat, n \in N PROVE n + 1 \in N
  <2> SUFFICES ASSUME NEW U \in SUBSET T, Cardinality(U) = n + 1
               PROVE  SumOver(F, S \union U) = SumOver(F, S) + SumOver(F, U)
    OBVIOUS
  <2>1. PICK c \in U : TRUE
    <3>1. U # {}
      BY FS_EmptySet, n + 1 # 0
    <3> QED BY <3>1
  <2>2. U \ {c} \in SUBSET T /\ Cardinality(U \ {c}) = n
    <3>1. IsFiniteSet(U)
      BY <1>0
    <3>2. Cardinality(U) = Cardinality(U \ {c}) + 1 /\ Cardinality(U \ {c}) \in Nat
      BY <2>1, <3>1, Smaller
    <3>3. \A k \in Nat : n + 1 = k + 1 => k = n
      OBVIOUS
    <3> QED BY <3>2, <3>3
  <2>3. (S \union U) \ {c} = S \union (U \ {c})
    BY <2>1
  <2>4. SumOver(F, S \union U) = F[c] + SumOver(F, S \union (U \ {c}))
    <3> DEFINE D == S \union U
    <3>1. IsFiniteSet(D) /\ c \in D /\ \A x \in D : F[x] \in Int
      BY <1>0, <2>1
    <3> HIDE DEF D
    <3>2. SumOver(F, D) = F[c] + SumOver(F, D \ {c})
      BY <3>1, SumOut
    <3> QED BY <2>3, <3>2 DEF D
  <2>5. SumOver(F, U) = F[c] + SumOver(F, U \ {c})
    BY <1>0, <2>1, SumOut
  <2>6. SumOver(F, S \union (U \ {c})) = SumOver(F, S) + SumOver(F, U \ {c})
    BY <1>2, <2>2
  <2>7. F[c] \in Int /\ SumOver(F, S) \in Int /\ SumOver(F, U \ {c}) \in Int
    BY <1>0, <2>1, <2>2, SumInt
  <2> QED BY <2>4, <2>5, <2>6, <2>7
<1>3. Nat \subseteq N
  <2> HIDE DEF N
  <2> QED BY <1>1, <1>2, Induct
<1>4. Cardinality(T) \in N
  BY <1>0, <1>3
<1> QED BY <1>4

LEMMA SumMoved ==
    ASSUME NEW S, IsFiniteSet(S), NEW T, IsFiniteSet(T), NEW g \in [S -> T],
           \A x, y \in S : g[x] = g[y] => x = y, \A z \in T : \E x \in S : g[x] = z,
           NEW F, NEW G, \A x \in S : F[g[x]] \in Int /\ G[x] = F[g[x]]
    PROVE  SumOver(G, S) = SumOver(F, T)
<1> DEFINE I(U) == {g[x] : x \in U}
           N == {n \in Nat : \A U \in SUBSET S : Cardinality(U) = n => SumOver(G, U) = SumOver(F, I(U))}
<1>0. \A U \in SUBSET S : /\ IsFiniteSet(U) /\ Cardinality(U) \in Nat /\ SumOver(G, U) \in Int
                          /\ I(U) \in SUBSET T /\ IsFiniteSet(I(U))
  BY FS_Subset, FS_CardinalityType, SumInt
<1>1. 0 \in N
  <2>1. \A U \in SUBSET S : Cardinality(U) = 0 => U = {}
    BY <1>0, FS_EmptySet
  <2>2. SumOver(F, {}) = 0 /\ SumOver(G, {}) = 0 /\ I({}) = {}
    BY SumEmpty
  <2> QED BY <2>1, <2>2
<1>2. ASSUME NEW n \in Nat, n \in N PROVE n + 1 \in N
  <2> SUFFICES ASSUME NEW U \in SUBSET S, Cardinality(U) = n + 1
               PROVE  SumOver(G, U) = SumOver(F, I(U))
    OBVIOUS
  <2>1. PICK c \in U : TRUE
    <3>1. U # {}
      BY FS_EmptySet, n + 1 # 0
    <3> QED BY <3>1
  <2>2. U \ {c} \in SUBSET S /\ Cardinality(U \ {c}) = n
    <3>1. IsFiniteSet(U)
      BY <1>0
    <3>2. Cardinality(U) = Cardinality(U \ {c}) + 1 /\ Cardinality(U \ {c}) \in Nat
      BY <2>1, <3>1, Smaller
    <3>3. \A k \in Nat : n + 1 = k + 1 => k = n
      OBVIOUS
    <3> QED BY <3>2, <3>3
  <2>3. I(U) \ {g[c]} = I(U \ {c}) /\ g[c] \in I(U)
    BY <2>1
  <2>4. \A z \in I(U) : F[z] \in Int
    OBVIOUS
  <2>5. IsFiniteSet(I(U)) /\ IsFiniteSet(U) /\ \A x \in U : G[x] \in Int
    BY <1>0
  <2>6. SumOver(G, U \ {c}) = SumOver(F, I(U \ {c}))
    BY <1>2, <2>2
  <2> HIDE DEF I
  <2>7. SumOver(F, I(U)) = F[g[c]] + SumOver(F, I(U) \ {g[c]})
    BY <2>3, <2>4, <2>5, SumOut
  <2>8. SumOver(G, U) = G[c] + SumOver(G, U \ {c})
    BY <2>1, <2>5, SumOut
  <2> QED BY <2>1, <2>3, <2>6, <2>7, <2>8
<1>3. Nat \subseteq N
  <2> HIDE DEF N
  <2> QED BY <1>1, <1>2, Induct
<1>4. Cardinality(S) \in N
  BY <1>0, <1>3
<1>5. I(S) = T
  OBVIOUS
<1> QED BY <1>4, <1>5

\* How many there are is a sum.
LEMMA CountIsSum ==
    ASSUME NEW S, IsFiniteSet(S), NEW A \in SUBSET S, NEW F,
           \A x \in S : F[x] = IF x \in A THEN 1 ELSE 0
    PROVE  Cardinality(A) = SumOver(F, S)
<1> DEFINE N == {n \in Nat : \A U \in SUBSET A : Cardinality(U) = n => SumOver(F, U) = n}
<1>0. \A U \in SUBSET S : /\ IsFiniteSet(U) /\ Cardinality(U) \in Nat /\ SumOver(F, U) \in Int
  BY FS_Subset, FS_CardinalityType, SumInt
<1>1. 0 \in N
  <2>1. \A U \in SUBSET A : Cardinality(U) = 0 => U = {}
    BY <1>0, FS_EmptySet
  <2> QED BY <2>1, SumEmpty
<1>2. ASSUME NEW n \in Nat, n \in N PROVE n + 1 \in N
  <2> SUFFICES ASSUME NEW U \in SUBSET A, Cardinality(U) = n + 1
               PROVE  SumOver(F, U) = n + 1
    OBVIOUS
  <2>1. PICK c \in U : TRUE
    <3>1. U # {}
      BY FS_EmptySet, n + 1 # 0
    <3> QED BY <3>1
  <2>2. U \ {c} \in SUBSET A /\ Cardinality(U \ {c}) = n
    <3>1. IsFiniteSet(U)
      BY <1>0
    <3>2. Cardinality(U) = Cardinality(U \ {c}) + 1 /\ Cardinality(U \ {c}) \in Nat
      BY <2>1, <3>1, Smaller
    <3>3. \A k \in Nat : n + 1 = k + 1 => k = n
      OBVIOUS
    <3> QED BY <3>2, <3>3
  <2>3. SumOver(F, U) = F[c] + SumOver(F, U \ {c}) /\ F[c] = 1
    BY <1>0, <2>1, SumOut
  <2> QED BY <1>2, <2>2, <2>3
<1>3. Nat \subseteq N
  <2> HIDE DEF N
  <2> QED BY <1>1, <1>2, Induct
<1>4. SumOver(F, A) = Cardinality(A)
  BY <1>0, <1>3
<1>5. SumOver(F, S \ A) = 0
  BY <1>0, SumOfZeros
<1>6. SumOver(F, A \union (S \ A)) = SumOver(F, A) + SumOver(F, S \ A)
  <2> DEFINE B == S \ A
  <2>1. IsFiniteSet(A) /\ IsFiniteSet(B) /\ A \intersect B = {} /\ \A x \in A \union B : F[x] \in Int
    BY <1>0
  <2> HIDE DEF B
  <2>2. SumOver(F, A \union B) = SumOver(F, A) + SumOver(F, B)
    BY <2>1, SumUnion
  <2> QED BY <2>2 DEF B
<1>7. A \union (S \ A) = S
  OBVIOUS
<1> QED BY <1>0, <1>4, <1>5, <1>6, <1>7

\* The sum of two functions.
LEMMA SumPlus ==
    ASSUME NEW S, IsFiniteSet(S), NEW F, NEW G, NEW H,
           \A x \in S : F[x] \in Int /\ G[x] \in Int /\ H[x] = F[x] + G[x]
    PROVE  SumOver(H, S) = SumOver(F, S) + SumOver(G, S)
<1> DEFINE N == {n \in Nat : \A U \in SUBSET S : Cardinality(U) = n =>
                    SumOver(H, U) = SumOver(F, U) + SumOver(G, U)}
<1>0. \A U \in SUBSET S : /\ IsFiniteSet(U) /\ Cardinality(U) \in Nat
                          /\ SumOver(F, U) \in Int /\ SumOver(G, U) \in Int
  BY FS_Subset, FS_CardinalityType, SumInt
<1>1. 0 \in N
  <2>1. \A U \in SUBSET S : Cardinality(U) = 0 => U = {}
    BY <1>0, FS_EmptySet
  <2>2. SumOver(F, {}) = 0 /\ SumOver(G, {}) = 0 /\ SumOver(H, {}) = 0
    BY SumEmpty
  <2>3. SumOver(H, {}) = SumOver(F, {}) + SumOver(G, {})
    BY <2>2
  <2>4. ASSUME NEW U \in SUBSET S, Cardinality(U) = 0
        PROVE  SumOver(H, U) = SumOver(F, U) + SumOver(G, U)
    BY <2>1, <2>3, <2>4, Zenon
  <2> QED BY <2>4
<1>2. ASSUME NEW n \in Nat, n \in N PROVE n + 1 \in N
  <2> SUFFICES ASSUME NEW U \in SUBSET S, Cardinality(U) = n + 1
               PROVE  SumOver(H, U) = SumOver(F, U) + SumOver(G, U)
    OBVIOUS
  <2>1. PICK c \in U : TRUE
    <3>1. U # {}
      BY FS_EmptySet, n + 1 # 0
    <3> QED BY <3>1
  <2>2. U \ {c} \in SUBSET S /\ Cardinality(U \ {c}) = n
    <3>1. IsFiniteSet(U)
      BY <1>0
    <3>2. Cardinality(U) = Cardinality(U \ {c}) + 1 /\ Cardinality(U \ {c}) \in Nat
      BY <2>1, <3>1, Smaller
    <3>3. \A k \in Nat : n + 1 = k + 1 => k = n
      OBVIOUS
    <3> QED BY <3>2, <3>3
  <2>3. IsFiniteSet(U) /\ \A x \in U : F[x] \in Int /\ G[x] \in Int /\ H[x] \in Int
    BY <1>0
  <2>4. SumOver(F, U) = F[c] + SumOver(F, U \ {c})
    BY <2>1, <2>3, SumOut
  <2>5. SumOver(G, U) = G[c] + SumOver(G, U \ {c})
    BY <2>1, <2>3, SumOut
  <2>6. SumOver(H, U) = H[c] + SumOver(H, U \ {c})
    BY <2>1, <2>3, SumOut
  <2>7. SumOver(H, U \ {c}) = SumOver(F, U \ {c}) + SumOver(G, U \ {c})
    BY <1>2, <2>2
  <2>8. SumOver(F, U \ {c}) \in Int /\ SumOver(G, U \ {c}) \in Int /\ H[c] = F[c] + G[c]
        /\ F[c] \in Int /\ G[c] \in Int
    BY <1>0, <2>1, <2>2
  <2> QED BY <2>4, <2>5, <2>6, <2>7, <2>8
<1>3. Nat \subseteq N
  <2> HIDE DEF N
  <2> QED BY <1>1, <1>2, Induct
<1>4. Cardinality(S) \in N
  BY <1>0, <1>3
<1> QED BY <1>4

\* The sum over a sequence without its head, and over two sequences joined.
LEMMA SumTail ==
    ASSUME NEW n \in Nat \ {0}, NEW F, NEW G,
           \A i \in 1..n : F[i] \in Int, \A i \in 1..(n - 1) : G[i] = F[i + 1]
    PROVE  SumOver(F, 1..n) = F[1] + SumOver(G, 1..(n - 1))
<1> DEFINE A == 1..n
           B == 1..(n - 1)
           C == A \ {1}
           g == [i \in B |-> i + 1]
<1>1. IsFiniteSet(A) /\ IsFiniteSet(B) /\ IsFiniteSet(C)
  <2>1. IsFiniteSet(A) /\ IsFiniteSet(B)
    BY FS_Interval
  <2> QED BY <2>1, FS_Subset
<1>2. 1 \in A /\ \A i \in A : F[i] \in Int
  OBVIOUS
<1>3. /\ g \in [B -> C] /\ \A x, y \in B : g[x] = g[y] => x = y
      /\ \A x \in B : F[g[x]] \in Int /\ G[x] = F[g[x]]
  OBVIOUS
<1>4. \A z \in C : \E x \in B : g[x] = z
  <2> SUFFICES ASSUME NEW z \in C PROVE \E x \in B : g[x] = z
    OBVIOUS
  <2>1. z - 1 \in B /\ g[z - 1] = z
    OBVIOUS
  <2> QED BY <2>1
<1> HIDE DEF B, g
<1>5. SumOver(G, B) = SumOver(F, C)
  <2> HIDE DEF A, C
  <2>1. IsFiniteSet(B) /\ IsFiniteSet(C)
    BY <1>1
  <2> QED BY <2>1, <1>3, <1>4, SumMoved
<1>6. SumOver(F, A) = F[1] + SumOver(F, C)
  <2> HIDE DEF A
  <2> QED BY <1>1, <1>2, SumOut
<1> QED BY <1>5, <1>6 DEF A, B

LEMMA SumJoined ==
    ASSUME NEW n \in Nat, NEW m \in Nat, NEW F, NEW G, NEW H,
           \A i \in 1..n : F[i] \in Int /\ H[i] = F[i],
           \A i \in 1..m : G[i] \in Int /\ H[n + i] = G[i]
    PROVE  SumOver(H, 1..(n + m)) = SumOver(F, 1..n) + SumOver(G, 1..m)
<1> DEFINE A == 1..n
           B == 1..m
           T == (n + 1)..(n + m)
           g == [i \in B |-> n + i]
<1>1. IsFiniteSet(A) /\ IsFiniteSet(B) /\ IsFiniteSet(T)
  BY FS_Interval
<1>2. A \union T = 1..(n + m) /\ A \intersect T = {}
  OBVIOUS
<1>3. /\ g \in [B -> T] /\ \A x, y \in B : g[x] = g[y] => x = y
      /\ \A x \in B : H[g[x]] \in Int /\ G[x] = H[g[x]]
  OBVIOUS
<1>4. \A z \in T : \E x \in B : g[x] = z
  <2> SUFFICES ASSUME NEW z \in T PROVE \E x \in B : g[x] = z
    OBVIOUS
  <2>1. z - n \in B /\ g[z - n] = z
    OBVIOUS
  <2> QED BY <2>1
<1>5. \A z \in A \union T : H[z] \in Int
  <2>1. ASSUME NEW z \in T PROVE H[z] \in Int
    BY <1>3, <1>4
  <2> QED BY <2>1
<1>6. \A i \in A : F[i] \in Int /\ H[i] = F[i]
  OBVIOUS
<1> HIDE DEF A, B, T, g
<1>7. SumOver(G, B) = SumOver(H, T)
  BY <1>1, <1>3, <1>4, SumMoved
<1>8. SumOver(H, A) = SumOver(F, A)
  BY <1>1, <1>6, SumSame
<1>9. SumOver(H, A \union T) = SumOver(H, A) + SumOver(H, T)
  BY <1>1, <1>2, <1>5, SumUnion
<1> QED BY <1>2, <1>7, <1>8, <1>9 DEF A, B

=============================================================================
