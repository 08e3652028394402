------------------------- MODULE MerkleTree_proofs -------------------------
(***************************************************************************)
(* The Merkle algorithms of transparency.go, for trees of every size.  The *)
(* proofs that the log computes verify; what verifies, computed by anybody *)
(* in any way, is so; and ProofVerifies, by which the witnesses' model     *)
(* decides a check, is what VerifyConsistency answers.                     *)
(***************************************************************************)
EXTENDS MerkleTree, NaturalsInduction, WellFoundedInduction, SequenceTheorems, TLAPS

-----------------------------------------------------------------------------
(* Induction over the numbers, for sets of them. *)

\* The order of the numbers, as a set of pairs.
Less == {p \in Nat \X Nat : p[1] < p[2]}

\* A set of numbers that is not empty has a least member.
LEMMA LeastNumber ==
    ASSUME NEW T \in SUBSET Nat, T # {}
    PROVE  \E m \in T : \A k \in T : m <= k
<1>1. OpToRel(<, Nat) = Less
  BY DEF OpToRel, Less
<1>2. IsWellFoundedOn(Less, Nat)
  BY <1>1, NatLessThanWellFounded
<1>3. PICK m \in T : \A k \in T : ~(<<k, m>> \in Less)
  BY <1>2, WFMin
<1>4. ASSUME NEW k \in T PROVE m <= k
  <2>1. <<k, m>> \in Nat \X Nat
    OBVIOUS
  <2>2. ~(k < m)
    BY <1>3, <2>1 DEF Less
  <2> QED
    BY <2>2
<1> QED
  BY <1>4

\* A set of numbers that holds every number whose predecessors it holds is Nat.
LEMMA StrongInduction ==
    ASSUME NEW S, \A n \in Nat : (\A k \in Nat : k < n => k \in S) => n \in S
    PROVE  \A n \in Nat : n \in S
<1> DEFINE T == Nat \ S
<1>1. SUFFICES ASSUME T # {} PROVE FALSE
  OBVIOUS
<1>2. PICK m \in T : \A k \in T : m <= k
  BY <1>1, LeastNumber
<1>3. \A k \in Nat : k < m => k \in S
  BY <1>2
<1> QED
  BY <1>2, <1>3

\* Induction over the numbers, for membership of a set.
LEMMA Induction ==
    ASSUME NEW S, 0 \in S, \A n \in Nat : n \in S => n + 1 \in S
    PROVE  \A n \in Nat : n \in S
<1>1. ASSUME NEW n \in Nat, \A k \in Nat : k < n => k \in S
      PROVE  n \in S
  <2>1. CASE n = 0
    BY <2>1
  <2>2. CASE n > 0
    <3>1. n - 1 \in Nat /\ n - 1 < n /\ (n - 1) + 1 = n
      BY <2>2
    <3>2. n - 1 \in S
      BY <1>1, <3>1
    <3> QED
      BY <3>1, <3>2
  <2> QED
    BY <2>1, <2>2
<1> QED
  BY <1>1, StrongInduction

-----------------------------------------------------------------------------
(* The recursive definitions of MerkleTree.  Each is a body that looks at smaller arguments; the
   bodies are given names, so that one induction serves them all. *)

\* What mth computes for s, given its values for shorter lists in g.  The next
\* three do the same for path and subproof.
MthBody(g, s) ==
    IF s = <<>> THEN EmptyRoot
    ELSE IF Len(s) = 1 THEN hashLeaf(s[1])
    ELSE LET k == largestPow2Below(Len(s)) IN hashNode(g[First(s, k)], g[Rest(s, k)])

PathBody(g, s) ==
    [m \in 0..(Len(s) - 1) |->
        IF Len(s) = 1 THEN <<>>
        ELSE LET k == largestPow2Below(Len(s)) IN
             IF m < k
             THEN Append(g[First(s, k)][m], mth[Rest(s, k)])
             ELSE Append(g[Rest(s, k)][m - k], mth[First(s, k)])]

SubproofAt(g, s, m, b) ==
    IF m = Len(s) THEN (IF b THEN <<>> ELSE <<mth[s]>>)
    ELSE LET k == largestPow2Below(Len(s)) IN
         IF m <= k
         THEN Append(g[First(s, k)][m][b], mth[Rest(s, k)])
         ELSE Append(g[Rest(s, k)][m - k][FALSE], mth[First(s, k)])

SubproofBody(g, s) == [m \in 1..Len(s) |-> [b \in BOOLEAN |-> SubproofAt(g, s, m, b)]]

\* The same for the functions on numbers.
PowBody(g, i) == IF i = 0 THEN 1 ELSE 2 * g[i - 1]

StripBody(bit, g, fn) ==
    [sn \in Nat |-> IF fn % 2 = bit /\ fn # 0
                    THEN g[fn \div 2][sn \div 2] ELSE <<fn, sn>>]

ClimbBody(start, proof, idx, g, i) ==
    IF i <= idx THEN start ELSE Up(g[i - 1], proof[i])

LoopBody(F, v, g, i) == IF i = 0 THEN v ELSE F[<<g[i - 1], i>>]

\* A name for each recursive function, with what its definition depends on.
OnTrees == {<<"mth">>, <<"path">>, <<"subproof">>}

Dom(w) == IF w \in OnTrees THEN Seq(Leaf) ELSE Nat

Rank(w, x) == IF w \in OnTrees THEN Len(x) ELSE x

Body(w, g, x) ==
    IF w[1] = "mth" THEN MthBody(g, x)
    ELSE IF w[1] = "path" THEN PathBody(g, x)
    ELSE IF w[1] = "subproof" THEN SubproofBody(g, x)
    ELSE IF w[1] = "pow2" THEN PowBody(g, x)
    ELSE IF w[1] = "strip" THEN StripBody(w[2], g, x)
    ELSE IF w[1] = "loop" THEN LoopBody(w[2], w[3], g, x)
    ELSE ClimbBody(w[2], w[3], w[4], g, x)

\* The arguments on which the value at rank n may depend.
Below(w, n) == {x \in Dom(w) : Rank(w, x) < n}

\* The value of the body at x depends on g below x only.
Local(w) ==
    \A x \in Dom(w) : \A g, h :
        (\A y \in Below(w, Rank(w, x)) : g[y] = h[y]) => Body(w, g, x) = Body(w, h, x)

\* g is a solution for the arguments below n.
Solves(w, g, n) == \A x \in Below(w, n) : g[x] = Body(w, g, x)

\* Ranks are numbers.
LEMMA RankIsNat == \A w : \A x \in Dom(w) : Rank(w, x) \in Nat
BY DEF Rank, Dom

\* Two solutions agree where both are defined.
LEMMA SolutionUnique ==
    ASSUME NEW w, Local(w), NEW m \in Nat, NEW n \in Nat, NEW g, NEW h,
           Solves(w, g, m), Solves(w, h, n)
    PROVE  \A x \in Below(w, m) \cap Below(w, n) : g[x] = h[x]
<1> DEFINE S == {r \in Nat : \A x \in Below(w, m) \cap Below(w, n) : Rank(w, x) = r => g[x] = h[x]}
<1>1. ASSUME NEW r \in Nat, \A k \in Nat : k < r => k \in S
      PROVE  r \in S
  <2> SUFFICES ASSUME NEW x \in Below(w, m) \cap Below(w, n), Rank(w, x) = r
               PROVE  g[x] = h[x]
    OBVIOUS
  <2>1. \A y \in Below(w, r) : y \in Below(w, m) \cap Below(w, n) /\ Rank(w, y) \in Nat /\ Rank(w, y) < r
    BY RankIsNat DEF Below
  <2>2. \A y \in Below(w, r) : g[y] = h[y]
    BY <1>1, <2>1
  <2>3. Body(w, g, x) = Body(w, h, x)
    BY <2>2 DEF Local, Below
  <2> QED
    BY <2>3 DEF Solves
<1>2. \A r \in Nat : r \in S
  <2> HIDE DEF S
  <2> QED
    BY <1>1, StrongInduction
<1> QED
  BY <1>2, RankIsNat DEF Below

\* There is a solution below every number.
LEMMA SolutionExists ==
    ASSUME NEW w, Local(w)
    PROVE  \A n \in Nat : \E g : Solves(w, g, n)
<1> DEFINE S == {n \in Nat : \E g : Solves(w, g, n)}
<1>1. 0 \in S
  <2>1. Below(w, 0) = {}
    BY RankIsNat DEF Below
  <2>2. Solves(w, 0, 0)
    BY <2>1 DEF Solves
  <2> QED
    BY <2>2
<1>2. ASSUME NEW n \in Nat, n \in S PROVE n + 1 \in S
  <2>1. PICK g : Solves(w, g, n)
    BY <1>2
  <2> DEFINE h == [x \in Below(w, n + 1) |-> IF Rank(w, x) < n THEN g[x] ELSE Body(w, g, x)]
  <2>2. \A x \in Below(w, n) : x \in Below(w, n + 1) /\ h[x] = g[x]
    BY RankIsNat DEF Below
  <2>3. \A x \in Below(w, n + 1) : h[x] = Body(w, g, x)
    <3> SUFFICES ASSUME NEW x \in Below(w, n + 1) PROVE h[x] = Body(w, g, x)
      OBVIOUS
    <3>1. CASE Rank(w, x) < n
      <4>1. x \in Below(w, n)
        BY <3>1 DEF Below
      <4> QED
        BY <4>1, <2>1, <2>2 DEF Solves
    <3>2. CASE ~(Rank(w, x) < n)
      BY <3>2
    <3> QED
      BY <3>1, <3>2
  <2> HIDE DEF h
  <2>4. ASSUME NEW x \in Below(w, n + 1) PROVE Body(w, g, x) = Body(w, h, x)
    <3>1. \A y \in Below(w, Rank(w, x)) : y \in Below(w, n)
      BY RankIsNat DEF Below
    <3> QED
      BY <3>1, <2>2 DEF Local, Below
  <2>5. Solves(w, h, n + 1)
    BY <2>3, <2>4 DEF Solves
  <2> QED
    BY <2>5
<1> HIDE DEF S
<1>3. \A n \in Nat : n \in S
  BY <1>1, <1>2, Induction
<1> QED
  BY <1>3 DEF S

\* A body that looks at smaller arguments only has a function that solves it, so
\* the recursive definitions of MerkleTree mean what they say.
LEMMA Recursion ==
    ASSUME NEW w, Local(w)
    PROVE  \E f : f = [x \in Dom(w) |-> Body(w, f, x)]
<1> DEFINE sol(n) == CHOOSE g : Solves(w, g, n)
           f == [x \in Dom(w) |-> sol(Rank(w, x) + 1)[x]]
<1>1. \A n \in Nat : Solves(w, sol(n), n)
  BY SolutionExists
<1> HIDE DEF sol
<1>2. ASSUME NEW x \in Dom(w) PROVE f[x] = Body(w, f, x)
  <2> DEFINE n == Rank(w, x) + 1
  <2>1. n \in Nat /\ x \in Below(w, n)
    BY RankIsNat DEF Below
  <2>2. f[x] = Body(w, sol(n), x)
    BY <1>1, <2>1 DEF Solves
  <2>3. ASSUME NEW y \in Below(w, Rank(w, x)) PROVE f[y] = sol(n)[y]
    <3>1. y \in Dom(w) /\ Rank(w, y) + 1 \in Nat
      BY RankIsNat DEF Below
    <3>2. y \in Below(w, n) \cap Below(w, Rank(w, y) + 1)
      BY <3>1, <2>1, RankIsNat DEF Below
    <3>3. sol(Rank(w, y) + 1)[y] = sol(n)[y]
      <4> HIDE DEF n
      <4> QED
        BY <1>1, <2>1, <3>1, <3>2, SolutionUnique
    <3> QED
      BY <3>1, <3>3
  <2> HIDE DEF f, n
  <2>4. Body(w, f, x) = Body(w, sol(n), x)
    BY <2>3 DEF Local
  <2> QED
    BY <2>2, <2>4
<1>3. f = [x \in Dom(w) |-> Body(w, f, x)]
  BY <1>2
<1> HIDE DEF f
<1> QED
  BY <1>3

-----------------------------------------------------------------------------
(* What the definitions say, one unfolding of each. *)

\* pow2 doubles.
LEMMA pow2Def ==
    pow2[0] = 1 /\ \A i \in Nat : pow2[i + 1] = 2 * pow2[i]
<1> DEFINE w == <<"pow2">>
<1>1. Dom(w) = Nat /\ \A x : Rank(w, x) = x
  BY DEF Dom, Rank, OnTrees
<1>2. \A g, x : Body(w, g, x) = PowBody(g, x)
  BY DEF Body
<1>3. Local(w)
  BY <1>1, <1>2 DEF Local, Below, PowBody
<1>4. \E f : f = [x \in Nat |-> PowBody(f, x)]
  BY <1>1, <1>2, <1>3, Recursion
<1>5. pow2 = [x \in Nat |-> PowBody(pow2, x)]
  BY <1>4 DEF pow2, PowBody
<1>6. \A x \in Nat : pow2[x] = PowBody(pow2, x)
  BY <1>5
<1> HIDE DEF pow2
<1> QED
  BY <1>6 DEF PowBody

\* One turn of the loop that drops low bits of both numbers (transparency.go).
LEMMA StripDef ==
    ASSUME NEW bit, NEW fn \in Nat, NEW sn \in Nat
    PROVE  Strip(bit)[fn][sn] = IF fn % 2 = bit /\ fn # 0
                                THEN Strip(bit)[fn \div 2][sn \div 2] ELSE <<fn, sn>>
<1> DEFINE w == <<"strip", bit>>
<1>1. Dom(w) = Nat /\ \A x : Rank(w, x) = x
  BY DEF Dom, Rank, OnTrees
<1>2. \A g, x : Body(w, g, x) = StripBody(bit, g, x)
  BY DEF Body
<1>3. Local(w)
  <2> SUFFICES ASSUME NEW x \in Nat, NEW g, NEW h, \A y \in Nat : y < x => g[y] = h[y]
               PROVE  StripBody(bit, g, x) = StripBody(bit, h, x)
    BY <1>1, <1>2 DEF Local, Below
  <2>1. x # 0 => x \div 2 \in Nat /\ x \div 2 < x
    OBVIOUS
  <2> QED
    BY <2>1 DEF StripBody
<1>4. \E f : f = [x \in Nat |-> StripBody(bit, f, x)]
  BY <1>1, <1>2, <1>3, Recursion
<1>5. Strip(bit) = [x \in Nat |-> StripBody(bit, Strip(bit), x)]
  BY <1>4 DEF Strip, StripBody
<1>6. Strip(bit)[fn] = StripBody(bit, Strip(bit), fn)
  BY <1>5
<1> QED
  BY <1>6 DEF StripBody

\* The same, for zero bits.
LEMMA StripZeros ==
    \A fn, sn \in Nat :
        /\ fn % 2 = 0 /\ fn # 0 => Strip(0)[fn][sn] = Strip(0)[fn \div 2][sn \div 2]
        /\ fn % 2 # 0 => Strip(0)[fn][sn] = <<fn, sn>>
<1> SUFFICES ASSUME NEW fn \in Nat, NEW sn \in Nat
             PROVE  /\ fn % 2 = 0 /\ fn # 0 => Strip(0)[fn][sn] = Strip(0)[fn \div 2][sn \div 2]
                    /\ fn % 2 # 0 => Strip(0)[fn][sn] = <<fn, sn>>
  OBVIOUS
<1>1. Strip(0)[fn][sn] = IF fn % 2 = 0 /\ fn # 0
                         THEN Strip(0)[fn \div 2][sn \div 2] ELSE <<fn, sn>>
  BY ONLY StripDef, fn \in Nat, sn \in Nat, Zenon
<1> QED
  BY <1>1

\* The same, for one bits.
LEMMA StripOnes ==
    \A fn, sn \in Nat :
        /\ fn % 2 = 1 => Strip(1)[fn][sn] = Strip(1)[fn \div 2][sn \div 2]
        /\ fn % 2 # 1 => Strip(1)[fn][sn] = <<fn, sn>>
<1> SUFFICES ASSUME NEW fn \in Nat, NEW sn \in Nat
             PROVE  /\ fn % 2 = 1 => Strip(1)[fn][sn] = Strip(1)[fn \div 2][sn \div 2]
                    /\ fn % 2 # 1 => Strip(1)[fn][sn] = <<fn, sn>>
  OBVIOUS
<1>1. Strip(1)[fn][sn] = IF fn % 2 = 1 /\ fn # 0
                         THEN Strip(1)[fn \div 2][sn \div 2] ELSE <<fn, sn>>
  BY ONLY StripDef, fn \in Nat, sn \in Nat, Zenon
<1>2. fn % 2 = 1 => fn # 0
  OBVIOUS
<1> QED
  BY <1>1, <1>2

\* The loop over a proof takes one hash at a time.
LEMMA ClimbDef ==
    ASSUME NEW start, NEW proof, NEW idx \in Nat
    PROVE  /\ Climb(start, proof, idx)[idx] = start
           /\ \A i \in Nat : i >= idx =>
                 Climb(start, proof, idx)[i + 1] = Up(Climb(start, proof, idx)[i], proof[i + 1])
<1> DEFINE w == <<"climb", start, proof, idx>>
           at == Climb(start, proof, idx)
<1>1. Dom(w) = Nat /\ \A x : Rank(w, x) = x
  BY DEF Dom, Rank, OnTrees
<1>2. \A g, x : Body(w, g, x) = ClimbBody(start, proof, idx, g, x)
  BY DEF Body
<1>3. Local(w)
  <2> SUFFICES ASSUME NEW x \in Nat, NEW g, NEW h, \A y \in Nat : y < x => g[y] = h[y]
               PROVE  ClimbBody(start, proof, idx, g, x) = ClimbBody(start, proof, idx, h, x)
    BY <1>1, <1>2 DEF Local, Below
  <2>1. ~(x <= idx) => x - 1 \in Nat /\ x - 1 < x
    OBVIOUS
  <2> QED
    BY <2>1 DEF ClimbBody
<1>4. \E f : f = [x \in Nat |-> ClimbBody(start, proof, idx, f, x)]
  BY <1>1, <1>2, <1>3, Recursion
<1>5. at = [x \in Nat |-> ClimbBody(start, proof, idx, at, x)]
  BY <1>4 DEF Climb, ClimbBody
<1> HIDE DEF at
<1>6. \A x \in Nat : at[x] = ClimbBody(start, proof, idx, at, x)
  BY <1>5
<1>7. at[idx] = start
  BY <1>6 DEF ClimbBody
<1>8. ASSUME NEW i \in Nat, i >= idx PROVE at[i + 1] = Up(at[i], proof[i + 1])
  BY <1>6, <1>8 DEF ClimbBody
<1> QED
  BY <1>7, <1>8 DEF at

\* A loop with a body of this form computes something.
LEMMA LoopExists ==
    ASSUME NEW F, NEW v
    PROVE  \E f : f = [x \in Nat |-> LoopBody(F, v, f, x)]
<1> DEFINE w == <<"loop", F, v>>
<1>1. Dom(w) = Nat /\ \A x : Rank(w, x) = x
  BY DEF Dom, Rank, OnTrees
<1>2. \A g, x : Body(w, g, x) = LoopBody(F, v, g, x)
  BY DEF Body
<1>3. Local(w)
  <2> SUFFICES ASSUME NEW x \in Nat, NEW g, NEW h, \A y \in Nat : y < x => g[y] = h[y]
               PROVE  LoopBody(F, v, g, x) = LoopBody(F, v, h, x)
    BY <1>1, <1>2 DEF Local, Below
  <2>1. x # 0 => x - 1 \in Nat /\ x - 1 < x
    OBVIOUS
  <2>2. x # 0 => g[x - 1] = h[x - 1]
    BY <2>1
  <2> QED
    BY <2>2 DEF LoopBody
<1> QED
  BY <1>1, <1>2, <1>3, Recursion

\* f[i] is the state after i turns of a loop that starts in v and takes F each turn.
IsLoop(V, v, F, f) ==
    f \in [Nat -> V] /\ f[0] = v /\ \A i \in Nat : f[i + 1] = F[<<f[i], i + 1>>]

\* A loop whose turns keep its state in V has such an f.
LEMMA Loop == \A V, v, F : (v \in V /\ F \in [V \X Nat -> V]) => \E f : IsLoop(V, v, F, f)
<1> SUFFICES ASSUME NEW V, NEW v \in V, NEW F \in [V \X Nat -> V] PROVE \E f : IsLoop(V, v, F, f)
  OBVIOUS
<1>5. PICK f : f = [x \in Nat |-> LoopBody(F, v, f, x)]
  BY LoopExists
<1>6. \A x \in Nat : f[x] = LoopBody(F, v, f, x)
  BY <1>5
<1>7. f[0] = v
  BY <1>6 DEF LoopBody
<1>8. ASSUME NEW i \in Nat PROVE f[i + 1] = F[<<f[i], i + 1>>]
  <2>1. i + 1 \in Nat /\ i + 1 # 0 /\ (i + 1) - 1 = i
    OBVIOUS
  <2>2. f[i + 1] = LoopBody(F, v, f, i + 1)
    BY <1>6, <2>1
  <2> QED
    BY <2>1, <2>2 DEF LoopBody
<1> DEFINE S == {i \in Nat : f[i] \in V}
<1>9. 0 \in S
  BY <1>7
<1>10. ASSUME NEW i \in Nat, i \in S PROVE i + 1 \in S
  <2>1. <<f[i], i + 1>> \in V \X Nat
    BY <1>10
  <2>2. F[<<f[i], i + 1>>] \in V
    BY <2>1
  <2> QED
    BY <1>8, <2>2
<1>11. \A i \in Nat : i \in S
  <2> HIDE DEF S
  <2> QED
    BY <1>9, <1>10, Induction
<1>12. f \in [Nat -> V]
  BY <1>5, <1>11
<1> QED
  BY <1>7, <1>8, <1>12 DEF IsLoop

\* A function on 1..n is a sequence of length n.
LEMMA SeqOfFunction ==
    \A S : \A n \in Nat : \A f \in [1..n -> S] : f \in Seq(S) /\ Len(f) = n
OBVIOUS

-----------------------------------------------------------------------------
(* Powers of two and the split of a tree. *)

\* The powers of two.
Pow2 == {pow2[i] : i \in Nat}

\* pow2 is above its argument.
LEMMA pow2Grows ==
    \A i \in Nat : pow2[i] \in Nat /\ pow2[i] > i
<1> DEFINE S == {i \in Nat : pow2[i] \in Nat /\ pow2[i] > i}
<1>1. 0 \in S
  BY pow2Def
<1>2. ASSUME NEW i \in Nat, i \in S PROVE i + 1 \in S
  BY <1>2, pow2Def
<1> HIDE DEF S
<1>3. \A i \in Nat : i \in S
  BY <1>1, <1>2, Induction
<1> QED
  BY <1>3 DEF S

\* pow2 at least doubles from one number to any later one.
LEMMA pow2Monotone ==
    \A i, d \in Nat : pow2[i + d + 1] >= 2 * pow2[i]
<1> SUFFICES ASSUME NEW i \in Nat PROVE \A d \in Nat : pow2[i + d + 1] >= 2 * pow2[i]
  OBVIOUS
<1> DEFINE S == {d \in Nat : pow2[i + d + 1] >= 2 * pow2[i]}
<1>1. 0 \in S
  BY pow2Def, pow2Grows
<1>2. ASSUME NEW d \in Nat, d \in S PROVE d + 1 \in S
  <2>1. i + d + 1 \in Nat /\ i + (d + 1) + 1 = (i + d + 1) + 1
    OBVIOUS
  <2>2. pow2[i + (d + 1) + 1] = 2 * pow2[i + d + 1] /\ pow2[i + d + 1] \in Nat /\ pow2[i] \in Nat
    BY <2>1, pow2Def, pow2Grows
  <2> QED
    BY <1>2, <2>2
<1> HIDE DEF S
<1>3. \A d \in Nat : d \in S
  BY <1>1, <1>2, Induction
<1> QED
  BY <1>3 DEF S

\* A power of two is 1 or twice a power of two.
LEMMA Pow2Cases ==
    ASSUME NEW K \in Pow2
    PROVE  /\ K \in Nat /\ K >= 1
           /\ K = 1 \/ (K >= 2 /\ K % 2 = 0 /\ K = 2 * (K \div 2) /\ K \div 2 \in Pow2 /\ K \div 2 < K)
<1>1. PICK i \in Nat : K = pow2[i]
  BY DEF Pow2
<1>2. K \in Nat /\ K >= 1
  BY <1>1, pow2Grows
<1>3. CASE i = 0
  BY <1>1, <1>2, <1>3, pow2Def
<1>4. CASE i > 0
  <2>1. i - 1 \in Nat /\ (i - 1) + 1 = i
    BY <1>4
  <2>2. K = 2 * pow2[i - 1] /\ pow2[i - 1] \in Nat /\ pow2[i - 1] >= 1
    BY <1>1, <2>1, pow2Def, pow2Grows
  <2>3. K \div 2 = pow2[i - 1] /\ K % 2 = 0
    BY <2>2
  <2> QED
    BY <1>2, <2>1, <2>2, <2>3 DEF Pow2
<1> QED
  BY <1>3, <1>4

\* Between a number and its double there is one power of two.
LEMMA Pow2Unique ==
    ASSUME NEW j \in Pow2, NEW k \in Pow2, j < 2 * k, k < 2 * j
    PROVE  j = k
<1>1. PICK x \in Nat : j = pow2[x]
  BY DEF Pow2
<1>2. PICK y \in Nat : k = pow2[y]
  BY DEF Pow2
<1>3. j \in Nat /\ k \in Nat
  BY Pow2Cases
<1>4. CASE x < y
  <2>1. y - x - 1 \in Nat /\ x + (y - x - 1) + 1 = y
    BY <1>4
  <2>2. pow2[x + (y - x - 1) + 1] >= 2 * pow2[x]
    BY <2>1, pow2Monotone
  <2> QED
    BY <1>1, <1>2, <1>3, <2>1, <2>2
<1>5. CASE y < x
  <2>1. x - y - 1 \in Nat /\ y + (x - y - 1) + 1 = x
    BY <1>5
  <2>2. pow2[y + (x - y - 1) + 1] >= 2 * pow2[y]
    BY <2>1, pow2Monotone
  <2> QED
    BY <1>1, <1>2, <1>3, <2>1, <2>2
<1> QED
  BY <1>1, <1>2, <1>4, <1>5

\* A number above 1 lies above a power of two and at most at its double.
LEMMA SplitExists ==
    ASSUME NEW n \in Nat, n > 1
    PROVE  \E i \in 0..n : pow2[i] < n /\ n <= 2 * pow2[i]
<1> DEFINE T == {i \in Nat : n <= pow2[i]}
<1>1. n \in T
  BY pow2Grows
<1>2. PICK i \in T : \A j \in T : i <= j
  BY <1>1, LeastNumber
<1>3. i # 0
  BY <1>2, pow2Def
<1>4. i - 1 \in Nat /\ (i - 1) + 1 = i /\ i <= n /\ i - 1 \notin T
  BY <1>1, <1>2, <1>3
<1>5. pow2[i] = 2 * pow2[i - 1] /\ pow2[i - 1] \in Nat /\ pow2[i] \in Nat
  BY <1>4, pow2Def, pow2Grows
<1> QED
  BY <1>2, <1>4, <1>5

\* largestPow2Below returns the power of two that RFC 6962 asks for.
LEMMA Split ==
    ASSUME NEW n \in Nat, n > 1
    PROVE  LET k == largestPow2Below(n) IN k \in Pow2 /\ k \in Nat /\ 1 <= k /\ k < n /\ n <= 2 * k
<1> DEFINE k == largestPow2Below(n)
<1>1. k \in {pow2[i] : i \in 0..n} /\ k < n /\ n <= 2 * k
  <2>1. \E j \in {pow2[i] : i \in 0..n} : j < n /\ n <= 2 * j
    BY SplitExists
  <2> QED
    BY <2>1 DEF largestPow2Below
<1>2. k \in Pow2
  BY <1>1 DEF Pow2
<1> QED
  BY <1>1, <1>2, Pow2Cases

\* It is the only one.
LEMMA SplitUnique ==
    ASSUME NEW n \in Nat, NEW k \in Pow2, k < n, n <= 2 * k
    PROVE  largestPow2Below(n) = k
<1> DEFINE j == largestPow2Below(n)
<1>1. k \in Nat /\ k >= 1 /\ n > 1
  BY Pow2Cases
<1>2. j \in Pow2 /\ j \in Nat /\ j < n /\ n <= 2 * j
  BY <1>1, Split
<1> HIDE DEF j
<1>3. j = k
  BY <1>1, <1>2, Pow2Unique
<1> QED
  BY <1>3 DEF j

-----------------------------------------------------------------------------
(* The halves of a list of leaves. *)

\* First and Rest are slices of a list, and nothing is lost.
LEMMA FirstRest ==
    ASSUME NEW S, NEW s \in Seq(S), NEW k \in 0..Len(s)
    PROVE  /\ First(s, k) \in Seq(S) /\ Len(First(s, k)) = k
           /\ \A i \in 1..k : First(s, k)[i] = s[i]
           /\ Rest(s, k) \in Seq(S) /\ Len(Rest(s, k)) = Len(s) - k
           /\ \A i \in 1..(Len(s) - k) : Rest(s, k)[i] = s[k + i]
<1>1. First(s, k) \in Seq(S) /\ Len(First(s, k)) = k
  BY SubSeqProperties DEF First
<1>2. Rest(s, k) \in Seq(S) /\ Len(Rest(s, k)) = Len(s) - k
  BY SubSeqProperties DEF Rest
<1>3. \A i \in 1..k : First(s, k)[i] = s[i]
  BY SubSeqProperties DEF First
<1>4. \A i \in 1..(Len(s) - k) : Rest(s, k)[i] = s[k + i]
  BY SubSeqProperties DEF Rest
<1> QED
  BY <1>1, <1>2, <1>3, <1>4

\* The halves that mth, path and subproof recurse on are shorter lists of leaves.
LEMMA Halves ==
    ASSUME NEW S, NEW s \in Seq(S), Len(s) > 1
    PROVE  LET k == largestPow2Below(Len(s)) IN
           /\ k \in Pow2 /\ k \in Nat /\ 1 <= k /\ k < Len(s) /\ Len(s) <= 2 * k
           /\ First(s, k) \in Seq(S) /\ Len(First(s, k)) = k
           /\ Rest(s, k) \in Seq(S) /\ Len(Rest(s, k)) = Len(s) - k
<1> DEFINE k == largestPow2Below(Len(s))
<1>1. k \in Pow2 /\ k \in Nat /\ 1 <= k /\ k < Len(s) /\ Len(s) <= 2 * k
  BY Split
<1> HIDE DEF k
<1>2. First(s, k) \in Seq(S) /\ Len(First(s, k)) = k /\ Rest(s, k) \in Seq(S) /\ Len(Rest(s, k)) = Len(s) - k
  BY <1>1, FirstRest
<1> QED
  BY <1>1, <1>2 DEF k

\* A number is 0, 1 or more.
LEMMA OneOrMore ==
    ASSUME NEW n \in Nat
    PROVE  /\ n # 0 /\ n # 1 => n > 1
           /\ n <= 1 => \A m \in 0..(n - 1) : n = 1
OBVIOUS

\* mth satisfies its definition, for every list of leaves.
LEMMA mthDef ==
    ASSUME NEW s \in Seq(Leaf)
    PROVE  mth[s] = MthBody(mth, s)
<1> DEFINE w == <<"mth">>
<1>1. Dom(w) = Seq(Leaf) /\ \A x : Rank(w, x) = Len(x)
  BY DEF Dom, Rank, OnTrees
<1>2. \A g, x : Body(w, g, x) = MthBody(g, x)
  BY DEF Body
<1>3. Local(w)
  <2>a. SUFFICES ASSUME NEW x \in Seq(Leaf), NEW g, NEW h,
                        \A y \in Seq(Leaf) : Len(y) < Len(x) => g[y] = h[y]
                 PROVE  MthBody(g, x) = MthBody(h, x)
    BY <1>1, <1>2 DEF Local, Below
  <2>0. Len(x) \in Nat /\ (x # <<>> => Len(x) # 0)
    BY EmptySeq
  <2>1. CASE x = <<>> \/ Len(x) = 1
    BY <2>1 DEF MthBody
  <2>2. CASE x # <<>> /\ Len(x) # 1
    <3> DEFINE k == largestPow2Below(Len(x))
    <3>1. Len(x) \in Nat /\ Len(x) > 1
      BY <2>0, <2>2, OneOrMore
    <3>2. g[First(x, k)] = h[First(x, k)] /\ g[Rest(x, k)] = h[Rest(x, k)]
      BY <2>a, <3>1, Halves
    <3> QED
      BY <2>2, <3>2 DEF MthBody
  <2> QED
    BY <2>1, <2>2
<1>4. \E f : f = [x \in Seq(Leaf) |-> MthBody(f, x)]
  BY <1>1, <1>2, <1>3, Recursion
<1>5. mth = [x \in Seq(Leaf) |-> MthBody(mth, x)]
  BY <1>4 DEF mth, MthBody
<1> HIDE DEF mth
<1> QED
  BY <1>5

\* path satisfies its definition.
LEMMA pathDef ==
    ASSUME NEW s \in Seq(Leaf)
    PROVE  path[s] = PathBody(path, s)
<1> DEFINE w == <<"path">>
<1>1. Dom(w) = Seq(Leaf) /\ \A x : Rank(w, x) = Len(x)
  BY DEF Dom, Rank, OnTrees
<1>2. \A g, x : Body(w, g, x) = PathBody(g, x)
  BY DEF Body
<1>3. Local(w)
  <2>a. SUFFICES ASSUME NEW x \in Seq(Leaf), NEW g, NEW h,
                        \A y \in Seq(Leaf) : Len(y) < Len(x) => g[y] = h[y]
                 PROVE  PathBody(g, x) = PathBody(h, x)
    BY <1>1, <1>2 DEF Local, Below
  <2>0. Len(x) \in Nat
    OBVIOUS
  <2>1. CASE Len(x) <= 1
    <3>1. ASSUME NEW m \in 0..(Len(x) - 1) PROVE Len(x) = 1
      BY <2>0, <2>1, OneOrMore
    <3> QED
      BY <3>1 DEF PathBody
  <2>2. CASE Len(x) > 1
    <3> DEFINE k == largestPow2Below(Len(x))
    <3>2. g[First(x, k)] = h[First(x, k)] /\ g[Rest(x, k)] = h[Rest(x, k)]
      BY <2>a, <2>2, Halves
    <3> QED
      BY <2>2, <3>2 DEF PathBody
  <2> QED
    BY <2>0, <2>1, <2>2
<1>4. \E f : f = [x \in Seq(Leaf) |-> PathBody(f, x)]
  BY <1>1, <1>2, <1>3, Recursion
<1>5. path = [x \in Seq(Leaf) |-> PathBody(path, x)]
  BY <1>4 DEF path, PathBody
<1> HIDE DEF path
<1> QED
  BY <1>5

\* subproof satisfies its definition.
LEMMA subproofDef ==
    ASSUME NEW s \in Seq(Leaf)
    PROVE  subproof[s] = SubproofBody(subproof, s)
<1> DEFINE w == <<"subproof">>
<1>1. Dom(w) = Seq(Leaf) /\ \A x : Rank(w, x) = Len(x)
  BY DEF Dom, Rank, OnTrees
<1>2. \A g, x : Body(w, g, x) = SubproofBody(g, x)
  BY DEF Body
<1>3. Local(w)
  <2>a. SUFFICES ASSUME NEW x \in Seq(Leaf), NEW g, NEW h,
                        \A y \in Seq(Leaf) : Len(y) < Len(x) => g[y] = h[y]
                 PROVE  SubproofBody(g, x) = SubproofBody(h, x)
    BY <1>1, <1>2 DEF Local, Below
  <2>1. ASSUME NEW m \in 1..Len(x), NEW b \in BOOLEAN
        PROVE  SubproofAt(g, x, m, b) = SubproofAt(h, x, m, b)
    <3> DEFINE k == largestPow2Below(Len(x))
    <3>1. CASE m = Len(x)
      BY <3>1 DEF SubproofAt
    <3>2. CASE m # Len(x)
      <4>1. Len(x) > 1
        BY <3>2
      <4>2. g[First(x, k)] = h[First(x, k)] /\ g[Rest(x, k)] = h[Rest(x, k)]
        BY <2>a, <4>1, Halves
      <4> QED
        BY <3>2, <4>2 DEF SubproofAt
    <3> QED
      BY <3>1, <3>2
  <2> QED
    BY <2>1 DEF SubproofBody
<1>4. \E f : f = [x \in Seq(Leaf) |-> SubproofBody(f, x)]
  BY <1>1, <1>2, <1>3, Recursion
<1>5. subproof = [x \in Seq(Leaf) |-> SubproofBody(subproof, x)]
  BY <1>4 DEF subproof, SubproofBody, SubproofAt
<1> HIDE DEF subproof
<1> QED
  BY <1>5

-----------------------------------------------------------------------------
(* The loop of VerifyInclusion and VerifyConsistency works on index bits.  A simulation relates
   the loop in a half of a tree to the loop in the whole: Sim holds until the top of the half,
   then one hash is left. *)

\* a is b moved to the right by K: below a node of K leaves and the tree of b.
OnRight(K, a, b) ==
    /\ a.fn = K + b.fn /\ a.sn = K + b.sn
    /\ b.fn \in Nat /\ b.sn \in Nat /\ b.fn <= b.sn /\ b.sn < K

\* b is in the complete tree of K leaves on the left of a's.
OnLeft(K, a, b) ==
    /\ a.fn = b.fn /\ b.fn \in Nat /\ a.sn \in Nat
    /\ b.fn < K /\ K <= a.sn /\ a.sn < 2 * K /\ b.sn = K - 1

\* Two states of the loop with the same hashes.
SameHashes(a, b) == a.fr = b.fr /\ a.sr = b.sr

\* One turn at an odd index: the hash goes to the left of both.
LEMMA UpOdd ==
    ASSUME NEW s, NEW c, s.fn \in Nat, s.sn \in Nat, s.sn > 0, s.fn % 2 = 1
    PROVE  Up(s, c) = [fn |-> s.fn \div 2, sn |-> s.sn \div 2,
                       fr |-> hashNode(c, s.fr), sr |-> hashNode(c, s.sr)]
<1>1. Strip(0)[s.fn][s.sn] = <<s.fn, s.sn>>
  BY StripZeros
<1> QED
  BY <1>1 DEF Up

\* One turn at an even index that is not the last: the hash goes to the right of
\* the new tree's.
LEMMA UpEven ==
    ASSUME NEW s, NEW c, s.fn \in Nat, s.sn \in Nat, s.sn > 0, s.fn % 2 # 1, s.fn # s.sn
    PROVE  Up(s, c) = [fn |-> s.fn \div 2, sn |-> s.sn \div 2,
                       fr |-> s.fr, sr |-> hashNode(s.sr, c)]
BY DEF Up

\* One turn at the last index: zero bits are dropped first.
LEMMA UpLast ==
    ASSUME NEW s, NEW c, s.fn \in Nat, s.sn > 0, s.fn = s.sn
    PROVE  LET at == Strip(0)[s.fn][s.sn] IN
           Up(s, c) = [fn |-> at[1] \div 2, sn |-> at[2] \div 2,
                       fr |-> hashNode(c, s.fr), sr |-> hashNode(c, s.sr)]
BY DEF Up

\* A hash too many fails the check, and it stays failed.
LEMMA UpPast ==
    ASSUME NEW s, NEW c, s.sn \in {0, -1}
    PROVE  Up(s, c).sn = -1
BY DEF Up, Start

\* Halving a number.
LEMMA Half ==
    ASSUME NEW n \in Nat
    PROVE  /\ n \div 2 \in Nat
           /\ n % 2 = 0 => n = 2 * (n \div 2)
           /\ n % 2 # 0 => n = 2 * (n \div 2) + 1 /\ n % 2 = 1
OBVIOUS

\* Halving a sum with an even part.
LEMMA HalfSum ==
    ASSUME NEW n \in Nat, NEW h \in Nat
    PROVE  /\ (2 * h + n) \div 2 = h + n \div 2
           /\ (2 * h + n) % 2 = n % 2
OBVIOUS

\* Strip takes as many zero bits from K + f as from f # 0 itself.
LEMMA StripRight ==
    \A f \in Nat : \A K \in Pow2 : 0 < f /\ f < K =>
        \E J \in Pow2, x \in Nat :
            /\ Strip(0)[f][f] = <<x, x>> /\ Strip(0)[K + f][K + f] = <<J + x, J + x>>
            /\ 0 < x /\ x < J
<1> DEFINE Q(f, K) == \E J \in Pow2, x \in Nat :
               /\ Strip(0)[f][f] = <<x, x>> /\ Strip(0)[K + f][K + f] = <<J + x, J + x>>
               /\ 0 < x /\ x < J
           S == {f \in Nat : \A K \in Pow2 : 0 < f /\ f < K => Q(f, K)}
<1>1. ASSUME NEW f \in Nat, \A k \in Nat : k < f => k \in S
      PROVE  f \in S
  <2>1. SUFFICES ASSUME NEW K \in Pow2, 0 < f, f < K
                 PROVE  Q(f, K)
    BY DEF S
  <2>2. K \in Nat /\ K >= 2 /\ K = 2 * (K \div 2) /\ K \div 2 \in Pow2 /\ K \div 2 \in Nat
    BY <2>1, Pow2Cases, Half
  <2> DEFINE H == K \div 2
             e == f \div 2
  <2> HIDE DEF H
  <2>3. e \in Nat /\ (K + f) % 2 = f % 2 /\ (K + f) \div 2 = H + e /\ K + f \in Nat /\ K + f # 0
    BY <2>1, <2>2, HalfSum, Half DEF H
  <2>4. CASE f % 2 = 0
    <3>1. 0 < e /\ e < H /\ e < f
      BY <2>1, <2>2, <2>4, Half DEF H
    <3>2. Q(e, H)
      BY <1>1, <2>2, <2>3, <3>1 DEF S, H
    <3>3. Strip(0)[f][f] = Strip(0)[e][e]
      BY <2>1, <2>4, StripZeros
    <3>4. Strip(0)[K + f][K + f] = Strip(0)[H + e][H + e]
      BY <2>3, <2>4, StripZeros
    <3> QED
      BY <3>2, <3>3, <3>4
  <2>5. CASE f % 2 # 0
    <3>1. Strip(0)[f][f] = <<f, f>>
      BY <2>5, StripZeros
    <3>2. Strip(0)[K + f][K + f] = <<K + f, K + f>>
      BY <2>3, <2>5, StripZeros
    <3> QED
      BY <2>1, <3>1, <3>2
  <2> QED
    BY <2>4, <2>5
<1> HIDE DEF S
<1>2. \A f \in Nat : f \in S
  BY <1>1, StrongInduction
<1> QED
  BY <1>2 DEF S

\* Of a power of two, all that stays is its one bit.
LEMMA StripPow2 ==
    \A n \in Nat : n \in Pow2 => Strip(0)[n][n] = <<1, 1>>
<1> DEFINE S == {n \in Nat : n \in Pow2 => Strip(0)[n][n] = <<1, 1>>}
<1>1. ASSUME NEW n \in Nat, \A k \in Nat : k < n => k \in S
      PROVE  n \in S
  <2> SUFFICES ASSUME n \in Pow2 PROVE Strip(0)[n][n] = <<1, 1>>
    OBVIOUS
  <2>1. CASE n = 1
    BY <2>1, StripZeros
  <2>2. CASE n # 1
    <3>1. n % 2 = 0 /\ n # 0 /\ n \div 2 \in Pow2 /\ n \div 2 < n /\ n \div 2 \in Nat
      BY <2>2, Pow2Cases
    <3>2. Strip(0)[n][n] = Strip(0)[n \div 2][n \div 2]
      BY <3>1, StripZeros
    <3> QED
      BY <1>1, <3>1, <3>2
  <2> QED
    BY <2>1, <2>2
<1> HIDE DEF S
<1>2. \A n \in Nat : n \in S
  BY <1>1, StrongInduction
<1> QED
  BY <1>2 DEF S

\* The two simulations: the loop in a half of a tree and in the whole.
RightSim(a, b) == SameHashes(a, b) /\ \E K \in Pow2 : OnRight(K, a, b)

LeftSim(a, b) == SameHashes(a, b) /\ \E K \in Pow2 : OnLeft(K, a, b)

\* Below the top of the right half the two loops move together.
LEMMA RightStep ==
    ASSUME NEW a, NEW b, NEW c, RightSim(a, b), b.sn # 0
    PROVE  RightSim(Up(a, c), Up(b, c))
<1>1. PICK K \in Pow2 : OnRight(K, a, b)
  BY DEF RightSim
<1> DEFINE H == K \div 2
<1>2. K \in Nat /\ K >= 2 /\ K = 2 * H /\ H \in Pow2 /\ H \in Nat
  BY <1>1, Pow2Cases, Half DEF OnRight
<1>3. /\ a.fn \in Nat /\ a.sn \in Nat /\ a.sn > 0 /\ b.fn \in Nat /\ b.sn \in Nat /\ b.sn > 0
      /\ a.fn = 2 * H + b.fn /\ a.sn = 2 * H + b.sn /\ b.fn <= b.sn /\ b.sn < 2 * H
      /\ SameHashes(a, b)
  BY <1>1, <1>2 DEF OnRight, RightSim
<1> HIDE DEF H
<1>4. /\ a.fn % 2 = b.fn % 2 /\ a.fn \div 2 = H + b.fn \div 2 /\ a.sn \div 2 = H + b.sn \div 2
      /\ b.fn \div 2 \in Nat /\ b.sn \div 2 \in Nat
      /\ b.fn \div 2 <= b.sn \div 2 /\ b.sn \div 2 < H
      /\ (a.fn = a.sn <=> b.fn = b.sn)
  BY <1>2, <1>3, HalfSum
<1>5. CASE b.fn % 2 = 1
  <2>1. Up(a, c) = [fn |-> a.fn \div 2, sn |-> a.sn \div 2,
                    fr |-> hashNode(c, a.fr), sr |-> hashNode(c, a.sr)]
    BY <1>3, <1>4, <1>5, UpOdd
  <2>2. Up(b, c) = [fn |-> b.fn \div 2, sn |-> b.sn \div 2,
                    fr |-> hashNode(c, b.fr), sr |-> hashNode(c, b.sr)]
    BY <1>3, <1>5, UpOdd
  <2>3. OnRight(H, Up(a, c), Up(b, c))
    BY <1>4, <2>1, <2>2 DEF OnRight
  <2> QED
    BY <1>2, <1>3, <2>1, <2>2, <2>3 DEF RightSim, SameHashes
<1>6. CASE b.fn % 2 # 1 /\ b.fn # b.sn
  <2>1. Up(a, c) = [fn |-> a.fn \div 2, sn |-> a.sn \div 2,
                    fr |-> a.fr, sr |-> hashNode(a.sr, c)]
    BY <1>3, <1>4, <1>6, UpEven
  <2>2. Up(b, c) = [fn |-> b.fn \div 2, sn |-> b.sn \div 2,
                    fr |-> b.fr, sr |-> hashNode(b.sr, c)]
    BY <1>3, <1>6, UpEven
  <2>3. OnRight(H, Up(a, c), Up(b, c))
    BY <1>4, <2>1, <2>2 DEF OnRight
  <2> QED
    BY <1>2, <1>3, <2>1, <2>2, <2>3 DEF RightSim, SameHashes
<1>7. CASE b.fn % 2 # 1 /\ b.fn = b.sn
  <2>1. PICK J \in Pow2, x \in Nat :
            /\ Strip(0)[b.fn][b.fn] = <<x, x>> /\ Strip(0)[K + b.fn][K + b.fn] = <<J + x, J + x>>
            /\ 0 < x /\ x < J
    BY <1>2, <1>3, <1>7, StripRight
  <2>2. a.fn = a.sn /\ K + b.fn = a.fn
    BY <1>2, <1>3, <1>7
  <2>3. Up(a, c) = [fn |-> (J + x) \div 2, sn |-> (J + x) \div 2,
                    fr |-> hashNode(c, a.fr), sr |-> hashNode(c, a.sr)]
    BY <1>3, <2>1, <2>2, UpLast
  <2>4. Up(b, c) = [fn |-> x \div 2, sn |-> x \div 2,
                    fr |-> hashNode(c, b.fr), sr |-> hashNode(c, b.sr)]
    BY <1>3, <1>7, <2>1, UpLast
  <2>5. J \in Nat /\ J >= 2 /\ J = 2 * (J \div 2) /\ J \div 2 \in Pow2 /\ J \div 2 \in Nat
    BY <2>1, Pow2Cases, Half
  <2>6. (J + x) \div 2 = J \div 2 + x \div 2 /\ x \div 2 \in Nat /\ x \div 2 < J \div 2
    BY <2>1, <2>5, HalfSum
  <2>7. OnRight(J \div 2, Up(a, c), Up(b, c))
    BY <2>3, <2>4, <2>5, <2>6 DEF OnRight
  <2> QED
    BY <1>3, <2>3, <2>4, <2>5, <2>7 DEF RightSim, SameHashes
<1> QED
  BY <1>5, <1>6, <1>7

\* At the top of the right half the whole tree takes one more hash, from the left.
LEMMA RightTop ==
    ASSUME NEW a, NEW b, NEW c, RightSim(a, b), b.sn = 0
    PROVE  Up(a, c) = [fn |-> 0, sn |-> 0, fr |-> hashNode(c, b.fr), sr |-> hashNode(c, b.sr)]
<1>1. PICK K \in Pow2 : OnRight(K, a, b)
  BY DEF RightSim
<1>2. K \in Nat /\ K >= 1 /\ a.fn = K /\ a.sn = K /\ SameHashes(a, b)
  BY <1>1, Pow2Cases DEF OnRight, RightSim
<1>3. Strip(0)[K][K] = <<1, 1>>
  BY <1>2, StripPow2
<1> QED
  BY <1>2, <1>3, UpLast DEF SameHashes

\* Below the top of the left half the two loops move together.
LEMMA LeftStep ==
    ASSUME NEW a, NEW b, NEW c, LeftSim(a, b), b.sn # 0
    PROVE  LeftSim(Up(a, c), Up(b, c))
<1>1. PICK K \in Pow2 : OnLeft(K, a, b)
  BY DEF LeftSim
<1> DEFINE H == K \div 2
<1>2. K \in Nat /\ K >= 2 /\ K = 2 * H /\ H \in Pow2 /\ H \in Nat
  BY <1>1, Pow2Cases, Half DEF OnLeft
<1>3. /\ a.fn \in Nat /\ a.sn \in Nat /\ a.sn > 0 /\ b.fn \in Nat /\ b.sn \in Nat /\ b.sn > 0
      /\ a.fn = b.fn /\ b.fn < 2 * H /\ 2 * H <= a.sn /\ a.sn < 4 * H /\ b.sn = 2 * H - 1
      /\ SameHashes(a, b)
  BY <1>1, <1>2 DEF OnLeft, LeftSim
<1> HIDE DEF H
<1>4. /\ b.fn \div 2 \in Nat /\ a.sn \div 2 \in Nat /\ b.sn \div 2 = H - 1
      /\ b.fn \div 2 < H /\ H <= a.sn \div 2 /\ a.sn \div 2 < 2 * H
      /\ a.fn # a.sn /\ (b.fn % 2 # 1 => b.fn # b.sn)
  BY <1>2, <1>3
<1>5. CASE b.fn % 2 = 1
  <2>1. Up(a, c) = [fn |-> b.fn \div 2, sn |-> a.sn \div 2,
                    fr |-> hashNode(c, a.fr), sr |-> hashNode(c, a.sr)]
    BY <1>3, <1>5, UpOdd
  <2>2. Up(b, c) = [fn |-> b.fn \div 2, sn |-> b.sn \div 2,
                    fr |-> hashNode(c, b.fr), sr |-> hashNode(c, b.sr)]
    BY <1>3, <1>5, UpOdd
  <2>3. OnLeft(H, Up(a, c), Up(b, c))
    BY <1>4, <2>1, <2>2 DEF OnLeft
  <2> QED
    BY <1>2, <1>3, <2>1, <2>2, <2>3 DEF LeftSim, SameHashes
<1>6. CASE b.fn % 2 # 1
  <2>1. Up(a, c) = [fn |-> b.fn \div 2, sn |-> a.sn \div 2,
                    fr |-> a.fr, sr |-> hashNode(a.sr, c)]
    BY <1>3, <1>4, <1>6, UpEven
  <2>2. Up(b, c) = [fn |-> b.fn \div 2, sn |-> b.sn \div 2,
                    fr |-> b.fr, sr |-> hashNode(b.sr, c)]
    BY <1>3, <1>4, <1>6, UpEven
  <2>3. OnLeft(H, Up(a, c), Up(b, c))
    BY <1>4, <2>1, <2>2 DEF OnLeft
  <2> QED
    BY <1>2, <1>3, <2>1, <2>2, <2>3 DEF LeftSim, SameHashes
<1> QED
  BY <1>5, <1>6

\* At the top of the left half the whole tree takes one more hash, from the right.
LEMMA LeftTop ==
    ASSUME NEW a, NEW b, NEW c, LeftSim(a, b), b.sn = 0
    PROVE  Up(a, c) = [fn |-> 0, sn |-> 0, fr |-> b.fr, sr |-> hashNode(b.sr, c)]
<1>1. PICK K \in Pow2 : OnLeft(K, a, b)
  BY DEF LeftSim
<1>0. K \in Nat
  BY Pow2Cases
<1>2. K = 1
  BY <1>0, <1>1 DEF OnLeft
<1>a. a.fn = 0 /\ a.sn = 1 /\ SameHashes(a, b)
  BY <1>1, <1>2 DEF OnLeft, LeftSim
<1>3. 0 \div 2 = 0 /\ 1 \div 2 = 0 /\ 0 % 2 # 1
  OBVIOUS
<1>4. Up(a, c) = [fn |-> a.fn \div 2, sn |-> a.sn \div 2, fr |-> a.fr, sr |-> hashNode(a.sr, c)]
  BY <1>a, <1>3, UpEven
<1> QED
  BY <1>a, <1>3, <1>4 DEF SameHashes

\* Both sides at once: whose half it is, and the state after the last hash.
Sim(side, a, b) == IF side = "right" THEN RightSim(a, b) ELSE LeftSim(a, b)

Top(side, b, c) ==
    IF side = "right"
    THEN [fn |-> 0, sn |-> 0, fr |-> hashNode(c, b.fr), sr |-> hashNode(c, b.sr)]
    ELSE [fn |-> 0, sn |-> 0, fr |-> b.fr, sr |-> hashNode(b.sr, c)]

\* While the loops move together the one in the whole tree is not at its top.
LEMMA SimRuns ==
    ASSUME NEW side, NEW a, NEW b, Sim(side, a, b)
    PROVE  b.sn \in Nat /\ a.sn \in Nat /\ a.sn # 0
<1>1. CASE RightSim(a, b)
  BY <1>1, Pow2Cases DEF RightSim, OnRight
<1>2. CASE LeftSim(a, b)
  BY <1>2, Pow2Cases DEF LeftSim, OnLeft
<1> QED
  BY <1>1, <1>2 DEF Sim

\* One hash in both loops.
LEMMA SimStep ==
    ASSUME NEW side, NEW a, NEW b, NEW c, Sim(side, a, b)
    PROVE  /\ b.sn # 0 => Sim(side, Up(a, c), Up(b, c))
           /\ b.sn = 0 => Up(a, c) = Top(side, b, c)
<1>1. CASE side = "right"
  <2>1. RightSim(a, b)
    BY <1>1 DEF Sim
  <2>3. b.sn # 0 => RightSim(Up(a, c), Up(b, c))
    BY <2>1, RightStep
  <2>4. b.sn = 0 => Up(a, c) = Top(side, b, c)
    BY <1>1, <2>1, RightTop DEF Top
  <2> QED
    BY <1>1, <2>3, <2>4 DEF Sim
<1>2. CASE side # "right"
  <2>1. LeftSim(a, b)
    BY <1>2 DEF Sim
  <2>3. b.sn # 0 => LeftSim(Up(a, c), Up(b, c))
    BY <2>1, LeftStep
  <2>4. b.sn = 0 => Up(a, c) = Top(side, b, c)
    BY <1>2, <2>1, LeftTop DEF Top
  <2> QED
    BY <1>2, <2>3, <2>4 DEF Sim
<1> QED
  BY <1>1, <1>2

\* Two runs of the loop, over the same proof.
Runs(ra, rb, p, idx) ==
    \A i \in Nat : i >= idx => ra[i + 1] = Up(ra[i], p[i + 1]) /\ rb[i + 1] = Up(rb[i], p[i + 1])

\* One run is the other and one hash more, or has failed.
Peeled(side, ra, rb, p, idx, i) ==
    \/ Sim(side, ra[i], rb[i]) /\ (i > idx => rb[i - 1].sn # 0)
    \/ i > idx /\ rb[i - 1].sn = 0 /\ ra[i] = Top(side, rb[i - 1], p[i])
    \/ i > idx /\ rb[i - 1].sn = -1 /\ ra[i].sn = -1

\* One hash keeps the two runs in step.
LEMMA PeelStep ==
    ASSUME NEW side, NEW ra, NEW rb, NEW p, NEW idx \in Nat, Runs(ra, rb, p, idx),
           NEW i \in Nat, i >= idx, Peeled(side, ra, rb, p, idx, i)
    PROVE  Peeled(side, ra, rb, p, idx, i + 1)
<1>1. ra[i + 1] = Up(ra[i], p[i + 1]) /\ rb[i + 1] = Up(rb[i], p[i + 1])
  BY DEF Runs
<1>2. i + 1 > idx /\ (i + 1) - 1 = i
  OBVIOUS
<1>3. ASSUME i > idx PROVE rb[i] = Up(rb[i - 1], p[i])
  <2>1. i - 1 \in Nat /\ i - 1 >= idx /\ (i - 1) + 1 = i
    BY <1>3
  <2> QED
    BY <2>1 DEF Runs
<1>4. CASE Sim(side, ra[i], rb[i])
  <2>1. /\ rb[i].sn # 0 => Sim(side, ra[i + 1], rb[i + 1])
        /\ rb[i].sn = 0 => ra[i + 1] = Top(side, rb[i], p[i + 1])
    BY <1>1, <1>4, SimStep
  <2> QED
    BY <1>2, <2>1 DEF Peeled
<1>5. CASE i > idx /\ rb[i - 1].sn = 0 /\ ra[i] = Top(side, rb[i - 1], p[i])
  <2>1. ra[i].sn = 0
    BY <1>5 DEF Top
  <2>2. rb[i].sn = -1
    BY <1>3, <1>5, UpPast
  <2>3. ra[i + 1].sn = -1
    BY <1>1, <2>1, UpPast
  <2> QED
    BY <1>2, <2>2, <2>3 DEF Peeled
<1>6. CASE i > idx /\ rb[i - 1].sn = -1 /\ ra[i].sn = -1
  <2>2. rb[i].sn = -1
    BY <1>3, <1>6, UpPast
  <2>3. ra[i + 1].sn = -1
    BY <1>1, <1>6, UpPast
  <2> QED
    BY <1>2, <2>2, <2>3 DEF Peeled
<1> QED
  BY <1>4, <1>5, <1>6 DEF Peeled

\* The climb from a is the climb from b and then one more hash.
LEMMA Peel ==
    ASSUME NEW side, NEW a, NEW b, NEW p, NEW idx \in Nat, NEW n \in Nat, n >= idx, Sim(side, a, b)
    PROVE  LET ra == Climb(a, p, idx)
               rb == Climb(b, p, idx)
           IN  /\ ra[n].sn = 0 <=> n > idx /\ rb[n - 1].sn = 0
               /\ ra[n].sn = 0 => ra[n] = Top(side, rb[n - 1], p[n])
<1>1. PICK ra : ra = Climb(a, p, idx)
  OBVIOUS
<1>2. PICK rb : rb = Climb(b, p, idx)
  OBVIOUS
<1>3. ra[idx] = a /\ rb[idx] = b /\ Runs(ra, rb, p, idx)
  BY <1>1, <1>2, ClimbDef DEF Runs
<1> DEFINE S == {d \in Nat : Peeled(side, ra, rb, p, idx, idx + d)}
<1>4. 0 \in S
  <2>1. Peeled(side, ra, rb, p, idx, idx)
    BY <1>3 DEF Peeled
  <2> QED
    BY <2>1
<1>5. ASSUME NEW d \in Nat, d \in S PROVE d + 1 \in S
  <2>1. idx + d \in Nat /\ idx + d >= idx /\ (idx + d) + 1 = idx + (d + 1)
    OBVIOUS
  <2>2. Peeled(side, ra, rb, p, idx, (idx + d) + 1)
    BY <1>3, <1>5, <2>1, PeelStep
  <2> QED
    BY <2>1, <2>2
<1>6. Peeled(side, ra, rb, p, idx, n)
  <2>1. n - idx \in Nat /\ idx + (n - idx) = n
    OBVIOUS
  <2>2. n - idx \in S
    <3> HIDE DEF S
    <3> QED
      BY <1>4, <1>5, <2>1, Induction
  <2> QED
    BY <2>1, <2>2
<1>7. /\ ra[n].sn = 0 <=> n > idx /\ rb[n - 1].sn = 0
      /\ ra[n].sn = 0 => ra[n] = Top(side, rb[n - 1], p[n])
  <2>1. Sim(side, ra[n], rb[n]) => ra[n].sn # 0
    BY SimRuns
  <2>2. Top(side, rb[n - 1], p[n]).sn = 0
    BY DEF Top
  <2>3. -1 # 0
    OBVIOUS
  <2> QED
    BY <1>6, <2>1, <2>2, <2>3 DEF Peeled
<1> QED
  BY <1>1, <1>2, <1>7

-----------------------------------------------------------------------------
(* Where the loop starts. *)

\* A loop that starts at the top stays there and takes no hash.
LEMMA ClimbDone ==
    ASSUME NEW a, a.sn = 0, NEW p, NEW idx \in Nat, NEW n \in Nat, n >= idx
    PROVE  Climb(a, p, idx)[n].sn = 0 <=> n = idx
<1>1. PICK run : run = Climb(a, p, idx)
  OBVIOUS
<1>2. run[idx] = a /\ \A i \in Nat : i >= idx => run[i + 1] = Up(run[i], p[i + 1])
  BY <1>1, ClimbDef
<1> DEFINE S == {d \in Nat : run[idx + d + 1].sn = -1}
<1>3. 0 \in S
  <2>1. run[idx + 1].sn = -1
    BY <1>2, UpPast
  <2> QED
    BY <2>1
<1>4. ASSUME NEW d \in Nat, d \in S PROVE d + 1 \in S
  <2>1. idx + d + 1 \in Nat /\ idx + d + 1 >= idx /\ (idx + d + 1) + 1 = idx + (d + 1) + 1
    OBVIOUS
  <2>2. run[(idx + d + 1) + 1] = Up(run[idx + d + 1], p[(idx + d + 1) + 1])
    BY <1>2, <2>1
  <2>3. run[(idx + d + 1) + 1].sn = -1
    BY <1>4, <2>2, UpPast
  <2> QED
    BY <2>1, <2>3
<1>5. CASE n = idx
  BY <1>1, <1>2, <1>5
<1>6. CASE n # idx
  <2>1. n - idx - 1 \in Nat /\ idx + (n - idx - 1) + 1 = n
    BY <1>6
  <2>2. n - idx - 1 \in S
    <3> HIDE DEF S
    <3> QED
      BY <1>3, <1>4, <2>1, Induction
  <2>3. run[n].sn = -1
    BY <2>1, <2>2
  <2> QED
    BY <1>1, <1>6, <2>3
<1> QED
  BY <1>5, <1>6

\* Strip(1), at the start of a consistency check, in the left half.
LeftStripped(f, K, s) ==
    \E J \in Pow2, x, y \in Nat :
        /\ Strip(1)[f][s] = <<x, y>> /\ Strip(1)[f][K - 1] = <<x, J - 1>>
        /\ x < J /\ J <= y /\ y < 2 * J

\* Starting in the left half is starting in the whole, further down.
LEMMA StripOnesLeft ==
    \A f \in Nat : \A K \in Pow2, s \in Nat : f < K /\ K <= s /\ s < 2 * K => LeftStripped(f, K, s)
<1> USE DEF LeftStripped
<1> DEFINE Q(f, K, s) == LeftStripped(f, K, s)
           S == {f \in Nat : \A K \in Pow2, s \in Nat : f < K /\ K <= s /\ s < 2 * K => Q(f, K, s)}
<1>1. ASSUME NEW f \in Nat, \A k \in Nat : k < f => k \in S
      PROVE  f \in S
  <2>1. SUFFICES ASSUME NEW K \in Pow2, NEW s \in Nat, f < K, K <= s, s < 2 * K
                 PROVE  Q(f, K, s)
    BY DEF S
  <2>2. K \in Nat /\ K >= 1 /\ K - 1 \in Nat
    BY Pow2Cases
  <2>3. CASE f % 2 = 1
    <3>1. f >= 1
      BY <2>3
    <3>2. K >= 2 /\ K = 2 * (K \div 2) /\ K \div 2 \in Pow2 /\ K \div 2 \in Nat
      BY <2>1, <2>2, <3>1, Pow2Cases, Half
    <3> DEFINE H == K \div 2
    <3> HIDE DEF H
    <3>3. /\ f \div 2 \in Nat /\ s \div 2 \in Nat /\ f \div 2 < f /\ f \div 2 < H
          /\ H <= s \div 2 /\ s \div 2 < 2 * H /\ (K - 1) \div 2 = H - 1
      BY <2>1, <2>2, <3>1, <3>2, Half DEF H
    <3>4. Q(f \div 2, H, s \div 2)
      BY <1>1, <3>2, <3>3 DEF S, H
    <3>5. Strip(1)[f][s] = Strip(1)[f \div 2][s \div 2]
      BY <2>3, StripOnes
    <3>6. Strip(1)[f][K - 1] = Strip(1)[f \div 2][H - 1]
      BY <2>2, <2>3, <3>3, StripOnes
    <3> QED
      BY <3>4, <3>5, <3>6
  <2>4. CASE f % 2 # 1
    <3>1. Strip(1)[f][s] = <<f, s>>
      BY <2>4, StripOnes
    <3>2. Strip(1)[f][K - 1] = <<f, K - 1>>
      BY <2>2, <2>4, StripOnes
    <3> QED
      BY <2>1, <3>1, <3>2
  <2> QED
    BY <2>3, <2>4
<1> HIDE DEF S
<1>2. \A f \in Nat : f \in S
  BY <1>1, StrongInduction
<1> QED
  BY <1>2 DEF S

\* The same in the right half.
RightStripped(f, K, s) ==
    \E J \in Pow2, x, y \in Nat :
        /\ Strip(1)[f][s] = <<x, y>> /\ Strip(1)[K + f][K + s] = <<J + x, J + y>>
        /\ x <= y /\ y < J

\* Starting in the right half is starting in the whole, moved.
LEMMA StripOnesRight ==
    \A f \in Nat : \A K \in Pow2, s \in Nat : f <= s /\ s < K /\ f + 1 < K => RightStripped(f, K, s)
<1> USE DEF RightStripped
<1> DEFINE Q(f, K, s) == RightStripped(f, K, s)
           S == {f \in Nat : \A K \in Pow2, s \in Nat : f <= s /\ s < K /\ f + 1 < K => Q(f, K, s)}
<1>1. ASSUME NEW f \in Nat, \A k \in Nat : k < f => k \in S
      PROVE  f \in S
  <2>1. SUFFICES ASSUME NEW K \in Pow2, NEW s \in Nat, f <= s, s < K, f + 1 < K
                 PROVE  Q(f, K, s)
    BY DEF S
  <2>2. K \in Nat /\ K >= 2 /\ K = 2 * (K \div 2) /\ K \div 2 \in Pow2 /\ K \div 2 \in Nat
    BY <2>1, Pow2Cases, Half
  <2> DEFINE H == K \div 2
  <2> HIDE DEF H
  <2>3. /\ (K + f) % 2 = f % 2 /\ (K + f) \div 2 = H + f \div 2 /\ (K + s) \div 2 = H + s \div 2
        /\ K + f \in Nat /\ K + s \in Nat /\ f \div 2 \in Nat /\ s \div 2 \in Nat
    BY <2>1, <2>2, HalfSum, Half DEF H
  <2>4. CASE f % 2 = 1
    <3>1. f \div 2 < f /\ f \div 2 <= s \div 2 /\ s \div 2 < H /\ (f \div 2) + 1 < H
      BY <2>1, <2>2, <2>4, Half DEF H
    <3>2. Q(f \div 2, H, s \div 2)
      <4>1. f \div 2 \in S /\ H \in Pow2
        BY <1>1, <2>2, <2>3, <3>1 DEF H
      <4> HIDE DEF Q
      <4> QED
        BY <2>3, <3>1, <4>1
    <3>3. Strip(1)[f][s] = Strip(1)[f \div 2][s \div 2]
      BY <2>4, StripOnes
    <3>4. Strip(1)[K + f][K + s] = Strip(1)[H + f \div 2][H + s \div 2]
      BY <2>3, <2>4, StripOnes
    <3> QED
      BY <3>2, <3>3, <3>4
  <2>5. CASE f % 2 # 1
    <3>1. Strip(1)[f][s] = <<f, s>>
      BY <2>5, StripOnes
    <3>2. Strip(1)[K + f][K + s] = <<K + f, K + s>>
      BY <2>3, <2>5, StripOnes
    <3> QED
      BY <2>1, <3>1, <3>2
  <2> QED
    BY <2>4, <2>5
<1> HIDE DEF S
<1>2. \A f \in Nat : f \in S
  BY <1>1, StrongInduction
<1> QED
  BY <1>2 DEF S

\* In a complete tree the check of the whole starts at the top.
LEMMA StripOnesFull ==
    \A n \in Nat : n \in Pow2 => Strip(1)[n - 1][n - 1] = <<0, 0>>
<1> DEFINE S == {n \in Nat : n \in Pow2 => Strip(1)[n - 1][n - 1] = <<0, 0>>}
<1>1. ASSUME NEW n \in Nat, \A k \in Nat : k < n => k \in S
      PROVE  n \in S
  <2> SUFFICES ASSUME n \in Pow2 PROVE Strip(1)[n - 1][n - 1] = <<0, 0>>
    OBVIOUS
  <2>1. CASE n = 1
    <3>1. n - 1 = 0 /\ 0 % 2 # 1
      BY <2>1
    <3> QED
      BY <3>1, StripOnes
  <2>2. CASE n # 1
    <3>1. n >= 2 /\ n = 2 * (n \div 2) /\ n \div 2 \in Pow2 /\ n \div 2 < n /\ n \div 2 \in Nat
      BY <2>2, Pow2Cases
    <3>2. n - 1 \in Nat /\ (n - 1) % 2 = 1 /\ (n - 1) \div 2 = (n \div 2) - 1
      BY <3>1
    <3>3. Strip(1)[n - 1][n - 1] = Strip(1)[(n \div 2) - 1][(n \div 2) - 1]
      BY <3>2, StripOnes
    <3> QED
      BY <1>1, <3>1, <3>3
  <2> QED
    BY <2>1, <2>2
<1> HIDE DEF S
<1>2. \A n \in Nat : n \in S
  BY <1>1, StrongInduction
<1> QED
  BY <1>2 DEF S

-----------------------------------------------------------------------------
(* The loop in the whole is the loop in a half and one hash more. *)

\* The loop takes the hash x for leaf i of a tree of n leaves, and the first N
\* hashes of p, to the root r.
Incl(i, n, x, p, N, r) ==
    LET end == Climb(Start(<<i, n - 1>>, EmptyRoot, x), p, 0)[N] IN end.sn = 0 /\ end.sr = r

\* The loop takes the hash h and the hashes of p from idx to N to the roots old
\* and new, for trees of m and of n leaves.
Joins(m, n, h, p, idx, N, old, new) ==
    LET end == Climb(Start(Strip(1)[m - 1][n - 1], h, h), p, idx)[N] IN
    end.sn = 0 /\ end.fr = old /\ end.sr = new

\* The fields of the state that the loop starts from.
LEMMA StartFields ==
    ASSUME NEW x, NEW y, NEW fr, NEW sr
    PROVE  /\ Start(<<x, y>>, fr, sr).fn = x /\ Start(<<x, y>>, fr, sr).sn = y
           /\ Start(<<x, y>>, fr, sr).fr = fr /\ Start(<<x, y>>, fr, sr).sr = sr
BY DEF Start

\* A tree of one leaf needs no hash.
LEMMA InclLeaf ==
    ASSUME NEW x, NEW p, NEW N \in Nat, NEW r
    PROVE  Incl(0, 1, x, p, N, r) <=> N = 0 /\ r = x
<1>1. PICK a : a = Start(<<0, 1 - 1>>, EmptyRoot, x)
  OBVIOUS
<1>2. a.sn = 0 /\ a.sr = x
  BY <1>1, StartFields
<1>3. Climb(a, p, 0)[N].sn = 0 <=> N = 0
  BY <1>2, ClimbDone
<1>4. Climb(a, p, 0)[0] = a
  BY ClimbDef
<1> QED
  BY <1>1, <1>2, <1>3, <1>4 DEF Incl

\* A leaf of the left half: the loop in the half, and its last hash on the right.
LEMMA InclLeft ==
    ASSUME NEW n \in Nat, n > 1, NEW i \in 0..(n - 1), NEW x, NEW p, NEW N \in Nat, NEW r,
           NEW k, k = largestPow2Below(n),
           i < k
    PROVE  Incl(i, n, x, p, N, r) <=>
               N > 0 /\ \E q : Incl(i, k, x, p, N - 1, q) /\ r = hashNode(q, p[N])
<1>1. k \in Pow2 /\ k \in Nat /\ 1 <= k /\ k < n /\ n <= 2 * k
  BY Split
<1>2. PICK a : a = Start(<<i, n - 1>>, EmptyRoot, x)
  OBVIOUS
<1>3. PICK b : b = Start(<<i, k - 1>>, EmptyRoot, x)
  OBVIOUS
<1>4. Sim("left", a, b)
  <2>1. OnLeft(k, a, b) /\ SameHashes(a, b)
    BY <1>1, <1>2, <1>3, StartFields DEF OnLeft, SameHashes
  <2> QED
    BY <1>1, <2>1 DEF Sim, LeftSim
<1>5. /\ Climb(a, p, 0)[N].sn = 0 <=> N > 0 /\ Climb(b, p, 0)[N - 1].sn = 0
      /\ Climb(a, p, 0)[N].sn = 0 => Climb(a, p, 0)[N] = Top("left", Climb(b, p, 0)[N - 1], p[N])
  BY <1>4, Peel
<1>6. Top("left", Climb(b, p, 0)[N - 1], p[N]).sr = hashNode(Climb(b, p, 0)[N - 1].sr, p[N])
  BY DEF Top
<1> QED
  BY <1>2, <1>3, <1>5, <1>6 DEF Incl

\* A leaf of the right half: the loop in the half, and its last hash on the left.
LEMMA InclRight ==
    ASSUME NEW n \in Nat, n > 1, NEW i \in 0..(n - 1), NEW x, NEW p, NEW N \in Nat, NEW r,
           NEW k, k = largestPow2Below(n),
           i >= k
    PROVE  Incl(i, n, x, p, N, r) <=>
               N > 0 /\ \E q : Incl(i - k, n - k, x, p, N - 1, q) /\ r = hashNode(p[N], q)
<1>1. k \in Pow2 /\ k \in Nat /\ 1 <= k /\ k < n /\ n <= 2 * k
  BY Split
<1>2. PICK a : a = Start(<<i, n - 1>>, EmptyRoot, x)
  OBVIOUS
<1>3. PICK b : b = Start(<<i - k, n - k - 1>>, EmptyRoot, x)
  OBVIOUS
<1>4. Sim("right", a, b)
  <2>1. OnRight(k, a, b) /\ SameHashes(a, b)
    BY <1>1, <1>2, <1>3, StartFields DEF OnRight, SameHashes
  <2> QED
    BY <1>1, <2>1 DEF Sim, RightSim
<1>5. /\ Climb(a, p, 0)[N].sn = 0 <=> N > 0 /\ Climb(b, p, 0)[N - 1].sn = 0
      /\ Climb(a, p, 0)[N].sn = 0 => Climb(a, p, 0)[N] = Top("right", Climb(b, p, 0)[N - 1], p[N])
  BY <1>4, Peel
<1>6. Top("right", Climb(b, p, 0)[N - 1], p[N]).sr = hashNode(p[N], Climb(b, p, 0)[N - 1].sr)
  BY DEF Top
<1> QED
  BY <1>2, <1>3, <1>5, <1>6 DEF Incl

\* From a complete tree to itself nothing is needed.
LEMMA JoinsFull ==
    ASSUME NEW n \in Pow2, NEW h, NEW p, NEW idx \in Nat, NEW N \in Nat, N >= idx, NEW old, NEW new
    PROVE  Joins(n, n, h, p, idx, N, old, new) <=> N = idx /\ old = h /\ new = h
<1>1. PICK a : a = Start(Strip(1)[n - 1][n - 1], h, h)
  OBVIOUS
<1>2. a.sn = 0 /\ a.fr = h /\ a.sr = h
  <2>1. n \in Nat
    BY Pow2Cases
  <2>2. Strip(1)[n - 1][n - 1] = <<0, 0>>
    BY <2>1, StripOnesFull
  <2>3. a = Start(<<0, 0>>, h, h)
    BY <1>1, <2>2
  <2> QED
    BY <2>3, StartFields
<1>3. Climb(a, p, idx)[N].sn = 0 <=> N = idx
  BY <1>2, ClimbDone
<1>4. Climb(a, p, idx)[idx] = a
  BY ClimbDef
<1> QED
  BY <1>1, <1>2, <1>3, <1>4 DEF Joins

\* The last hash is the right half of the new tree.
JoinsBefore(m, n, h, p, idx, N, old, new) ==
    N > idx /\ \E q : Joins(m, n, h, p, idx, N - 1, old, q) /\ new = hashNode(q, p[N])

\* The old tree ends in the left half: the loop in the half, and one hash for the
\* new tree alone.
LEMMA JoinsLeft ==
    ASSUME NEW n \in Nat, NEW m \in 1..(n - 1), NEW h, NEW p, NEW idx \in Nat, NEW N \in Nat, N >= idx,
           NEW old, NEW new, NEW k, k = largestPow2Below(n),
           m <= k
    PROVE  Joins(m, n, h, p, idx, N, old, new) <=> JoinsBefore(m, k, h, p, idx, N, old, new)
<1>1. k \in Pow2 /\ k \in Nat /\ 1 <= k /\ k < n /\ n <= 2 * k
  BY Split
<1>2. PICK a : a = Start(Strip(1)[m - 1][n - 1], h, h)
  OBVIOUS
<1>3. PICK b : b = Start(Strip(1)[m - 1][k - 1], h, h)
  OBVIOUS
<1>4. Sim("left", a, b)
  <2>1. m - 1 \in Nat /\ n - 1 \in Nat /\ m - 1 < k /\ k <= n - 1 /\ n - 1 < 2 * k
    BY <1>1
  <2>2. PICK J \in Pow2, x, y \in Nat :
            /\ Strip(1)[m - 1][n - 1] = <<x, y>> /\ Strip(1)[m - 1][k - 1] = <<x, J - 1>>
            /\ x < J /\ J <= y /\ y < 2 * J
    <3>1. LeftStripped(m - 1, k, n - 1)
      BY <1>1, <2>1, StripOnesLeft
    <3> QED
      BY <3>1 DEF LeftStripped
  <2>3. a = Start(<<x, y>>, h, h) /\ b = Start(<<x, J - 1>>, h, h)
    BY <1>2, <1>3, <2>2
  <2>4. /\ a.fn = x /\ a.sn = y /\ a.fr = h /\ a.sr = h
        /\ b.fn = x /\ b.sn = J - 1 /\ b.fr = h /\ b.sr = h
    BY <2>3, StartFields
  <2>5. OnLeft(J, a, b) /\ SameHashes(a, b)
    BY <2>2, <2>4 DEF OnLeft, SameHashes
  <2> QED
    BY <2>2, <2>5 DEF Sim, LeftSim
<1>5. /\ Climb(a, p, idx)[N].sn = 0 <=> N > idx /\ Climb(b, p, idx)[N - 1].sn = 0
      /\ Climb(a, p, idx)[N].sn = 0 =>
            Climb(a, p, idx)[N] = Top("left", Climb(b, p, idx)[N - 1], p[N])
  BY <1>4, Peel
<1>6. /\ Top("left", Climb(b, p, idx)[N - 1], p[N]).sr = hashNode(Climb(b, p, idx)[N - 1].sr, p[N])
      /\ Top("left", Climb(b, p, idx)[N - 1], p[N]).fr = Climb(b, p, idx)[N - 1].fr
  BY DEF Top
<1> QED
  BY <1>2, <1>3, <1>5, <1>6 DEF Joins, JoinsBefore

\* The last hash is the left half of both trees.
JoinsAfter(m, n, h, p, idx, N, old, new) ==
    N > idx /\ \E o, q : /\ Joins(m, n, h, p, idx, N - 1, o, q)
                         /\ old = hashNode(p[N], o) /\ new = hashNode(p[N], q)

\* The old tree ends in the right half: the loop in the half, and one hash for
\* both trees.
LEMMA JoinsRight ==
    ASSUME NEW n \in Nat, NEW m \in 1..(n - 1), NEW h, NEW p, NEW idx \in Nat, NEW N \in Nat, N >= idx,
           NEW old, NEW new, NEW k, k = largestPow2Below(n),
           m > k
    PROVE  Joins(m, n, h, p, idx, N, old, new) <=> JoinsAfter(m - k, n - k, h, p, idx, N, old, new)
<1>1. k \in Pow2 /\ k \in Nat /\ 1 <= k /\ k < n /\ n <= 2 * k
  BY Split
<1>2. PICK a : a = Start(Strip(1)[m - 1][n - 1], h, h)
  OBVIOUS
<1>3. PICK b : b = Start(Strip(1)[m - k - 1][n - k - 1], h, h)
  OBVIOUS
<1>4. Sim("right", a, b)
  <2>1. PICK f \in Nat, s \in Nat :
            f = m - k - 1 /\ s = n - k - 1 /\ f <= s /\ s < k /\ f + 1 < k /\ k + f = m - 1 /\ k + s = n - 1
    BY <1>1
  <2>2. PICK J \in Pow2, x, y \in Nat :
            /\ Strip(1)[f][s] = <<x, y>> /\ Strip(1)[k + f][k + s] = <<J + x, J + y>>
            /\ x <= y /\ y < J
    <3>1. RightStripped(f, k, s)
      BY <1>1, <2>1, StripOnesRight
    <3> QED
      BY <3>1 DEF RightStripped
  <2>3. a = Start(<<J + x, J + y>>, h, h) /\ b = Start(<<x, y>>, h, h)
    BY <1>2, <1>3, <2>1, <2>2
  <2>4. /\ a.fn = J + x /\ a.sn = J + y /\ a.fr = h /\ a.sr = h
        /\ b.fn = x /\ b.sn = y /\ b.fr = h /\ b.sr = h
    BY <2>3, StartFields
  <2>5. OnRight(J, a, b) /\ SameHashes(a, b)
    BY <2>2, <2>4 DEF OnRight, SameHashes
  <2> QED
    BY <2>2, <2>5 DEF Sim, RightSim
<1>5. /\ Climb(a, p, idx)[N].sn = 0 <=> N > idx /\ Climb(b, p, idx)[N - 1].sn = 0
      /\ Climb(a, p, idx)[N].sn = 0 =>
            Climb(a, p, idx)[N] = Top("right", Climb(b, p, idx)[N - 1], p[N])
  BY <1>4, Peel
<1>6. /\ Top("right", Climb(b, p, idx)[N - 1], p[N]).sr = hashNode(p[N], Climb(b, p, idx)[N - 1].sr)
      /\ Top("right", Climb(b, p, idx)[N - 1], p[N]).fr = hashNode(p[N], Climb(b, p, idx)[N - 1].fr)
  BY DEF Top
<1> QED
  BY <1>2, <1>3, <1>5, <1>6 DEF Joins, JoinsAfter

-----------------------------------------------------------------------------
(* What a root shows. *)

\* Hashes of different things differ: leaves, nodes and the empty tree.
LEMMA HashesFree ==
    /\ \A a, b, c, d : hashNode(a, b) = hashNode(c, d) => a = c /\ b = d
    /\ \A x, y : hashLeaf(x) = hashLeaf(y) => x = y
    /\ \A a, b, x : hashNode(a, b) # hashLeaf(x) /\ hashNode(a, b) # EmptyRoot /\ hashLeaf(x) # EmptyRoot
BY DEF hashNode, hashLeaf, EmptyRoot

\* The loop looks at the hashes between its two ends and no others.
LEMMA ClimbLocal ==
    ASSUME NEW a, NEW p, NEW q, NEW idx \in Nat, NEW n \in Nat, n >= idx,
           \A i \in Nat : idx < i /\ i <= n => p[i] = q[i]
    PROVE  Climb(a, p, idx)[n] = Climb(a, q, idx)[n]
<1>1. PICK run : run = Climb(a, p, idx)
  OBVIOUS
<1>2. run[idx] = a /\ \A i \in Nat : i >= idx => run[i + 1] = Up(run[i], p[i + 1])
  BY <1>1, ClimbDef
<1>3. PICK other : other = Climb(a, q, idx)
  OBVIOUS
<1>4. other[idx] = a /\ \A i \in Nat : i >= idx => other[i + 1] = Up(other[i], q[i + 1])
  BY <1>3, ClimbDef
<1> DEFINE S == {d \in Nat : idx + d <= n => run[idx + d] = other[idx + d]}
<1>5. 0 \in S
  BY <1>2, <1>4
<1>6. ASSUME NEW d \in Nat, d \in S
      PROVE  d + 1 \in S
  <2>1. SUFFICES ASSUME idx + d + 1 <= n PROVE run[idx + d + 1] = other[idx + d + 1]
    OBVIOUS
  <2>2. run[idx + d] = other[idx + d] /\ idx + d \in Nat /\ idx + d >= idx
    BY <1>6, <2>1
  <2>3. p[idx + d + 1] = q[idx + d + 1]
    BY <2>1
  <2>4. run[idx + d + 1] = Up(run[idx + d], p[idx + d + 1])
    BY <1>2, <2>2
  <2>5. other[idx + d + 1] = Up(other[idx + d], q[idx + d + 1])
    BY <1>4, <2>2
  <2> QED
    BY <2>2, <2>3, <2>4, <2>5
<1> HIDE DEF S
<1>7. \A d \in Nat : d \in S
  BY <1>5, <1>6, Induction
<1>8. n - idx \in Nat /\ idx + (n - idx) = n /\ n - idx \in S
  BY <1>7
<1>9. run[n] = other[n]
  BY <1>8 DEF S
<1> QED
  BY <1>1, <1>3, <1>9

\* Some proof shows the hash x for leaf i of a tree of n leaves with root r.
Shows(i, n, x, r) == \E N \in Nat : \E p : Incl(i, n, x, p, N, r)

\* The hash c after the first N of p.
Longer(p, N, c) == [j \in Nat |-> IF j = N + 1 THEN c ELSE p[j]]

\* One more hash does not disturb the loop over the ones before it.
LEMMA InclLonger ==
    ASSUME NEW i, NEW n, NEW x, NEW p, NEW N \in Nat, NEW r, Incl(i, n, x, p, N, r), NEW c
    PROVE  Incl(i, n, x, Longer(p, N, c), N, r) /\ Longer(p, N, c)[N + 1] = c
<1>1. PICK q : q = Longer(p, N, c)
  OBVIOUS
<1>2. q[N + 1] = c /\ \A j \in Nat : 0 < j /\ j <= N => p[j] = q[j]
  BY <1>1 DEF Longer
<1>3. PICK a : a = Start(<<i, n - 1>>, EmptyRoot, x)
  OBVIOUS
<1>4. Climb(a, p, 0)[N] = Climb(a, q, 0)[N]
  BY <1>2, ClimbLocal
<1> QED
  BY <1>1, <1>2, <1>3, <1>4 DEF Incl

\* What a tree of one leaf shows.
LEMMA ShowsLeaf ==
    ASSUME NEW x, NEW r
    PROVE  Shows(0, 1, x, r) <=> r = x
<1>1. \A p : \A N \in Nat : Incl(0, 1, x, p, N, r) <=> N = 0 /\ r = x
  BY InclLeaf
<1>2. 0 \in Nat
  OBVIOUS
<1> QED
  BY <1>1, <1>2 DEF Shows

\* What a tree shows is what its halves show.
LEMMA ShowsSplit ==
    ASSUME NEW n \in Nat, n > 1, NEW i \in 0..(n - 1), NEW x, NEW r, NEW k, k = largestPow2Below(n)
    PROVE  /\ i < k => (Shows(i, n, x, r) <=> \E q, c : Shows(i, k, x, q) /\ r = hashNode(q, c))
           /\ i >= k => (Shows(i, n, x, r) <=>
                            \E q, c : Shows(i - k, n - k, x, q) /\ r = hashNode(c, q))
<1>1. ASSUME i < k
      PROVE  Shows(i, n, x, r) <=> \E q, c : Shows(i, k, x, q) /\ r = hashNode(q, c)
  <2>1. \A p : \A N \in Nat : Incl(i, n, x, p, N, r) <=>
            N > 0 /\ \E q : Incl(i, k, x, p, N - 1, q) /\ r = hashNode(q, p[N])
    <3> SUFFICES ASSUME NEW p, NEW N \in Nat
                 PROVE  Incl(i, n, x, p, N, r) <=>
                            N > 0 /\ \E q : Incl(i, k, x, p, N - 1, q) /\ r = hashNode(q, p[N])
      OBVIOUS
    <3> QED
      BY <1>1, InclLeft
  <2>2. ASSUME Shows(i, n, x, r)
        PROVE  \E q, c : Shows(i, k, x, q) /\ r = hashNode(q, c)
    <3>0. PICK N \in Nat : \E p : Incl(i, n, x, p, N, r)
      BY <2>2 DEF Shows
    <3>1. PICK p : Incl(i, n, x, p, N, r)
      BY <3>0
    <3>2. PICK q : Incl(i, k, x, p, N - 1, q) /\ r = hashNode(q, p[N])
      BY <2>1, <3>1
    <3>3. N - 1 \in Nat
      BY <2>1, <3>1
    <3> QED
      BY <3>2, <3>3 DEF Shows
  <2>3. ASSUME NEW q, NEW c, Shows(i, k, x, q), r = hashNode(q, c)
        PROVE  Shows(i, n, x, r)
    <3>0. PICK N \in Nat : \E p : Incl(i, k, x, p, N, q)
      BY <2>3 DEF Shows
    <3>1. PICK p : Incl(i, k, x, p, N, q)
      BY <3>0
    <3>a. PICK p2 : p2 = Longer(p, N, c)
      OBVIOUS
    <3>2. Incl(i, k, x, p2, N, q) /\ p2[N + 1] = c
      BY <3>1, <3>a, InclLonger
    <3>3. N + 1 \in Nat /\ N + 1 > 0 /\ (N + 1) - 1 = N
      OBVIOUS
    <3>4. Incl(i, n, x, p2, N + 1, r)
      BY <2>1, <2>3, <3>2, <3>3
    <3> QED
      BY <3>3, <3>4 DEF Shows
  <2> QED
    BY <2>2, <2>3
<1>2. ASSUME i >= k
      PROVE  Shows(i, n, x, r) <=> \E q, c : Shows(i - k, n - k, x, q) /\ r = hashNode(c, q)
  <2>1. \A p : \A N \in Nat : Incl(i, n, x, p, N, r) <=>
            N > 0 /\ \E q : Incl(i - k, n - k, x, p, N - 1, q) /\ r = hashNode(p[N], q)
    <3> SUFFICES ASSUME NEW p, NEW N \in Nat
                 PROVE  Incl(i, n, x, p, N, r) <=>
                            N > 0 /\ \E q : Incl(i - k, n - k, x, p, N - 1, q) /\ r = hashNode(p[N], q)
      OBVIOUS
    <3> QED
      BY <1>2, InclRight
  <2>2. ASSUME Shows(i, n, x, r)
        PROVE  \E q, c : Shows(i - k, n - k, x, q) /\ r = hashNode(c, q)
    <3>0. PICK N \in Nat : \E p : Incl(i, n, x, p, N, r)
      BY <2>2 DEF Shows
    <3>1. PICK p : Incl(i, n, x, p, N, r)
      BY <3>0
    <3>2. PICK q : Incl(i - k, n - k, x, p, N - 1, q) /\ r = hashNode(p[N], q)
      BY <2>1, <3>1
    <3>3. N - 1 \in Nat
      BY <2>1, <3>1
    <3> QED
      BY <3>2, <3>3 DEF Shows
  <2>3. ASSUME NEW q, NEW c, Shows(i - k, n - k, x, q), r = hashNode(c, q)
        PROVE  Shows(i, n, x, r)
    <3>0. PICK N \in Nat : \E p : Incl(i - k, n - k, x, p, N, q)
      BY <2>3 DEF Shows
    <3>1. PICK p : Incl(i - k, n - k, x, p, N, q)
      BY <3>0
    <3>a. PICK p2 : p2 = Longer(p, N, c)
      OBVIOUS
    <3>2. Incl(i - k, n - k, x, p2, N, q) /\ p2[N + 1] = c
      BY <3>1, <3>a, InclLonger
    <3>3. N + 1 \in Nat /\ N + 1 > 0 /\ (N + 1) - 1 = N
      OBVIOUS
    <3>4. Incl(i, n, x, p2, N + 1, r)
      BY <2>1, <2>3, <3>2, <3>3
    <3> QED
      BY <3>3, <3>4 DEF Shows
  <2> QED
    BY <2>2, <2>3
<1> QED
  BY <1>1, <1>2

\* One root shows one hash at an index, whatever the proofs.
LEMMA ShowsUnique ==
    \A n \in Nat : \A i \in 0..(n - 1) : \A x, y, r :
        Shows(i, n, x, r) /\ Shows(i, n, y, r) => x = y
<1> DEFINE S == {n \in Nat : \A i \in 0..(n - 1) : \A x, y, r :
                                Shows(i, n, x, r) /\ Shows(i, n, y, r) => x = y}
<1>1. ASSUME NEW n \in Nat, \A k \in Nat : k < n => k \in S
      PROVE  n \in S
  <2>a. SUFFICES ASSUME NEW i \in 0..(n - 1), NEW x, NEW y, NEW r, Shows(i, n, x, r), Shows(i, n, y, r)
                 PROVE  x = y
    BY DEF S
  <2>1. CASE n > 1
    <3>1. PICK k : k = largestPow2Below(n)
      OBVIOUS
    <3>2. k \in Nat /\ 1 <= k /\ k < n
      BY <2>1, <3>1, Split
    <3>3. CASE i < k
      <4>1. PICK q, c : Shows(i, k, x, q) /\ r = hashNode(q, c)
        BY <2>1, <2>a, <3>1, <3>3, ShowsSplit
      <4>2. PICK q2, c2 : Shows(i, k, y, q2) /\ r = hashNode(q2, c2)
        BY <2>1, <2>a, <3>1, <3>3, ShowsSplit
      <4>3. q = q2
        BY <4>1, <4>2 DEF hashNode
      <4>4. k \in S /\ i \in 0..(k - 1)
        BY <1>1, <3>2, <3>3
      <4> QED
        BY <4>1, <4>2, <4>3, <4>4
    <3>4. CASE i >= k
      <4>1. PICK q, c : Shows(i - k, n - k, x, q) /\ r = hashNode(c, q)
        BY <2>1, <2>a, <3>1, <3>4, ShowsSplit
      <4>2. PICK q2, c2 : Shows(i - k, n - k, y, q2) /\ r = hashNode(c2, q2)
        BY <2>1, <2>a, <3>1, <3>4, ShowsSplit
      <4>3. q = q2
        BY <4>1, <4>2 DEF hashNode
      <4>4. n - k \in S /\ i - k \in 0..((n - k) - 1)
        BY <1>1, <3>2, <3>4
      <4> QED
        BY <4>1, <4>2, <4>3, <4>4
    <3> QED
      BY <3>2, <3>3, <3>4
  <2>2. CASE n <= 1
    <3>1. n = 1 /\ i = 0
      BY <2>2
    <3> QED
      BY <2>a, <3>1, ShowsLeaf
  <2> QED
    BY <2>1, <2>2
<1> HIDE DEF S
<1>2. \A n \in Nat : n \in S
  BY <1>1, StrongInduction
<1> QED
  BY <1>2 DEF S

-----------------------------------------------------------------------------
(* What a consistency proof keeps. *)

\* Some proof takes the loop to the roots old and new.
Links(m, n, old, new) ==
    \E idx \in Nat : \E N \in Nat : \E h, p : N >= idx /\ Joins(m, n, h, p, idx, N, old, new)

\* A complete tree is linked to itself alone.
LEMMA LinkedFull ==
    ASSUME NEW n \in Pow2, NEW old, NEW new, Links(n, n, old, new)
    PROVE  old = new
<1>1. PICK idx \in Nat : \E N \in Nat : \E h, p : N >= idx /\ Joins(n, n, h, p, idx, N, old, new)
  BY DEF Links
<1>2. PICK N \in Nat : \E h, p : N >= idx /\ Joins(n, n, h, p, idx, N, old, new)
  BY <1>1
<1>3. PICK h, p : N >= idx /\ Joins(n, n, h, p, idx, N, old, new)
  BY <1>2
<1> QED
  BY <1>3, JoinsFull

\* A link that ends in the left half links the old tree and that half.
LEMMA LinkedLeft ==
    ASSUME NEW n \in Nat, NEW m \in 1..(n - 1), NEW old, NEW new, Links(m, n, old, new),
           NEW k, k = largestPow2Below(n), m <= k
    PROVE  \E q, c : Links(m, k, old, q) /\ new = hashNode(q, c)
<1>1. PICK idx \in Nat : \E N \in Nat : \E h, p : N >= idx /\ Joins(m, n, h, p, idx, N, old, new)
  BY DEF Links
<1>2. PICK N \in Nat : \E h, p : N >= idx /\ Joins(m, n, h, p, idx, N, old, new)
  BY <1>1
<1>3. PICK h, p : N >= idx /\ Joins(m, n, h, p, idx, N, old, new)
  BY <1>2
<1>4. N > idx /\ \E q : Joins(m, k, h, p, idx, N - 1, old, q) /\ new = hashNode(q, p[N])
  <2>1. JoinsBefore(m, k, h, p, idx, N, old, new)
    BY <1>3, JoinsLeft
  <2> QED
    BY <2>1 DEF JoinsBefore
<1>5. PICK q : Joins(m, k, h, p, idx, N - 1, old, q) /\ new = hashNode(q, p[N])
  BY <1>4
<1>6. N - 1 \in Nat /\ N - 1 >= idx
  BY <1>4
<1>7. Links(m, k, old, q)
  BY <1>5, <1>6 DEF Links
<1> QED
  BY <1>5, <1>7

\* A link that ends in the right half links the right halves, and the left halves
\* are the same.
LEMMA LinkedRight ==
    ASSUME NEW n \in Nat, NEW m \in 1..(n - 1), NEW old, NEW new, Links(m, n, old, new),
           NEW k, k = largestPow2Below(n), m > k
    PROVE  \E o, q, c : Links(m - k, n - k, o, q) /\ old = hashNode(c, o) /\ new = hashNode(c, q)
<1>1. PICK idx \in Nat : \E N \in Nat : \E h, p : N >= idx /\ Joins(m, n, h, p, idx, N, old, new)
  BY DEF Links
<1>2. PICK N \in Nat : \E h, p : N >= idx /\ Joins(m, n, h, p, idx, N, old, new)
  BY <1>1
<1>3. PICK h, p : N >= idx /\ Joins(m, n, h, p, idx, N, old, new)
  BY <1>2
<1>4. N > idx /\ \E o, q : /\ Joins(m - k, n - k, h, p, idx, N - 1, o, q)
                           /\ old = hashNode(p[N], o) /\ new = hashNode(p[N], q)
  <2>1. JoinsAfter(m - k, n - k, h, p, idx, N, old, new)
    BY <1>3, JoinsRight
  <2> QED
    BY <2>1 DEF JoinsAfter
<1>5. PICK o, q : /\ Joins(m - k, n - k, h, p, idx, N - 1, o, q)
                  /\ old = hashNode(p[N], o) /\ new = hashNode(p[N], q)
  BY <1>4
<1>6. N - 1 \in Nat /\ N - 1 >= idx
  BY <1>4
<1>7. Links(m - k, n - k, o, q)
  BY <1>5, <1>6 DEF Links
<1> QED
  BY <1>5, <1>7

\* A tree of size m within one of size n, as the loop over a proof meets them.
Within(m, n) == m \in 1..n /\ (m < n \/ n \in Pow2)

\* The halves of a tree of size n, for the loop over a proof from m leaves.
LEMMA WithinSplit ==
    ASSUME NEW n \in Nat, NEW m \in 1..(n - 1), NEW k, k = largestPow2Below(n)
    PROVE  /\ n > 1 /\ k \in Nat /\ 1 <= k /\ k < n /\ n - k \in Nat /\ n - k < n
           /\ m <= k => Within(m, k)
           /\ m > k => Within(m - k, n - k) /\ largestPow2Below(m) = k /\ m > 1
<1>1. n > 1
  OBVIOUS
<1>2. k \in Pow2 /\ k \in Nat /\ 1 <= k /\ k < n /\ n <= 2 * k
  BY <1>1, Split
<1>3. m > k => largestPow2Below(m) = k
  BY <1>2, SplitUnique
<1> QED
  BY <1>1, <1>2, <1>3 DEF Within

\* A link keeps every leaf: what the old root shows at an index, the new one shows.
LEMMA ShownKept ==
    \A n \in Nat : \A m, i \in Nat : \A x, old, new :
        Within(m, n) /\ i < m /\ Links(m, n, old, new) /\ Shows(i, m, x, old) => Shows(i, n, x, new)
<1> DEFINE P(n) == \A m, i \in Nat : \A x, old, new :
                      Within(m, n) /\ i < m /\ Links(m, n, old, new) /\ Shows(i, m, x, old) =>
                          Shows(i, n, x, new)
           S == {n \in Nat : P(n)}
<1>1. ASSUME NEW n \in Nat, \A k \in Nat : k < n => k \in S
      PROVE  n \in S
  <2>a. SUFFICES ASSUME NEW m \in Nat, NEW i \in Nat, NEW x, NEW old, NEW new, Within(m, n), i < m,
                        Links(m, n, old, new), Shows(i, m, x, old)
                 PROVE  Shows(i, n, x, new)
    BY DEF S
  <2>1. CASE m = n
    <3>1. n \in Pow2
      BY <2>a, <2>1 DEF Within
    <3>2. old = new
      BY <2>a, <2>1, <3>1, LinkedFull
    <3> QED
      BY <2>a, <2>1, <3>2
  <2>2. CASE m # n
    <3>1. m \in 1..(n - 1) /\ i \in 0..(n - 1) /\ i \in 0..(m - 1)
      BY <2>a, <2>2 DEF Within
    <3>2. PICK k : k = largestPow2Below(n)
      OBVIOUS
    <3>3. /\ n > 1 /\ k \in Nat /\ 1 <= k /\ k < n /\ n - k \in Nat /\ n - k < n
          /\ m <= k => Within(m, k)
          /\ m > k => Within(m - k, n - k) /\ largestPow2Below(m) = k /\ m > 1
      BY <3>1, <3>2, WithinSplit
    <3>4. P(k) /\ P(n - k)
      BY <1>1, <3>3 DEF S
    <3> HIDE DEF P
    <3>5. CASE m <= k
      <4>1. PICK q, c : Links(m, k, old, q) /\ new = hashNode(q, c)
        BY <2>a, <3>1, <3>2, <3>5, LinkedLeft
      <4>2. Shows(i, k, x, q)
        BY <2>a, <3>3, <3>4, <3>5, <4>1 DEF P
      <4>3. i < k
        BY <2>a, <3>3, <3>5
      <4> QED
        BY <3>1, <3>2, <3>3, <4>1, <4>2, <4>3, ShowsSplit
    <3>6. CASE m > k
      <4>1. PICK o, q, c : Links(m - k, n - k, o, q) /\ old = hashNode(c, o) /\ new = hashNode(c, q)
        BY <2>a, <3>1, <3>2, <3>6, LinkedRight
      <4>2. CASE i < k
        <5>1. PICK z, d : Shows(i, k, x, z) /\ old = hashNode(z, d)
          BY <2>a, <3>1, <3>3, <3>6, <4>2, ShowsSplit
        <5>2. new = hashNode(z, q)
          BY <4>1, <5>1 DEF hashNode
        <5> QED
          BY <3>1, <3>2, <3>3, <4>2, <5>1, <5>2, ShowsSplit
      <4>3. CASE i >= k
        <5>1. PICK z, d : Shows(i - k, m - k, x, z) /\ old = hashNode(d, z)
          BY <2>a, <3>1, <3>3, <3>6, <4>3, ShowsSplit
        <5>2. z = o
          BY <4>1, <5>1 DEF hashNode
        <5>3. m - k \in Nat /\ i - k \in Nat /\ i - k < m - k
          BY <2>a, <3>3, <3>6, <4>3
        <5>4. Shows(i - k, n - k, x, q)
          BY <3>3, <3>4, <3>6, <4>1, <5>1, <5>2, <5>3 DEF P
        <5> QED
          BY <3>1, <3>2, <3>3, <4>1, <4>3, <5>4, ShowsSplit
      <4> QED
        BY <3>3, <4>2, <4>3
    <3> QED
      BY <3>3, <3>5, <3>6
  <2> QED
    BY <2>1, <2>2
<1> HIDE DEF S
<1>2. \A n \in Nat : n \in S
  BY <1>1, StrongInduction
<1> QED
  BY <1>2 DEF S

-----------------------------------------------------------------------------
(* The proofs that the log computes verify: inclusion. *)

\* Numbers above 1 are not 0 or 1.
LEMMA MoreThanOne ==
    ASSUME NEW n \in Nat, n > 1
    PROVE  n # 0 /\ n # 1
OBVIOUS

\* From the left half to the whole, for a proof that is being built.
LEMMA InclLeftUp ==
    ASSUME NEW n \in Nat, n > 1, NEW i \in 0..(n - 1), NEW x, NEW p, NEW N \in Nat, NEW q,
           NEW k, k = largestPow2Below(n), i < k, Incl(i, k, x, p, N, q)
    PROVE  Incl(i, n, x, p, N + 1, hashNode(q, p[N + 1]))
<1>1. PICK M \in Nat : M = N + 1 /\ M > 0 /\ M - 1 = N
  OBVIOUS
<1>2. PICK r : r = hashNode(q, p[M])
  OBVIOUS
<1>3. Incl(i, k, x, p, M - 1, q)
  BY <1>1
<1>4. Incl(i, n, x, p, M, r)
  BY <1>1, <1>2, <1>3, InclLeft
<1> QED
  BY <1>1, <1>2, <1>4

\* From the right half to the whole.
LEMMA InclRightUp ==
    ASSUME NEW n \in Nat, n > 1, NEW i \in 0..(n - 1), NEW x, NEW p, NEW N \in Nat, NEW q,
           NEW k, k = largestPow2Below(n), i >= k, Incl(i - k, n - k, x, p, N, q)
    PROVE  Incl(i, n, x, p, N + 1, hashNode(p[N + 1], q))
<1>1. PICK M \in Nat : M = N + 1 /\ M > 0 /\ M - 1 = N
  OBVIOUS
<1>2. PICK r : r = hashNode(p[M], q)
  OBVIOUS
<1>3. Incl(i - k, n - k, x, p, M - 1, q)
  BY <1>1
<1>4. Incl(i, n, x, p, M, r)
  BY <1>1, <1>2, <1>3, InclRight
<1> QED
  BY <1>1, <1>2, <1>4

\* l and t are the halves that s is split into, at k.
Halved(s, k, l, t) ==
    /\ s \in Seq(Leaf) /\ Len(s) > 1 /\ k = largestPow2Below(Len(s))
    /\ l = First(s, k) /\ t = Rest(s, k)

\* Every list of two leaves or more has its halves.
LEMMA HalvedExists ==
    ASSUME NEW s \in Seq(Leaf), Len(s) > 1
    PROVE  \E k, l, t : Halved(s, k, l, t)
BY DEF Halved

\* The halves are shorter lists of leaves, and their roots make the root.
LEMMA HalvedFacts ==
    ASSUME NEW s, NEW k, NEW l, NEW t, Halved(s, k, l, t)
    PROVE  /\ s \in Seq(Leaf) /\ Len(s) \in Nat /\ Len(s) > 1 /\ k = largestPow2Below(Len(s))
           /\ k \in Nat /\ 1 <= k /\ k < Len(s) /\ Len(s) - k \in Nat
           /\ l \in Seq(Leaf) /\ Len(l) = k /\ t \in Seq(Leaf) /\ Len(t) = Len(s) - k
           /\ \A i \in 1..k : l[i] = s[i]
           /\ \A i \in 1..(Len(s) - k) : t[i] = s[k + i]
           /\ mth[s] = hashNode(mth[l], mth[t])
<1>1. s \in Seq(Leaf) /\ Len(s) \in Nat /\ Len(s) > 1 /\ k = largestPow2Below(Len(s))
  BY DEF Halved
<1>2. k \in Pow2 /\ k \in Nat /\ 1 <= k /\ k < Len(s)
  BY <1>1, Split
<1>3. k \in 0..Len(s) /\ Len(s) - k \in Nat
  BY <1>1, <1>2
<1>4. /\ l \in Seq(Leaf) /\ Len(l) = k /\ t \in Seq(Leaf) /\ Len(t) = Len(s) - k
      /\ \A i \in 1..k : l[i] = s[i]
      /\ \A i \in 1..(Len(s) - k) : t[i] = s[k + i]
  BY <1>1, <1>3, FirstRest DEF Halved
<1>5. s # <<>> /\ Len(s) # 1
  <2>1. Len(s) # 0 /\ Len(s) # 1
    BY <1>1, MoreThanOne
  <2> QED
    BY <1>1, <2>1, EmptySeq
<1>6. mth[s] = hashNode(mth[l], mth[t])
  BY <1>1, <1>5, mthDef DEF MthBody, Halved
<1> QED
  BY <1>1, <1>2, <1>3, <1>4, <1>6

\* A list of one leaf.
LEMMA mthOne ==
    ASSUME NEW s \in Seq(Leaf), Len(s) = 1
    PROVE  mth[s] = hashLeaf(s[1]) /\ path[s][0] = <<>>
<1>1. s # <<>>
  <2>1. Len(s) # 0
    OBVIOUS
  <2> QED
    BY <2>1, EmptySeq
<1>2. 0 \in 0..(Len(s) - 1)
  OBVIOUS
<1> QED
  BY <1>1, <1>2, mthDef, pathDef DEF MthBody, PathBody

\* The path in the whole is the path in a half and the root of the other half.
LEMMA pathSplit ==
    ASSUME NEW s, NEW k, NEW l, NEW t, Halved(s, k, l, t), NEW m \in 0..(Len(s) - 1)
    PROVE  /\ m < k => path[s][m] = Append(path[l][m], mth[t])
           /\ m >= k => path[s][m] = Append(path[t][m - k], mth[l])
<1>1. s \in Seq(Leaf) /\ Len(s) \in Nat /\ Len(s) > 1 /\ k = largestPow2Below(Len(s)) /\ k \in Nat
  BY HalvedFacts
<1>2. path[s][m] = IF Len(s) = 1 THEN <<>>
                   ELSE IF m < k THEN Append(path[l][m], mth[t]) ELSE Append(path[t][m - k], mth[l])
  <2>1. path[s] = PathBody(path, s)
    BY <1>1, pathDef
  <2>2. l = First(s, k) /\ t = Rest(s, k)
    BY DEF Halved
  <2> QED
    BY <1>1, <2>1, <2>2 DEF PathBody
<1>3. Len(s) # 1
  BY <1>1, MoreThanOne
<1>4. m \in Nat
  BY <1>1
<1>5. m >= k => ~ m < k
  BY <1>1, <1>4
<1> QED
  BY <1>2, <1>3, <1>5

\* Two proofs with the same hashes verify alike.
LEMMA InclSame ==
    ASSUME NEW i, NEW n, NEW x, NEW p, NEW q, NEW N \in Nat, NEW r, Incl(i, n, x, p, N, r),
           \A j \in 1..N : q[j] = p[j]
    PROVE  Incl(i, n, x, q, N, r)
<1>1. PICK a : a = Start(<<i, n - 1>>, EmptyRoot, x)
  OBVIOUS
<1>2. \A j \in Nat : 0 < j /\ j <= N => p[j] = q[j]
  OBVIOUS
<1>3. Climb(a, p, 0)[N] = Climb(a, q, 0)[N]
  BY <1>2, ClimbLocal
<1> QED
  BY <1>1, <1>3 DEF Incl

\* Appending a hash to a proof.
LEMMA AppendFacts ==
    ASSUME NEW H, NEW p \in Seq(H), NEW c \in H
    PROVE  /\ Append(p, c) \in Seq(H) /\ Len(p) \in Nat /\ Len(Append(p, c)) = Len(p) + 1
           /\ Append(p, c)[Len(p) + 1] = c
           /\ \A j \in 1..Len(p) : Append(p, c)[j] = p[j]
OBVIOUS

\* The roots of the trees.
Root == {mth[s] : s \in Seq(Leaf)}

\* The path of leaf m of s is a sequence of roots, and verifies.
PathWorks(s, m) ==
    /\ path[s][m] \in Seq(Root)
    /\ Incl(m, Len(s), hashLeaf(s[m + 1]), path[s][m], Len(path[s][m]), mth[s])

\* Log.InclusionProof verifies for every leaf of every tree.
LEMMA PathVerifies ==
    \A n \in Nat : \A s \in Seq(Leaf) : Len(s) = n => \A m \in 0..(n - 1) : PathWorks(s, m)
<1> DEFINE S == {n \in Nat : \A s \in Seq(Leaf) : Len(s) = n => \A m \in 0..(n - 1) : PathWorks(s, m)}
<1>1. ASSUME NEW n \in Nat, \A k \in Nat : k < n => k \in S
      PROVE  n \in S
  <2>a. SUFFICES ASSUME NEW s \in Seq(Leaf), Len(s) = n, NEW m \in 0..(n - 1)
                 PROVE  PathWorks(s, m)
    BY DEF S
  <2>1. CASE n <= 1
    <3>1. n = 1 /\ m = 0
      BY <2>1
    <3>2. mth[s] = hashLeaf(s[0 + 1]) /\ path[s][0] = <<>>
      BY <2>a, <3>1, mthOne
    <3>3. Incl(0, 1, hashLeaf(s[0 + 1]), <<>>, 0, mth[s])
      BY <3>2, InclLeaf
    <3>4. <<>> \in Seq(Root) /\ Len(<<>>) = 0
      OBVIOUS
    <3> QED
      BY <2>a, <3>1, <3>2, <3>3, <3>4 DEF PathWorks
  <2>2. CASE n > 1
    <3>1. PICK k, l, t : Halved(s, k, l, t)
      BY <2>a, <2>2, HalvedExists
    <3>2. /\ k = largestPow2Below(n) /\ k \in Nat /\ 1 <= k /\ k < n /\ n - k \in Nat
          /\ l \in Seq(Leaf) /\ Len(l) = k /\ t \in Seq(Leaf) /\ Len(t) = n - k
          /\ \A i \in 1..k : l[i] = s[i]
          /\ \A i \in 1..(n - k) : t[i] = s[k + i]
          /\ mth[s] = hashNode(mth[l], mth[t])
      BY <2>a, <3>1, HalvedFacts
    <3>3. mth[l] \in Root /\ mth[t] \in Root
      BY <3>2 DEF Root
    <3>4. PICK P : P = path[s][m]
      OBVIOUS
    <3>5. CASE m < k
      <4>1. PICK p : p = path[l][m]
        OBVIOUS
      <4>2. P = Append(p, mth[t])
        BY <2>a, <3>1, <3>4, <3>5, <4>1, pathSplit
      <4>3. PathWorks(l, m)
        <5>1. k \in S /\ m \in 0..(k - 1)
          BY <1>1, <3>2, <3>5
        <5> QED
          BY <3>2, <5>1
      <4>4. l[m + 1] = s[m + 1]
        BY <3>2, <3>5
      <4>5. p \in Seq(Root) /\ Incl(m, k, hashLeaf(s[m + 1]), p, Len(p), mth[l])
        BY <3>2, <4>1, <4>3, <4>4 DEF PathWorks
      <4>6. /\ P \in Seq(Root) /\ Len(p) \in Nat /\ Len(P) = Len(p) + 1 /\ P[Len(p) + 1] = mth[t]
            /\ \A j \in 1..Len(p) : P[j] = p[j]
        BY <3>3, <4>2, <4>5, AppendFacts
      <4>7. PICK N \in Nat : N = Len(p)
        BY <4>6
      <4>8. Incl(m, k, hashLeaf(s[m + 1]), P, N, mth[l])
        BY <4>5, <4>6, <4>7, InclSame
      <4>9. N + 1 > 0 /\ (N + 1) - 1 = N /\ N + 1 \in Nat /\ mth[s] = hashNode(mth[l], P[N + 1])
        BY <3>2, <4>6, <4>7
      <4>10. Incl(m, n, hashLeaf(s[m + 1]), P, N + 1, mth[s])
        BY <2>2, <3>2, <3>5, <4>8, <4>9, InclLeftUp
      <4> QED
        BY <2>a, <3>4, <4>6, <4>7, <4>10 DEF PathWorks
    <3>6. CASE m >= k
      <4>1. PICK p : p = path[t][m - k]
        OBVIOUS
      <4>2. P = Append(p, mth[l])
        BY <2>a, <3>1, <3>4, <3>6, <4>1, pathSplit
      <4>3. PathWorks(t, m - k)
        <5>1. n - k \in S /\ m - k \in 0..((n - k) - 1)
          BY <1>1, <3>2, <3>6
        <5> QED
          BY <3>2, <5>1
      <4>4. t[(m - k) + 1] = s[m + 1]
        <5>1. (m - k) + 1 \in 1..(n - k) /\ k + ((m - k) + 1) = m + 1
          BY <3>2, <3>6
        <5> QED
          BY <3>2, <5>1
      <4>5. p \in Seq(Root) /\ Incl(m - k, n - k, hashLeaf(s[m + 1]), p, Len(p), mth[t])
        BY <3>2, <4>1, <4>3, <4>4 DEF PathWorks
      <4>6. /\ P \in Seq(Root) /\ Len(p) \in Nat /\ Len(P) = Len(p) + 1 /\ P[Len(p) + 1] = mth[l]
            /\ \A j \in 1..Len(p) : P[j] = p[j]
        BY <3>3, <4>2, <4>5, AppendFacts
      <4>7. PICK N \in Nat : N = Len(p)
        BY <4>6
      <4>8. Incl(m - k, n - k, hashLeaf(s[m + 1]), P, N, mth[t])
        BY <4>5, <4>6, <4>7, InclSame
      <4>9. N + 1 > 0 /\ (N + 1) - 1 = N /\ N + 1 \in Nat /\ mth[s] = hashNode(P[N + 1], mth[t])
        BY <3>2, <4>6, <4>7
      <4>10. Incl(m, n, hashLeaf(s[m + 1]), P, N + 1, mth[s])
        BY <2>2, <3>2, <3>6, <4>8, <4>9, InclRightUp
      <4> QED
        BY <2>a, <3>4, <4>6, <4>7, <4>10 DEF PathWorks
    <3> QED
      BY <3>2, <3>5, <3>6
  <2> QED
    BY <2>1, <2>2
<1> HIDE DEF S
<1>2. \A n \in Nat : n \in S
  BY <1>1, StrongInduction
<1> QED
  BY <1>2 DEF S

\* A tree shows each of its leaves.
LEMMA TreeShows ==
    ASSUME NEW s \in Seq(Leaf), NEW m \in 0..(Len(s) - 1)
    PROVE  Shows(m, Len(s), hashLeaf(s[m + 1]), mth[s])
<1>1. PathWorks(s, m)
  BY PathVerifies
<1>2. Len(path[s][m]) \in Nat
  BY <1>1 DEF PathWorks
<1> QED
  BY <1>1, <1>2 DEF PathWorks, Shows

-----------------------------------------------------------------------------
(* What the two checks accept. *)

\* Members of a range that starts at 0 or 1.
LEMMA FromOne == ASSUME NEW a \in {0, 1}, NEW x, NEW m \in a..x PROVE m \in Nat /\ m >= a
OBVIOUS

\* Bounded sequences are sequences.
LEMMA BoundedSeqIsSeq == ASSUME NEW S, NEW n, NEW p \in BoundedSeq(S, n) PROVE p \in Seq(S)
<1>1. PICK m \in 0..n : p \in [1..m -> S]
  BY DEF BoundedSeq, SeqOf
<1>2. m \in Nat
  BY FromOne
<1> QED
  BY <1>1, <1>2

\* A proof is a sequence of hashes.
LEMMA ProofIsSeq ==
    ASSUME NEW n, NEW r, NEW p \in Proofs(n, r)
    PROVE  \E H : p \in Seq(H)
BY BoundedSeqIsSeq DEF Proofs

\* A proof that VerifyConsistency accepts, whatever it is made of, links the roots.
LEMMA VerifiedIsLinked ==
    ASSUME NEW m \in Nat, NEW n \in Nat, 0 < m, m < n, NEW H, NEW proof \in Seq(H), NEW old, NEW new,
           VerifyConsistency(m, n, proof, old, new)
    PROVE  Links(m, n, old, new)
<1>1. PICK at : at = Strip(1)[m - 1][n - 1]
  OBVIOUS
<1>2. PICK end : end = Ascend(m, n, proof, old)
  OBVIOUS
<1>3. end.sn = 0 /\ end.fr = old /\ end.sr = new
  BY <1>2 DEF VerifyConsistency
<1>4. PICK N \in Nat : N = Len(proof)
  OBVIOUS
<1>5. CASE at[1] = 0
  <2>1. end = Climb(Start(at, old, old), proof, 0)[N]
    BY <1>1, <1>2, <1>4, <1>5 DEF Ascend
  <2>2. Joins(m, n, old, proof, 0, N, old, new)
    BY <1>1, <1>3, <2>1 DEF Joins
  <2>3. 0 \in Nat /\ N >= 0
    OBVIOUS
  <2> QED
    BY <2>2, <2>3 DEF Links
<1>6. CASE at[1] # 0 /\ proof = <<>>
  <2>1. end = Start(<<0, -1>>, EmptyRoot, EmptyRoot)
    BY <1>1, <1>2, <1>6 DEF Ascend
  <2>2. end.sn = -1
    BY <2>1, StartFields
  <2> QED
    BY <1>3, <2>2
<1>7. CASE at[1] # 0 /\ proof # <<>>
  <2>1. end = Climb(Start(at, proof[1], proof[1]), proof, 1)[N]
    BY <1>1, <1>2, <1>4, <1>7 DEF Ascend
  <2>2. Joins(m, n, proof[1], proof, 1, N, old, new)
    BY <1>1, <1>3, <2>1 DEF Joins
  <2>3. 1 \in Nat /\ N >= 1
    <3>1. N # 0
      BY <1>4, <1>7, EmptySeq
    <3> QED
      BY <3>1
  <2> QED
    BY <2>2, <2>3 DEF Links
<1> QED
  BY <1>5, <1>6, <1>7

\* A proof that VerifyInclusion accepts, whatever it is made of, shows the leaf.
LEMMA VerifiedIsShown ==
    ASSUME NEW n, NEW m \in Nat, NEW x, NEW H, NEW proof \in Seq(H), NEW r,
           VerifyInclusion(x, m, n, proof, r)
    PROVE  Shows(m, n, hashLeaf(x), r)
<1>1. Incl(m, n, hashLeaf(x), proof, Len(proof), r)
  BY DEF VerifyInclusion, Incl
<1>2. Len(proof) \in Nat
  OBVIOUS
<1> QED
  BY <1>1, <1>2 DEF Shows

\* VerifyInclusion accepts the proof that Log.InclusionProof computes, for every leaf
\* of every tree.
THEOREM InclusionComplete ==
    ASSUME NEW s \in Seq(Leaf), NEW m \in 0..(Len(s) - 1)
    PROVE  VerifyInclusion(s[m + 1], m, Len(s), path[s][m], mth[s])
<1>1. PathWorks(s, m)
  BY PathVerifies
<1>2. Len(s) \in Nat
  OBVIOUS
<1>3. 0 <= m /\ m < Len(s)
  BY <1>2
<1> QED
  BY <1>1, <1>3 DEF PathWorks, Incl, VerifyInclusion

\* A root shows, at an index of its tree, the leaf that is there.
LEMMA ShownAtIndex ==
    ASSUME NEW s \in Seq(Leaf), NEW m \in 0..(Len(s) - 1), NEW x, Shows(m, Len(s), hashLeaf(x), mth[s])
    PROVE  x = s[m + 1]
<1>1. Shows(m, Len(s), hashLeaf(s[m + 1]), mth[s])
  BY TreeShows
<1>2. Len(s) \in Nat
  OBVIOUS
<1>3. hashLeaf(x) = hashLeaf(s[m + 1])
  BY <1>1, <1>2, ShowsUnique
<1> QED
  BY <1>3, HashesFree

\* A proof that VerifyInclusion accepts under the root of a tree of that size, whatever
\* it is made of, is for the leaf that the tree has at the index.
THEOREM InclusionSound ==
    ASSUME NEW s \in Seq(Leaf), NEW x, NEW m \in Nat, NEW H, NEW p \in Seq(H),
           VerifyInclusion(x, m, Len(s), p, mth[s])
    PROVE  m < Len(s) /\ x = s[m + 1]
<1>1. m < Len(s)
  BY DEF VerifyInclusion
<1>2. Shows(m, Len(s), hashLeaf(x), mth[s])
  BY VerifiedIsShown
<1>3. m \in 0..(Len(s) - 1)
  BY <1>1
<1> QED
  BY <1>1, <1>2, <1>3, ShownAtIndex

\* A leaf that is shown under the root of a tree, with whatever size, is one of its leaves.
LEMMA ShownIsLeaf ==
    \A n \in Nat : \A s \in Seq(Leaf) : \A i \in 0..(n - 1) : \A x :
        Shows(i, n, hashLeaf(x), mth[s]) => \E j \in 1..Len(s) : s[j] = x
<1> DEFINE P(n) == \A s \in Seq(Leaf) : \A i \in 0..(n - 1) : \A x :
                      Shows(i, n, hashLeaf(x), mth[s]) => \E j \in 1..Len(s) : s[j] = x
           S == {n \in Nat : P(n)}
<1>1. ASSUME NEW n \in Nat, \A k \in Nat : k < n => k \in S
      PROVE  n \in S
  <2>a. SUFFICES ASSUME NEW s \in Seq(Leaf), NEW i \in 0..(n - 1), NEW x, Shows(i, n, hashLeaf(x), mth[s])
                 PROVE  \E j \in 1..Len(s) : s[j] = x
    BY DEF S
  <2>0. /\ Len(s) \in Nat
        /\ Len(s) = 0 => mth[s] = EmptyRoot
        /\ Len(s) = 1 => mth[s] = hashLeaf(s[1])
    <3>1. Len(s) = 0 => s = <<>>
      BY EmptySeq
    <3>2. Len(s) = 0 => mth[s] = EmptyRoot
      BY <3>1, mthDef DEF MthBody
    <3> QED
      BY <3>2, mthOne
  <2>1. CASE n <= 1
    <3>1. n = 1 /\ i = 0
      BY <2>1
    <3>2. mth[s] = hashLeaf(x)
      BY <2>a, <3>1, ShowsLeaf
    <3>3. Len(s) # 0
      BY <2>0, <3>2, HashesFree
    <3>4. ~ Len(s) > 1
      <4>1. SUFFICES ASSUME Len(s) > 1 PROVE FALSE
        OBVIOUS
      <4>2. PICK k, l, t : Halved(s, k, l, t)
        BY <4>1, HalvedExists
      <4>3. mth[s] = hashNode(mth[l], mth[t])
        BY <4>2, HalvedFacts
      <4> QED
        BY <3>2, <4>3 DEF hashNode, hashLeaf
    <3>5. Len(s) = 1
      BY <2>0, <3>3, <3>4, OneOrMore
    <3>6. s[1] = x
      BY <2>0, <3>2, <3>5, HashesFree
    <3> QED
      BY <3>5, <3>6
  <2>2. CASE n > 1
    <3>1. PICK k : k = largestPow2Below(n)
      OBVIOUS
    <3>2. k \in Nat /\ 1 <= k /\ k < n
      BY <2>2, <3>1, Split
    <3>3. PICK q, q2 : /\ mth[s] = hashNode(q, q2)
                       /\ i < k => Shows(i, k, hashLeaf(x), q)
                       /\ i >= k => Shows(i - k, n - k, hashLeaf(x), q2)
      <4>1. CASE i < k
        <5>1. \E z, c : Shows(i, k, hashLeaf(x), z) /\ mth[s] = hashNode(z, c)
          BY <2>2, <2>a, <3>1, <4>1, ShowsSplit
        <5>2. ~ i >= k
          BY <3>2, <4>1
        <5> QED
          BY <5>1, <5>2
      <4>2. CASE i >= k
        <5>1. \E z, c : Shows(i - k, n - k, hashLeaf(x), z) /\ mth[s] = hashNode(c, z)
          BY <2>2, <2>a, <3>1, <4>2, ShowsSplit
        <5>2. ~ i < k
          BY <3>2, <4>2
        <5> QED
          BY <5>1, <5>2
      <4> QED
        BY <3>2, <4>1, <4>2
    <3>4. Len(s) > 1
      <4>1. Len(s) # 0 /\ Len(s) # 1
        BY <2>0, <3>3, HashesFree
      <4> QED
        BY <2>0, <4>1, OneOrMore
    <3>5. PICK h, l, t : Halved(s, h, l, t)
      BY <3>4, HalvedExists
    <3>6. /\ h \in Nat /\ h < Len(s) /\ Len(s) - h \in Nat
          /\ l \in Seq(Leaf) /\ Len(l) = h /\ t \in Seq(Leaf) /\ Len(t) = Len(s) - h
          /\ \A j \in 1..h : l[j] = s[j]
          /\ \A j \in 1..(Len(s) - h) : t[j] = s[h + j]
          /\ mth[s] = hashNode(mth[l], mth[t])
      BY <3>5, HalvedFacts
    <3>7. q = mth[l] /\ q2 = mth[t]
      BY <3>3, <3>6 DEF hashNode
    <3>8. P(k) /\ P(n - k)
      BY <1>1, <3>2 DEF S
    <3> HIDE DEF P
    <3>9. CASE i < k
      <4>1. i \in 0..(k - 1) /\ Shows(i, k, hashLeaf(x), mth[l])
        BY <3>2, <3>3, <3>7, <3>9
      <4>2. PICK j \in 1..h : l[j] = x
        BY <3>6, <3>8, <4>1 DEF P
      <4>3. s[j] = x /\ j \in 1..Len(s)
        BY <2>0, <3>6, <4>2
      <4> QED
        BY <4>3
    <3>10. CASE i >= k
      <4>1. i - k \in 0..((n - k) - 1) /\ Shows(i - k, n - k, hashLeaf(x), mth[t])
        BY <3>2, <3>3, <3>7, <3>10
      <4>2. PICK j \in 1..(Len(s) - h) : t[j] = x
        BY <3>6, <3>8, <4>1 DEF P
      <4>3. s[h + j] = x /\ h + j \in 1..Len(s)
        BY <2>0, <3>6, <4>2
      <4> QED
        BY <4>3
    <3> QED
      BY <3>2, <3>9, <3>10
  <2> QED
    BY <2>1, <2>2
<1> HIDE DEF S
<1>2. \A n \in Nat : n \in S
  BY <1>1, StrongInduction
<1> QED
  BY <1>2 DEF S

-----------------------------------------------------------------------------
(* The proofs that the log computes verify: consistency. *)

\* Two proofs with the same hashes check alike.
LEMMA JoinsSame ==
    ASSUME NEW m, NEW n, NEW h, NEW p, NEW q, NEW idx \in Nat, NEW N \in Nat, N >= idx, NEW old, NEW new,
           Joins(m, n, h, p, idx, N, old, new), \A j \in 1..N : q[j] = p[j]
    PROVE  Joins(m, n, h, q, idx, N, old, new)
<1>1. PICK a : a = Start(Strip(1)[m - 1][n - 1], h, h)
  OBVIOUS
<1>2. \A j \in Nat : idx < j /\ j <= N => p[j] = q[j]
  OBVIOUS
<1>3. Climb(a, p, idx)[N] = Climb(a, q, idx)[N]
  BY <1>2, ClimbLocal
<1> QED
  BY <1>1, <1>3 DEF Joins

\* From the left half to the whole, for a proof that is being built.
LEMMA JoinsLeftUp ==
    ASSUME NEW n \in Nat, NEW m \in 1..(n - 1), NEW h, NEW p, NEW idx \in Nat, NEW N \in Nat, N >= idx,
           NEW old, NEW q, NEW k, k = largestPow2Below(n), m <= k, Joins(m, k, h, p, idx, N, old, q)
    PROVE  Joins(m, n, h, p, idx, N + 1, old, hashNode(q, p[N + 1]))
<1>1. PICK M \in Nat : M = N + 1 /\ M > idx /\ M >= idx /\ M - 1 = N
  OBVIOUS
<1>2. PICK r : r = hashNode(q, p[M])
  OBVIOUS
<1>3. Joins(m, k, h, p, idx, M - 1, old, q)
  BY <1>1
<1>4. Joins(m, n, h, p, idx, M, old, r)
  <2>1. JoinsBefore(m, k, h, p, idx, M, old, r)
    BY <1>1, <1>2, <1>3 DEF JoinsBefore
  <2> QED
    BY <1>1, <2>1, JoinsLeft
<1> QED
  BY <1>1, <1>2, <1>4

\* From the right half to the whole.
LEMMA JoinsRightUp ==
    ASSUME NEW n \in Nat, NEW m \in 1..(n - 1), NEW h, NEW p, NEW idx \in Nat, NEW N \in Nat, N >= idx,
           NEW o, NEW q, NEW k, k = largestPow2Below(n), m > k, Joins(m - k, n - k, h, p, idx, N, o, q)
    PROVE  Joins(m, n, h, p, idx, N + 1, hashNode(p[N + 1], o), hashNode(p[N + 1], q))
<1>1. PICK M \in Nat : M = N + 1 /\ M > idx /\ M >= idx /\ M - 1 = N
  OBVIOUS
<1>2. PICK old, new : old = hashNode(p[M], o) /\ new = hashNode(p[M], q)
  OBVIOUS
<1>3. JoinsAfter(m - k, n - k, h, p, idx, M, old, new)
  <2>1. Joins(m - k, n - k, h, p, idx, M - 1, o, q)
    BY <1>1
  <2> QED
    BY <1>1, <1>2, <2>1 DEF JoinsAfter
<1>4. Joins(m, n, h, p, idx, M, old, new)
  BY <1>1, <1>3, JoinsRight
<1> QED
  BY <1>1, <1>2, <1>4

\* The proof of a tree within another one, and without the root of the whole.
Inner(s, m) == subproof[s][m][FALSE]

Outer(s, m) == subproof[s][m][TRUE]

\* The proof in the whole is the proof in a half and the root of the other half.
LEMMA subproofSplit ==
    ASSUME NEW s, NEW k, NEW l, NEW t, Halved(s, k, l, t), NEW m \in 1..(Len(s) - 1)
    PROVE  /\ m <= k => /\ Inner(s, m) = Append(Inner(l, m), mth[t])
                        /\ Outer(s, m) = Append(Outer(l, m), mth[t])
           /\ m > k => /\ Inner(s, m) = Append(Inner(t, m - k), mth[l])
                       /\ Outer(s, m) = Append(Inner(t, m - k), mth[l])
<1>1. s \in Seq(Leaf) /\ Len(s) \in Nat /\ k = largestPow2Below(Len(s)) /\ k \in Nat
  BY HalvedFacts
<1>2. m \in 1..Len(s) /\ m # Len(s) /\ m \in Nat
  BY <1>1
<1>3. subproof[s] = SubproofBody(subproof, s)
  BY <1>1, subproofDef
<1>4. \A b \in BOOLEAN : subproof[s][m][b] = SubproofAt(subproof, s, m, b)
  BY <1>2, <1>3 DEF SubproofBody
<1>5. l = First(s, k) /\ t = Rest(s, k)
  BY DEF Halved
<1>6. \A b \in BOOLEAN :
          subproof[s][m][b] = IF m <= k THEN Append(subproof[l][m][b], mth[t])
                              ELSE Append(subproof[t][m - k][FALSE], mth[l])
  BY <1>1, <1>2, <1>4, <1>5 DEF SubproofAt
<1>7. m > k => ~ m <= k
  BY <1>1, <1>2
<1> QED
  BY <1>6, <1>7 DEF Inner, Outer

\* From the whole tree to itself: nothing, or its root.
LEMMA subproofWhole ==
    ASSUME NEW s \in Seq(Leaf), NEW m, m = Len(s), m >= 1
    PROVE  Outer(s, m) = <<>> /\ Inner(s, m) = <<mth[s]>>
<1>1. m \in 1..Len(s)
  OBVIOUS
<1>2. subproof[s] = SubproofBody(subproof, s)
  BY subproofDef
<1>3. \A b \in BOOLEAN : subproof[s][m][b] = SubproofAt(subproof, s, m, b)
  BY <1>1, <1>2 DEF SubproofBody
<1> QED
  BY <1>3 DEF SubproofAt, Inner, Outer

\* The first m leaves of a tree, from those of its halves.
LEMMA Prefix ==
    ASSUME NEW s, NEW k, NEW l, NEW t, Halved(s, k, l, t), NEW m \in 1..(Len(s) - 1)
    PROVE  /\ m <= k => First(s, m) = First(l, m)
           /\ m > k => mth[First(s, m)] = hashNode(mth[l], mth[First(t, m - k)])
<1>1. /\ s \in Seq(Leaf) /\ Len(s) \in Nat /\ Len(s) > 1 /\ k = largestPow2Below(Len(s))
      /\ k \in Nat /\ 1 <= k /\ k < Len(s) /\ Len(s) - k \in Nat
      /\ l \in Seq(Leaf) /\ Len(l) = k /\ t \in Seq(Leaf) /\ Len(t) = Len(s) - k
      /\ \A i \in 1..k : l[i] = s[i]
      /\ \A i \in 1..(Len(s) - k) : t[i] = s[k + i]
  BY HalvedFacts
<1>2. m \in Nat /\ m \in 0..Len(s) /\ 1 <= m
  BY <1>1
<1>3. PICK o : o = First(s, m)
  OBVIOUS
<1>4. o \in Seq(Leaf) /\ Len(o) = m /\ \A i \in 1..m : o[i] = s[i]
  BY <1>1, <1>2, <1>3, FirstRest
<1>5. ASSUME m <= k
      PROVE  o = First(l, m)
  <2>1. m \in 0..Len(l)
    BY <1>1, <1>2, <1>5
  <2>2. PICK o2 : o2 = First(l, m)
    OBVIOUS
  <2>3. o2 \in Seq(Leaf) /\ Len(o2) = m /\ \A i \in 1..m : o2[i] = l[i]
    BY <1>1, <2>1, <2>2, FirstRest
  <2>4. ASSUME NEW i \in 1..m
        PROVE  o[i] = o2[i]
    <3>1. i \in 1..k
      BY <1>1, <1>2, <1>5
    <3>2. o[i] = s[i] /\ o2[i] = l[i] /\ l[i] = s[i]
      BY <1>1, <1>4, <2>3, <3>1
    <3> QED
      BY <3>2
  <2> QED
    BY <1>4, <2>2, <2>3, <2>4, SeqEqual
<1>6. ASSUME m > k
      PROVE  mth[o] = hashNode(mth[l], mth[First(t, m - k)])
  <2>1. m > 1 /\ largestPow2Below(m) = k
    BY <1>1, <1>6, WithinSplit
  <2>2. PICK l2, t2 : Halved(o, k, l2, t2)
    BY <1>4, <2>1 DEF Halved
  <2>3. /\ l2 \in Seq(Leaf) /\ Len(l2) = k /\ t2 \in Seq(Leaf) /\ Len(t2) = m - k
        /\ \A i \in 1..k : l2[i] = o[i]
        /\ \A i \in 1..(m - k) : t2[i] = o[k + i]
        /\ mth[o] = hashNode(mth[l2], mth[t2])
    BY <1>4, <2>2, HalvedFacts
  <2>4. l2 = l
    <3>1. ASSUME NEW i \in 1..k
          PROVE  l2[i] = l[i]
      <4>1. i \in 1..m
        BY <1>1, <1>2, <1>6
      <4>2. l2[i] = o[i] /\ o[i] = s[i] /\ l[i] = s[i]
        BY <1>1, <1>4, <2>3, <4>1
      <4> QED
        BY <4>2
    <3> QED
      BY <1>1, <2>3, <3>1, SeqEqual
  <2>5. t2 = First(t, m - k)
    <3>1. m - k \in 0..Len(t)
      BY <1>1, <1>2, <1>6
    <3>2. PICK f : f = First(t, m - k)
      OBVIOUS
    <3>3. f \in Seq(Leaf) /\ Len(f) = m - k /\ \A i \in 1..(m - k) : f[i] = t[i]
      BY <1>1, <3>1, <3>2, FirstRest
    <3>4. ASSUME NEW i \in 1..(m - k)
          PROVE  t2[i] = f[i]
      <4>1. k + i \in 1..m /\ i \in 1..(Len(s) - k)
        BY <1>1, <1>2, <1>6
      <4> QED
        BY <1>1, <1>4, <2>3, <3>3, <4>1
    <3> QED
      BY <2>3, <3>2, <3>3, <3>4, SeqEqual
  <2> QED
    BY <2>3, <2>4, <2>5
<1> QED
  BY <1>3, <1>5, <1>6

\* The loop accepts P as the proof from the first m leaves of s, with the first
\* hash (idx 1) or the old root (idx 0) to start from.
Accepted(s, m, P, idx) ==
    /\ P \in Seq(Root) /\ Len(P) >= idx
    /\ Joins(m, Len(s), IF idx = 0 THEN mth[First(s, m)] ELSE P[1], P, idx, Len(P),
             mth[First(s, m)], mth[s])

\* What subproof gives for the whole of a complete tree is accepted.
LEMMA AcceptedWhole ==
    ASSUME NEW s \in Seq(Leaf), NEW n, n = Len(s), n \in Pow2
    PROVE  Accepted(s, n, <<mth[s]>>, 1) /\ Accepted(s, n, <<>>, 0)
<1>1. n \in Nat /\ n >= 1 /\ n \in 0..Len(s)
  BY Pow2Cases
<1>2. First(s, n) = s
  <2>1. PICK o : o = First(s, n)
    OBVIOUS
  <2>2. o \in Seq(Leaf) /\ Len(o) = n /\ \A i \in 1..n : o[i] = s[i]
    BY <1>1, <2>1, FirstRest
  <2> QED
    BY <2>1, <2>2, SeqEqual
<1>3. mth[s] \in Root
  BY DEF Root
<1>4. PICK P : P = <<mth[s]>>
  OBVIOUS
<1>5. P \in Seq(Root) /\ Len(P) = 1 /\ P[1] = mth[s] /\ 1 >= 1 /\ 1 \in Nat /\ 1 # 0
  BY <1>3, <1>4
<1>6. Joins(n, n, P[1], P, 1, 1, mth[s], mth[s])
  BY <1>5, JoinsFull
<1>7. Accepted(s, n, P, 1)
  BY <1>2, <1>5, <1>6 DEF Accepted
<1>8. PICK Q : Q = <<>>
  OBVIOUS
<1>9. Q \in Seq(Root) /\ Len(Q) = 0 /\ 0 >= 0 /\ 0 \in Nat
  BY <1>8
<1>10. Joins(n, n, mth[s], Q, 0, 0, mth[s], mth[s])
  BY <1>9, JoinsFull
<1>11. Accepted(s, n, Q, 0)
  BY <1>2, <1>9, <1>10 DEF Accepted
<1> QED
  BY <1>4, <1>7, <1>8, <1>11

\* A proof accepted in the left half, with the root of the right one, is accepted.
LEMMA AcceptedLeft ==
    ASSUME NEW s, NEW k, NEW l, NEW t, Halved(s, k, l, t), NEW m \in 1..(Len(s) - 1), m <= k,
           NEW p, NEW idx \in {0, 1}, Accepted(l, m, p, idx)
    PROVE  Accepted(s, m, Append(p, mth[t]), idx)
<1>1. PICK n \in Nat : n = Len(s)
  BY HalvedFacts
<1>2. /\ k = largestPow2Below(n) /\ Len(l) = k /\ l \in Seq(Leaf) /\ t \in Seq(Leaf)
      /\ mth[s] = hashNode(mth[l], mth[t])
  BY <1>1, HalvedFacts
<1>3. mth[t] \in Root
  BY <1>2 DEF Root
<1>4. PICK P : P = Append(p, mth[t])
  OBVIOUS
<1>5. p \in Seq(Root) /\ Len(p) >= idx
  BY DEF Accepted
<1>6. /\ P \in Seq(Root) /\ Len(p) \in Nat /\ Len(P) = Len(p) + 1 /\ P[Len(p) + 1] = mth[t]
      /\ \A j \in 1..Len(p) : P[j] = p[j]
  BY <1>3, <1>4, <1>5, AppendFacts
<1>7. PICK N \in Nat : N = Len(p)
  BY <1>6
<1>8. PICK h : h = IF idx = 0 THEN mth[First(s, m)] ELSE P[1]
  OBVIOUS
<1>9. First(s, m) = First(l, m)
  BY Prefix
<1>10. PICK old : old = mth[First(s, m)]
  OBVIOUS
<1>11. h = IF idx = 0 THEN mth[First(l, m)] ELSE p[1]
  <2>1. CASE idx = 0
    BY <1>8, <1>9, <2>1
  <2>2. CASE idx = 1
    <3>1. 1 \in 1..Len(p)
      BY <1>5, <1>6, <2>2
    <3>2. idx # 0
      BY <2>2
    <3> QED
      BY <1>6, <1>8, <3>1, <3>2
  <2> QED
    BY <2>1, <2>2
<1>12. Joins(m, k, h, p, idx, N, old, mth[l])
  BY <1>2, <1>7, <1>9, <1>10, <1>11 DEF Accepted
<1>13. idx \in Nat /\ N >= idx /\ m \in 1..(n - 1)
  BY <1>1, <1>5, <1>7
<1>14. Joins(m, k, h, P, idx, N, old, mth[l])
  BY <1>6, <1>7, <1>12, <1>13, JoinsSame
<1>15. Joins(m, n, h, P, idx, N + 1, old, hashNode(mth[l], P[N + 1]))
  BY <1>2, <1>13, <1>14, JoinsLeftUp
<1>16. Joins(m, n, h, P, idx, Len(P), old, mth[s])
  BY <1>2, <1>6, <1>7, <1>15
<1>17. Len(P) >= idx
  BY <1>6, <1>7, <1>13
<1> QED
  BY <1>1, <1>4, <1>6, <1>8, <1>10, <1>16, <1>17 DEF Accepted

\* A proof accepted in the right half, with the root of the left one, is accepted.
LEMMA AcceptedRight ==
    ASSUME NEW s, NEW k, NEW l, NEW t, Halved(s, k, l, t), NEW m \in 1..(Len(s) - 1), m > k,
           NEW p, Accepted(t, m - k, p, 1)
    PROVE  Accepted(s, m, Append(p, mth[l]), 1)
<1>1. PICK n \in Nat : n = Len(s)
  BY HalvedFacts
<1>2. /\ k = largestPow2Below(n) /\ Len(t) = n - k /\ l \in Seq(Leaf) /\ t \in Seq(Leaf)
      /\ mth[s] = hashNode(mth[l], mth[t])
  BY <1>1, HalvedFacts
<1>3. mth[l] \in Root
  BY <1>2 DEF Root
<1>4. PICK P : P = Append(p, mth[l])
  OBVIOUS
<1>5. p \in Seq(Root) /\ Len(p) >= 1
  BY DEF Accepted
<1>6. /\ P \in Seq(Root) /\ Len(p) \in Nat /\ Len(P) = Len(p) + 1 /\ P[Len(p) + 1] = mth[l]
      /\ \A j \in 1..Len(p) : P[j] = p[j]
  BY <1>3, <1>4, <1>5, AppendFacts
<1>7. PICK N \in Nat : N = Len(p)
  BY <1>6
<1>8. mth[First(s, m)] = hashNode(mth[l], mth[First(t, m - k)])
  BY Prefix
<1>9. PICK o : o = mth[First(t, m - k)]
  OBVIOUS
<1>10. P[1] = p[1]
  <2>1. 1 \in 1..Len(p)
    BY <1>5, <1>6
  <2> QED
    BY <1>6, <2>1
<1>11. PICK h : h = P[1]
  OBVIOUS
<1>12. 1 # 0
  OBVIOUS
<1>13. Joins(m - k, n - k, h, p, 1, N, o, mth[t])
  BY <1>2, <1>7, <1>9, <1>10, <1>11, <1>12 DEF Accepted
<1>14. 1 \in Nat /\ N >= 1 /\ m \in 1..(n - 1)
  BY <1>1, <1>5, <1>7
<1>15. Joins(m - k, n - k, h, P, 1, N, o, mth[t])
  BY <1>6, <1>7, <1>13, <1>14, JoinsSame
<1>16. Joins(m, n, h, P, 1, N + 1, hashNode(P[N + 1], o), hashNode(P[N + 1], mth[t]))
  BY <1>2, <1>14, <1>15, JoinsRightUp
<1>17. Joins(m, n, h, P, 1, Len(P), mth[First(s, m)], mth[s])
  BY <1>2, <1>6, <1>7, <1>8, <1>9, <1>16
<1>18. Len(P) >= 1
  BY <1>6, <1>7, <1>14
<1> QED
  BY <1>1, <1>4, <1>6, <1>11, <1>12, <1>17, <1>18 DEF Accepted

\* The two forms of the log's proof are accepted.
SubproofWorks(s, m) ==
    LET z == Strip(1)[m - 1][Len(s) - 1][1] IN
    /\ Accepted(s, m, Inner(s, m), 1)
    /\ Accepted(s, m, Outer(s, m), IF z = 0 THEN 0 ELSE 1)

\* Every proof of Log.ConsistencyProof takes the loop to both roots.
LEMMA SubproofVerifies ==
    \A n \in Nat : \A s \in Seq(Leaf), m \in Nat : Len(s) = n /\ Within(m, n) => SubproofWorks(s, m)
<1> DEFINE S == {n \in Nat : \A s \in Seq(Leaf), m \in Nat : Len(s) = n /\ Within(m, n) => SubproofWorks(s, m)}
<1>1. ASSUME NEW n \in Nat, \A k \in Nat : k < n => k \in S
      PROVE  n \in S
  <2>a. SUFFICES ASSUME NEW s \in Seq(Leaf), NEW m \in Nat, Len(s) = n, Within(m, n)
                 PROVE  SubproofWorks(s, m)
    BY DEF S
  <2>1. CASE m = n
    <3>1. n \in Pow2 /\ m >= 1
      BY <2>a, <2>1 DEF Within
    <3>2. Strip(1)[n - 1][n - 1] = <<0, 0>>
      BY <3>1, StripOnesFull
    <3>3. Accepted(s, n, <<mth[s]>>, 1) /\ Accepted(s, n, <<>>, 0)
      BY <2>a, <3>1, AcceptedWhole
    <3>4. Outer(s, m) = <<>> /\ Inner(s, m) = <<mth[s]>>
      BY <2>a, <2>1, <3>1, subproofWhole
    <3>5. <<0, 0>>[1] = 0
      OBVIOUS
    <3> QED
      BY <2>a, <2>1, <3>2, <3>3, <3>4, <3>5 DEF SubproofWorks
  <2>2. CASE m # n
    <3>1. m \in 1..(n - 1)
      BY <2>a, <2>2 DEF Within
    <3>2. Len(s) > 1
      BY <2>a, <3>1
    <3>3. PICK k, l, t : Halved(s, k, l, t)
      BY <3>2, HalvedExists
    <3>4. /\ k = largestPow2Below(n) /\ l \in Seq(Leaf) /\ Len(l) = k /\ t \in Seq(Leaf) /\ Len(t) = n - k
      BY <2>a, <3>3, HalvedFacts
    <3>5. /\ k \in Nat /\ 1 <= k /\ k < n /\ n - k \in Nat /\ n - k < n
          /\ m <= k => Within(m, k)
          /\ m > k => Within(m - k, n - k)
      BY <3>1, <3>4, WithinSplit
    <3>6. k \in Pow2 /\ n <= 2 * k
      BY <2>a, <3>2, <3>4, Split
    <3>7. m \in 1..(Len(s) - 1)
      BY <2>a, <3>1
    <3>8. CASE m <= k
      <4>1. SubproofWorks(l, m)
        BY <1>1, <3>4, <3>5, <3>8
      <4>2. Strip(1)[m - 1][n - 1][1] = Strip(1)[m - 1][k - 1][1]
        <5>1. m - 1 \in Nat /\ n - 1 \in Nat /\ m - 1 < k /\ k <= n - 1 /\ n - 1 < 2 * k
          BY <3>1, <3>5, <3>6, <3>8
        <5>2. LeftStripped(m - 1, k, n - 1)
          BY <3>6, <5>1, StripOnesLeft
        <5> QED
          BY <5>2 DEF LeftStripped
      <4>3. PICK idx \in {0, 1} : idx = IF Strip(1)[m - 1][n - 1][1] = 0 THEN 0 ELSE 1
        OBVIOUS
      <4>4. Accepted(l, m, Inner(l, m), 1) /\ Accepted(l, m, Outer(l, m), idx)
        BY <3>4, <4>1, <4>2, <4>3 DEF SubproofWorks
      <4>5. /\ Inner(s, m) = Append(Inner(l, m), mth[t])
            /\ Outer(s, m) = Append(Outer(l, m), mth[t])
        BY <3>3, <3>7, <3>8, subproofSplit
      <4>6. Accepted(s, m, Inner(s, m), 1) /\ Accepted(s, m, Outer(s, m), idx)
        BY <3>3, <3>7, <3>8, <4>4, <4>5, AcceptedLeft
      <4> QED
        BY <2>a, <4>3, <4>6 DEF SubproofWorks
    <3>9. CASE m > k
      <4>1. SubproofWorks(t, m - k)
        <5>1. m - k \in Nat /\ n - k \in S
          BY <1>1, <3>5, <3>9
        <5> QED
          BY <3>4, <3>5, <3>9, <5>1
      <4>2. Strip(1)[m - 1][n - 1][1] # 0
        <5>1. PICK f \in Nat, e \in Nat :
                  f <= e /\ e < k /\ f + 1 < k /\ k + f = m - 1 /\ k + e = n - 1
          <6>1. m - k - 1 \in Nat /\ n - k - 1 \in Nat
            BY <3>1, <3>5, <3>9
          <6> QED
            BY <3>1, <3>5, <3>6, <3>9, <6>1
        <5>2. RightStripped(f, k, e)
          BY <3>6, <5>1, StripOnesRight
        <5>3. PICK J \in Pow2, x, y \in Nat : Strip(1)[k + f][k + e] = <<J + x, J + y>>
          BY <5>2 DEF RightStripped
        <5>4. J \in Nat /\ J >= 1
          BY Pow2Cases
        <5>5. <<J + x, J + y>>[1] # 0
          BY <5>4
        <5> QED
          BY <5>1, <5>3, <5>5
      <4>3. Accepted(t, m - k, Inner(t, m - k), 1)
        BY <4>1 DEF SubproofWorks
      <4>4. /\ Inner(s, m) = Append(Inner(t, m - k), mth[l])
            /\ Outer(s, m) = Append(Inner(t, m - k), mth[l])
        BY <3>3, <3>7, <3>9, subproofSplit
      <4>5. Accepted(s, m, Inner(s, m), 1) /\ Accepted(s, m, Outer(s, m), 1)
        BY <3>3, <3>7, <3>9, <4>3, <4>4, AcceptedRight
      <4> QED
        BY <2>a, <4>2, <4>5 DEF SubproofWorks
    <3> QED
      BY <3>5, <3>8, <3>9
  <2> QED
    BY <2>1, <2>2
<1> HIDE DEF S
<1>2. \A n \in Nat : n \in S
  BY <1>1, StrongInduction
<1> QED
  BY <1>2 DEF S

-----------------------------------------------------------------------------
(* The check is exact. *)

\* A proof that VerifyConsistency accepts between the roots of two trees, whatever it
\* is made of, shows that one extends the other.
THEOREM ConsistencySound ==
    ASSUME NEW s \in Seq(Leaf), NEW t \in Seq(Leaf), NEW H, NEW p \in Seq(H),
           VerifyConsistency(Len(s), Len(t), p, mth[s], mth[t])
    PROVE  Extends(t, s)
<1>1. PICK m \in Nat, n \in Nat : m = Len(s) /\ n = Len(t)
  OBVIOUS
<1>2. m <= n
  BY <1>1 DEF VerifyConsistency
<1>3. ASSUME NEW i \in 1..m
      PROVE  t[i] = s[i]
  <2>1. PICK j \in Nat : j + 1 = i /\ j \in 0..(m - 1) /\ j \in 0..(n - 1) /\ j < m
    <3>1. i - 1 \in Nat /\ (i - 1) + 1 = i
      OBVIOUS
    <3> QED
      BY <1>2, <3>1
  <2>2. Shows(j, m, hashLeaf(s[j + 1]), mth[s]) /\ Shows(j, n, hashLeaf(t[j + 1]), mth[t])
    BY <1>1, <2>1, TreeShows
  <2>3. Shows(j, n, hashLeaf(s[j + 1]), mth[t])
    <3>1. CASE m = n
      <4>1. mth[s] = mth[t]
        BY <1>1, <3>1 DEF VerifyConsistency
      <4> QED
        BY <2>2, <3>1, <4>1
    <3>2. CASE m # n
      <4>1. 0 < m /\ m < n
        BY <1>2, <3>2
      <4>2. Links(m, n, mth[s], mth[t])
        BY <1>1, <4>1, VerifiedIsLinked
      <4>3. Within(m, n)
        BY <4>1 DEF Within
      <4> QED
        BY <2>1, <2>2, <4>2, <4>3, ShownKept
    <3> QED
      BY <3>1, <3>2
  <2>4. hashLeaf(s[j + 1]) = hashLeaf(t[j + 1])
    BY <2>1, <2>2, <2>3, ShowsUnique
  <2>5. s[j + 1] = t[j + 1]
    BY <2>4, HashesFree
  <2> QED
    BY <2>1, <2>5
<1> QED
  BY <1>1, <1>2, <1>3 DEF Extends

\* A tree that extends another starts with it.
LEMMA ExtendsPrefix ==
    ASSUME NEW s \in Seq(Leaf), NEW t \in Seq(Leaf), Extends(t, s)
    PROVE  Len(s) <= Len(t) /\ s = First(t, Len(s))
<1>1. s # NoView
  BY NoViewAssumption DEF TreeHead
<1>2. Len(s) <= Len(t) /\ \A i \in 1..Len(s) : t[i] = s[i]
  BY <1>1 DEF Extends
<1>3. PICK m \in Nat : m = Len(s) /\ m \in 0..Len(t)
  BY <1>2
<1>4. PICK o : o = First(t, m)
  OBVIOUS
<1>5. o \in Seq(Leaf) /\ Len(o) = m /\ \A i \in 1..m : o[i] = t[i]
  BY <1>3, <1>4, FirstRest
<1>6. s = o
  BY <1>2, <1>3, <1>5, SeqEqual
<1> QED
  BY <1>2, <1>3, <1>4, <1>6

\* VerifyConsistency accepts the log's own proof from any of its earlier sizes.
THEOREM ConsistencyComplete ==
    ASSUME NEW s \in Seq(Leaf), NEW t \in Seq(Leaf), Extends(t, s), t # <<>>
    PROVE  VerifyConsistency(Len(s), Len(t), ConsistencyProof(t, Len(s)), mth[s], mth[t])
<1>1. PICK m \in Nat, n \in Nat : m = Len(s) /\ n = Len(t)
  OBVIOUS
<1>2. m <= n /\ s = First(t, m)
  BY <1>1, ExtendsPrefix
<1>3. n > 0
  <2>1. Len(t) # 0
    BY EmptySeq
  <2> QED
    BY <1>1, <2>1
<1>4. CASE m = n
  <2>1. ConsistencyProof(t, m) = <<>>
    BY <1>1, <1>4 DEF ConsistencyProof
  <2>2. s = t
    <3>1. \A i \in 1..Len(s) : s[i] = t[i]
      BY NoViewAssumption DEF Extends, TreeHead
    <3> QED
      BY <1>1, <1>4, <3>1, SeqEqual
  <2> QED
    BY <1>1, <1>2, <1>3, <1>4, <2>1, <2>2 DEF VerifyConsistency
<1>5. CASE m = 0 /\ m # n
  <2>1. ConsistencyProof(t, m) = <<>>
    BY <1>1, <1>5 DEF ConsistencyProof
  <2>2. s = <<>>
    BY <1>1, <1>5, EmptySeq
  <2>3. mth[s] = EmptyRoot
    BY <2>2, mthDef DEF MthBody
  <2> QED
    BY <1>1, <1>2, <1>3, <1>5, <2>1, <2>3 DEF VerifyConsistency
<1>6. CASE m # 0 /\ m # n
  <2>1. PICK P : P = ConsistencyProof(t, m)
    OBVIOUS
  <2>2. P = Outer(t, m)
    BY <1>1, <1>6, <2>1 DEF ConsistencyProof, Outer
  <2>3. Within(m, n)
    BY <1>2, <1>6 DEF Within
  <2>4. SubproofWorks(t, m)
    BY <1>1, <2>3, SubproofVerifies
  <2>5. PICK at : at = Strip(1)[m - 1][n - 1]
    OBVIOUS
  <2>6. PICK idx : idx = IF at[1] = 0 THEN 0 ELSE 1
    OBVIOUS
  <2>7. /\ P \in Seq(Root) /\ Len(P) >= idx
        /\ Joins(m, n, IF idx = 0 THEN mth[s] ELSE P[1], P, idx, Len(P), mth[s], mth[t])
    BY <1>1, <1>2, <2>2, <2>4, <2>5, <2>6 DEF SubproofWorks, Accepted
  <2>8. PICK end : end = Ascend(m, n, P, mth[s])
    OBVIOUS
  <2>9. end.sn = 0 /\ end.fr = mth[s] /\ end.sr = mth[t]
    <3>1. CASE at[1] = 0
      <4>1. idx = 0
        BY <2>6, <3>1
      <4>2. end = Climb(Start(at, mth[s], mth[s]), P, 0)[Len(P)]
        BY <2>5, <2>8, <3>1 DEF Ascend
      <4> QED
        BY <2>5, <2>7, <4>1, <4>2 DEF Joins
    <3>2. CASE at[1] # 0
      <4>1. idx = 1 /\ idx # 0
        BY <2>6, <3>2
      <4>2. P # <<>>
        <5>1. Len(P) # 0
          BY <2>7, <4>1
        <5> QED
          BY <5>1
      <4>3. end = Climb(Start(at, P[1], P[1]), P, 1)[Len(P)]
        BY <2>5, <2>8, <3>2, <4>2 DEF Ascend
      <4> QED
        BY <2>5, <2>7, <4>1, <4>3 DEF Joins
    <3> QED
      BY <3>1, <3>2
  <2> QED
    BY <1>1, <1>2, <1>3, <1>6, <2>1, <2>8, <2>9 DEF VerifyConsistency
<1> QED
  BY <1>4, <1>5, <1>6

-----------------------------------------------------------------------------
(* A root is the root of one tree. *)

\* The three kinds of trees and their roots.
LEMMA mthKinds ==
    ASSUME NEW s \in Seq(Leaf)
    PROVE  /\ Len(s) = 0 \/ Len(s) = 1 \/ Len(s) > 1
           /\ Len(s) = 0 => s = <<>> /\ mth[s] = EmptyRoot
           /\ Len(s) = 1 => mth[s] = hashLeaf(s[1])
           /\ Len(s) > 1 => \E k, l, t : Halved(s, k, l, t) /\ mth[s] = hashNode(mth[l], mth[t])
<1>1. Len(s) \in Nat
  OBVIOUS
<1>2. Len(s) = 0 \/ Len(s) = 1 \/ Len(s) > 1
  BY <1>1, OneOrMore
<1>3. Len(s) = 0 => s = <<>>
  BY EmptySeq
<1>4. s = <<>> => mth[s] = EmptyRoot
  BY mthDef DEF MthBody
<1>5. ASSUME Len(s) > 1
      PROVE  \E k, l, t : Halved(s, k, l, t) /\ mth[s] = hashNode(mth[l], mth[t])
  <2>1. PICK k, l, t : Halved(s, k, l, t)
    BY <1>5, HalvedExists
  <2>2. mth[s] = hashNode(mth[l], mth[t])
    BY <2>1, HalvedFacts
  <2> QED
    BY <2>1, <2>2
<1> QED
  BY <1>2, <1>3, <1>4, <1>5, mthOne

\* Roots of different kinds of trees differ.
LEMMA SameKind ==
    ASSUME NEW s \in Seq(Leaf), NEW t \in Seq(Leaf), mth[s] = mth[t]
    PROVE  /\ Len(s) = 0 => Len(t) = 0
           /\ Len(s) = 1 => Len(t) = 1
           /\ Len(s) > 1 => Len(t) > 1
<1>1. PICK r : r = mth[s] /\ r = mth[t]
  OBVIOUS
<1>2. /\ Len(t) = 0 \/ Len(t) = 1 \/ Len(t) > 1
      /\ Len(t) = 0 => r = EmptyRoot
      /\ Len(t) = 1 => r = hashLeaf(t[1])
      /\ Len(t) > 1 => \E a, b : r = hashNode(a, b)
  BY <1>1, mthKinds
<1>3. /\ Len(s) = 0 => r = EmptyRoot
      /\ Len(s) = 1 => r = hashLeaf(s[1])
      /\ Len(s) > 1 => \E a, b : r = hashNode(a, b)
  BY <1>1, mthKinds
<1> QED
  BY <1>2, <1>3 DEF EmptyRoot, hashLeaf, hashNode

\* A tree is known by its halves.
LEMMA HalvesGlue ==
    ASSUME NEW s, NEW k, NEW l, NEW t, Halved(s, k, l, t), NEW s2, NEW k2, Halved(s2, k2, l, t)
    PROVE  s = s2
<1>1. /\ s \in Seq(Leaf) /\ Len(s) \in Nat /\ k \in Nat /\ k < Len(s) /\ Len(l) = k /\ Len(t) = Len(s) - k
      /\ \A i \in 1..k : l[i] = s[i]
      /\ \A i \in 1..(Len(s) - k) : t[i] = s[k + i]
  BY HalvedFacts
<1>2. /\ s2 \in Seq(Leaf) /\ Len(s2) \in Nat /\ Len(l) = k2 /\ Len(t) = Len(s2) - k2
      /\ \A i \in 1..k2 : l[i] = s2[i]
      /\ \A i \in 1..(Len(s2) - k2) : t[i] = s2[k2 + i]
  BY HalvedFacts
<1>3. k = k2 /\ Len(s) = Len(s2)
  BY <1>1, <1>2
<1>4. ASSUME NEW i \in 1..Len(s)
      PROVE  s[i] = s2[i]
  <2>1. CASE i <= k
    <3>1. i \in 1..k
      BY <1>1, <2>1
    <3> QED
      BY <1>1, <1>2, <1>3, <3>1
  <2>2. CASE i > k
    <3>1. PICK j \in 1..(Len(s) - k) : k + j = i
      <4>1. i - k \in 1..(Len(s) - k) /\ k + (i - k) = i
        BY <1>1, <2>2
      <4> QED
        BY <4>1
    <3>2. t[j] = s[k + j] /\ t[j] = s2[k + j]
      BY <1>1, <1>2, <1>3
    <3> QED
      BY <3>1, <3>2
  <2> QED
    BY <1>1, <2>1, <2>2
<1> QED
  BY <1>1, <1>2, <1>3, <1>4, SeqEqual

\* Two trees with one root are one tree, by induction on the size.
LEMMA mthInjective ==
    \A n \in Nat : \A s, t \in Seq(Leaf) : Len(s) = n /\ mth[s] = mth[t] => s = t
<1> DEFINE S == {n \in Nat : \A s, t \in Seq(Leaf) : Len(s) = n /\ mth[s] = mth[t] => s = t}
<1>1. ASSUME NEW n \in Nat, \A k \in Nat : k < n => k \in S
      PROVE  n \in S
  <2>a. SUFFICES ASSUME NEW s \in Seq(Leaf), NEW t \in Seq(Leaf), Len(s) = n, mth[s] = mth[t]
                 PROVE  s = t
    BY DEF S
  <2>1. CASE Len(s) = 0
    <3>1. Len(t) = 0
      BY <2>a, <2>1, SameKind
    <3> QED
      BY <2>1, <3>1, mthKinds
  <2>2. CASE Len(s) = 1
    <3>1. Len(t) = 1
      BY <2>a, <2>2, SameKind
    <3>2. hashLeaf(s[1]) = hashLeaf(t[1])
      BY <2>a, <2>2, <3>1, mthOne
    <3>3. s[1] = t[1]
      BY <3>2 DEF hashLeaf
    <3>4. \A i \in 1..Len(s) : s[i] = t[i]
      BY <2>2, <3>3
    <3> QED
      BY <2>2, <3>1, <3>4, SeqEqual
  <2>3. CASE Len(s) > 1
    <3>1. Len(t) > 1
      BY <2>a, <2>3, SameKind
    <3>2. PICK k, l, r : Halved(s, k, l, r) /\ mth[s] = hashNode(mth[l], mth[r])
      BY <2>3, mthKinds
    <3>3. PICK k2, l2, r2 : Halved(t, k2, l2, r2) /\ mth[t] = hashNode(mth[l2], mth[r2])
      BY <3>1, mthKinds
    <3>4. mth[l] = mth[l2] /\ mth[r] = mth[r2]
      <4>1. hashNode(mth[l], mth[r]) = hashNode(mth[l2], mth[r2])
        BY <2>a, <3>2, <3>3
      <4> QED
        BY <4>1 DEF hashNode
    <3>5. /\ k \in Nat /\ k < n /\ n - k \in Nat /\ n - k < n /\ Len(l) = k /\ Len(r) = n - k
          /\ l \in Seq(Leaf) /\ r \in Seq(Leaf) /\ l2 \in Seq(Leaf) /\ r2 \in Seq(Leaf)
      <4>1. /\ k \in Nat /\ 1 <= k /\ k < n /\ n - k \in Nat /\ Len(l) = k /\ Len(r) = n - k
            /\ l \in Seq(Leaf) /\ r \in Seq(Leaf)
        BY <2>a, <3>2, HalvedFacts
      <4>2. l2 \in Seq(Leaf) /\ r2 \in Seq(Leaf)
        BY <3>3, HalvedFacts
      <4> QED
        BY <4>1, <4>2
    <3>6. k \in S /\ n - k \in S
      BY <1>1, <3>5
    <3>7. l = l2 /\ r = r2
      BY <3>4, <3>5, <3>6
    <3> QED
      BY <3>2, <3>3, <3>7, HalvesGlue
  <2> QED
    BY <2>1, <2>2, <2>3, mthKinds
<1> HIDE DEF S
<1>2. \A n \in Nat : n \in S
  BY <1>1, StrongInduction
<1> QED
  BY <1>2 DEF S

\* Two trees with one root are one tree.
LEMMA RootIsTree ==
    ASSUME NEW s \in Seq(Leaf), NEW t \in Seq(Leaf), mth[s] = mth[t]
    PROVE  s = t
<1>1. Len(s) \in Nat
  OBVIOUS
<1> QED
  BY <1>1, mthInjective

\* Comparable trees of one size are one tree.
LEMMA EqualLength ==
    ASSUME NEW s \in Seq(Leaf), NEW t \in Seq(Leaf), Len(s) = Len(t), Comparable(t, s)
    PROVE  s = t
<1>1. s # NoView /\ t # NoView
  BY NoViewAssumption DEF TreeHead
<1>2. \A i \in 1..Len(s) : s[i] = t[i]
  BY <1>1 DEF Comparable, Extends
<1> QED
  BY <1>2, SeqEqual

\* A consistency proof is a sequence of roots.
LEMMA ConsistencyProofIsSeq ==
    ASSUME NEW t \in Seq(Leaf), NEW m \in Nat, m <= Len(t)
    PROVE  ConsistencyProof(t, m) \in Seq(Root)
<1>1. CASE m \in {0, Len(t)}
  BY <1>1 DEF ConsistencyProof
<1>2. CASE m \notin {0, Len(t)}
  <2>1. ConsistencyProof(t, m) = Outer(t, m)
    BY <1>2 DEF ConsistencyProof, Outer
  <2>2. Within(m, Len(t))
    <3>1. Len(t) \in Nat /\ m # 0 /\ m # Len(t)
      BY <1>2
    <3> QED
      BY <3>1 DEF Within
  <2>3. SubproofWorks(t, m)
    BY <2>2, SubproofVerifies
  <2> QED
    BY <2>1, <2>3 DEF SubproofWorks, Accepted
<1> QED
  BY <1>1, <1>2

-----------------------------------------------------------------------------
(* A proof that another log serves. *)

\* A power of two within a tree is within its left half.
LEMMA Pow2InHalf ==
    ASSUME NEW n \in Nat, NEW m \in 1..(n - 1), NEW k, k = largestPow2Below(n), m \in Pow2
    PROVE  m <= k
<1>1. m \in Nat /\ n > 1
  OBVIOUS
<1>2. k \in Pow2 /\ k \in Nat /\ 1 <= k /\ k < n /\ n <= 2 * k
  BY <1>1, Split
<1>3. SUFFICES ASSUME m > k PROVE FALSE
  BY <1>1, <1>2
<1>4. m < 2 * k /\ k < 2 * m
  BY <1>1, <1>2, <1>3
<1>5. m = k
  BY <1>2, <1>4, Pow2Unique
<1> QED
  BY <1>1, <1>2, <1>3, <1>5

\* Where the check starts in a half and in the whole.
LEMMA StripOnesHalves ==
    ASSUME NEW n \in Nat, NEW m \in 1..(n - 1), NEW k, k = largestPow2Below(n)
    PROVE  /\ m <= k => Strip(1)[m - 1][n - 1][1] = Strip(1)[m - 1][k - 1][1]
           /\ m > k => Strip(1)[m - 1][n - 1][1] # 0
<1>1. n > 1
  OBVIOUS
<1>2. k \in Pow2 /\ k \in Nat /\ 1 <= k /\ k < n /\ n <= 2 * k
  BY <1>1, Split
<1>3. ASSUME m <= k
      PROVE  Strip(1)[m - 1][n - 1][1] = Strip(1)[m - 1][k - 1][1]
  <2>1. m - 1 \in Nat /\ n - 1 \in Nat /\ m - 1 < k /\ k <= n - 1 /\ n - 1 < 2 * k
    BY <1>2, <1>3
  <2>2. LeftStripped(m - 1, k, n - 1)
    BY <1>2, <2>1, StripOnesLeft
  <2> QED
    BY <2>2 DEF LeftStripped
<1>4. ASSUME m > k
      PROVE  Strip(1)[m - 1][n - 1][1] # 0
  <2>1. PICK f \in Nat, e \in Nat :
            f <= e /\ e < k /\ f + 1 < k /\ k + f = m - 1 /\ k + e = n - 1
    <3>1. m - k - 1 \in Nat /\ n - k - 1 \in Nat
      BY <1>2, <1>4
    <3> QED
      BY <1>2, <1>4, <3>1
  <2>2. RightStripped(f, k, e)
    BY <1>2, <2>1, StripOnesRight
  <2>3. PICK J \in Pow2, x, y \in Nat : Strip(1)[k + f][k + e] = <<J + x, J + y>>
    BY <2>2 DEF RightStripped
  <2>4. J \in Nat /\ J >= 1
    BY Pow2Cases
  <2>5. <<J + x, J + y>>[1] # 0
    BY <2>4
  <2> QED
    BY <2>1, <2>3, <2>5
<1> QED
  BY <1>3, <1>4

\* The loop starts with the old root exactly when the old tree is complete.
LEMMA StripToZero ==
    \A n \in Nat : \A m \in Nat : Within(m, n) => (Strip(1)[m - 1][n - 1][1] = 0 <=> m \in Pow2)
<1> DEFINE S == {n \in Nat : \A m \in Nat : Within(m, n) => (Strip(1)[m - 1][n - 1][1] = 0 <=> m \in Pow2)}
<1>1. ASSUME NEW n \in Nat, \A k \in Nat : k < n => k \in S
      PROVE  n \in S
  <2>a. SUFFICES ASSUME NEW m \in Nat, Within(m, n)
                 PROVE  Strip(1)[m - 1][n - 1][1] = 0 <=> m \in Pow2
    BY DEF S
  <2>1. CASE m = n
    <3>1. n \in Pow2
      BY <2>a, <2>1 DEF Within
    <3>2. Strip(1)[n - 1][n - 1] = <<0, 0>>
      BY <3>1, StripOnesFull
    <3> QED
      BY <2>1, <3>1, <3>2
  <2>2. CASE m # n
    <3>1. m \in 1..(n - 1)
      BY <2>a, <2>2 DEF Within
    <3>2. PICK k : k = largestPow2Below(n)
      OBVIOUS
    <3>3. k \in Nat /\ k < n /\ (m <= k => Within(m, k))
      BY <3>1, <3>2, WithinSplit
    <3>4. CASE m <= k
      <4>1. k \in S
        BY <1>1, <3>3
      <4>2. Strip(1)[m - 1][k - 1][1] = 0 <=> m \in Pow2
        BY <3>3, <3>4, <4>1
      <4>3. Strip(1)[m - 1][n - 1][1] = Strip(1)[m - 1][k - 1][1]
        BY <3>1, <3>2, <3>4, StripOnesHalves
      <4> QED
        BY <4>2, <4>3
    <3>5. CASE m > k
      <4>1. Strip(1)[m - 1][n - 1][1] # 0
        BY <3>1, <3>2, <3>5, StripOnesHalves
      <4>2. m \notin Pow2
        <5>1. ~ m <= k
          BY <3>3, <3>5
        <5> QED
          BY <3>1, <3>2, <5>1, Pow2InHalf
      <4> QED
        BY <4>1, <4>2
    <3> QED
      BY <3>3, <3>4, <3>5
  <2> QED
    BY <2>1, <2>2
<1> HIDE DEF S
<1>2. \A n \in Nat : n \in S
  BY <1>1, StrongInduction
<1> QED
  BY <1>2 DEF S

-----------------------------------------------------------------------------
(* The size of the tree that a proof leads to. *)

\* The loop can take h and the hashes of P from idx to N to the root of u.
Reaches(h, P, idx, N, u) ==
    \E m, n \in Nat : \E old : Within(m, n) /\ Joins(m, n, h, P, idx, N, old, mth[u])

\* A root that is a node is the root of a tree with two halves.
LEMMA NodeIsHalved ==
    ASSUME NEW u \in Seq(Leaf), NEW a, NEW b, mth[u] = hashNode(a, b)
    PROVE  \E k, l, t : Halved(u, k, l, t) /\ a = mth[l] /\ b = mth[t]
<1>1. Len(u) # 0 /\ Len(u) # 1
  <2>1. /\ Len(u) = 0 => mth[u] = EmptyRoot
        /\ Len(u) = 1 => mth[u] = hashLeaf(u[1])
    BY mthKinds
  <2> QED
    BY <2>1, HashesFree
<1>2. Len(u) > 1
  BY <1>1, mthKinds
<1>3. PICK k, l, t : Halved(u, k, l, t) /\ mth[u] = hashNode(mth[l], mth[t])
  BY <1>2, mthKinds
<1>4. hashNode(a, b) = hashNode(mth[l], mth[t])
  BY <1>3
<1>5. a = mth[l] /\ b = mth[t]
  BY <1>4 DEF hashNode
<1> QED
  BY <1>3, <1>5

\* The sizes of the halves add up.
LEMMA HalvedLengths ==
    ASSUME NEW s, NEW k, NEW l, NEW t, Halved(s, k, l, t)
    PROVE  /\ l \in Seq(Leaf) /\ t \in Seq(Leaf)
           /\ Len(s) = Len(l) + Len(t) /\ Len(s) = Len(t) + Len(l)
BY HalvedFacts

\* The last hash of a proof is the root of a half of the tree it leads to.
LEMMA ReachesStep ==
    ASSUME NEW h, NEW P, NEW idx \in Nat, NEW N \in Nat, N >= idx, NEW u \in Seq(Leaf),
           Reaches(h, P, idx, N, u)
    PROVE  /\ N = idx => mth[u] = h
           /\ N > idx => \E w, c \in Seq(Leaf) :
                            /\ Reaches(h, P, idx, N - 1, w)
                            /\ P[N] = mth[c] /\ Len(u) = Len(w) + Len(c)
<1>1. PICK m, n \in Nat : \E old : Within(m, n) /\ Joins(m, n, h, P, idx, N, old, mth[u])
  BY DEF Reaches
<1>2. PICK old : Within(m, n) /\ Joins(m, n, h, P, idx, N, old, mth[u])
  BY <1>1
<1>3. CASE m = n
  <2>1. n \in Pow2
    BY <1>2, <1>3 DEF Within
  <2>2. N = idx /\ mth[u] = h
    BY <1>2, <1>3, <2>1, JoinsFull
  <2> QED
    BY <2>2
<1>4. CASE m # n
  <2>1. m \in 1..(n - 1)
    BY <1>2, <1>4 DEF Within
  <2>2. PICK k : k = largestPow2Below(n)
    OBVIOUS
  <2>3. k \in Nat /\ n - k \in Nat /\ (m <= k => Within(m, k)) /\ (m > k => Within(m - k, n - k))
    BY <2>1, <2>2, WithinSplit
  <2>4. CASE m <= k
    <3>0. PICK r : r = mth[u] /\ Joins(m, n, h, P, idx, N, old, r)
      BY <1>2
    <3>1. N > idx /\ \E q : Joins(m, k, h, P, idx, N - 1, old, q) /\ r = hashNode(q, P[N])
      <4>1. JoinsBefore(m, k, h, P, idx, N, old, r)
        BY <2>1, <2>2, <2>4, <3>0, JoinsLeft
      <4> QED
        BY <4>1 DEF JoinsBefore
    <3>2. PICK q : Joins(m, k, h, P, idx, N - 1, old, q) /\ mth[u] = hashNode(q, P[N])
      BY <3>0, <3>1
    <3>3. PICK j, w, c : Halved(u, j, w, c) /\ q = mth[w] /\ P[N] = mth[c]
      BY <3>2, NodeIsHalved
    <3>4. Reaches(h, P, idx, N - 1, w)
      BY <2>3, <2>4, <3>2, <3>3 DEF Reaches
    <3>5. w \in Seq(Leaf) /\ c \in Seq(Leaf) /\ Len(u) = Len(w) + Len(c)
      BY <3>3, HalvedLengths
    <3> QED
      BY <3>1, <3>3, <3>4, <3>5
  <2>5. CASE m > k
    <3>1. JoinsAfter(m - k, n - k, h, P, idx, N, old, mth[u])
      BY <1>2, <2>1, <2>2, <2>5, JoinsRight
    <3>2. N > idx
      BY <3>1 DEF JoinsAfter
    <3>3. PICK o, q : Joins(m - k, n - k, h, P, idx, N - 1, o, q) /\ mth[u] = hashNode(P[N], q)
      BY <3>1 DEF JoinsAfter
    <3>4. PICK j, c, w : Halved(u, j, c, w) /\ P[N] = mth[c] /\ q = mth[w]
      BY <3>3, NodeIsHalved
    <3>5. m - k \in Nat
      BY <2>3, <2>5
    <3>6. Reaches(h, P, idx, N - 1, w)
      BY <2>3, <2>5, <3>3, <3>4, <3>5 DEF Reaches
    <3>7. w \in Seq(Leaf) /\ c \in Seq(Leaf) /\ Len(u) = Len(w) + Len(c)
      BY <3>4, HalvedLengths
    <3> QED
      BY <3>2, <3>4, <3>6, <3>7
  <2> QED
    BY <2>3, <2>4, <2>5
<1> QED
  BY <1>3, <1>4

\* Two hashes are the roots of trees of the same size.
AlikeIn(h, g, a, b) == a \in Seq(Leaf) /\ b \in Seq(Leaf) /\ Len(a) = Len(b) /\ h = mth[a] /\ g = mth[b]

Alike(h, g) == \E a, b : AlikeIn(h, g, a, b)

\* The hashes of a proof fix the size of the tree they lead to.
LEMMA SameWeight ==
    ASSUME NEW P, NEW idx \in Nat, NEW h, NEW g, Alike(h, g),
           NEW M \in Nat, M >= idx, NEW y \in Seq(Leaf), NEW z \in Seq(Leaf),
           Reaches(h, P, idx, M, y), Reaches(g, P, idx, M, z)
    PROVE  Len(y) = Len(z)
<1>0. PICK a, b : AlikeIn(h, g, a, b)
  BY DEF Alike
<1>a. a \in Seq(Leaf) /\ b \in Seq(Leaf) /\ Len(a) = Len(b) /\ h = mth[a] /\ g = mth[b]
  BY <1>0 DEF AlikeIn
<1> DEFINE S == {d \in Nat : \A u, v \in Seq(Leaf) :
                     Reaches(h, P, idx, idx + d, u) /\ Reaches(g, P, idx, idx + d, v) =>
                         Len(u) = Len(v)}
<1>1. 0 \in S
  <2>a. SUFFICES ASSUME NEW u \in Seq(Leaf), NEW v \in Seq(Leaf),
                        Reaches(h, P, idx, idx + 0, u), Reaches(g, P, idx, idx + 0, v)
                 PROVE  Len(u) = Len(v)
    BY DEF S
  <2>1. idx + 0 = idx /\ idx >= idx
    OBVIOUS
  <2>2. mth[u] = h /\ mth[v] = g
    BY <2>a, <2>1, ReachesStep
  <2>3. u = a /\ v = b
    BY <1>a, <2>2, RootIsTree
  <2> QED
    BY <1>a, <2>3
<1>2. ASSUME NEW d \in Nat, d \in S
      PROVE  d + 1 \in S
  <2>a. SUFFICES ASSUME NEW u \in Seq(Leaf), NEW v \in Seq(Leaf),
                        Reaches(h, P, idx, idx + (d + 1), u),
                        Reaches(g, P, idx, idx + (d + 1), v)
                 PROVE  Len(u) = Len(v)
    BY DEF S
  <2>1. PICK N \in Nat : N = idx + (d + 1) /\ N > idx /\ N >= idx /\ N - 1 = idx + d
    OBVIOUS
  <2>2. Reaches(h, P, idx, N, u) /\ Reaches(g, P, idx, N, v)
    BY <2>a, <2>1
  <2>3. PICK w, c \in Seq(Leaf) : /\ Reaches(h, P, idx, N - 1, w)
                                  /\ P[N] = mth[c] /\ Len(u) = Len(w) + Len(c)
    BY <2>1, <2>2, ReachesStep
  <2>4. PICK w2, c2 \in Seq(Leaf) : /\ Reaches(g, P, idx, N - 1, w2)
                                    /\ P[N] = mth[c2] /\ Len(v) = Len(w2) + Len(c2)
    BY <2>1, <2>2, ReachesStep
  <2>5. c = c2
    BY <2>3, <2>4, RootIsTree
  <2>6. Len(w) = Len(w2)
    BY <1>2, <2>1, <2>3, <2>4
  <2> QED
    BY <2>3, <2>4, <2>5, <2>6
<1> HIDE DEF S
<1>3. \A d \in Nat : d \in S
  BY <1>1, <1>2, Induction
<1>4. PICK d \in Nat : M = idx + d
  <2>1. M - idx \in Nat /\ M = idx + (M - idx)
    OBVIOUS
  <2> QED
    BY <2>1
<1>5. d \in S
  BY <1>3
<1>6. Reaches(h, P, idx, idx + d, y) /\ Reaches(g, P, idx, idx + d, z)
  BY <1>4
<1> QED
  BY <1>5, <1>6 DEF S

-----------------------------------------------------------------------------
(* The leaves that a proof from a complete old tree covers. *)

\* The loop over P can end in the root of u, with sizes m and n.
Onto(m, n, P, idx, N, u) == \E h, old : Joins(m, n, h, P, idx, N, old, mth[u])

\* The last hash is the right half of u, and the loop ends in the left one before.
OntoHalf(m, k, P, idx, N, u) ==
    N > idx /\ \E l, t : Halved(u, k, l, t) /\ Onto(m, k, P, idx, N - 1, l) /\ P[N] = mth[t]

\* That is so whenever the old tree ends in the left half.
LEMMA OntoLeft ==
    ASSUME NEW n \in Nat, NEW m \in 1..(n - 1), NEW k, k = largestPow2Below(n), m <= k,
           NEW P, NEW idx \in Nat, NEW N \in Nat, N >= idx, NEW u \in Seq(Leaf), Len(u) = n,
           Onto(m, n, P, idx, N, u)
    PROVE  OntoHalf(m, k, P, idx, N, u)
<1>1. PICK h, old, r : r = mth[u] /\ Joins(m, n, h, P, idx, N, old, r)
  BY DEF Onto
<1>2. N > idx /\ \E q : Joins(m, k, h, P, idx, N - 1, old, q) /\ r = hashNode(q, P[N])
  <2>1. JoinsBefore(m, k, h, P, idx, N, old, r)
    BY <1>1, JoinsLeft
  <2> QED
    BY <2>1 DEF JoinsBefore
<1>3. PICK q : Joins(m, k, h, P, idx, N - 1, old, q) /\ mth[u] = hashNode(q, P[N])
  BY <1>1, <1>2
<1>4. PICK j, l, t : Halved(u, j, l, t) /\ q = mth[l] /\ P[N] = mth[t]
  BY <1>3, NodeIsHalved
<1>5. j = k
  BY <1>4, HalvedFacts
<1>6. Onto(m, k, P, idx, N - 1, l)
  BY <1>3, <1>4 DEF Onto
<1> QED
  BY <1>2, <1>4, <1>5, <1>6 DEF OntoHalf

\* From a complete old tree the proof covers every later leaf, and no earlier one.
LEMMA SameTail ==
    ASSUME NEW idx \in Nat, NEW P
    PROVE  \A n \in Nat : \A m, N \in Nat : \A u, v \in Seq(Leaf) :
               /\ N >= idx /\ Within(m, n) /\ m \in Pow2 /\ Len(u) = n /\ Len(v) = n
               /\ Onto(m, n, P, idx, N, u) /\ Onto(m, n, P, idx, N, v)
               => \A i \in (m + 1)..n : u[i] = v[i]
<1> DEFINE T(n) == \A m, N \in Nat : \A u, v \in Seq(Leaf) :
                      /\ N >= idx /\ Within(m, n) /\ m \in Pow2 /\ Len(u) = n /\ Len(v) = n
                      /\ Onto(m, n, P, idx, N, u) /\ Onto(m, n, P, idx, N, v)
                      => \A i \in (m + 1)..n : u[i] = v[i]
           S == {n \in Nat : T(n)}
<1>1. ASSUME NEW n \in Nat, \A k \in Nat : k < n => k \in S
      PROVE  n \in S
  <2>a. SUFFICES ASSUME NEW m \in Nat, NEW N \in Nat, NEW u \in Seq(Leaf), NEW v \in Seq(Leaf),
                        N >= idx, Within(m, n), m \in Pow2, Len(u) = n, Len(v) = n,
                        Onto(m, n, P, idx, N, u), Onto(m, n, P, idx, N, v),
                        NEW i \in (m + 1)..n
                 PROVE  u[i] = v[i]
    BY DEF S
  <2>1. m \in 1..(n - 1) /\ n > 1
    BY <2>a DEF Within
  <2>2. PICK k : k = largestPow2Below(n)
    OBVIOUS
  <2>3. k \in Nat /\ k < n /\ m <= k /\ Within(m, k)
    <3>1. m <= k
      BY <2>a, <2>1, <2>2, Pow2InHalf
    <3> QED
      BY <2>1, <2>2, <3>1, WithinSplit
  <2>0. OntoHalf(m, k, P, idx, N, u) /\ OntoHalf(m, k, P, idx, N, v)
    BY <2>a, <2>1, <2>2, <2>3, OntoLeft
  <2>4. PICK l, t : Halved(u, k, l, t) /\ Onto(m, k, P, idx, N - 1, l) /\ P[N] = mth[t]
    BY <2>0 DEF OntoHalf
  <2>5. PICK l2, t2 : Halved(v, k, l2, t2) /\ Onto(m, k, P, idx, N - 1, l2) /\ P[N] = mth[t2]
    BY <2>0 DEF OntoHalf
  <2>6. N > idx
    BY <2>0 DEF OntoHalf
  <2>12. /\ l \in Seq(Leaf) /\ t \in Seq(Leaf) /\ Len(l) = k
         /\ \A x \in 1..k : l[x] = u[x]
         /\ \A x \in 1..(n - k) : t[x] = u[k + x]
    BY <2>a, <2>4, HalvedFacts
  <2>13. /\ l2 \in Seq(Leaf) /\ t2 \in Seq(Leaf) /\ Len(l2) = k
         /\ \A x \in 1..k : l2[x] = v[x]
         /\ \A x \in 1..(n - k) : t2[x] = v[k + x]
    BY <2>a, <2>5, HalvedFacts
  <2>14. t = t2
    BY <2>4, <2>5, <2>12, <2>13, RootIsTree
  <2>15. CASE i <= k
    <3>1. i \in (m + 1)..k /\ i \in 1..k
      BY <2>3, <2>15
    <3>2. T(k)
      BY <1>1, <2>3 DEF S
    <3>3. PICK M \in Nat : M = N - 1 /\ M >= idx
      BY <2>6
    <3>5. Onto(m, k, P, idx, M, l) /\ Onto(m, k, P, idx, M, l2)
      BY <2>4, <2>5, <3>3
    <3> HIDE DEF T
    <3>6. /\ l \in Seq(Leaf) /\ l2 \in Seq(Leaf) /\ Len(l) = k /\ Len(l2) = k
          /\ Within(m, k) /\ m \in Pow2
      BY <2>a, <2>3, <2>12, <2>13
    <3>4. l[i] = l2[i]
      BY <3>1, <3>2, <3>3, <3>5, <3>6 DEF T
    <3> QED
      BY <2>12, <2>13, <3>1, <3>4
  <2>16. CASE i > k
    <3>1. PICK x \in 1..(n - k) : k + x = i
      <4>1. i - k \in 1..(n - k) /\ k + (i - k) = i
        BY <2>3, <2>16
      <4> QED
        BY <4>1
    <3>2. t[x] = u[k + x] /\ t[x] = v[k + x]
      BY <2>12, <2>13, <2>14
    <3> QED
      BY <3>1, <3>2
  <2> QED
    BY <2>3, <2>15, <2>16
<1> HIDE DEF S
<1>2. \A n \in Nat : n \in S
  BY <1>1, StrongInduction
<1> QED
  BY <1>2 DEF S

\* From a complete old tree the log's proof depends on the later leaves only.
LEMMA OuterSame ==
    \A n \in Nat : \A m \in Nat : \A u, v \in Seq(Leaf) :
        /\ Within(m, n) /\ m \in Pow2 /\ Len(u) = n /\ Len(v) = n
        /\ \A i \in (m + 1)..n : u[i] = v[i]
        => Outer(u, m) = Outer(v, m)
<1> DEFINE T(n) == \A m \in Nat : \A u, v \in Seq(Leaf) :
                      /\ Within(m, n) /\ m \in Pow2 /\ Len(u) = n /\ Len(v) = n
                      /\ \A i \in (m + 1)..n : u[i] = v[i]
                      => Outer(u, m) = Outer(v, m)
           S == {n \in Nat : T(n)}
<1>1. ASSUME NEW n \in Nat, \A k \in Nat : k < n => k \in S
      PROVE  n \in S
  <2>a. SUFFICES ASSUME NEW m \in Nat, NEW u \in Seq(Leaf), NEW v \in Seq(Leaf),
                        Within(m, n), m \in Pow2, Len(u) = n, Len(v) = n,
                        \A i \in (m + 1)..n : u[i] = v[i]
                 PROVE  Outer(u, m) = Outer(v, m)
    BY DEF S
  <2>1. CASE m = n
    <3>1. m >= 1
      BY <2>a DEF Within
    <3> QED
      BY <2>a, <2>1, <3>1, subproofWhole
  <2>2. CASE m # n
    <3>1. m \in 1..(n - 1) /\ n > 1
      BY <2>a, <2>2 DEF Within
    <3>2. PICK k, l, t : Halved(u, k, l, t)
      BY <2>a, <3>1, HalvedExists
    <3>3. PICK k2, l2, t2 : Halved(v, k2, l2, t2)
      BY <2>a, <3>1, HalvedExists
    <3>4. /\ k = largestPow2Below(n) /\ k \in Nat /\ k < n /\ n - k \in Nat
          /\ l \in Seq(Leaf) /\ t \in Seq(Leaf) /\ Len(l) = k /\ Len(t) = n - k
          /\ \A x \in 1..k : l[x] = u[x]
          /\ \A x \in 1..(n - k) : t[x] = u[k + x]
      BY <2>a, <3>2, HalvedFacts
    <3>5. /\ k2 = k /\ l2 \in Seq(Leaf) /\ t2 \in Seq(Leaf) /\ Len(l2) = k /\ Len(t2) = n - k
          /\ \A x \in 1..k : l2[x] = v[x]
          /\ \A x \in 1..(n - k) : t2[x] = v[k + x]
      BY <2>a, <3>3, <3>4, HalvedFacts
    <3>6. m <= k
      BY <2>a, <3>1, <3>4, Pow2InHalf
    <3>7. Within(m, k)
      BY <3>1, <3>4, <3>6, WithinSplit
    <3>8. t = t2
      <4>1. ASSUME NEW x \in 1..(n - k)
            PROVE  t[x] = t2[x]
        <5>1. k + x \in (m + 1)..n
          BY <3>4, <3>6
        <5>2. t[x] = u[k + x] /\ t2[x] = v[k + x]
          BY <3>4, <3>5
        <5> QED
          BY <2>a, <5>1, <5>2
      <4> QED
        BY <3>4, <3>5, <4>1, SeqEqual
    <3>9. ASSUME NEW x \in (m + 1)..k
          PROVE  l[x] = l2[x]
      <4>1. x \in (m + 1)..n /\ x \in 1..k
        BY <3>4
      <4>2. l[x] = u[x] /\ l2[x] = v[x]
        BY <3>4, <3>5, <4>1
      <4> QED
        BY <2>a, <4>1, <4>2
    <3>10. T(k)
      BY <1>1, <3>4 DEF S
    <3> HIDE DEF T
    <3>11. Outer(l, m) = Outer(l2, m)
      BY <2>a, <3>4, <3>5, <3>7, <3>9, <3>10 DEF T
    <3>12. m \in 1..(Len(u) - 1) /\ m \in 1..(Len(v) - 1)
      BY <2>a, <3>1
    <3>13. Outer(u, m) = Append(Outer(l, m), mth[t])
      BY <3>2, <3>6, <3>12, subproofSplit
    <3>14. Outer(v, m) = Append(Outer(l2, m), mth[t2])
      <4>1. Halved(v, k, l2, t2)
        BY <3>3, <3>5
      <4> QED
        BY <4>1, <3>6, <3>12, subproofSplit
    <3> QED
      BY <3>8, <3>11, <3>13, <3>14
  <2> QED
    BY <2>1, <2>2
<1> HIDE DEF S
<1>2. \A n \in Nat : n \in S
  BY <1>1, StrongInduction
<1> QED
  BY <1>2 DEF S

-----------------------------------------------------------------------------
(* ProofVerifies. *)

\* The test for a power of two that the witnesses' model uses.
LEMMA PowerOfTwoIsPow2 ==
    ASSUME NEW n \in Nat
    PROVE  PowerOfTwo(n) <=> n \in Pow2
<1>1. ASSUME n \in Pow2
      PROVE  PowerOfTwo(n)
  <2>1. PICK i \in Nat : n = pow2[i]
    BY <1>1 DEF Pow2
  <2>2. i \in 0..n
    BY <2>1, pow2Grows
  <2> QED
    BY <2>1, <2>2 DEF PowerOfTwo
<1> QED
  BY <1>1 DEF PowerOfTwo, Pow2

\* Where VerifyConsistency starts its loop.
First0(P, m, old) == IF m \in Pow2 THEN old ELSE P[1]

\* How many hashes are used before the loop.
Skip(m) == IF m \in Pow2 THEN 0 ELSE 1

\* What VerifyConsistency accepts, in terms of the loop.
LEMMA VerifiedJoins ==
    ASSUME NEW m \in Nat, NEW n \in Nat, 0 < m, m < n, NEW H, NEW P \in Seq(H), NEW old, NEW new,
           VerifyConsistency(m, n, P, old, new)
    PROVE  Len(P) >= Skip(m) /\ Joins(m, n, First0(P, m, old), P, Skip(m), Len(P), old, new)
<1>1. PICK at : at = Strip(1)[m - 1][n - 1]
  OBVIOUS
<1>2. PICK end : end = Ascend(m, n, P, old)
  OBVIOUS
<1>3. end.sn = 0 /\ end.fr = old /\ end.sr = new
  BY <1>2 DEF VerifyConsistency
<1>4. PICK N \in Nat : N = Len(P)
  OBVIOUS
<1>5. at[1] = 0 <=> m \in Pow2
  BY <1>1, StripToZero DEF Within
<1>6. CASE m \in Pow2
  <2>1. end = Climb(Start(at, old, old), P, 0)[N]
    BY <1>1, <1>2, <1>4, <1>5, <1>6 DEF Ascend
  <2>2. Joins(m, n, old, P, 0, N, old, new)
    BY <1>1, <1>3, <2>1 DEF Joins
  <2>3. N >= 0
    OBVIOUS
  <2> QED
    BY <1>4, <1>6, <2>2, <2>3 DEF First0, Skip
<1>7. CASE m \notin Pow2 /\ P = <<>>
  <2>1. end = Start(<<0, -1>>, EmptyRoot, EmptyRoot)
    BY <1>1, <1>2, <1>5, <1>7 DEF Ascend
  <2>2. end.sn = -1
    BY <2>1, StartFields
  <2> QED
    BY <1>3, <2>2
<1>8. CASE m \notin Pow2 /\ P # <<>>
  <2>1. end = Climb(Start(at, P[1], P[1]), P, 1)[N]
    BY <1>1, <1>2, <1>4, <1>5, <1>8 DEF Ascend
  <2>2. Joins(m, n, P[1], P, 1, N, old, new)
    BY <1>1, <1>3, <2>1 DEF Joins
  <2>3. N >= 1
    <3>1. N # 0
      BY <1>4, <1>8, EmptySeq
    <3> QED
      BY <3>1
  <2> QED
    BY <1>4, <1>8, <2>2, <2>3 DEF First0, Skip
<1> QED
  BY <1>6, <1>7, <1>8

\* The log's own proof from m of its leaves, at any size it serves.
LEMMA ServedJoins ==
    ASSUME NEW s \in Seq(Leaf), NEW m \in Nat, 0 < m, m <= Len(s), NEW P, P = ConsistencyProof(s, m),
           m < Len(s) \/ m \in Pow2
    PROVE  /\ P \in Seq(Root) /\ Within(m, Len(s))
           /\ Len(P) >= Skip(m)
           /\ Joins(m, Len(s), First0(P, m, mth[First(s, m)]), P, Skip(m), Len(P), mth[First(s, m)], mth[s])
<1>1. PICK n \in Nat : n = Len(s)
  OBVIOUS
<1>2. Within(m, n)
  BY <1>1 DEF Within
<1>3. P = Outer(s, m)
  <2>1. CASE m = Len(s)
    <3>1. P = <<>>
      BY <2>1 DEF ConsistencyProof
    <3>2. m >= 1
      OBVIOUS
    <3> QED
      BY <2>1, <3>1, <3>2, subproofWhole
  <2>2. CASE m # Len(s)
    <3>1. ~ m \in {0, Len(s)}
      BY <2>2
    <3>2. P = Outer(s, m)
      BY <3>1 DEF ConsistencyProof, Outer
    <3> QED
      BY <3>2
  <2> QED
    BY <2>1, <2>2
<1>4. SubproofWorks(s, m)
  BY <1>1, <1>2, SubproofVerifies
<1>5. Strip(1)[m - 1][n - 1][1] = 0 <=> m \in Pow2
  BY <1>2, StripToZero
<1>6. Accepted(s, m, P, Skip(m))
  BY <1>1, <1>3, <1>4, <1>5 DEF SubproofWorks, Skip
<1>7. /\ P \in Seq(Root) /\ Len(P) >= Skip(m)
      /\ Joins(m, n, IF Skip(m) = 0 THEN mth[First(s, m)] ELSE P[1], P, Skip(m), Len(P),
               mth[First(s, m)], mth[s])
  BY <1>1, <1>6 DEF Accepted
<1>8. (IF Skip(m) = 0 THEN mth[First(s, m)] ELSE P[1]) = First0(P, m, mth[First(s, m)])
  BY DEF Skip, First0
<1> QED
  BY <1>1, <1>2, <1>7, <1>8

\* SameTail for one pair of trees.
LEMMA SameTailAt ==
    ASSUME NEW idx \in Nat, NEW P, NEW n \in Nat, NEW m \in Nat, NEW N \in Nat,
           NEW u \in Seq(Leaf), NEW v \in Seq(Leaf),
           N >= idx, Within(m, n), m \in Pow2, Len(u) = n, Len(v) = n,
           Onto(m, n, P, idx, N, u), Onto(m, n, P, idx, N, v), NEW i \in (m + 1)..n
    PROVE  u[i] = v[i]
BY SameTail

\* OuterSame for one pair of trees.
LEMMA OuterSameAt ==
    ASSUME NEW n \in Nat, NEW m \in Nat, NEW u \in Seq(Leaf), NEW v \in Seq(Leaf),
           Within(m, n), m \in Pow2, Len(u) = n, Len(v) = n,
           \A i \in (m + 1)..n : u[i] = v[i]
    PROVE  Outer(u, m) = Outer(v, m)
BY OuterSame

\* A log that serves an accepted proof has the size that was asked for, and the
\* leaves too: all of them, or from the end of a complete old tree on.
LEMMA ServedIsNew ==
    ASSUME NEW old \in Seq(Leaf), NEW new \in Seq(Leaf), NEW served \in Seq(Leaf),
           NEW m \in Nat, m = Len(old), 0 < m, m < Len(new), m <= Len(served),
           VerifyConsistency(m, Len(new), ConsistencyProof(served, m), mth[old], mth[new])
    PROVE  /\ Len(served) = Len(new)
           /\ m \notin Pow2 => served = new
           /\ m \in Pow2 => \A i \in (m + 1)..Len(new) : served[i] = new[i]
<1>1. PICK n, v \in Nat : n = Len(new) /\ v = Len(served)
  OBVIOUS
<1>2. PICK P : P = ConsistencyProof(served, m)
  OBVIOUS
<1>3. P \in Seq(Root)
  BY <1>2, ConsistencyProofIsSeq
<1>4. PICK idx \in Nat, N \in Nat : idx = Skip(m) /\ N = Len(P) /\ idx <= 1
  <2>1. Len(P) \in Nat
    BY <1>3
  <2>2. Skip(m) \in Nat /\ Skip(m) <= 1
    BY DEF Skip
  <2> QED
    BY <2>1, <2>2
<1>5. N >= idx /\ Joins(m, n, First0(P, m, mth[old]), P, idx, N, mth[old], mth[new])
  BY <1>1, <1>2, <1>3, <1>4, VerifiedJoins
<1>6. m < v \/ m \in Pow2
  <2>1. SUFFICES ASSUME m = v, m \notin Pow2 PROVE FALSE
    BY <1>1
  <2>2. P = <<>>
    BY <1>1, <1>2, <2>1 DEF ConsistencyProof
  <2>3. N = 0 /\ idx = 1
    BY <1>4, <2>1, <2>2 DEF Skip
  <2> QED
    BY <1>5, <2>3
<1>7. PICK o : o = First(served, m)
  OBVIOUS
<1>8. o \in Seq(Leaf) /\ Len(o) = m
  <2>1. m \in 0..Len(served)
    OBVIOUS
  <2> QED
    BY <1>7, <2>1, FirstRest
<1>9. Within(m, v) /\ Joins(m, v, First0(P, m, mth[o]), P, idx, N, mth[o], mth[served])
  BY <1>1, <1>2, <1>4, <1>6, <1>7, ServedJoins
<1>10. Within(m, n)
  BY <1>1 DEF Within
<1>12. CASE m \in Pow2
  <2>1. First0(P, m, mth[old]) = mth[old] /\ First0(P, m, mth[o]) = mth[o]
    BY <1>12 DEF First0
  <2>2. Reaches(mth[old], P, idx, N, new) /\ Reaches(mth[o], P, idx, N, served)
    BY <1>5, <1>9, <1>10, <2>1 DEF Reaches
  <2>3. n = v
    <3>1. Len(new) = Len(served)
      <4>1. Alike(mth[old], mth[o])
        BY <1>8 DEF Alike, AlikeIn
      <4> QED
        BY <1>5, <2>2, <4>1, SameWeight
    <3> QED
      BY <1>1, <3>1
  <2>4. Onto(m, n, P, idx, N, served) /\ Onto(m, n, P, idx, N, new)
    BY <1>5, <1>9, <2>3 DEF Onto
  <2>5. ASSUME NEW i \in (m + 1)..n
        PROVE  served[i] = new[i]
    <3>1. Len(served) = n /\ Len(new) = n
      BY <1>1, <2>3
    <3> QED
      BY <1>5, <1>10, <1>12, <2>4, <3>1, SameTailAt
  <2> QED
    BY <1>1, <1>12, <2>3, <2>5
<1>13. CASE m \notin Pow2
  <2>1. First0(P, m, mth[old]) = P[1] /\ First0(P, m, mth[o]) = P[1] /\ idx = 1
    BY <1>4, <1>13 DEF First0, Skip
  <2>2. PICK a \in Seq(Leaf) : P[1] = mth[a]
    <3>1. 1 \in 1..Len(P)
      BY <1>4, <1>5, <2>1
    <3>2. P[1] \in Root
      BY <1>3, <3>1
    <3> QED
      BY <3>2 DEF Root
  <2>3. Reaches(mth[a], P, idx, N, new) /\ Reaches(mth[a], P, idx, N, served)
    BY <1>5, <1>9, <1>10, <2>1, <2>2 DEF Reaches
  <2>4. n = v
    <3>1. Len(new) = Len(served)
      <4>1. Alike(mth[a], mth[a])
        BY DEF Alike, AlikeIn
      <4> QED
        BY <1>5, <2>3, <4>1, SameWeight
    <3> QED
      BY <1>1, <3>1
  <2>5. mth[new] = mth[served]
    BY <1>5, <1>9, <2>1, <2>4 DEF Joins
  <2>6. new = served
    BY <2>5, RootIsTree
  <2> QED
    BY <1>13, <2>6
<1> QED
  BY <1>12, <1>13

\* A bounded sequence is within its bound.
LEMMA BoundedLength ==
    ASSUME NEW S, NEW n \in Int, NEW p \in BoundedSeq(S, n)
    PROVE  Len(p) <= n
<1>1. PICK m \in 0..n : p \in [1..m -> S]
  BY DEF BoundedSeq, SeqOf
<1>2. m \in Nat /\ m <= n
  OBVIOUS
<1>3. p \in Seq(S) /\ Len(p) = m
  BY <1>1, <1>2
<1> QED
  BY <1>2, <1>3

\* ProofVerifies, which the witnesses' model uses for the outcome of a check, is what
\* VerifyConsistency answers to the proof that the served log computes.
THEOREM CheckIsExact ==
    ASSUME NEW old \in Seq(Leaf), NEW new \in Seq(Leaf), NEW served \in Seq(Leaf),
           Len(old) < Len(new), Len(old) <= Len(served)
    PROVE  ProofVerifies(old, new, served) <=>
               VerifyConsistency(Len(old), Len(new), ConsistencyProof(served, Len(old)), mth[old], mth[new])
<1>1. PICK m, n, v \in Nat : m = Len(old) /\ n = Len(new) /\ v = Len(served)
  OBVIOUS
<1>2. old # NoView
  BY NoViewAssumption DEF TreeHead
<1>3. PICK P : P = ConsistencyProof(served, m)
  OBVIOUS
<1>4. CASE m = 0
  <2>1. old = <<>>
    BY <1>1, <1>4, EmptySeq
  <2>2. mth[old] = EmptyRoot
    BY <2>1, mthDef DEF MthBody
  <2>3. P = <<>>
    BY <1>3, <1>4 DEF ConsistencyProof
  <2>4. VerifyConsistency(m, n, P, mth[old], mth[new])
    BY <1>1, <1>4, <2>2, <2>3 DEF VerifyConsistency
  <2>5. Extends(new, old)
    BY <1>1, <1>4 DEF Extends
  <2>6. ProofVerifies(old, new, served)
    BY <2>1, <2>5 DEF ProofVerifies
  <2> QED
    BY <1>1, <1>3, <2>4, <2>6
<1>5. CASE m # 0
  <2>1. old # <<>> /\ new # <<>> /\ 0 < m /\ m < n /\ m <= v
    BY <1>1, <1>5
  <2>2. ASSUME ProofVerifies(old, new, served)
        PROVE  VerifyConsistency(m, n, P, mth[old], mth[new])
    <3>1. /\ Extends(new, old) /\ v = n
          /\ \A i \in 1..n : served[i] = new[i] \/ (i <= m /\ PowerOfTwo(m))
      BY <1>1, <2>1, <2>2 DEF ProofVerifies
    <3>2. P = ConsistencyProof(new, m)
      <4>1. CASE m \in Pow2
        <5>1. \A i \in (m + 1)..n : served[i] = new[i]
          BY <2>1, <3>1
        <5>2. Within(m, n)
          BY <2>1 DEF Within
        <5>3. Outer(served, m) = Outer(new, m)
          <6>1. Len(served) = n /\ Len(new) = n
            BY <1>1, <3>1
          <6> QED
            BY <4>1, <5>1, <5>2, <6>1, OuterSameAt
        <5> QED
          BY <1>1, <1>3, <2>1, <3>1, <5>3 DEF ConsistencyProof, Outer
      <4>2. CASE m \notin Pow2
        <5>1. ~PowerOfTwo(m)
          BY <4>2, PowerOfTwoIsPow2
        <5>2. \A i \in 1..n : served[i] = new[i]
          BY <3>1, <5>1
        <5>3. served = new
          BY <1>1, <3>1, <5>2, SeqEqual
        <5> QED
          BY <1>3, <5>3
      <4> QED
        BY <4>1, <4>2
    <3> QED
      BY <1>1, <2>1, <3>1, <3>2, ConsistencyComplete
  <2>3. ASSUME VerifyConsistency(m, n, P, mth[old], mth[new])
        PROVE  ProofVerifies(old, new, served)
    <3>1. P \in Seq(Root)
      BY <1>1, <1>3, ConsistencyProofIsSeq
    <3>2. Extends(new, old)
      BY <1>1, <2>3, <3>1, ConsistencySound
    <3>3. /\ v = n
          /\ m \notin Pow2 => served = new
          /\ m \in Pow2 => \A i \in (m + 1)..n : served[i] = new[i]
      <4>1. VerifyConsistency(m, Len(new), ConsistencyProof(served, m), mth[old], mth[new])
        BY <1>1, <1>3, <2>3
      <4>2. 0 < m /\ m < Len(new) /\ m <= Len(served)
        BY <1>1, <2>1
      <4>3. /\ Len(served) = Len(new)
            /\ m \notin Pow2 => served = new
            /\ m \in Pow2 => \A i \in (m + 1)..Len(new) : served[i] = new[i]
        BY <1>1, <4>1, <4>2, ServedIsNew
      <4> QED
        BY <1>1, <4>3
    <3>4. ASSUME NEW i \in 1..n
          PROVE  served[i] = new[i] \/ (i <= m /\ PowerOfTwo(m))
      <4>1. CASE m \in Pow2
        <5>1. PowerOfTwo(m)
          BY <4>1, PowerOfTwoIsPow2
        <5>2. i <= m \/ i \in (m + 1)..n
          OBVIOUS
        <5> QED
          BY <3>3, <4>1, <5>1, <5>2
      <4>2. CASE m \notin Pow2
        BY <3>3, <4>2
      <4> QED
        BY <4>1, <4>2
    <3> QED
      BY <1>1, <3>2, <3>3, <3>4 DEF ProofVerifies
  <2> QED
    BY <1>1, <1>3, <2>2, <2>3
<1> QED
  BY <1>4, <1>5
=============================================================================
