--------------------------- MODULE RegAllocProofs ---------------------------
(***************************************************************************)
(* Proofs about RegAlloc, for any functions.  What LinearScanProofs shows  *)
(* of one scan holds in every round; operands are in registers when the    *)
(* rounds end, and calls save what lives across them; the assertions of    *)
(* regalloc.c hold; and the code with its physical registers computes what *)
(* the function did before, unless a register is entered late.             *)
(***************************************************************************)
EXTENDS RegAlloc, LinearScanProofs, NatLemmas, SequenceTheorems

----------------------------------------------------------------------------
(***************************************************************************)
(* Sorting.                                                                *)
(***************************************************************************)

(* Intervals with different register numbers are in a strict total order.  *)
LEMMA PrecedesOrders ==
  ASSUME NEW n \in Nat, NEW lis, NEW ascending,
         \A v \in 1 .. n : lis[v].start \in Int /\ lis[v].end \in Int /\ lis[v].virt = v
  PROVE  /\ \A v \in 1 .. n : ~ Precedes(lis[v], lis[v], ascending)
         /\ \A v, w \in 1 .. n : v # w =>
              Precedes(lis[v], lis[w], ascending) \/ Precedes(lis[w], lis[v], ascending)
         /\ \A u, v, w \in 1 .. n :
              Precedes(lis[u], lis[v], ascending) /\ Precedes(lis[v], lis[w], ascending) =>
                Precedes(lis[u], lis[w], ascending)
         /\ \A v, w \in 1 .. n :
              Precedes(lis[v], lis[w], ascending) => SortedBefore(lis[v], lis[w])
  BY DEF Precedes, SortedBefore

(* Each rank is taken once.                                                *)
LEMMA Ranks ==
  ASSUME NEW n \in Nat, NEW lis, NEW ascending, DOMAIN lis = 1 .. n,
         \A v \in 1 .. n : lis[v].start \in Int /\ lis[v].end \in Int /\ lis[v].virt = v
  PROVE  /\ \A v, w \in 1 .. n : v # w =>
              \/ /\ Precedes(lis[v], lis[w], ascending)
                 /\ Rank(lis, v, ascending) < Rank(lis, w, ascending)
              \/ /\ Precedes(lis[w], lis[v], ascending)
                 /\ Rank(lis, w, ascending) < Rank(lis, v, ascending)
         /\ \A k \in 1 .. n : \E v \in 1 .. n : Rank(lis, v, ascending) = k
         /\ \A v \in 1 .. n : Rank(lis, v, ascending) \in 1 .. n
<1> DEFINE L(v, w) == Precedes(lis[v], lis[w], ascending)
           P(v) == {w \in 1 .. n : L(w, v)}
           R(v) == Rank(lis, v, ascending)
<1>1. \A v \in 1 .. n : R(v) = 1 + Cardinality(P(v))
  BY DEF Rank
<1>10. /\ \A v \in 1 .. n : ~ L(v, v)
       /\ \A v, w \in 1 .. n : v # w => L(v, w) \/ L(w, v)
       /\ \A u, v, w \in 1 .. n : L(u, v) /\ L(v, w) => L(u, w)
  BY PrecedesOrders
<1> HIDE DEF L, R
<1>2. IsFiniteSet(1 .. n) /\ Cardinality(1 .. n) = n
  BY FS_Interval
<1>3. ASSUME NEW v \in 1 .. n PROVE IsFiniteSet(P(v)) /\ R(v) \in 1 .. n
  <2>1. P(v) \in SUBSET ((1 .. n) \ {v})
    BY <1>10
  <2>2. IsFiniteSet((1 .. n) \ {v}) /\ Cardinality((1 .. n) \ {v}) = n - 1
    BY <1>2, FS_RemoveElement
  <2>3. IsFiniteSet(P(v)) /\ Cardinality(P(v)) <= n - 1
    BY <2>1, <2>2, FS_Subset
  <2>4. Cardinality(P(v)) \in Nat
    BY <2>3, FS_CardinalityType
  <2> QED
    BY <1>1, <2>3, <2>4
<1>4. ASSUME NEW v \in 1 .. n, NEW w \in 1 .. n, L(v, w)
      PROVE  R(v) < R(w)
  <2>1. P(v) \in SUBSET P(w)
    BY <1>4, <1>10
  <2>2. v \in P(w) /\ v \notin P(v)
    BY <1>4, <1>10
  <2> HIDE DEF P
  <2>3. Cardinality(P(v)) <= Cardinality(P(w)) /\ Cardinality(P(v)) # Cardinality(P(w))
    BY <1>3, <2>1, <2>2, FS_Subset
  <2>4. Cardinality(P(v)) \in Nat /\ Cardinality(P(w)) \in Nat
    BY <1>3, FS_CardinalityType
  <2> QED
    BY <1>1, <2>3, <2>4
<1> HIDE DEF P
<1>5. \A v, w \in 1 .. n : v # w =>
        \/ L(v, w) /\ R(v) < R(w)
        \/ L(w, v) /\ R(w) < R(v)
  BY <1>4, <1>10
<1> DEFINE r == [v \in 1 .. n |-> R(v)]
<1>6. r \in Injection(1 .. n, 1 .. n)
  <2>1. r \in [1 .. n -> 1 .. n]
    BY <1>3
  <2>2. \A v, w \in 1 .. n : r[v] = r[w] => v = w
    <3> SUFFICES ASSUME NEW v \in 1 .. n, NEW w \in 1 .. n, R(v) = R(w) PROVE v = w
      OBVIOUS
    <3>1. R(v) \in Int /\ R(w) \in Int
      BY <1>3
    <3> QED
      BY <1>5, <3>1
  <2> HIDE DEF r
  <2> QED
    BY <2>1, <2>2 DEF Injection, IsInjective
<1>7. r \in Surjection(1 .. n, 1 .. n)
  <2> HIDE DEF r
  <2> QED
    BY <1>2, <1>6, FS_Injection
<1>8. \A k \in 1 .. n : \E v \in 1 .. n : R(v) = k
  BY <1>7 DEF Surjection
<1> QED
  BY <1>3, <1>5, <1>8 DEF L, R

SameElements(s, t, n) ==
  /\ \A k \in 1 .. n : \E v \in 1 .. n : s[k] = t[v]
  /\ \A v \in 1 .. n : \E k \in 1 .. n : s[k] = t[v]

(* qsort sorts, and loses nothing.                                         *)
LEMMA SortIs ==
  ASSUME NEW n \in Nat, NEW lis, NEW ascending, DOMAIN lis = 1 .. n,
         \A v \in 1 .. n : lis[v].start \in Int /\ lis[v].end \in Int /\ lis[v].virt = v,
         NEW sorted, sorted = SortIntervals(lis, ascending)
  PROVE  /\ DOMAIN sorted = 1 .. n
         /\ Len(sorted) = n
         /\ Sorted(sorted)
         /\ SameElements(sorted, lis, n)
         /\ \A k, l \in 1 .. n : sorted[k].virt = sorted[l].virt => k = l
<1> DEFINE at(k) == CHOOSE v \in 1 .. n : Rank(lis, v, ascending) = k
<1>1. DOMAIN sorted = 1 .. n /\ Len(sorted) = n /\ \A k \in 1 .. n : sorted[k] = lis[at(k)]
  BY DEF SortIntervals
<1>2. \A k \in 1 .. n : at(k) \in 1 .. n /\ Rank(lis, at(k), ascending) = k
  <2>1. \A k \in 1 .. n : \E v \in 1 .. n : Rank(lis, v, ascending) = k
    BY Ranks
  <2> QED
    BY <2>1
<1> HIDE DEF at
<1>3. Sorted(sorted)
  <2> SUFFICES ASSUME NEW k \in 1 .. n, NEW l \in 1 .. n, k < l
               PROVE  SortedBefore(sorted[k], sorted[l])
    BY <1>1 DEF Sorted
  <2>1. /\ at(k) \in 1 .. n /\ at(l) \in 1 .. n /\ at(k) # at(l)
        /\ ~ (Rank(lis, at(l), ascending) < Rank(lis, at(k), ascending))
    BY <1>2
  <2>2. Precedes(lis[at(k)], lis[at(l)], ascending)
    BY <2>1, Ranks
  <2>3. SortedBefore(lis[at(k)], lis[at(l)])
    BY <2>1, <2>2, PrecedesOrders
  <2> QED
    BY <1>1, <2>3
<1>4. ASSUME NEW v \in 1 .. n PROVE \E k \in 1 .. n : sorted[k] = lis[v]
  <2> DEFINE k == Rank(lis, v, ascending)
  <2>1. k \in 1 .. n
    BY Ranks
  <2>2. at(k) = v
    <3>1. at(k) \in 1 .. n /\ Rank(lis, at(k), ascending) = k
      BY <1>2, <2>1
    <3>2. ~ (k < k)
      BY <2>1
    <3> HIDE DEF k
    <3>3. Rank(lis, v, ascending) = k
      BY DEF k
    <3> QED
      BY <3>1, <3>2, <3>3, Ranks
  <2> QED
    BY <1>1, <2>1, <2>2
<1>5. \A k, l \in 1 .. n : sorted[k].virt = sorted[l].virt => k = l
  BY <1>1, <1>2
<1> QED
  BY <1>1, <1>2, <1>3, <1>4, <1>5 DEF SameElements

----------------------------------------------------------------------------
(***************************************************************************)
(* The live intervals.                                                     *)
(***************************************************************************)
RaTypeOK ==
  /\ vregs \in Seq(VRegs)
  /\ bbs \in Seq(Blocks(Len(vregs)))
  /\ phase \in {"check", "scan", "spill", "insert", "done"}
  /\ cur \in [b : Nat, j : Nat, inserted : BOOLEAN]
  /\ cur.b > 0 /\ cur.j > 0

(* The blocks are sequences of instructions.                               *)
LEMMA BlocksAre ==
  ASSUME RaTypeOK
  PROVE  /\ Len(vregs) \in Nat /\ DOMAIN vregs = 1 .. Len(vregs)
         /\ \A v \in 1 .. Len(vregs) : vregs[v] \in VRegs
         /\ Len(bbs) \in Nat /\ DOMAIN bbs = 1 .. Len(bbs)
         /\ \A b \in 1 .. Len(bbs) :
              /\ bbs[b] \in Blocks(Len(vregs))
              /\ bbs[b].irs \in Seq(Instructions(Len(vregs)))
              /\ Len(bbs[b].irs) \in Nat
              /\ DOMAIN bbs[b].irs = 1 .. Len(bbs[b].irs)
<1>1. /\ Len(vregs) \in Nat /\ DOMAIN vregs = 1 .. Len(vregs)
      /\ Len(bbs) \in Nat /\ DOMAIN bbs = 1 .. Len(bbs)
      /\ \A v \in 1 .. Len(vregs) : vregs[v] \in VRegs
      /\ \A b \in 1 .. Len(bbs) : bbs[b] \in Blocks(Len(vregs))
  BY DEF RaTypeOK
<1>2. \A b \in 1 .. Len(bbs) : bbs[b].irs \in Seq(Instructions(Len(vregs)))
  BY <1>1 DEF Blocks
<1>3. \A b \in 1 .. Len(bbs) : /\ Len(bbs[b].irs) \in Nat
                               /\ DOMAIN bbs[b].irs = 1 .. Len(bbs[b].irs)
  BY <1>2, LenProperties
<1> QED
  BY <1>1, <1>2, <1>3

(* The numbers of the instructions at the block starts are a running sum.  *)
LEMMA CodeBeforeIs ==
  ASSUME RaTypeOK
  PROVE  /\ CodeBefore \in [0 .. Len(bbs) -> Nat]
         /\ CodeBefore[0] = 0
         /\ \A b \in 1 .. Len(bbs) : CodeBefore[b] = CodeBefore[b - 1] + Len(bbs[b].irs)
<1> DEFINE n == Len(bbs)
           step(b, x) == x + Len(bbs[b].irs)
           IsSum(f) == f = [b \in 0 .. n |-> IF b = 0 THEN 0 ELSE step(b, f[b - 1])]
           g == [bx \in (1 .. n) \X Nat |-> step(bx[1], bx[2])]
<1>1. n \in Nat
  BY BlocksAre
<1>2. ASSUME NEW b \in 1 .. n, NEW x \in Nat PROVE step(b, x) \in Nat
  BY BlocksAre
<1>3. CodeBefore = CHOOSE f : IsSum(f)
  BY DEF CodeBefore
<1> HIDE DEF n, step
<1>4. g \in [(1 .. n) \X Nat -> Nat]
  <2>1. \A bx \in (1 .. n) \X Nat : bx[1] \in 1 .. n /\ bx[2] \in Nat
    OBVIOUS
  <2>2. \A bx \in (1 .. n) \X Nat : step(bx[1], bx[2]) \in Nat
    BY <1>2, <2>1
  <2> QED
    BY <2>2
<1>5. \A b \in 1 .. n, x \in Nat : g[<<b, x>>] = step(b, x)
  OBVIOUS
<1> HIDE DEF g
<1>6. PICK f \in [0 .. n -> Nat] : f[0] = 0 /\ \A b \in 1 .. n : f[b] = g[<<b, f[b - 1]>>]
  <2>1. \E f \in [0 .. n -> Nat] : Steps(f, n, 0, g)
    BY <1>1, <1>4, RecursionExists
  <2> QED
    BY <2>1 DEF Steps
<1>7. ASSUME NEW b \in 1 .. n PROVE f[b] = step(b, f[b - 1])
  <2>1. b - 1 \in 0 .. n /\ f[b - 1] \in Nat
    BY <1>1
  <2> QED
    BY <1>5, <1>6, <2>1
<1>8. IsSum(f)
  <2>1. \A b \in 0 .. n : f[b] = IF b = 0 THEN 0 ELSE step(b, f[b - 1])
    BY <1>1, <1>6, <1>7
  <2> QED
    BY <1>6, <2>1
<1>9. IsSum(CodeBefore)
  BY <1>3, <1>8
<1>10. /\ CodeBefore[0] = 0
       /\ \A b \in 1 .. n : CodeBefore[b] = step(b, CodeBefore[b - 1])
  <2>1. \A b \in 0 .. n : CodeBefore[b] = IF b = 0 THEN 0 ELSE step(b, CodeBefore[b - 1])
    BY <1>9
  <2> QED
    BY <1>1, <2>1
<1>11. \A b \in 0 .. n : CodeBefore[b] \in Nat
  <2> DEFINE T == {b \in 0 .. n : CodeBefore[b] \in Nat}
  <2>1. 0 \in T
    BY <1>1, <1>10
  <2>2. ASSUME NEW b \in 1 .. n, b - 1 \in T PROVE b \in T
    <3>1. CodeBefore[b - 1] \in Nat /\ b \in 0 .. n
      BY <1>1, <2>2
    <3>2. step(b, CodeBefore[b - 1]) \in Nat
      BY <1>2, <3>1
    <3> QED
      BY <1>10, <3>1, <3>2
  <2> HIDE DEF T
  <2>3. 0 .. n \subseteq T
    BY <1>1, <2>1, <2>2, UpTo
  <2> QED
    BY <2>3 DEF T
<1>12. CodeBefore \in [0 .. n -> Nat]
  <2>1. CodeBefore = [b \in 0 .. n |-> CodeBefore[b]]
    BY <1>9
  <2> QED
    BY <1>11, <2>1
<1> QED
  BY <1>10, <1>12 DEF n, step

(* No block starts behind the end of the code.                             *)
LEMMA CodeAscends ==
  ASSUME RaTypeOK
  PROVE  /\ CodeLength \in Nat
         /\ \A b \in 0 .. Len(bbs) : CodeBefore[b] \in 0 .. CodeLength
<1> DEFINE n == Len(bbs)
           T == {d \in 0 .. n : CodeBefore[n - d] <= CodeBefore[n]}
<1>1. n \in Nat /\ \A b \in 1 .. n : Len(bbs[b].irs) \in Nat
  BY BlocksAre
<1>2. \A b \in 0 .. n : CodeBefore[b] \in Nat
  BY CodeBeforeIs
<1>3. \A b \in 1 .. n : CodeBefore[b - 1] <= CodeBefore[b]
  <2> SUFFICES ASSUME NEW b \in 1 .. n PROVE CodeBefore[b - 1] <= CodeBefore[b]
    OBVIOUS
  <2>1. b - 1 \in 0 .. n /\ b \in 0 .. n
    BY <1>1
  <2>2. CodeBefore[b] = CodeBefore[b - 1] + Len(bbs[b].irs)
    BY CodeBeforeIs
  <2> QED
    BY <1>1, <1>2, <2>1, <2>2
<1> HIDE DEF n
<1>4. 0 \in T
  BY <1>1, <1>2
<1>5. ASSUME NEW d \in 1 .. n, d - 1 \in T PROVE d \in T
  <2>1. n - d \in 0 .. n /\ n - (d - 1) \in 1 .. n /\ n - (d - 1) - 1 = n - d /\ n \in 0 .. n
    BY <1>1
  <2>2. CodeBefore[n - d] <= CodeBefore[n - (d - 1)]
    BY <1>3, <2>1
  <2>3. CodeBefore[n - (d - 1)] <= CodeBefore[n]
    BY <1>5
  <2>4. CodeBefore[n - d] \in Nat /\ CodeBefore[n - (d - 1)] \in Nat /\ CodeBefore[n] \in Nat
    BY <1>2, <2>1
  <2> QED
    BY <2>1, <2>2, <2>3, <2>4
<1> HIDE DEF T
<1>6. 0 .. n \subseteq T
  BY <1>1, <1>4, <1>5, UpTo
<1>7. CodeLength = CodeBefore[n]
  BY <1>1 DEF CodeLength, BlockStart, n
<1>8. ASSUME NEW b \in 0 .. n PROVE CodeBefore[b] \in 0 .. CodeLength
  <2>1. n - b \in T /\ n - (n - b) = b
    BY <1>1, <1>6
  <2> QED
    BY <1>1, <1>2, <1>7, <2>1 DEF T
<1> QED
  BY <1>1, <1>2, <1>7, <1>8 DEF n

(* A register is seen at numbers inside the code.                          *)
LEMMA OccurrencesInCode ==
  ASSUME RaTypeOK, NEW v
  PROVE  Occurrences(v) \subseteq 0 .. CodeLength
<1> SUFFICES ASSUME NEW b \in 1 .. Len(bbs), NEW x,
                    \/ \E j \in 1 .. Len(bbs[b].irs) : x = BlockStart(b) + j - 1
                    \/ x = BlockStart(b)
                    \/ x = BlockStart(b + 1)
             PROVE  x \in 0 .. CodeLength
  BY BlocksAre DEF Occurrences
<1>1. /\ b - 1 \in 0 .. Len(bbs) /\ b \in 0 .. Len(bbs) /\ b + 1 - 1 = b
      /\ Len(bbs[b].irs) \in Nat
  BY BlocksAre
<1>2. CodeBefore[b] = CodeBefore[b - 1] + Len(bbs[b].irs)
  BY CodeBeforeIs
<1>3. CodeBefore[b] \in 0 .. CodeLength /\ CodeBefore[b - 1] \in 0 .. CodeLength
  BY <1>1, CodeAscends
<1>4. BlockStart(b) = CodeBefore[b - 1] /\ BlockStart(b + 1) = CodeBefore[b]
  BY <1>1 DEF BlockStart
<1>5. CASE x = BlockStart(b) \/ x = BlockStart(b + 1)
  BY <1>3, <1>4, <1>5
<1>6. CASE \E j \in 1 .. Len(bbs[b].irs) : x = BlockStart(b) + j - 1
  <2>1. PICK j \in 1 .. Len(bbs[b].irs) : x = CodeBefore[b - 1] + j - 1
    BY <1>4, <1>6
  <2> DEFINE l == Len(bbs[b].irs)
             before == CodeBefore[b - 1]
  <2>2. /\ l \in Nat /\ before \in Nat /\ j \in 1 .. l /\ CodeLength \in Nat
        /\ before + l <= CodeLength /\ x = before + j - 1
    BY <1>1, <1>2, <1>3, <2>1, CodeAscends
  <2> HIDE DEF l, before
  <2> QED
    BY <2>2
<1> QED
  BY <1>5, <1>6

(* Min and Max of numbers in the code.                                     *)
LEMMA MinMaxIn ==
  ASSUME NEW n \in Nat, NEW S, S \subseteq 0 .. n, S # {}
  PROVE  /\ Min(S) \in S /\ Max(S) \in S
         /\ \A x \in S : Min(S) <= x /\ x <= Max(S)
<1>1. S \in SUBSET Nat
  OBVIOUS
<1>2. \E x \in S : \A y \in S : x <= y
  BY <1>1, LeastNat
<1>3. \E x \in S : \A y \in S : x >= y
  <2> DEFINE T == {n - x : x \in S}
  <2>1. T \in SUBSET Nat /\ T # {}
    <3>1. \A x \in S : n - x \in Nat
      OBVIOUS
    <3> QED
      BY <3>1
  <2> HIDE DEF T
  <2>2. PICK t \in T : \A u \in T : t <= u
    BY <2>1, LeastNat
  <2>3. PICK x \in S : t = n - x
    BY <2>2 DEF T
  <2>4. ASSUME NEW y \in S PROVE x >= y
    <3>1. n - y \in T
      BY DEF T
    <3>2. n - x <= n - y /\ x \in 0 .. n /\ y \in 0 .. n
      BY <2>2, <2>3, <3>1
    <3> QED
      BY <3>2
  <2> QED
    BY <2>4
<1> QED
  BY <1>2, <1>3 DEF Min, Max

(* What check_live_interval hands to the scan.                             *)
LEMMA LiveIntervalIs ==
  ASSUME RaTypeOK, NEW v \in 1 .. Len(vregs)
  PROVE  LET x == LiveInterval(v) IN
         /\ IsInterval(x)
         /\ x.virt = v
         /\ x.cls = vregs[v].cls
         /\ x.state = "LI_CONST" => IsConst(v)
         /\ x.start < x.end => x.start \in Nat
<1> DEFINE occ == Occurrences(v)
           x == LiveInterval(v)
<1>1. vregs[v].cls \in Class /\ vregs[v].param \in BOOLEAN
  BY BlocksAre DEF VRegs
<1>2. CodeLength \in Nat /\ occ \subseteq 0 .. CodeLength
  BY CodeAscends, OccurrencesInCode
<1>3. occ # {} => Min(occ) \in Nat /\ Max(occ) \in Nat
  BY <1>2, MinMaxIn
<1>4. /\ x.virt = v
      /\ x.cls = vregs[v].cls
      /\ x.start = IF vregs[v].param THEN 0 ELSE IF occ = {} THEN -1 ELSE Min(occ)
      /\ x.end = IF occ = {} THEN -1 ELSE Max(occ)
      /\ x.state = CASE "VRF_CONST" \in vregs[v].flag -> "LI_CONST"
                     [] "VRF_CONST" \notin vregs[v].flag /\ (vregs[v].param \/ Spilled(v)) ->
                          "LI_SPILL"
                     [] OTHER -> "LI_NORMAL"
  BY DEF LiveInterval
<1> HIDE DEF x, occ
<1>5. x.state \in LiveIntervalState /\ (x.state = "LI_CONST" => IsConst(v))
  <2> DEFINE p == vregs[v].param \/ Spilled(v)
  <2>1. \/ x.state = "LI_CONST" /\ IsConst(v)
        \/ x.state = "LI_SPILL"
        \/ x.state = "LI_NORMAL"
    <3>1. CASE IsConst(v)
      BY <1>4, <3>1 DEF IsConst
    <3>2. CASE ~ IsConst(v)
      BY <1>4, <3>2 DEF IsConst
    <3> QED
      BY <3>1, <3>2
  <2> QED
    BY <2>1 DEF LiveIntervalState
<1>6. x.start \in Int /\ x.end \in Int /\ (x.start < x.end => x.start \in Nat)
  BY <1>1, <1>3, <1>4
<1> QED
  BY <1>1, <1>4, <1>5, <1>6 DEF x, IsInterval

----------------------------------------------------------------------------
(***************************************************************************)
(* The inductive invariant. What the scan knows (SInv) holds throughout;   *)
(* the rest relates the intervals to the virtual registers they stand for, *)
(* as long as the round has not made new ones.                             *)
(***************************************************************************)
Fits ==
  /\ \A v \in 1 .. Len(vregs) : \E a \in 1 .. N : iv[a].virt = v
  /\ \A a \in 1 .. N : /\ iv[a].virt \in 1 .. Len(vregs)
                       /\ iv[a].cls = vregs[iv[a].virt].cls
                       /\ iv[a].state = "LI_CONST" => IsConst(iv[a].virt)

SpillsMarked == \A a \in 1 .. N : state[a] = "LI_SPILL" => Spilled(iv[a].virt)

ConstsKept == \A a \in 1 .. N : state[a] = "LI_CONST" => iv[a].state = "LI_CONST"

StartsInCode == \A a \in 1 .. N : iv[a].start < iv[a].end => iv[a].start \in Nat

(* No operand of the instruction is left in a spilled register.            *)
Settled(ir, vs) ==
  \A field \in {"dst", "opr1", "opr2"} :
    TakesRegister(ir, field) /\ ir[field] # 0 /\ "VRF_CONST" \notin vs[ir[field]].flag =>
      "VRF_SPILLED" \notin vs[ir[field]].flag

Behind(b, k) == b < cur.b \/ (b = cur.b /\ k < cur.j)

BehindSettled ==
  \A b \in 1 .. Len(bbs) : \A k \in 1 .. Len(bbs[b].irs) :
    Behind(b, k) => Settled(bbs[b].irs[k], vregs)

AllSettled ==
  \A b \in 1 .. Len(bbs) : \A k \in 1 .. Len(bbs[b].irs) : Settled(bbs[b].irs[k], vregs)

RaInv ==
  /\ RaTypeOK
  /\ SInv
  /\ ConstsKept
  /\ StartsInCode
  /\ phase # "insert" => cur = CursorStart
  /\ phase \in {"spill", "insert", "done"} => i > N
  /\ phase \in {"scan", "spill"} => Fits
  /\ phase \in {"insert", "done"} /\ ~ cur.inserted => Fits /\ SpillsMarked
  /\ phase = "insert" /\ ~ cur.inserted => BehindSettled
  /\ phase = "done" => AllSettled

(* The flag VRF_SPILLED changes nothing else about a register.             *)
LEMMA FlagsAdded ==
  ASSUME RaTypeOK, NEW W, NEW S,
         W = [v \in DOMAIN vregs |->
                IF v \in S THEN [vregs[v] EXCEPT !.flag = @ \cup {"VRF_SPILLED"}] ELSE vregs[v]]
  PROVE  /\ W \in Seq(VRegs)
         /\ Len(W) = Len(vregs)
         /\ \A v \in 1 .. Len(vregs) :
              /\ W[v].cls = vregs[v].cls
              /\ "VRF_CONST" \in W[v].flag <=> "VRF_CONST" \in vregs[v].flag
              /\ v \in S => "VRF_SPILLED" \in W[v].flag
<1> DEFINE n == Len(vregs)
<1>1. n \in Nat /\ DOMAIN vregs = 1 .. n /\ \A v \in 1 .. n : vregs[v] \in VRegs
  BY BlocksAre
<1>2. \A v \in 1 .. n :
        W[v] = IF v \in S THEN [vregs[v] EXCEPT !.flag = @ \cup {"VRF_SPILLED"}] ELSE vregs[v]
  BY <1>1
<1>3. ASSUME NEW v \in 1 .. n
      PROVE  /\ W[v] \in VRegs
             /\ W[v].cls = vregs[v].cls
             /\ "VRF_CONST" \in W[v].flag <=> "VRF_CONST" \in vregs[v].flag
             /\ v \in S => "VRF_SPILLED" \in W[v].flag
  BY <1>1, <1>2 DEF VRegs
<1> HIDE DEF n
<1>4. W \in [1 .. n -> VRegs]
  BY <1>1, <1>3
<1>5. W \in Seq(VRegs) /\ Len(W) = n
  BY <1>1, <1>4
<1> QED
  BY <1>3, <1>5 DEF n

(* What the second and later scans start from.                             *)
Start ==
  /\ N \in Nat
  /\ \A a \in 1 .. N : IsInterval(iv[a])
  /\ Sorted(iv)
  /\ ScanStart(iv)

(* A scan of a later round starts with its invariant, as the first one     *)
(* does (alloc_physical_registers calls the scan in its loop).             *)
LEMMA StartAgain == Start => SInv
  BY StartSInv DEF Start

(* The first half of a round: intervals are computed and sorted.           *)
LEMMA CheckRaInv ==
  ASSUME RaInv, CheckIntervals
  PROVE  RaInv'
<1> DEFINE n == Len(vregs)
           lis == [v \in DOMAIN vregs |-> LiveInterval(v)]
           S == {v \in 1 .. n : vregs[v].param}
<1>1. RaTypeOK /\ n \in Nat /\ DOMAIN vregs = 1 .. n
  BY BlocksAre DEF RaInv
<1>2. PICK ascending \in BOOLEAN : iv' = SortIntervals(lis, ascending)
  BY DEF CheckIntervals
<1>3. /\ state' = [a \in DOMAIN iv' |-> iv'[a].state]
      /\ phys' = [a \in DOMAIN iv' |-> -1]
      /\ i' = 1
      /\ active' = [c \in Class |-> [k \in Regs(c) |-> 0]]
      /\ count' = [c \in Class |-> 0]
      /\ using' = [c \in Class |-> {}]
      /\ used' = [c \in Class |-> {}]
      /\ phase' = "scan"
      /\ bbs' = bbs /\ cur' = cur
  BY DEF CheckIntervals
<1>4. /\ vregs' \in Seq(VRegs)
      /\ Len(vregs') = n
      /\ \A v \in 1 .. n :
           /\ vregs'[v].cls = vregs[v].cls
           /\ "VRF_CONST" \in vregs'[v].flag <=> "VRF_CONST" \in vregs[v].flag
  <2>1. vregs' = [v \in DOMAIN vregs |->
                    IF v \in S THEN [vregs[v] EXCEPT !.flag = @ \cup {"VRF_SPILLED"}]
                    ELSE vregs[v]]
    BY <1>1 DEF CheckIntervals
  <2> HIDE DEF S
  <2> QED
    BY <1>1, <2>1, FlagsAdded
<1>5. DOMAIN lis = 1 .. n /\ \A v \in 1 .. n : lis[v] = LiveInterval(v)
  BY <1>1
<1> HIDE DEF lis
<1>6. \A v \in 1 .. n : /\ IsInterval(lis[v])
                        /\ lis[v].virt = v
                        /\ lis[v].cls = vregs[v].cls
                        /\ lis[v].state = "LI_CONST" => IsConst(v)
                        /\ lis[v].start < lis[v].end => lis[v].start \in Nat
  BY <1>1, <1>5, LiveIntervalIs
<1>7. /\ DOMAIN iv' = 1 .. n
      /\ Len(iv') = n
      /\ Sorted(iv')
      /\ \A k \in 1 .. n : \E v \in 1 .. n : iv'[k] = lis[v]
      /\ \A v \in 1 .. n : \E k \in 1 .. n : iv'[k] = lis[v]
  <2>1. \A v \in 1 .. n : lis[v].start \in Int /\ lis[v].end \in Int /\ lis[v].virt = v
    BY <1>6 DEF IsInterval
  <2> HIDE DEF n
  <2>2. n \in Nat /\ DOMAIN lis = 1 .. n
    BY <1>1, <1>5
  <2> DEFINE sorted == iv'
  <2>3. sorted = SortIntervals(lis, ascending)
    BY <1>2
  <2> HIDE DEF sorted
  <2>4. /\ DOMAIN sorted = 1 .. n
        /\ Len(sorted) = n
        /\ Sorted(sorted)
        /\ SameElements(sorted, lis, n)
    BY <2>1, <2>2, <2>3, SortIs
  <2> QED
    BY <2>4 DEF sorted, SameElements
<1>8. N' = n
  BY <1>7 DEF N
<1> HIDE DEF n
<1>9. SInv'
  <2>1. \A a \in 1 .. n : IsInterval(iv'[a])
    BY <1>6, <1>7
  <2>2. ScanStart(iv)'
    BY <1>3, <1>7 DEF ScanStart
  <2>3. Start'
    BY <1>1, <1>7, <1>8, <2>1, <2>2 DEF Start, Sorted
  <2> QED
    BY <2>3, StartAgain, PTL
<1>10. Fits'
  <2>1. ASSUME NEW v \in 1 .. n PROVE \E a \in 1 .. n : iv'[a].virt = v
    <3>1. PICK a \in 1 .. n : iv'[a] = lis[v]
      BY <1>7
    <3> QED
      BY <1>6, <3>1
  <2>2. ASSUME NEW a \in 1 .. n
        PROVE  /\ iv'[a].virt \in 1 .. n
               /\ iv'[a].cls = vregs'[iv'[a].virt].cls
               /\ iv'[a].state = "LI_CONST" => "VRF_CONST" \in vregs'[iv'[a].virt].flag
    <3>1. PICK v \in 1 .. n : iv'[a] = lis[v]
      BY <1>7
    <3>2. iv'[a].virt = v /\ iv'[a].cls = vregs[v].cls
      BY <1>6, <3>1
    <3>3. iv'[a].state = "LI_CONST" => "VRF_CONST" \in vregs[v].flag
      BY <1>6, <3>1 DEF IsConst
    <3> QED
      BY <1>4, <3>2, <3>3
  <2> QED
    BY <1>4, <1>8, <2>1, <2>2 DEF Fits, IsConst
<1>11. StartsInCode'
  <2> SUFFICES ASSUME NEW a \in 1 .. n, iv'[a].start < iv'[a].end PROVE iv'[a].start \in Nat
    BY <1>8 DEF StartsInCode
  <2>1. PICK v \in 1 .. n : iv'[a] = lis[v]
    BY <1>7
  <2> QED
    BY <1>6, <2>1
<1>12. ConstsKept'
  BY <1>3, <1>7, <1>8 DEF ConstsKept
<1>13. RaTypeOK'
  BY <1>1, <1>3, <1>4 DEF RaTypeOK, n
<1>14. cur' = CursorStart
  BY <1>3 DEF RaInv, CheckIntervals
<1> QED
  BY <1>3, <1>9, <1>10, <1>11, <1>12, <1>13, <1>14 DEF RaInv, CursorStart

----------------------------------------------------------------------------
(***************************************************************************)
(* Insertion of loads and stores. The work on an instruction, with n       *)
(* virtual registers so far:                                               *)
(***************************************************************************)
Works(n) ==
  [ir : Instructions(n), before : Seq(Instructions(n)), after : Seq(Instructions(n)),
   vregs : Seq(VRegs), moved : BOOLEAN, inserted : BOOLEAN]

IsWork(w, n) == w \in Works(n) /\ Len(w.vregs) = n

(* More registers invalidate no instruction.                               *)
LEMMA MoreRegisters ==
  ASSUME NEW n \in Nat, NEW m \in Nat, n <= m
  PROVE  /\ Instructions(n) \subseteq Instructions(m)
         /\ Seq(Instructions(n)) \subseteq Seq(Instructions(m))
         /\ Blocks(n) \subseteq Blocks(m)
<1>1. 0 .. n \subseteq 0 .. m /\ SUBSET (1 .. n) \subseteq SUBSET (1 .. m)
  OBVIOUS
<1>2. Instructions(n) \subseteq Instructions(m)
  BY <1>1 DEF Instructions
<1>3. Seq(Instructions(n)) \subseteq Seq(Instructions(m))
  BY <1>2, SeqMonotonic
<1> QED
  BY <1>1, <1>2, <1>3 DEF Blocks

(* insert_tmp_reg makes a register and uses no other new one.              *)
LEMMA InsertTmpIs ==
  ASSUME NEW n \in Nat, NEW w, IsWork(w, n), NEW spilled \in 1 .. n
  PROVE  IsWork(InsertTmp(w, spilled), n + 1) /\ InsertTmp(w, spilled).inserted
<1> DEFINE tmp == n + 1
           grown == SpawnTmp(w.vregs, spilled)
           load == [kind |-> "LOAD_SPILLED", dst |-> tmp, opr1 |-> spilled, opr2 |-> 0]
           store == [kind |-> "STORE_SPILLED", dst |-> 0, opr1 |-> tmp, opr2 |-> spilled]
           sub(v) == IF v = spilled THEN tmp ELSE v
           ir == [w.ir EXCEPT !.dst = sub(@), !.opr1 = sub(@), !.opr2 = sub(@)]
           I == Instructions(tmp)
<1>1. /\ w \in Works(n) /\ Len(w.vregs) = n /\ w.vregs \in Seq(VRegs)
      /\ w.ir \in Instructions(n)
      /\ w.before \in Seq(Instructions(n)) /\ w.after \in Seq(Instructions(n))
  BY DEF IsWork, Works
<1>2. grown \in Seq(VRegs) /\ Len(grown) = tmp
  <2> DEFINE e == [cls |-> w.vregs[spilled].cls, flag |-> {"VRF_NO_SPILL"}, param |-> FALSE]
  <2>1. w.vregs[spilled] \in VRegs
    BY <1>1
  <2>2. e \in VRegs
    BY <2>1 DEF VRegs
  <2>3. grown = Append(w.vregs, e)
    BY DEF SpawnTmp
  <2> HIDE DEF e, grown
  <2> QED
    BY <1>1, <2>2, <2>3, AppendProperties
<1>3. load \in I /\ store \in I
  BY DEF Instructions
<1>4. /\ w.ir \in I /\ w.before \in Seq(I) /\ w.after \in Seq(I)
  BY <1>1, MoreRegisters
<1>5. ir \in I
  <2> DEFINE r == w.ir
             d == sub(r.dst)
             o == sub(r.opr1)
             p == sub(r.opr2)
  <2>1. r \in I /\ d \in 0 .. tmp /\ o \in 0 .. tmp /\ p \in 0 .. tmp
    BY <1>4 DEF Instructions
  <2>2. ir = [r EXCEPT !.dst = d, !.opr1 = o, !.opr2 = p]
    OBVIOUS
  <2> HIDE DEF r, d, o, p, ir
  <2> QED
    BY <2>1, <2>2 DEF Instructions
<1>6. Append(w.before, load) \in Seq(I) /\ Append(w.after, store) \in Seq(I)
  BY <1>3, <1>4, AppendProperties
<1>7. CASE w.moved
  <2>1. InsertTmp(w, spilled) = [w EXCEPT !.vregs = grown, !.inserted = TRUE]
    BY <1>7 DEF InsertTmp
  <2> HIDE DEF grown, I
  <2> QED
    BY <1>1, <1>2, <1>4, <2>1 DEF IsWork, Works, I
<1>8. CASE ~ w.moved
  <2> DEFINE reads == spilled \in {w.ir.opr1, w.ir.opr2}
             writes == w.ir.dst = spilled
             before == IF reads THEN Append(w.before, load) ELSE w.before
             after == IF writes THEN Append(w.after, store) ELSE w.after
  <2>1. InsertTmp(w, spilled) =
          [ir |-> ir, before |-> before, after |-> after, vregs |-> grown,
           moved |-> writes, inserted |-> TRUE]
    BY <1>1, <1>8 DEF InsertTmp
  <2>2. before \in Seq(I) /\ after \in Seq(I) /\ writes \in BOOLEAN
    BY <1>4, <1>6
  <2> HIDE DEF grown, I, before, after, writes, ir
  <2> QED
    BY <1>2, <1>5, <2>1, <2>2 DEF IsWork, Works, I
<1> QED
  BY <1>7, <1>8

(* One operand: either nothing is needed, or something is inserted.        *)
LEMMA InsertForIs ==
  ASSUME NEW n \in Nat, NEW w, IsWork(w, n), NEW field \in {"dst", "opr1", "opr2"}
  PROVE  /\ \E m \in {n, n + 1} : IsWork(InsertFor(w, field), m)
         /\ ~ InsertFor(w, field).inserted => InsertFor(w, field) = w /\ ~ NeedsTmp(w, field)
<1>1. CASE NeedsTmp(w, field)
  <2>1. w.ir[field] \in 1 .. n
    <3>1. w.ir \in Instructions(n)
      BY DEF IsWork, Works
    <3>2. w.ir[field] \in 0 .. n
      BY <3>1 DEF Instructions
    <3> QED
      BY <1>1, <3>2 DEF NeedsTmp
  <2>2. InsertFor(w, field) = InsertTmp(w, w.ir[field])
    BY <1>1 DEF InsertFor
  <2> QED
    BY <2>1, <2>2, InsertTmpIs
<1>2. CASE ~ NeedsTmp(w, field)
  BY <1>2 DEF InsertFor
<1> QED
  BY <1>1, <1>2

(* One instruction.                                                        *)
LEMMA InsertAroundIs ==
  ASSUME RaTypeOK, NEW ir \in Instructions(Len(vregs))
  PROVE  LET w == InsertAround(ir, vregs) IN
         /\ \E m \in Nat : m >= Len(vregs) /\ IsWork(w, m)
         /\ ~ w.inserted => w = Untouched(ir, vregs) /\ Settled(ir, vregs)
<1> DEFINE n == Len(vregs)
           w0 == Untouched(ir, vregs)
           w1 == InsertFor(w0, "opr1")
           w2 == InsertFor(w1, "opr2")
           w3 == InsertFor(w2, "dst")
<1>1. n \in Nat /\ vregs \in Seq(VRegs)
  BY BlocksAre DEF RaTypeOK
<1>2. IsWork(w0, n)
  BY <1>1 DEF Untouched, IsWork, Works
<1>3. InsertAround(ir, vregs) = w3
  BY DEF InsertAround
<1>4. w0.ir = ir /\ w0.vregs = vregs
  BY DEF Untouched
<1>5. ASSUME ~ NeedsTmp(w0, "opr1"), ~ NeedsTmp(w0, "opr2"), ~ NeedsTmp(w0, "dst")
      PROVE  Settled(ir, vregs)
  BY <1>4, <1>5 DEF Settled, NeedsTmp
<1> HIDE DEF n, w0
<1>6. /\ \E m \in {n, n + 1} : IsWork(w1, m)
      /\ ~ w1.inserted => w1 = w0 /\ ~ NeedsTmp(w0, "opr1")
  BY <1>1, <1>2, InsertForIs
<1> HIDE DEF w1
<1>7. PICK m1 \in {n, n + 1} : IsWork(w1, m1)
  BY <1>6
<1>8. /\ \E m \in {m1, m1 + 1} : IsWork(w2, m)
      /\ ~ w2.inserted => w2 = w1 /\ ~ NeedsTmp(w1, "opr2")
  BY <1>1, <1>7, InsertForIs
<1> HIDE DEF w2
<1>9. PICK m2 \in {m1, m1 + 1} : IsWork(w2, m2)
  BY <1>8
<1>10. /\ \E m \in {m2, m2 + 1} : IsWork(w3, m)
       /\ ~ w3.inserted => w3 = w2 /\ ~ NeedsTmp(w2, "dst")
  BY <1>1, <1>7, <1>9, InsertForIs
<1> HIDE DEF w3
<1>11. PICK m3 \in {m2, m2 + 1} : IsWork(w3, m3)
  BY <1>10
<1>12. m3 \in Nat /\ m3 >= n
  BY <1>1, <1>7, <1>9, <1>11
<1>13. ~ w3.inserted => w3 = w0 /\ Settled(ir, vregs)
  BY <1>5, <1>6, <1>8, <1>10
<1> QED
  BY <1>3, <1>11, <1>12, <1>13 DEF n, w0

----------------------------------------------------------------------------
(***************************************************************************)
(* The steps.                                                              *)
(***************************************************************************)

(* What is left as it was.                                                 *)
LEMMA ScanUnchanged ==
  ASSUME SInv, UNCHANGED scanVars
  PROVE  SInv' /\ N' = N /\ (ConstsKept => ConstsKept') /\ (StartsInCode => StartsInCode')
<1>1. SInv'
  BY NextSInv
<1> QED
  BY <1>1 DEF scanVars, N, ConstsKept, StartsInCode

(* The intervals fit the registers as long as those keep class and flags.  *)
LEMMA FitsUnchanged ==
  ASSUME Fits, iv' = iv, Len(vregs') = Len(vregs),
         \A v \in 1 .. Len(vregs) :
           /\ vregs'[v].cls = vregs[v].cls
           /\ "VRF_CONST" \in vregs'[v].flag <=> "VRF_CONST" \in vregs[v].flag
  PROVE  Fits'
  BY DEF Fits, N, IsConst

(* Nothing is allocated yet.                                               *)
LEMMA InitRaInv == RaInit => RaInv
<1> SUFFICES ASSUME RaInit PROVE RaInv
  OBVIOUS
<1>1. /\ prog.vregs \in Seq(VRegs) /\ prog.bbs \in Seq(Blocks(Len(prog.vregs)))
      /\ vregs = prog.vregs /\ bbs = prog.bbs /\ phase = "check" /\ cur = CursorStart
      /\ iv = <<>> /\ ScanStart(iv)
  BY ProgramsAssumption DEF RaInit, IsProgram
<1>2. N = 0 /\ Sorted(iv)
  BY <1>1 DEF N, Sorted
<1>3. SInv
  BY <1>1, <1>2, StartSInv
<1>4. ConstsKept /\ StartsInCode
  BY <1>2 DEF ConstsKept, StartsInCode
<1>5. RaTypeOK
  BY <1>1 DEF RaTypeOK, CursorStart
<1> QED
  BY <1>1, <1>3, <1>4, <1>5 DEF RaInv

(* An iteration of the scan.                                               *)
LEMMA ScanRaInv ==
  ASSUME RaInv, Scan
  PROVE  RaInv'
<1>1. /\ ScanNext /\ phase = "scan" /\ iv' = iv
      /\ vregs' = vregs /\ bbs' = bbs /\ phase' = phase /\ cur' = cur
  BY DEF Scan, raVars, ScanNext, Skip, Assign, Split
<1>2. SInv'
  BY <1>1, NextSInv DEF RaInv
<1>3. N' = N /\ StartsInCode' /\ Fits'
  BY <1>1 DEF RaInv, N, StartsInCode, Fits, IsConst
<1>4. ConstsKept'
  <2>1. \/ state' = state
        \/ \E x \in 1 .. N : state' = [state EXCEPT ![x] = "LI_SPILL"]
    <3>1. CASE Skip \/ Assign
      BY <3>1 DEF Skip, Assign
    <3>2. CASE Split
      <4> DEFINE c == iv[i].cls
                 act == ExpiredActive(c, i)
                 n == ExpiredCount(c, i)
      <4>1. i \in 1 .. N /\ n >= PhysMax[c] /\ split_at_interval(c, act, n)
        BY <3>2 DEF Split, RaInv, SInv, IInv, TypeInv, ScanTypes
      <4>2. \E x \in {i, act[n - 1]} : state' = [state EXCEPT ![x] = "LI_SPILL"]
        <5> HIDE DEF act, n, c
        <5> QED
          BY <4>1 DEF split_at_interval
      <4>3. c \in Class /\ PhysMax[c] \in Nat \ {0}
        BY <4>1, PhysMaxAssumption DEF RaInv, SInv, IInv, TypeInv, IsInterval
      <4>4. act[n - 1] \in 1 .. N
        <5>1. Good(c, act, n, ExpiredUsing(c, i), phys, state, i - 1)
          BY <4>1, <4>3, ExpiredIsGood DEF RaInv, SInv
        <5>2. n \in Nat /\ n - 1 \in 0 .. n - 1
          BY <4>1, <4>3, <5>1 DEF Good
        <5>3. act[n - 1] \in 1 .. i - 1
          BY <5>1, <5>2 DEF Good
        <5> QED
          BY <4>1, <5>3 DEF RaInv, SInv, IInv, TypeInv
      <4> QED
        BY <4>1, <4>2, <4>4
    <3> QED
      BY <1>1, <3>1, <3>2 DEF ScanNext
  <2>2. state \in [1 .. N -> LiveIntervalState]
    BY DEF RaInv, SInv, IInv, TypeInv, ScanTypes
  <2>3. \A a \in 1 .. N : state'[a] = state[a] \/ state'[a] = "LI_SPILL"
    BY <2>1, <2>2
  <2> QED
    BY <1>1, <1>3, <2>3 DEF RaInv, ConstsKept
<1>5. RaTypeOK'
  BY <1>1 DEF RaInv, RaTypeOK
<1> QED
  BY <1>1, <1>2, <1>3, <1>4, <1>5 DEF RaInv

(* The scan ends behind the last interval.                                 *)
LEMMA ScanEndRaInv ==
  ASSUME RaInv, ScanEnd
  PROVE  RaInv'
<1>1. /\ UNCHANGED scanVars /\ phase = "scan" /\ i > N /\ phase' = "spill"
      /\ vregs' = vregs /\ bbs' = bbs /\ cur' = cur
  BY DEF ScanEnd
<1>2. SInv' /\ N' = N /\ ConstsKept' /\ StartsInCode' /\ i' = i /\ iv' = iv
  BY <1>1, ScanUnchanged DEF RaInv, scanVars
<1>3. Fits' /\ RaTypeOK'
  BY <1>1, <1>2 DEF RaInv, RaTypeOK, Fits, N, IsConst
<1> QED
  BY <1>1, <1>2, <1>3 DEF RaInv

(* The registers of the spilled intervals are marked.                      *)
LEMMA SpillRaInv ==
  ASSUME RaInv, SpillVregs
  PROVE  RaInv'
<1> DEFINE S == {v \in 1 .. Len(vregs) : \E a \in 1 .. N : iv[a].virt = v /\ state[a] = "LI_SPILL"}
<1>1. /\ UNCHANGED scanVars /\ phase = "spill" /\ phase' = "insert"
      /\ bbs' = bbs /\ cur' = cur
  BY DEF SpillVregs
<1>2. /\ SInv' /\ N' = N /\ ConstsKept' /\ StartsInCode'
      /\ i' = i /\ iv' = iv /\ state' = state
  BY <1>1, ScanUnchanged DEF RaInv, scanVars
<1>3. RaTypeOK /\ DOMAIN vregs = 1 .. Len(vregs)
  BY BlocksAre DEF RaInv
<1>4. /\ vregs' \in Seq(VRegs)
      /\ Len(vregs') = Len(vregs)
      /\ \A v \in 1 .. Len(vregs) :
           /\ vregs'[v].cls = vregs[v].cls
           /\ "VRF_CONST" \in vregs'[v].flag <=> "VRF_CONST" \in vregs[v].flag
           /\ v \in S => "VRF_SPILLED" \in vregs'[v].flag
  <2>1. vregs' = [v \in DOMAIN vregs |->
                    IF v \in S THEN [vregs[v] EXCEPT !.flag = @ \cup {"VRF_SPILLED"}]
                    ELSE vregs[v]]
    BY <1>3 DEF SpillVregs
  <2> HIDE DEF S
  <2> QED
    BY <1>3, <2>1, FlagsAdded
<1>5. Fits /\ Fits'
  <2>1. Fits
    BY <1>1 DEF RaInv
  <2> HIDE DEF S
  <2> QED
    BY <1>2, <1>4, <2>1, FitsUnchanged
<1>6. SpillsMarked'
  <2> SUFFICES ASSUME NEW a \in 1 .. N, state[a] = "LI_SPILL"
               PROVE  "VRF_SPILLED" \in vregs'[iv[a].virt].flag
    BY <1>2 DEF SpillsMarked, Spilled
  <2>1. iv[a].virt \in S
    BY <1>5 DEF Fits
  <2> HIDE DEF S
  <2>2. iv[a].virt \in 1 .. Len(vregs)
    BY <1>5 DEF Fits
  <2> QED
    BY <1>4, <2>1, <2>2
<1>7. RaTypeOK'
  BY <1>1, <1>3, <1>4 DEF RaTypeOK
<1>8. cur' = CursorStart /\ i' > N'
  BY <1>1, <1>2 DEF RaInv
<1>9. BehindSettled'
  <2>1. Len(bbs) \in Nat /\ \A b \in 1 .. Len(bbs) : Len(bbs[b].irs) \in Nat
    BY <1>3, BlocksAre
  <2> QED
    BY <1>1, <1>8, <2>1 DEF BehindSettled, Behind, CursorStart
<1> QED
  BY <1>1, <1>2, <1>5, <1>6, <1>7, <1>8, <1>9 DEF RaInv

(* Putting the one instruction back changes nothing.                       *)
LEMMA PutBack ==
  ASSUME NEW S, NEW s \in Seq(S), NEW k \in 1 .. Len(s)
  PROVE  SubSeq(s, 1, k - 1) \o (<<>> \o <<s[k]>> \o <<>>) \o SubSeq(s, k + 1, Len(s)) = s
<1>1. Len(s) \in Nat /\ s[k] \in S
  OBVIOUS
<1>2. <<>> \o <<s[k]>> \o <<>> = <<s[k]>>
  BY <1>1
<1>3. SubSeq(s, 1, k - 1) \o <<s[k]>> = SubSeq(s, 1, k)
  BY <1>1, SubSeqRecursiveSecond
<1>4. SubSeq(s, 1, k) \o SubSeq(s, k + 1, Len(s)) = SubSeq(s, 1, Len(s))
  BY <1>1, ConcatAdjacentSubSeq
<1>5. SubSeq(s, 1, Len(s)) = s
  BY SubSeqFull
<1> QED
  BY <1>2, <1>3, <1>4, <1>5

(* One instruction gets its loads and stores.                              *)
LEMMA InsertStepRaInv ==
  ASSUME RaInv, InsertStep
  PROVE  RaInv'
<1> DEFINE n == Len(vregs)
           irs == bbs[cur.b].irs
           ir == irs[cur.j]
           w == InsertAround(ir, vregs)
           new == w.before \o <<w.ir>> \o w.after
           irs2 == SubSeq(irs, 1, cur.j - 1) \o new \o SubSeq(irs, cur.j + 1, Len(irs))
<1>1. /\ UNCHANGED scanVars /\ phase = "insert" /\ phase' = "insert"
      /\ cur.b <= Len(bbs) /\ cur.j <= Len(irs)
      /\ bbs' = [bbs EXCEPT ![cur.b].irs = irs2]
      /\ vregs' = w.vregs
      /\ cur' = [cur EXCEPT !.j = @ + Len(new), !.inserted = @ \/ w.inserted]
  BY DEF InsertStep
<1>2. /\ RaTypeOK /\ n \in Nat /\ cur.b \in 1 .. Len(bbs) /\ cur.j \in 1 .. Len(irs)
      /\ cur \in [b : Nat, j : Nat, inserted : BOOLEAN] /\ cur.b > 0 /\ cur.j > 0
      /\ irs \in Seq(Instructions(n)) /\ Len(irs) \in Nat /\ Len(bbs) \in Nat
      /\ bbs[cur.b] \in Blocks(n) /\ cur.b \in Nat /\ cur.j \in Nat /\ cur.inserted \in BOOLEAN
  <2>1. RaTypeOK /\ cur \in [b : Nat, j : Nat, inserted : BOOLEAN] /\ cur.b > 0 /\ cur.j > 0
    BY DEF RaInv, RaTypeOK
  <2>2. cur.b \in Nat /\ cur.j \in Nat /\ Len(bbs) \in Nat
    BY <2>1, BlocksAre
  <2>3. cur.b \in 1 .. Len(bbs) /\ cur.b > 0 /\ cur.j > 0
    <3>1. cur.b <= Len(bbs)
      BY <1>1
    <3> QED
      BY <2>1, <2>2, <3>1
  <2>4. /\ irs \in Seq(Instructions(n)) /\ Len(irs) \in Nat /\ bbs[cur.b] \in Blocks(n)
        /\ n \in Nat
    BY <2>1, <2>3, BlocksAre
  <2> QED
    <3>1. cur.j \in 1 .. Len(irs) /\ cur.inserted \in BOOLEAN
      <4>1. cur.j <= Len(irs)
        BY <1>1
      <4> QED
        BY <2>1, <2>2, <2>4, <4>1
    <3> HIDE DEF irs, n
    <3> QED
      BY <2>1, <2>2, <2>3, <2>4, <3>1
<1>3. ir \in Instructions(n)
  BY <1>2
<1>4. /\ \E m \in Nat : m >= n /\ IsWork(w, m)
      /\ ~ w.inserted => w = Untouched(ir, vregs) /\ Settled(ir, vregs)
  BY <1>2, <1>3, InsertAroundIs
<1> HIDE DEF w
<1>5. PICK m \in Nat : m >= n /\ IsWork(w, m)
  BY <1>4
<1>6. /\ w.vregs \in Seq(VRegs) /\ Len(w.vregs) = m /\ w.inserted \in BOOLEAN
      /\ w.before \in Seq(Instructions(m)) /\ w.after \in Seq(Instructions(m))
      /\ w.ir \in Instructions(m)
  BY <1>5 DEF IsWork, Works
<1>7. new \in Seq(Instructions(m)) /\ Len(new) \in Nat
  <2> DEFINE I == Instructions(m)
             before == w.before
             after == w.after
             mid == <<w.ir>>
  <2>1. before \in Seq(I) /\ after \in Seq(I) /\ mid \in Seq(I)
    BY <1>6
  <2> HIDE DEF I, before, after, mid
  <2>2. before \o mid \in Seq(I)
    BY <2>1, ConcatProperties
  <2>3. before \o mid \o after \in Seq(I)
    BY <2>1, <2>2, ConcatProperties
  <2> QED
    BY <2>3, LenProperties DEF I, before, after, mid
<1>8. irs2 \in Seq(Instructions(m))
  <2>1. irs \in Seq(Instructions(m))
    BY <1>2, <1>5, MoreRegisters
  <2>2. /\ SubSeq(irs, 1, cur.j - 1) \in Seq(Instructions(m))
        /\ SubSeq(irs, cur.j + 1, Len(irs)) \in Seq(Instructions(m))
    BY <1>2, <2>1
  <2> HIDE DEF irs, new
  <2> QED
    BY <1>7, <2>2
<1>9. RaTypeOK'
  <2>1. bbs \in Seq(Blocks(m)) /\ bbs[cur.b] \in Blocks(m)
    <3>1. Blocks(n) \subseteq Blocks(m)
      BY <1>2, <1>5, MoreRegisters
    <3>2. bbs \in Seq(Blocks(n))
      BY <1>2 DEF RaTypeOK
    <3> QED
      BY <1>2, <3>1, <3>2, SeqMonotonic
  <2> DEFINE bb == bbs[cur.b]
             bb2 == [bb EXCEPT !.irs = irs2]
  <2>2. bbs' = [bbs EXCEPT ![cur.b] = bb2]
    BY <1>1
  <2>3. bb2 \in Blocks(m)
    <3> HIDE DEF irs2
    <3> QED
      BY <1>8, <2>1 DEF Blocks
  <2> HIDE DEF bb2
  <2>4. bbs' \in Seq(Blocks(m))
    BY <1>2, <2>1, <2>2, <2>3, ExceptSeq
  <2>5. cur' \in [b : Nat, j : Nat, inserted : BOOLEAN] /\ cur'.b > 0 /\ cur'.j > 0
    <3> DEFINE x == cur.j + Len(new)
               y == cur.inserted \/ w.inserted
    <3>1. x \in Nat /\ x > 0
      <4> DEFINE l == Len(new)
      <4>1. l \in Nat
        BY <1>7
      <4> HIDE DEF l
      <4>2. cur.j \in Nat /\ cur.j > 0
        BY <1>2
      <4>3. cur.j + l \in Nat /\ cur.j + l > 0
        BY <4>1, <4>2
      <4> QED
        BY <4>3 DEF l
    <3>3. y \in BOOLEAN
      OBVIOUS
    <3>2. cur' = [cur EXCEPT !.j = x, !.inserted = y]
      BY <1>1
    <3> HIDE DEF x, y
    <3> QED
      BY <1>2, <3>1, <3>2, <3>3
  <2> QED
    BY <1>1, <1>6, <2>4, <2>5 DEF RaTypeOK
<1>10. SInv' /\ N' = N /\ ConstsKept' /\ StartsInCode' /\ i' = i /\ iv' = iv /\ state' = state
  BY <1>1, ScanUnchanged DEF RaInv, scanVars
<1>11. ASSUME ~ cur'.inserted
       PROVE  Fits' /\ SpillsMarked' /\ BehindSettled'
  <2>1. ~ cur.inserted /\ ~ w.inserted /\ cur'.b = cur.b /\ cur'.j = cur.j + Len(new)
    <3> HIDE DEF new
    <3> QED
      BY <1>1, <1>2, <1>6, <1>11
  <2>2. w = Untouched(ir, vregs) /\ Settled(ir, vregs)
    BY <1>4, <2>1
  <2>3. w.vregs = vregs /\ w.before = <<>> /\ w.after = <<>> /\ w.ir = ir
    BY <2>2 DEF Untouched
  <2>4. new = <<>> \o <<ir>> \o <<>>
    BY <2>3
  <2>5. irs2 = irs
    <3> HIDE DEF irs, new
    <3> QED
      BY <1>2, <2>4, PutBack DEF ir
  <2>6. Len(new) = 1
    BY <2>3
  <2>7. vregs' = vregs /\ cur'.j = cur.j + 1
    BY <1>1, <2>1, <2>3, <2>6
  <2>8. bbs' = bbs
    <3>1. bbs' = [bbs EXCEPT ![cur.b].irs = irs]
      BY <1>1, <2>5
    <3>2. bbs[cur.b] = [bbs[cur.b] EXCEPT !.irs = irs]
      BY <1>2 DEF Blocks
    <3>3. bbs = [b \in 1 .. Len(bbs) |-> bbs[b]]
      BY <1>2 DEF RaTypeOK
    <3> QED
      BY <3>1, <3>2, <3>3
  <2>9. Fits /\ SpillsMarked /\ BehindSettled
    BY <1>1, <2>1 DEF RaInv
  <2>10. Fits' /\ SpillsMarked'
    BY <1>10, <2>7, <2>9 DEF Fits, SpillsMarked, N, IsConst, Spilled
  <2>11. BehindSettled'
    <3> SUFFICES ASSUME NEW b \in 1 .. Len(bbs), NEW k \in 1 .. Len(bbs[b].irs), Behind(b, k)'
                 PROVE  Settled(bbs[b].irs[k], vregs)
      BY <2>7, <2>8 DEF BehindSettled
    <3>1. Behind(b, k) \/ (b = cur.b /\ k = cur.j)
      <4>1. k \in Nat /\ b \in Nat /\ (b < cur.b \/ (b = cur.b /\ k < cur.j + 1))
        <5>1. k \in Nat /\ b \in Nat
          BY <1>2, BlocksAre
        <5>2. b < cur'.b \/ (b = cur'.b /\ k < cur'.j)
          BY DEF Behind
        <5> QED
          BY <2>1, <2>7, <5>1, <5>2
      <4> QED
        BY <1>2, <4>1 DEF Behind
    <3> QED
      BY <2>2, <2>9, <3>1 DEF BehindSettled
  <2> QED
    BY <2>10, <2>11
<1> QED
  BY <1>1, <1>9, <1>10, <1>11 DEF RaInv

(* The next block.                                                         *)
LEMMA InsertNextBlockRaInv ==
  ASSUME RaInv, InsertNextBlock
  PROVE  RaInv'
<1>1. /\ UNCHANGED scanVars /\ phase = "insert" /\ phase' = phase
      /\ cur.b <= Len(bbs) /\ cur.j > Len(bbs[cur.b].irs)
      /\ cur' = [cur EXCEPT !.b = @ + 1, !.j = 1]
      /\ vregs' = vregs /\ bbs' = bbs
  BY DEF InsertNextBlock
<1>2. /\ RaTypeOK
      /\ cur \in [b : Nat, j : Nat, inserted : BOOLEAN] /\ cur.b > 0 /\ cur.j > 0
      /\ Len(bbs) \in Nat /\ \A b \in 1 .. Len(bbs) : Len(bbs[b].irs) \in Nat
      /\ cur.b \in Nat
  BY BlocksAre DEF RaInv, RaTypeOK
<1>3. /\ cur'.b = cur.b + 1 /\ cur'.j = 1 /\ cur'.inserted = cur.inserted
      /\ cur' \in [b : Nat, j : Nat, inserted : BOOLEAN] /\ cur'.b > 0 /\ cur'.j > 0
  <2> DEFINE x == cur.b + 1
  <2>1. x \in Nat /\ x > 0
    BY <1>2
  <2>2. cur' = [cur EXCEPT !.b = x, !.j = 1] /\ x = cur.b + 1
    BY <1>1
  <2> HIDE DEF x
  <2>3. cur \in [b : Nat, j : Nat, inserted : BOOLEAN]
    BY <1>2
  <2>4. cur'.b = x /\ cur'.j = 1 /\ cur'.inserted = cur.inserted
    BY <2>2, <2>3
  <2>5. cur' \in [b : Nat, j : Nat, inserted : BOOLEAN]
    BY <2>1, <2>2, <2>3
  <2> QED
    BY <2>1, <2>2, <2>4, <2>5
<1>4. /\ SInv' /\ N' = N /\ ConstsKept' /\ StartsInCode'
      /\ i' = i /\ iv' = iv /\ state' = state
  BY <1>1, ScanUnchanged DEF RaInv, scanVars
<1>5. RaTypeOK'
  BY <1>1, <1>2, <1>3 DEF RaTypeOK
<1>6. ASSUME ~ cur.inserted
      PROVE  Fits' /\ SpillsMarked' /\ BehindSettled'
  <2>1. Fits /\ SpillsMarked /\ BehindSettled
    BY <1>1, <1>6 DEF RaInv
  <2>2. Fits' /\ SpillsMarked'
    BY <1>1, <1>4, <2>1 DEF Fits, SpillsMarked, N, IsConst, Spilled
  <2>3. ASSUME NEW b \in 1 .. Len(bbs), NEW k \in 1 .. Len(bbs[b].irs), Behind(b, k)'
        PROVE  Behind(b, k)
    <3>1. cur.b \in Nat /\ cur.j \in Nat
      BY <1>2
    <3> QED
      BY <1>1, <1>2, <1>3, <2>3, <3>1 DEF Behind
  <2> QED
    BY <1>1, <2>1, <2>2, <2>3 DEF BehindSettled
<1> QED
  BY <1>1, <1>3, <1>4, <1>5, <1>6 DEF RaInv

(* The end of a round, and of all rounds if nothing was inserted.          *)
LEMMA InsertEndRaInv ==
  ASSUME RaInv, InsertEnd
  PROVE  RaInv'
<1>1. /\ UNCHANGED scanVars /\ phase = "insert" /\ cur.b > Len(bbs)
      /\ phase' = IF cur.inserted THEN "check" ELSE "done"
      /\ cur' = CursorStart
      /\ vregs' = vregs /\ bbs' = bbs
  BY DEF InsertEnd
<1>2. /\ RaTypeOK /\ cur.b \in Nat /\ cur.inserted \in BOOLEAN
      /\ Len(bbs) \in Nat
  BY BlocksAre DEF RaInv, RaTypeOK
<1>3. /\ SInv' /\ N' = N /\ ConstsKept' /\ StartsInCode'
      /\ i' = i /\ iv' = iv /\ state' = state
  BY <1>1, ScanUnchanged DEF RaInv, scanVars
<1>4. RaTypeOK'
  BY <1>1, <1>2 DEF RaTypeOK, CursorStart
<1>5. ASSUME ~ cur.inserted
      PROVE  Fits' /\ SpillsMarked' /\ AllSettled'
  <2>1. Fits /\ SpillsMarked /\ BehindSettled
    BY <1>1, <1>5 DEF RaInv
  <2>2. Fits' /\ SpillsMarked'
    BY <1>1, <1>3, <2>1 DEF Fits, SpillsMarked, N, IsConst, Spilled
  <2>3. \A b \in 1 .. Len(bbs) : b < cur.b
    BY <1>1, <1>2
  <2> QED
    BY <1>1, <2>1, <2>2, <2>3 DEF BehindSettled, Behind, AllSettled
<1>6. i > N
  BY <1>1 DEF RaInv
<1> QED
  BY <1>1, <1>2, <1>3, <1>4, <1>5, <1>6 DEF RaInv

(* Every step of the rounds keeps the invariant.                           *)
LEMMA RaNextRaInv == RaInv /\ [RaNext]_vars => RaInv'
<1> SUFFICES ASSUME RaInv, [RaNext]_vars PROVE RaInv'
  OBVIOUS
<1>1. CASE UNCHANGED vars
  <2>1. UNCHANGED scanVars /\ UNCHANGED raVars
    BY <1>1 DEF vars
  <2>2. SInv' /\ ConstsKept' /\ StartsInCode'
    BY <2>1, ScanUnchanged DEF RaInv
  <2> QED
    BY <2>1, <2>2 DEF scanVars, raVars, RaInv, RaTypeOK, Fits, SpillsMarked, BehindSettled,
                      Behind, AllSettled, N, IsConst, Spilled
<1>2. CASE RaNext
  BY <1>2, CheckRaInv, ScanRaInv, ScanEndRaInv, SpillRaInv, InsertStepRaInv,
     InsertNextBlockRaInv, InsertEndRaInv DEF RaNext
<1> QED
  BY <1>1, <1>2

----------------------------------------------------------------------------
(***************************************************************************)
(* The theorems.                                                           *)
(***************************************************************************)

(* In every state of the rounds the invariant holds: registers, blocks and *)
(* intervals fit together (alloc_physical_registers).                      *)
THEOREM RoundsRaInv == RaSpec => []RaInv
  BY InitRaInv, RaNextRaInv, PTL DEF RaSpec

(* In every round, no two intervals that overlap are in one register       *)
(* (regalloc.c:172-203).                                                   *)
THEOREM RoundsNoClash == RaSpec => []NoClash
<1>1. RaInv => NoClash
  BY DEF RaInv, SInv, IInv
<1> QED
  BY <1>1, RoundsRaInv, PTL

(* In every round, an interval goes to the stack only where more intervals *)
(* of its class are live than there are registers (regalloc.c:83-98).      *)
THEOREM RoundsSpillNecessary == RaSpec => []SpillNecessary
<1>1. RaInv => SpillNecessary
  BY DEF RaInv, SInv
<1> QED
  BY <1>1, RoundsRaInv, PTL

(* In every round, a register is free where fewer intervals are active     *)
(* than there are registers: assert(regno >= 0), regalloc.c:195.           *)
THEOREM RoundsRegisterFree == RaSpec => []RegisterFree
<1>1. RaInv => RegisterFree
  BY OneIsFree DEF RaInv, SInv
<1> QED
  BY <1>1, RoundsRaInv, PTL

(* When the rounds end, every operand that has to be in a register is in   *)
(* one: nothing inserted means nothing spilled is left (regalloc.c:259-305)*)
THEOREM RoundsOperands == RaSpec => []OperandsInRegisters
<1>1. RaInv => OperandsInRegisters
  <2> SUFFICES ASSUME RaInv, phase = "done",
                      NEW b \in DOMAIN bbs, NEW k \in DOMAIN bbs[b].irs,
                      NEW field \in {"dst", "opr1", "opr2"},
                      TakesRegister(bbs[b].irs[k], field), bbs[b].irs[k][field] # 0,
                      ~ IsConst(bbs[b].irs[k][field])
               PROVE  /\ ~ Spilled(bbs[b].irs[k][field])
                      /\ phys[IntervalOf(bbs[b].irs[k][field])]
                           \in Regs(vregs[bbs[b].irs[k][field]].cls)
    BY DEF OperandsInRegisters
  <2> DEFINE ir == bbs[b].irs[k]
             v == ir[field]
             a == IntervalOf(v)
  <2>1. RaTypeOK /\ AllSettled /\ cur = CursorStart /\ i > N
    BY DEF RaInv
  <2>2. Fits /\ SpillsMarked
    BY <2>1 DEF RaInv, CursorStart
  <2>3. /\ b \in 1 .. Len(bbs) /\ k \in 1 .. Len(bbs[b].irs)
        /\ bbs[b].irs \in Seq(Instructions(Len(vregs))) /\ Len(vregs) \in Nat
    BY <2>1, BlocksAre
  <2>4. ir \in Instructions(Len(vregs))
    BY <2>3
  <2>5. v \in 1 .. Len(vregs)
    <3>1. v \in 0 .. Len(vregs)
      BY <2>4 DEF Instructions
    <3> HIDE DEF v
    <3>2. v # 0
      BY DEF v
    <3> QED
      BY <2>3, <3>1, <3>2
  <2>6. ~ Spilled(v)
    BY <2>1, <2>3 DEF AllSettled, Settled, IsConst, Spilled
  <2> HIDE DEF v, ir
  <2>7. a \in 1 .. N /\ iv[a].virt = v
    BY <2>2, <2>5 DEF Fits, IntervalOf
  <2> HIDE DEF a
  <2>8. state[a] # "LI_SPILL"
    BY <2>2, <2>6, <2>7 DEF SpillsMarked
  <2>9. state[a] # "LI_CONST"
    BY <2>2, <2>7 DEF RaInv, ConstsKept, Fits, v, ir
  <2>10. state[a] \in LiveIntervalState /\ i \in Nat /\ N \in Nat
    BY <2>7 DEF RaInv, SInv, IInv, TypeInv, ScanTypes
  <2>11. InRegister(a)
    BY <2>1, <2>7, <2>8, <2>9, <2>10 DEF InRegister, LiveIntervalState
  <2>12. phys[a] \in Regs(iv[a].cls)
    BY <2>7, <2>11 DEF RaInv, SInv, IInv, UsedCoversAssigned
  <2>13. iv[a].cls = vregs[v].cls
    BY <2>2, <2>7 DEF Fits
  <2> QED
    BY <2>6, <2>12, <2>13 DEF a, v, ir
<1> QED
  BY <1>1, RoundsRaInv, PTL

----------------------------------------------------------------------------
(***************************************************************************)
(* The registers that calls save.                                          *)
(***************************************************************************)

(* The array livings exists, and goes on from instruction to instruction.  *)
LEMMA LivingsIs ==
  ASSUME CodeLength \in Nat
  PROVE  /\ Livings[0] = {}
         /\ \A k \in 1 .. CodeLength :
              Livings[k] = EnterAt(LeaveAt(Livings[k - 1], k - 1), k - 1)
<1> DEFINE n == CodeLength
           S == SUBSET (1 .. N)
           step(k, x) == EnterAt(LeaveAt(x, k - 1), k - 1)
           IsLivings(f) == f = [k \in 0 .. n |-> IF k = 0 THEN {} ELSE step(k, f[k - 1])]
           g == [kx \in (1 .. n) \X S |-> step(kx[1], kx[2])]
<1>1. n \in Nat /\ {} \in S
  OBVIOUS
<1>2. ASSUME NEW k \in 1 .. n, NEW x \in S PROVE step(k, x) \in S
  BY DEF EnterAt, Entering, LeaveAt
<1>3. Livings = CHOOSE f : IsLivings(f)
  BY DEF Livings
<1> HIDE DEF n, S, step
<1>4. g \in [(1 .. n) \X S -> S]
  <2>1. \A kx \in (1 .. n) \X S : kx[1] \in 1 .. n /\ kx[2] \in S
    OBVIOUS
  <2>2. \A kx \in (1 .. n) \X S : step(kx[1], kx[2]) \in S
    BY <1>2, <2>1
  <2> QED
    BY <2>2
<1>5. \A k \in 1 .. n, x \in S : g[<<k, x>>] = step(k, x)
  OBVIOUS
<1> HIDE DEF g
<1>6. PICK f \in [0 .. n -> S] : f[0] = {} /\ \A k \in 1 .. n : f[k] = g[<<k, f[k - 1]>>]
  <2>1. \E f \in [0 .. n -> S] : Steps(f, n, {}, g)
    BY <1>1, <1>4, RecursionExists
  <2> QED
    BY <2>1 DEF Steps
<1>7. ASSUME NEW k \in 1 .. n PROVE f[k] = step(k, f[k - 1])
  <2>1. k - 1 \in 0 .. n /\ f[k - 1] \in S
    BY <1>1
  <2> QED
    BY <1>5, <1>6, <2>1
<1>8. IsLivings(f)
  <2>1. \A k \in 0 .. n : f[k] = IF k = 0 THEN {} ELSE step(k, f[k - 1])
    BY <1>1, <1>6, <1>7
  <2> QED
    BY <1>6, <2>1
<1>9. IsLivings(Livings)
  BY <1>3, <1>8
<1>10. \A k \in 0 .. n : Livings[k] = IF k = 0 THEN {} ELSE step(k, Livings[k - 1])
  BY <1>9
<1>11. Livings[0] = {} /\ \A k \in 1 .. n : Livings[k] = step(k, Livings[k - 1])
  BY <1>1, <1>10
<1> QED
  BY <1>11 DEF n, step

(* The word living_pregs likewise.                                         *)
LEMMA LivingPregsIs ==
  ASSUME CodeLength \in Nat
  PROVE  /\ LivingPregs[0] = {}
         /\ \A k \in 1 .. CodeLength :
              LivingPregs[k] = ClearedAt(LivingPregs[k - 1], k - 1)
                                 \cup {BitOf(a) : a \in Entering(k - 1)}
<1> DEFINE n == CodeLength
           S == SUBSET {BitOf(a) : a \in 1 .. N}
           step(k, x) == ClearedAt(x, k - 1) \cup {BitOf(a) : a \in Entering(k - 1)}
           IsPregs(f) == f = [k \in 0 .. n |-> IF k = 0 THEN {} ELSE step(k, f[k - 1])]
           g == [kx \in (1 .. n) \X S |-> step(kx[1], kx[2])]
<1>1. n \in Nat /\ {} \in S
  OBVIOUS
<1>2. ASSUME NEW k \in 1 .. n, NEW x \in S PROVE step(k, x) \in S
  <2>1. ClearedAt(x, k - 1) \subseteq x
    BY DEF ClearedAt, Cleared
  <2>2. {BitOf(a) : a \in Entering(k - 1)} \in S
    BY DEF Entering
  <2> QED
    BY <2>1, <2>2
<1>3. LivingPregs = CHOOSE f : IsPregs(f)
  BY DEF LivingPregs
<1> HIDE DEF n, S, step
<1>4. g \in [(1 .. n) \X S -> S]
  <2>1. \A kx \in (1 .. n) \X S : kx[1] \in 1 .. n /\ kx[2] \in S
    OBVIOUS
  <2>2. \A kx \in (1 .. n) \X S : step(kx[1], kx[2]) \in S
    BY <1>2, <2>1
  <2> QED
    BY <2>2
<1>5. \A k \in 1 .. n, x \in S : g[<<k, x>>] = step(k, x)
  OBVIOUS
<1> HIDE DEF g
<1>6. PICK f \in [0 .. n -> S] : f[0] = {} /\ \A k \in 1 .. n : f[k] = g[<<k, f[k - 1]>>]
  <2>1. \E f \in [0 .. n -> S] : Steps(f, n, {}, g)
    BY <1>1, <1>4, RecursionExists
  <2> QED
    BY <2>1 DEF Steps
<1>7. ASSUME NEW k \in 1 .. n PROVE f[k] = step(k, f[k - 1])
  <2>1. k - 1 \in 0 .. n /\ f[k - 1] \in S
    BY <1>1
  <2> QED
    BY <1>5, <1>6, <2>1
<1>8. IsPregs(f)
  <2>1. \A k \in 0 .. n : f[k] = IF k = 0 THEN {} ELSE step(k, f[k - 1])
    BY <1>1, <1>6, <1>7
  <2> QED
    BY <1>6, <2>1
<1>9. IsPregs(LivingPregs)
  BY <1>3, <1>8
<1>10. \A k \in 0 .. n :
          LivingPregs[k] = IF k = 0 THEN {} ELSE step(k, LivingPregs[k - 1])
  BY <1>9
<1>11. /\ LivingPregs[0] = {}
       /\ \A k \in 1 .. n : LivingPregs[k] = step(k, LivingPregs[k - 1])
  BY <1>1, <1>10
<1> QED
  BY <1>11 DEF n, step

(* Intervals that hold one register do not overlap, whichever comes first. *)
LEMMA ApartWhereLive ==
  ASSUME RaInv, i > N, NEW a \in 1 .. N, NEW b \in 1 .. N, a # b,
         state[a] = "LI_NORMAL", state[b] = "LI_NORMAL",
         iv[a].start < iv[b].start \/ (iv[a].start = iv[b].start /\ a < b),
         iv[b].start < iv[a].end
  PROVE  RegisterOf(a) # RegisterOf(b)
<1>1. /\ N \in Nat /\ i \in Nat /\ Sorted(iv) /\ NoClash
      /\ iv[a].start \in Int /\ iv[b].start \in Int /\ iv[a].end \in Int
  BY DEF RaInv, SInv, IInv, TypeInv, ScanTypes, IsInterval
<1>2. a < b
  <2> SUFFICES ASSUME b < a PROVE FALSE
    OBVIOUS
  <2>1. SortedBefore(iv[b], iv[a])
    BY DEF RaInv, SInv, IInv, Sorted, N
  <2> QED
    BY <1>1, <2>1 DEF SortedBefore
<1>3. InRegister(a) /\ InRegister(b)
  BY <1>1 DEF InRegister
<1>4. iv[a].cls = iv[b].cls => phys[a] # phys[b]
  BY <1>1, <1>2, <1>3 DEF NoClash
<1> QED
  BY <1>4 DEF RegisterOf

(* The registers have bits that the mask of codegen.c:587 does not cut     *)
(* off: true of x64 (7 + 8 registers), false of aarch64 (17 + 24).        *)
BitsInMask == PhysMax["ireg"] + PhysMax["freg"] <= UintBits

(* Different registers have different bits.                                *)
LEMMA BitsAre ==
  ASSUME RaInv, i > N, BitsInMask,
         NEW a \in 1 .. N, state[a] = "LI_NORMAL", NEW b \in 1 .. N, state[b] = "LI_NORMAL"
  PROVE  /\ BitOf(a) \in 0 .. UintBits - 1
         /\ BitOf(a) % UintBits = BitOf(a)
         /\ RegisterOf(a) # RegisterOf(b) => BitOf(a) # BitOf(b)
<1>1. N \in Nat /\ i \in Nat
  BY DEF RaInv, SInv, IInv, TypeInv, ScanTypes
<1>2. ASSUME NEW d \in 1 .. N, state[d] = "LI_NORMAL"
      PROVE  iv[d].cls \in Class /\ phys[d] \in Regs(iv[d].cls)
  <2>1. InRegister(d)
    BY <1>1, <1>2 DEF InRegister
  <2> QED
    BY <1>2, <2>1 DEF RaInv, SInv, IInv, TypeInv, IsInterval, UsedCoversAssigned
<1>3. /\ PhysMax["ireg"] \in Nat /\ PhysMax["freg"] \in Nat
      /\ UintBits \in Nat \ {0}
  BY PhysMaxAssumption, UintBitsAssumption DEF Class
<1>4. \A d \in {a, b} :
         \/ iv[d].cls = "ireg" /\ phys[d] \in 0 .. PhysMax["ireg"] - 1
         \/ iv[d].cls = "freg" /\ phys[d] \in 0 .. PhysMax["freg"] - 1
  BY <1>2 DEF Class, Regs
<1>5. BitOf(a) \in 0 .. UintBits - 1
  BY <1>3, <1>4 DEF BitOf, BitsInMask
<1>6. BitOf(a) % UintBits = BitOf(a)
  BY <1>3, <1>5
<1>7. RegisterOf(a) # RegisterOf(b) => BitOf(a) # BitOf(b)
  BY <1>3, <1>4 DEF BitOf, RegisterOf
<1> QED
  BY <1>5, <1>6, <1>7

(* What is in livings has a register and began before.                     *)
LEMMA LivingsBegan ==
  ASSUME CodeLength \in Nat, N \in Nat,
         \A a \in 1 .. N : iv[a].start \in Int
  PROVE  \A k \in 0 .. CodeLength : \A a \in Livings[k] :
           a \in 1 .. N /\ state[a] = "LI_NORMAL" /\ iv[a].start < k
<1> DEFINE Began(a, k) == a \in 1 .. N /\ state[a] = "LI_NORMAL" /\ iv[a].start < k
           T == {k \in 0 .. CodeLength : \A a \in Livings[k] : Began(a, k)}
<1>1. 0 \in T
  BY LivingsIs
<1>2. ASSUME NEW k \in 1 .. CodeLength, k - 1 \in T PROVE k \in T
  <2> SUFFICES ASSUME NEW a \in Livings[k] PROVE Began(a, k)
    OBVIOUS
  <2>1. a \in Livings[k - 1] \/ a \in Entering(k - 1)
    BY LivingsIs DEF EnterAt, LeaveAt
  <2> QED
    BY <1>2, <2>1 DEF Entering
<1> HIDE DEF T
<1>3. 0 .. CodeLength \subseteq T
  BY <1>1, <1>2, UpTo
<1> QED
  BY <1>3 DEF T

(* Every call saves what lives across it (codegen.c:563-613), if the mask  *)
(* has a bit for every register.                                           *)
THEOREM RoundsLivingCovers == ASSUME BitsInMask PROVE RaSpec => []LivingCoversCalls
<1>1. RaInv => LivingCoversCalls
  <2> SUFFICES ASSUME RaInv, phase = "done"
               PROVE  LivingCoversCalls
    BY DEF LivingCoversCalls
  <2>1. /\ RaTypeOK /\ i > N /\ StartsInCode /\ N \in Nat
        /\ \A a \in 1 .. N : iv[a].start \in Int /\ iv[a].end \in Int
    BY DEF RaInv, SInv, IInv, TypeInv, ScanTypes, IsInterval
  <2>2. CodeLength \in Nat
    BY <2>1, CodeAscends
  <2> DEFINE Alive(a, k) == state[a] = "LI_NORMAL" /\ iv[a].start < k /\ k <= iv[a].end
             T == {k \in 0 .. CodeLength :
                     \A a \in 1 .. N :
                       Alive(a, k) => a \in Livings[k] /\ BitOf(a) \in LivingPregs[k]}
  <2>3. 0 \in T
    BY <2>1, <2>2 DEF StartsInCode
  <2>4. ASSUME NEW k \in 0 .. CodeLength, NEW a \in Livings[k], state[a] = "LI_NORMAL",
               a \in 1 .. N, BitOf(a) \in LivingPregs[k], iv[a].start < k, k < iv[a].end
        PROVE  BitOf(a) \in ClearedAt(LivingPregs[k], k)
    <3> SUFFICES ASSUME NEW b \in Leaving(Livings[k], k)
                 PROVE  BitOf(a) < UintBits /\ BitOf(a) # BitOf(b) % UintBits
      BY <2>4 DEF ClearedAt, Cleared
    <3>1. b \in 1 .. N /\ state[b] = "LI_NORMAL" /\ iv[b].start < k /\ iv[b].end = k
      BY <2>1, <2>2, LivingsBegan DEF Leaving
    <3>2. a # b
      BY <2>1, <2>4, <3>1
    <3>3. RegisterOf(a) # RegisterOf(b)
      <4>1. /\ iv[a].start < iv[b].end /\ iv[b].start < iv[a].end
            /\ iv[a].start \in Int /\ iv[b].start \in Int
        BY <2>1, <2>4, <3>1
      <4>2. \/ iv[a].start < iv[b].start \/ (iv[a].start = iv[b].start /\ a < b)
            \/ iv[b].start < iv[a].start \/ (iv[b].start = iv[a].start /\ b < a)
        BY <2>1, <2>4, <3>1, <3>2, <4>1
      <4> QED
        BY <2>1, <2>4, <3>1, <3>2, <4>1, <4>2, ApartWhereLive
    <3>4. /\ BitOf(a) \in 0 .. UintBits - 1
          /\ BitOf(b) % UintBits = BitOf(b)
          /\ BitOf(a) # BitOf(b)
      BY <2>1, <2>4, <3>1, <3>3, BitsAre
    <3> QED
      BY <3>4, UintBitsAssumption
  <2>5. ASSUME NEW k \in 1 .. CodeLength, k - 1 \in T PROVE k \in T
    <3> SUFFICES ASSUME NEW a \in 1 .. N, Alive(a, k)
                 PROVE  a \in Livings[k] /\ BitOf(a) \in LivingPregs[k]
      BY <2>2
    <3> DEFINE stay == LeaveAt(Livings[k - 1], k - 1)
               entering == Entering(k - 1)
    <3>1. /\ Livings[k] =
               {b \in entering : \A c \in entering : c > b => RegisterOf(c) # RegisterOf(b)}
                 \cup {b \in stay : \A c \in entering : RegisterOf(c) # RegisterOf(b)}
          /\ LivingPregs[k] = ClearedAt(LivingPregs[k - 1], k - 1)
                                 \cup {BitOf(b) : b \in entering}
      BY <2>2, LivingsIs, LivingPregsIs DEF EnterAt
    <3>2. ASSUME NEW b \in entering, b # a, iv[a].start < k - 1 \/ (iv[a].start = k - 1 /\ a < b)
          PROVE  RegisterOf(b) # RegisterOf(a)
      BY <2>1, <3>2, ApartWhereLive DEF Entering
    <3>3. CASE iv[a].start = k - 1
      <4>1. a \in entering
        BY <3>3 DEF Entering
      <4>2. \A c \in entering : c > a => RegisterOf(c) # RegisterOf(a)
        BY <3>2, <3>3 DEF Entering
      <4> HIDE DEF entering, stay
      <4> QED
        BY <3>1, <4>1, <4>2
    <3>4. CASE iv[a].start < k - 1
      <4>1. a \in Livings[k - 1] /\ BitOf(a) \in LivingPregs[k - 1] /\ k - 1 < iv[a].end
        BY <2>1, <2>5, <3>4
      <4>2. a \in stay
        BY <2>1, <4>1 DEF LeaveAt, Leaving
      <4>3. \A c \in entering : RegisterOf(c) # RegisterOf(a)
        <5> SUFFICES ASSUME NEW c \in entering PROVE RegisterOf(c) # RegisterOf(a)
          OBVIOUS
        <5>1. c # a
          BY <2>1, <3>4 DEF Entering
        <5> HIDE DEF entering
        <5> QED
          BY <3>2, <3>4, <5>1
      <4>4. k - 1 \in 0 .. CodeLength
        BY <2>2
      <4>5. BitOf(a) \in ClearedAt(LivingPregs[k - 1], k - 1)
        BY <2>4, <3>4, <4>1, <4>4
      <4> HIDE DEF entering, stay
      <4> QED
        BY <3>1, <4>2, <4>3, <4>5
    <3>5. iv[a].start = k - 1 \/ iv[a].start < k - 1
      BY <2>1
    <3> QED
      BY <3>3, <3>4, <3>5
  <2> HIDE DEF T
  <2>6. 0 .. CodeLength \subseteq T
    BY <2>2, <2>3, <2>5, UpTo
  <2> SUFFICES ASSUME NEW nip \in 0 .. CodeLength - 1, NEW a \in 1 .. N,
                      state[a] = "LI_NORMAL", iv[a].start < nip, nip < iv[a].end
               PROVE  BitOf(a) \in detect_living_registers[nip]
    BY DEF LivingCoversCalls
  <2>7. nip \in 0 .. CodeLength /\ nip \in T
    BY <2>2, <2>6
  <2>8. a \in Livings[nip] /\ BitOf(a) \in LivingPregs[nip]
    BY <2>1, <2>7 DEF T
  <2> QED
    BY <2>4, <2>7, <2>8 DEF detect_living_registers
<1> QED
  BY <1>1, RoundsRaInv, PTL
----------------------------------------------------------------------------
(***************************************************************************)
(* The meaning of code.                                                    *)
(***************************************************************************)

(* A function that each value is computed from the one before exists:      *)
(* the states between the instructions.                                    *)
LEMMA WithinIs ==
  ASSUME NEW irs, Len(irs) \in Nat, NEW s, NEW loc
  PROVE  /\ Within(irs, s, loc)[0] = s
         /\ \A j \in 1 .. Len(irs) :
              Within(irs, s, loc)[j] = Execute(Within(irs, s, loc)[j - 1], irs[j], loc)
<1> DEFINE n == Len(irs)
           step(j, x) == Execute(x, irs[j], loc)
           Is(f) == f = [j \in 0 .. n |-> IF j = 0 THEN s ELSE step(j, f[j - 1])]
           Goes(f, m) == f[0] = s /\ \A k \in 1 .. m : f[k] = step(k, f[k - 1])
           T == {m \in 0 .. n : \E f : f = [k \in 0 .. m |-> f[k]] /\ Goes(f, m)}
<1>1. Within(irs, s, loc) = CHOOSE f : Is(f)
  BY DEF Within
<1> HIDE DEF step
<1>2. 0 \in T
  <2> DEFINE f == [k \in 0 .. 0 |-> s]
  <2>1. f = [k \in 0 .. 0 |-> f[k]] /\ f[0] = s /\ 1 .. 0 = {} /\ 0 \in 0 .. n
    OBVIOUS
  <2> QED
    BY <2>1
<1>3. ASSUME NEW m \in 1 .. n, m - 1 \in T PROVE m \in T
  <2>1. PICK f : f = [k \in 0 .. m - 1 |-> f[k]] /\ Goes(f, m - 1)
    BY <1>3
  <2> DEFINE h == [k \in 0 .. m |-> IF k = m THEN step(m, f[m - 1]) ELSE f[k]]
  <2>2. h[m] = step(m, f[m - 1]) /\ \A k \in 0 .. m - 1 : h[k] = f[k]
    OBVIOUS
  <2>3. h = [k \in 0 .. m |-> h[k]]
    OBVIOUS
  <2> HIDE DEF h
  <2>4. h[0] = s
    BY <2>1, <2>2
  <2>5. ASSUME NEW k \in 1 .. m PROVE h[k] = step(k, h[k - 1])
    <3>1. k - 1 \in 0 .. m - 1 /\ h[k - 1] = f[k - 1]
      BY <2>2
    <3>2. CASE k = m
      BY <2>2, <3>1, <3>2
    <3>3. CASE k # m
      <4>1. k \in 1 .. m - 1 /\ k \in 0 .. m - 1
        BY <3>3
      <4> QED
        BY <2>1, <2>2, <3>1, <4>1
    <3> QED
      BY <3>2, <3>3
  <2>6. Goes(h, m)
    BY <2>4, <2>5
  <2> HIDE DEF Goes
  <2> QED
    BY <2>3, <2>6
<1>4. n \in T
  <2> HIDE DEF T
  <2>1. 0 .. n \subseteq T
    BY <1>2, <1>3, UpTo
  <2> QED
    BY <2>1
<1>5. PICK f : f = [k \in 0 .. n |-> f[k]] /\ Goes(f, n)
  BY <1>4
<1>6. Is(f)
  <2>1. ASSUME NEW j \in 0 .. n PROVE f[j] = IF j = 0 THEN s ELSE step(j, f[j - 1])
    <3>1. j = 0 \/ j \in 1 .. n
      OBVIOUS
    <3> QED
      BY <1>5, <3>1
  <2> QED
    BY <1>5, <2>1
<1>7. Is(Within(irs, s, loc))
  BY <1>1, <1>6
<1>8. \A j \in 0 .. n : Within(irs, s, loc)[j]
                          = IF j = 0 THEN s ELSE step(j, Within(irs, s, loc)[j - 1])
  BY <1>7
<1> QED
  BY <1>8 DEF step

(* Before anything is done.                                                *)
Nothing == [mem |-> <<>>, log |-> <<>>]

(* The states between the blocks.                                          *)
LEMMA AlongIs ==
  ASSUME NEW path, Len(path) \in Nat, NEW blocks, NEW loc
  PROVE  /\ Along(path, blocks, loc)[0] = Nothing
         /\ \A k \in 1 .. Len(path) :
              Along(path, blocks, loc)[k] = RunBlock(blocks[path[k]].irs, Along(path, blocks, loc)[k - 1], loc)
<1> DEFINE n == Len(path)
           s == Nothing
           step(j, x) == RunBlock(blocks[path[j]].irs, x, loc)
           Is(f) == f = [j \in 0 .. n |-> IF j = 0 THEN s ELSE step(j, f[j - 1])]
           Goes(f, m) == f[0] = s /\ \A k \in 1 .. m : f[k] = step(k, f[k - 1])
           T == {m \in 0 .. n : \E f : f = [k \in 0 .. m |-> f[k]] /\ Goes(f, m)}
<1>1. Along(path, blocks, loc) = CHOOSE f : Is(f)
  BY DEF Along, Nothing
<1> HIDE DEF step, s
<1>2. 0 \in T
  <2> DEFINE f == [k \in 0 .. 0 |-> s]
  <2>1. f = [k \in 0 .. 0 |-> f[k]] /\ f[0] = s /\ 1 .. 0 = {} /\ 0 \in 0 .. n
    OBVIOUS
  <2> QED
    BY <2>1
<1>3. ASSUME NEW m \in 1 .. n, m - 1 \in T PROVE m \in T
  <2>1. PICK f : f = [k \in 0 .. m - 1 |-> f[k]] /\ Goes(f, m - 1)
    BY <1>3
  <2> DEFINE h == [k \in 0 .. m |-> IF k = m THEN step(m, f[m - 1]) ELSE f[k]]
  <2>2. h[m] = step(m, f[m - 1]) /\ \A k \in 0 .. m - 1 : h[k] = f[k]
    OBVIOUS
  <2>3. h = [k \in 0 .. m |-> h[k]]
    OBVIOUS
  <2> HIDE DEF h
  <2>4. h[0] = s
    BY <2>1, <2>2
  <2>5. ASSUME NEW k \in 1 .. m PROVE h[k] = step(k, h[k - 1])
    <3>1. k - 1 \in 0 .. m - 1 /\ h[k - 1] = f[k - 1]
      BY <2>2
    <3>2. CASE k = m
      BY <2>2, <3>1, <3>2
    <3>3. CASE k # m
      <4>1. k \in 1 .. m - 1 /\ k \in 0 .. m - 1
        BY <3>3
      <4> QED
        BY <2>1, <2>2, <3>1, <4>1
    <3> QED
      BY <3>2, <3>3
  <2>6. Goes(h, m)
    BY <2>4, <2>5
  <2> HIDE DEF Goes
  <2> QED
    BY <2>3, <2>6
<1>4. n \in T
  <2> HIDE DEF T
  <2>1. 0 .. n \subseteq T
    BY <1>2, <1>3, UpTo
  <2> QED
    BY <2>1
<1>5. PICK f : f = [k \in 0 .. n |-> f[k]] /\ Goes(f, n)
  BY <1>4
<1>6. Is(f)
  <2>1. ASSUME NEW j \in 0 .. n PROVE f[j] = IF j = 0 THEN s ELSE step(j, f[j - 1])
    <3>1. j = 0 \/ j \in 1 .. n
      OBVIOUS
    <3> QED
      BY <1>5, <3>1
  <2> QED
    BY <1>5, <2>1
<1>7. Is(Along(path, blocks, loc))
  BY <1>1, <1>6
<1>8. \A j \in 0 .. n : Along(path, blocks, loc)[j]
                          = IF j = 0 THEN s ELSE step(j, Along(path, blocks, loc)[j - 1])
  BY <1>7
<1> QED
  BY <1>8 DEF step, s

(* The code of a block in two parts.                                       *)
LEMMA RunConcat ==
  ASSUME NEW S, NEW x \in Seq(S), NEW y \in Seq(S), NEW s, NEW loc
  PROVE  RunBlock(x \o y, s, loc) = RunBlock(y, RunBlock(x, s, loc), loc)
<1> DEFINE z == x \o y
           m == Len(x)
           n == Len(y)
           u == RunBlock(x, s, loc)
           f == Within(x, s, loc)
           g == Within(y, u, loc)
           h == Within(z, s, loc)
<1>1. /\ m \in Nat /\ n \in Nat /\ Len(z) = m + n /\ Len(z) \in Nat
      /\ \A j \in 1 .. m : z[j] = x[j]
      /\ \A j \in 1 .. n : z[m + j] = y[j]
  <2>1. /\ Len(z) = m + n /\ m \in Nat /\ n \in Nat
        /\ \A j \in 1 .. Len(z) : z[j] = IF j <= m THEN x[j] ELSE y[j - m]
    BY ConcatProperties, LenProperties
  <2> HIDE DEF z, m, n
  <2>2. \A j \in 1 .. m : j \in 1 .. Len(z) /\ j <= m
    BY <2>1
  <2>3. \A j \in 1 .. n : m + j \in 1 .. Len(z) /\ ~ (m + j <= m) /\ m + j - m = j
    BY <2>1
  <2> QED
    BY <2>1, <2>2, <2>3
<1>2. f[0] = s /\ \A j \in 1 .. m : f[j] = Execute(f[j - 1], x[j], loc)
  BY <1>1, WithinIs
<1>3. g[0] = u /\ \A j \in 1 .. n : g[j] = Execute(g[j - 1], y[j], loc)
  BY <1>1, WithinIs
<1>4. h[0] = s /\ \A j \in 1 .. m + n : h[j] = Execute(h[j - 1], z[j], loc)
  <2> HIDE DEF z, m, n
  <2>1. h[0] = s /\ \A j \in 1 .. Len(z) : h[j] = Execute(h[j - 1], z[j], loc)
    BY <1>1, WithinIs
  <2> QED
    BY <1>1, <2>1
<1>5. u = f[m]
  BY DEF RunBlock
<1>6. RunBlock(z, s, loc) = h[m + n] /\ RunBlock(y, u, loc) = g[n]
  BY <1>1 DEF RunBlock
<1> HIDE DEF f, g, h, z, m, n, u
<1> DEFINE T == {j \in 0 .. m : h[j] = f[j]}
           U == {j \in 0 .. n : h[m + j] = g[j]}
<1>7. 0 .. m \subseteq T
  <2>1. 0 \in T
    BY <1>1, <1>2, <1>4
  <2>2. ASSUME NEW j \in 1 .. m, j - 1 \in T PROVE j \in T
    <3>1. h[j - 1] = f[j - 1] /\ j \in 1 .. m + n /\ j \in 0 .. m
      BY <1>1, <2>2
    <3> QED
      BY <1>1, <1>2, <1>4, <3>1
  <2> HIDE DEF T
  <2> QED
    BY <1>1, <2>1, <2>2, UpTo
<1>8. h[m] = f[m]
  BY <1>1, <1>7
<1>9. 0 .. n \subseteq U
  <2>1. 0 \in U
    BY <1>1, <1>3, <1>5, <1>8
  <2>2. ASSUME NEW j \in 1 .. n, j - 1 \in U PROVE j \in U
    <3>1. h[m + (j - 1)] = g[j - 1] /\ m + j \in 1 .. m + n /\ j \in 0 .. n /\ m + (j - 1) = m + j - 1
      BY <1>1, <2>2
    <3> QED
      BY <1>1, <1>3, <1>4, <3>1
  <2> HIDE DEF U
  <2> QED
    BY <1>1, <2>1, <2>2, UpTo
<1> QED
  BY <1>1, <1>6, <1>9 DEF u, z

(* Short code.                                                             *)
LEMMA RunShort ==
  ASSUME NEW ir, NEW s, NEW loc
  PROVE  /\ RunBlock(<<>>, s, loc) = s
         /\ RunBlock(<<ir>>, s, loc) = Execute(s, ir, loc)
<1>1. Len(<<>>) = 0 /\ Len(<<ir>>) = 1 /\ <<ir>>[1] = ir
  OBVIOUS
<1>2. Within(<<>>, s, loc)[0] = s
  BY <1>1, WithinIs
<1>3. Within(<<ir>>, s, loc)[0] = s
  BY <1>1, WithinIs
<1>4. Within(<<ir>>, s, loc)[1] = Execute(s, ir, loc)
  <2> DEFINE f == Within(<<ir>>, s, loc)
  <2>1. \A j \in 1 .. Len(<<ir>>) : f[j] = Execute(f[j - 1], <<ir>>[j], loc)
    BY <1>1, WithinIs
  <2>2. 1 \in 1 .. Len(<<ir>>) /\ 1 - 1 = 0
    BY <1>1
  <2>3. f[1] = Execute(f[1 - 1], <<ir>>[1], loc)
    BY <2>1, <2>2
  <2> HIDE DEF f
  <2>4. f[1] = Execute(f[0], ir, loc)
    BY <1>1, <2>2, <2>3
  <2> QED
    BY <1>3, <2>4 DEF f
<1> QED
  BY <1>1, <1>2, <1>4 DEF RunBlock

(* What is read from a memory after a write.                               *)
LEMMA ValueStored ==
  ASSUME NEW mem, NEW p, NEW q, NEW x
  PROVE  ValueAt(Stored(mem, p, x), q)
           = IF q[1] = "none" \/ q[1] = "const" \/ q # p THEN ValueAt(mem, q) ELSE x
  BY DEF ValueAt, Stored

(* A place that has the same value in every memory.                        *)
Fixed(p) == p[1] = "none" \/ p[1] = "const"

(* It needs no memory.                                                     *)
LEMMA FixedValue ==
  ASSUME NEW mem, NEW other, NEW p, Fixed(p)
  PROVE  ValueAt(mem, p) = ValueAt(other, p)
  BY DEF Fixed, ValueAt

(* The first n registers have the same values, and the same was noted.     *)
SameValues(n, mem, other) == \A v \in 0 .. n : ValueAt(mem, Slot(v)) = ValueAt(other, Slot(v))

Alike(n, s, t) == s.log = t.log /\ SameValues(n, s.mem, t.mem)

AtHome(n, loc) == \A v \in 0 .. n : Fixed(loc[v]) \/ loc[v] = Slot(v)

(* Each register has a place of its own in the frame.                      *)
LEMMA SlotsDiffer ==
  ASSUME NEW v, NEW w
  PROVE  /\ Slot(v) = Slot(w) => v = w
         /\ ~ Fixed(Slot(v))
  BY DEF Slot, Fixed

(* The same write changes two memories alike.                              *)
LEMMA SameStored ==
  ASSUME NEW n, NEW mem, NEW other, SameValues(n, mem, other), NEW p, NEW x
  PROVE  SameValues(n, Stored(mem, p, x), Stored(other, p, x))
<1> SUFFICES ASSUME NEW v \in 0 .. n
             PROVE  ValueAt(Stored(mem, p, x), Slot(v)) = ValueAt(Stored(other, p, x), Slot(v))
  BY DEF SameValues
<1>1. ValueAt(mem, Slot(v)) = ValueAt(other, Slot(v))
  BY DEF SameValues
<1> QED
  BY <1>1, ValueStored

(* What an instruction does.                                               *)
LEMMA ExecuteIs ==
  ASSUME NEW s, NEW ir, NEW loc
  PROVE  LET t == Execute(s, ir, loc) IN
         /\ ir.kind = "OP" =>
              /\ t.mem = Stored(s.mem, loc[ir.dst], Len(s.log) + 1)
              /\ t.log = Append(s.log, <<ValueAt(s.mem, loc[ir.opr1]), ValueAt(s.mem, loc[ir.opr2])>>)
         /\ ir.kind = "OFS" =>
              /\ t.mem = Stored(s.mem, loc[ir.dst], Len(s.log) + 1)
              /\ t.log = Append(s.log, <<>>)
         /\ ir.kind = "LOAD_SPILLED" =>
              /\ t.mem = Stored(s.mem, loc[ir.dst], ValueAt(s.mem, Slot(ir.opr1)))
              /\ t.log = s.log
         /\ ir.kind = "STORE_SPILLED" =>
              /\ t.mem = Stored(s.mem, Slot(ir.opr2), ValueAt(s.mem, loc[ir.opr1]))
              /\ t.log = s.log
  BY DEF Execute

(* The operands of an instruction are registers of the function, or none.  *)
LEMMA InstructionIs ==
  ASSUME NEW n, NEW ir \in Instructions(n)
  PROVE  /\ ir.dst \in 0 .. n /\ ir.opr1 \in 0 .. n /\ ir.opr2 \in 0 .. n
         /\ ir.kind \in {"OP", "OFS", "LOAD_SPILLED", "STORE_SPILLED"}
  BY DEF Instructions

(* One instruction keeps what is alike, with every register at home.       *)
LEMMA AlikeExecute ==
  ASSUME NEW n \in Nat, NEW ir \in Instructions(n), NEW loc, NEW other, AtHome(n, loc),
         \A v \in 0 .. n : other[v] = loc[v],
         NEW s, NEW t, Alike(n, s, t)
  PROVE  Alike(n, Execute(s, ir, loc), Execute(t, ir, other))
<1>1. /\ ir.dst \in 0 .. n /\ ir.opr1 \in 0 .. n /\ ir.opr2 \in 0 .. n
      /\ ir.kind \in {"OP", "OFS", "LOAD_SPILLED", "STORE_SPILLED"}
  BY InstructionIs
<1>2. \A v \in 0 .. n : /\ ValueAt(s.mem, loc[v]) = ValueAt(t.mem, other[v])
                        /\ ValueAt(s.mem, Slot(v)) = ValueAt(t.mem, Slot(v))
  <2> SUFFICES ASSUME NEW v \in 0 .. n
               PROVE  /\ ValueAt(s.mem, loc[v]) = ValueAt(t.mem, other[v])
                      /\ ValueAt(s.mem, Slot(v)) = ValueAt(t.mem, Slot(v))
    OBVIOUS
  <2>1. ValueAt(s.mem, Slot(v)) = ValueAt(t.mem, Slot(v))
    BY DEF Alike, SameValues
  <2>2. other[v] = loc[v] /\ (Fixed(loc[v]) \/ loc[v] = Slot(v))
    BY DEF AtHome
  <2>3. Fixed(loc[v]) => ValueAt(s.mem, loc[v]) = ValueAt(t.mem, loc[v])
    BY FixedValue
  <2> QED
    BY <2>1, <2>2, <2>3
<1>3. s.log = t.log /\ SameValues(n, s.mem, t.mem)
  BY DEF Alike
<1>4. other[ir.dst] = loc[ir.dst] /\ other[ir.opr1] = loc[ir.opr1] /\ other[ir.opr2] = loc[ir.opr2]
  BY <1>1
<1>5. /\ ValueAt(s.mem, loc[ir.opr1]) = ValueAt(t.mem, other[ir.opr1])
      /\ ValueAt(s.mem, loc[ir.opr2]) = ValueAt(t.mem, other[ir.opr2])
      /\ ValueAt(s.mem, Slot(ir.opr1)) = ValueAt(t.mem, Slot(ir.opr1))
  BY <1>1, <1>2
<1> DEFINE p == Execute(s, ir, loc)
           q == Execute(t, ir, other)
<1>6. p.log = q.log /\ SameValues(n, p.mem, q.mem)
  <2>1. CASE ir.kind = "OP"
    <3>1. /\ p.mem = Stored(s.mem, loc[ir.dst], Len(s.log) + 1)
          /\ p.log = Append(s.log, <<ValueAt(s.mem, loc[ir.opr1]), ValueAt(s.mem, loc[ir.opr2])>>)
          /\ q.mem = Stored(t.mem, other[ir.dst], Len(t.log) + 1)
          /\ q.log = Append(t.log, <<ValueAt(t.mem, other[ir.opr1]), ValueAt(t.mem, other[ir.opr2])>>)
      BY <2>1, ExecuteIs
    <3> HIDE DEF p, q
    <3> QED
      BY <1>3, <1>4, <1>5, <3>1, SameStored
  <2>2. CASE ir.kind = "OFS"
    <3>1. /\ p.mem = Stored(s.mem, loc[ir.dst], Len(s.log) + 1)
          /\ p.log = Append(s.log, <<>>)
          /\ q.mem = Stored(t.mem, other[ir.dst], Len(t.log) + 1)
          /\ q.log = Append(t.log, <<>>)
      BY <2>2, ExecuteIs
    <3> HIDE DEF p, q
    <3> QED
      BY <1>3, <1>4, <1>5, <3>1, SameStored
  <2>3. CASE ir.kind = "LOAD_SPILLED"
    <3>1. /\ p.mem = Stored(s.mem, loc[ir.dst], ValueAt(s.mem, Slot(ir.opr1)))
          /\ p.log = s.log
          /\ q.mem = Stored(t.mem, other[ir.dst], ValueAt(t.mem, Slot(ir.opr1)))
          /\ q.log = t.log
      BY <2>3, ExecuteIs
    <3> HIDE DEF p, q
    <3> QED
      BY <1>3, <1>4, <1>5, <3>1, SameStored
  <2>4. CASE ir.kind = "STORE_SPILLED"
    <3>1. /\ p.mem = Stored(s.mem, Slot(ir.opr2), ValueAt(s.mem, loc[ir.opr1]))
          /\ p.log = s.log
          /\ q.mem = Stored(t.mem, Slot(ir.opr2), ValueAt(t.mem, other[ir.opr1]))
          /\ q.log = t.log
      BY <2>4, ExecuteIs
    <3> HIDE DEF p, q
    <3> QED
      BY <1>3, <1>4, <1>5, <3>1, SameStored
  <2> QED
    BY <1>1, <2>1, <2>2, <2>3, <2>4
<1> QED
  BY <1>6 DEF Alike

(* And so does the code of a block.                                        *)
LEMMA AlikeBlock ==
  ASSUME NEW n \in Nat, NEW irs \in Seq(Instructions(n)), NEW loc, NEW other, AtHome(n, loc),
         \A v \in 0 .. n : other[v] = loc[v],
         NEW s, NEW t, Alike(n, s, t)
  PROVE  Alike(n, RunBlock(irs, s, loc), RunBlock(irs, t, other))
<1> DEFINE f == Within(irs, s, loc)
           g == Within(irs, t, other)
           T == {j \in 0 .. Len(irs) : Alike(n, f[j], g[j])}
<1>1. Len(irs) \in Nat /\ \A j \in 1 .. Len(irs) : irs[j] \in Instructions(n)
  OBVIOUS
<1>2. /\ f[0] = s /\ \A j \in 1 .. Len(irs) : f[j] = Execute(f[j - 1], irs[j], loc)
      /\ g[0] = t /\ \A j \in 1 .. Len(irs) : g[j] = Execute(g[j - 1], irs[j], other)
  BY <1>1, WithinIs
<1> HIDE DEF f, g
<1>3. 0 \in T
  BY <1>1, <1>2
<1>4. ASSUME NEW j \in 1 .. Len(irs), j - 1 \in T PROVE j \in T
  <2>1. Alike(n, f[j - 1], g[j - 1]) /\ j \in 0 .. Len(irs)
    BY <1>1, <1>4
  <2>2. Alike(n, Execute(f[j - 1], irs[j], loc), Execute(g[j - 1], irs[j], other))
    BY <1>1, <2>1, AlikeExecute
  <2> QED
    BY <1>2, <2>1, <2>2
<1> HIDE DEF T
<1>5. 0 .. Len(irs) \subseteq T
  BY <1>1, <1>3, <1>4, UpTo
<1>6. Len(irs) \in T
  BY <1>1, <1>5
<1> QED
  BY <1>6 DEF T, RunBlock, f, g

(* Where the registers are at home.                                        *)
LEMMA HomesAre ==
  ASSUME NEW vs, Len(vs) \in Nat, NEW v \in 0 .. Len(vs)
  PROVE  /\ Homes(vs)[v] = Home(vs, v)
         /\ v = 0 => Fixed(Homes(vs)[v])
         /\ v # 0 /\ "VRF_CONST" \in vs[v].flag => Fixed(Homes(vs)[v])
         /\ v # 0 /\ "VRF_CONST" \notin vs[v].flag => Homes(vs)[v] = Slot(v)
  BY DEF Homes, Home, Fixed

SameConsts(n, vs, ws) ==
  \A v \in 1 .. n : "VRF_CONST" \in ws[v].flag <=> "VRF_CONST" \in vs[v].flag

(* The homes depend on which registers are constants and on nothing else.  *)
LEMMA HomesSame ==
  ASSUME NEW n \in Nat, NEW vs, NEW ws, Len(vs) \in Nat, Len(ws) \in Nat, n <= Len(vs), n <= Len(ws),
         SameConsts(n, vs, ws)
  PROVE  /\ AtHome(n, Homes(vs))
         /\ \A v \in 0 .. n : Homes(ws)[v] = Homes(vs)[v]
<1>1. ASSUME NEW v \in 0 .. n
      PROVE  /\ Fixed(Homes(vs)[v]) \/ Homes(vs)[v] = Slot(v)
             /\ Homes(ws)[v] = Homes(vs)[v]
  <2>1. v \in 0 .. Len(vs) /\ v \in 0 .. Len(ws)
    OBVIOUS
  <2>2. Fixed(Homes(vs)[v]) \/ Homes(vs)[v] = Slot(v)
    BY <2>1, HomesAre
  <2>3. Homes(vs)[v] = Home(vs, v) /\ Homes(ws)[v] = Home(ws, v)
    BY <2>1, HomesAre
  <2>4. v # 0 => v \in 1 .. n
    OBVIOUS
  <2> QED
    BY <2>2, <2>3, <2>4 DEF Home, SameConsts
<1> QED
  BY <1>1 DEF AtHome

(* A register that lives in the frame, and one that needs a register.      *)
InFrame(vs, v) == "VRF_SPILLED" \in vs[v].flag /\ "VRF_CONST" \notin vs[v].flag

Free(vs, v) == "VRF_SPILLED" \notin vs[v].flag /\ "VRF_CONST" \notin vs[v].flag

Proper(ir) == ir.kind \in {"OP", "OFS"}

(* An operand of the instruction before and after the work on it.          *)
Replaced(new, old, vs, m) ==
  \/ new = old
  \/ new \in Len(vs) + 1 .. m /\ old \in 1 .. Len(vs) /\ InFrame(vs, old)

LoadFor(ld, ir, vs, m) ==
  /\ ld.kind = "LOAD_SPILLED"
  /\ ld.dst \in Len(vs) + 1 .. m
  /\ ld.dst = ir.opr1 \/ ld.dst = ir.opr2
  /\ ld.opr1 \in 1 .. Len(vs) /\ InFrame(vs, ld.opr1)
  /\ ld.opr2 = 0

StoreFor(st, ir, old, vs, m) ==
  /\ st.kind = "STORE_SPILLED"
  /\ st.dst = 0
  /\ st.opr1 = ir.dst /\ ir.dst \in Len(vs) + 1 .. m
  /\ st.opr2 = old.dst /\ old.dst \in 1 .. Len(vs) /\ InFrame(vs, old.dst)

Loaded(w, v, from) ==
  \E k \in 1 .. Len(w.before) : w.before[k].dst = v /\ w.before[k].opr1 = from

(* The work on the instruction old, with the registers vs.                 *)
WrapRegs(w, vs) ==
  /\ Len(vs) <= Len(w.vregs)
  /\ \A v \in 1 .. Len(vs) : w.vregs[v] = vs[v]
  /\ \A v \in Len(vs) + 1 .. Len(w.vregs) :
       w.vregs[v].flag = {"VRF_NO_SPILL"} /\ w.vregs[v].param = FALSE

WrapIr(w, old, vs) ==
  /\ w.ir.kind = old.kind
  /\ Replaced(w.ir.dst, old.dst, vs, Len(w.vregs))
  /\ Replaced(w.ir.opr1, old.opr1, vs, Len(w.vregs))
  /\ Replaced(w.ir.opr2, old.opr2, vs, Len(w.vregs))

WrapBefore(w, old, vs) ==
  /\ \A k \in 1 .. Len(w.before) : LoadFor(w.before[k], w.ir, vs, Len(w.vregs))
  /\ \A k, l \in 1 .. Len(w.before) : w.before[k].dst = w.before[l].dst => k = l
  /\ w.ir.opr1 > Len(vs) => Loaded(w, w.ir.opr1, old.opr1)
  /\ w.ir.opr2 > Len(vs) => Loaded(w, w.ir.opr2, old.opr2)

WrapAfter(w, old, vs) ==
  IF w.moved THEN Len(w.after) = 1 /\ StoreFor(w.after[1], w.ir, old, vs, Len(w.vregs))
  ELSE w.after = <<>> /\ w.ir.dst = old.dst

Wraps(w, old, vs) ==
  WrapRegs(w, vs) /\ WrapIr(w, old, vs) /\ WrapBefore(w, old, vs) /\ WrapAfter(w, old, vs)

(* What insert_tmp_reg makes of its parts.                                 *)
Sub(v, spilled, tmp) == IF v = spilled THEN tmp ELSE v

TmpLoad(spilled, tmp) == [kind |-> "LOAD_SPILLED", dst |-> tmp, opr1 |-> spilled, opr2 |-> 0]

TmpStore(spilled, tmp) == [kind |-> "STORE_SPILLED", dst |-> 0, opr1 |-> tmp, opr2 |-> spilled]

TmpVRegs(x, w, tmp) ==
  /\ Len(x.vregs) = tmp
  /\ \A v \in 1 .. tmp - 1 : x.vregs[v] = w.vregs[v]
  /\ x.vregs[tmp].flag = {"VRF_NO_SPILL"} /\ x.vregs[tmp].param = FALSE

TmpLeft(x, w) == x.ir = w.ir /\ x.before = w.before /\ x.after = w.after /\ x.moved

TmpUsed(x, w, spilled, tmp) ==
  /\ x.ir.kind = w.ir.kind
  /\ x.ir.dst = Sub(w.ir.dst, spilled, tmp)
  /\ x.ir.opr1 = Sub(w.ir.opr1, spilled, tmp)
  /\ x.ir.opr2 = Sub(w.ir.opr2, spilled, tmp)
  /\ x.before = IF w.ir.opr1 = spilled \/ w.ir.opr2 = spilled
                THEN Append(w.before, TmpLoad(spilled, tmp)) ELSE w.before
  /\ x.after = IF w.ir.dst = spilled THEN Append(w.after, TmpStore(spilled, tmp)) ELSE w.after
  /\ x.moved <=> w.ir.dst = spilled

(* One call of insert_tmp_reg, told by its parts.                          *)
LEMMA InsertTmpParts ==
  ASSUME NEW m \in Nat, NEW w, IsWork(w, m), NEW spilled \in 1 .. m, NEW x, x = InsertTmp(w, spilled)
  PROVE  /\ TmpVRegs(x, w, m + 1)
         /\ w.moved => TmpLeft(x, w)
         /\ ~ w.moved => TmpUsed(x, w, spilled, m + 1)
<1> DEFINE grown == SpawnTmp(w.vregs, spilled)
           tmp == m + 1
<1>1. /\ w \in Works(m) /\ Len(w.vregs) = m /\ w.vregs \in Seq(VRegs) /\ w.ir \in Instructions(m)
  BY DEF IsWork, Works
<1>2. /\ Len(grown) = tmp
      /\ \A v \in 1 .. m : grown[v] = w.vregs[v]
      /\ grown[tmp].flag = {"VRF_NO_SPILL"} /\ grown[tmp].param = FALSE
  <2> DEFINE e == [cls |-> w.vregs[spilled].cls, flag |-> {"VRF_NO_SPILL"}, param |-> FALSE]
  <2>1. w.vregs[spilled] \in VRegs
    BY <1>1
  <2>2. e \in VRegs /\ e.flag = {"VRF_NO_SPILL"} /\ e.param = FALSE
    BY <2>1 DEF VRegs
  <2>3. grown = Append(w.vregs, e)
    BY DEF SpawnTmp
  <2> HIDE DEF e, grown
  <2> QED
    BY <1>1, <2>2, <2>3, AppendProperties
<1>3. CASE w.moved
  <2>1. x = [w EXCEPT !.vregs = grown, !.inserted = TRUE]
    BY <1>3, <1>1 DEF InsertTmp
  <2>2. x.vregs = grown /\ x.ir = w.ir /\ x.before = w.before /\ x.after = w.after /\ x.moved = w.moved
    <3> HIDE DEF grown
    <3> QED
      BY <1>1, <2>1 DEF Works
  <2> QED
    BY <1>2, <1>3, <2>2 DEF TmpVRegs, TmpLeft
<1>4. CASE ~ w.moved
  <2> DEFINE sub(v) == IF v = spilled THEN tmp ELSE v
             ir == [w.ir EXCEPT !.dst = sub(@), !.opr1 = sub(@), !.opr2 = sub(@)]
             reads == spilled \in {w.ir.opr1, w.ir.opr2}
             writes == w.ir.dst = spilled
             before == IF reads THEN Append(w.before, TmpLoad(spilled, tmp)) ELSE w.before
             after == IF writes THEN Append(w.after, TmpStore(spilled, tmp)) ELSE w.after
  <2>1. x = [ir |-> ir, before |-> before, after |-> after, vregs |-> grown,
             moved |-> writes, inserted |-> TRUE]
    BY <1>1, <1>4 DEF InsertTmp, TmpLoad, TmpStore
  <2>2. /\ ir.kind = w.ir.kind
        /\ ir.dst = Sub(w.ir.dst, spilled, tmp)
        /\ ir.opr1 = Sub(w.ir.opr1, spilled, tmp)
        /\ ir.opr2 = Sub(w.ir.opr2, spilled, tmp)
    BY <1>1 DEF Instructions, Sub
  <2> HIDE DEF ir, grown
  <2>3. x.ir = ir /\ x.before = before /\ x.after = after /\ x.vregs = grown /\ x.moved = writes
    BY <2>1
  <2>4. reads <=> w.ir.opr1 = spilled \/ w.ir.opr2 = spilled
    OBVIOUS
  <2> HIDE DEF reads
  <2>5. TmpVRegs(x, w, tmp)
    BY <1>2, <2>3 DEF TmpVRegs
  <2>6. TmpUsed(x, w, spilled, tmp)
    BY <2>2, <2>3, <2>4 DEF TmpUsed
  <2> QED
    BY <1>4, <2>5, <2>6
<1> QED
  BY <1>3, <1>4

(* The facts about the parts survive one more register.                    *)
LEMMA InsertTmpWraps ==
  ASSUME NEW m \in Nat, NEW w, IsWork(w, m), NEW vs, Len(vs) \in Nat, NEW old, Wraps(w, old, vs),
         NEW spilled \in 1 .. m, InFrame(w.vregs, spilled),
         NEW x, x = InsertTmp(w, spilled)
  PROVE  Wraps(x, old, vs) /\ spilled \in 1 .. Len(vs)
<1> DEFINE n == Len(vs)
           tmp == m + 1
<1>1. /\ Len(w.vregs) = m /\ n \in Nat /\ n <= m
      /\ w.ir.dst \in 0 .. m /\ w.ir.opr1 \in 0 .. m /\ w.ir.opr2 \in 0 .. m
      /\ w.before \in Seq(Instructions(m)) /\ w.after \in Seq(Instructions(m))
  BY InstructionIs DEF IsWork, Works, Wraps, WrapRegs
<1>2. /\ Len(x.vregs) = tmp
      /\ \A v \in 1 .. m : x.vregs[v] = w.vregs[v]
      /\ x.vregs[tmp].flag = {"VRF_NO_SPILL"} /\ x.vregs[tmp].param = FALSE
  <2>1. TmpVRegs(x, w, m + 1)
    BY InsertTmpParts
  <2> QED
    BY <2>1 DEF TmpVRegs
<1>3. spilled \in 1 .. n /\ InFrame(vs, spilled)
  <2>1. spilled \notin n + 1 .. m
    BY <1>1 DEF Wraps, WrapRegs, InFrame
  <2>2. spilled \in 1 .. n
    BY <1>1, <2>1
  <2>3. w.vregs[spilled] = vs[spilled]
    BY <2>2 DEF Wraps, WrapRegs
  <2> QED
    BY <2>2, <2>3 DEF InFrame
<1>4. WrapRegs(x, vs)
  <2>1. n <= tmp /\ \A v \in 1 .. n : x.vregs[v] = vs[v]
    BY <1>1, <1>2 DEF Wraps, WrapRegs
  <2>2. ASSUME NEW v \in n + 1 .. tmp
        PROVE  x.vregs[v].flag = {"VRF_NO_SPILL"} /\ x.vregs[v].param = FALSE
    <3>1. v = tmp \/ (v \in 1 .. m /\ v \in n + 1 .. m)
      BY <1>1
    <3> QED
      BY <1>1, <1>2, <3>1 DEF Wraps, WrapRegs
  <2> QED
    BY <1>2, <2>1, <2>2 DEF WrapRegs
<1>5. ASSUME NEW ld, LoadFor(ld, w.ir, vs, m), ld.dst = x.ir.opr1 \/ ld.dst = x.ir.opr2
      PROVE  LoadFor(ld, x.ir, vs, tmp)
  BY <1>1, <1>5 DEF LoadFor
<1>6. \A p, q : Replaced(p, q, vs, m) => Replaced(p, q, vs, tmp)
  BY <1>1 DEF Replaced
<1>7. CASE w.moved
  <2>1. x.ir = w.ir /\ x.before = w.before /\ x.after = w.after /\ x.moved
    <3>1. TmpLeft(x, w)
      BY <1>7, InsertTmpParts
    <3> QED
      BY <3>1 DEF TmpLeft
  <2>2. WrapIr(x, old, vs)
    BY <1>1, <1>2, <1>6, <2>1 DEF Wraps, WrapIr
  <2>3. WrapBefore(x, old, vs)
    <3>1. \A k \in 1 .. Len(w.before) : LoadFor(w.before[k], w.ir, vs, m)
      BY <1>1 DEF Wraps, WrapBefore
    <3>2. \A k \in 1 .. Len(w.before) : LoadFor(w.before[k], x.ir, vs, tmp)
      BY <1>5, <2>1, <3>1 DEF LoadFor
    <3> QED
      BY <1>2, <2>1, <3>2 DEF Wraps, WrapBefore, Loaded
  <2>4. WrapAfter(x, old, vs)
    <3>1. Len(w.after) = 1 /\ StoreFor(w.after[1], w.ir, old, vs, m)
      BY <1>1, <1>7 DEF Wraps, WrapAfter
    <3>2. StoreFor(w.after[1], w.ir, old, vs, tmp)
      BY <1>1, <3>1 DEF StoreFor
    <3> QED
      BY <1>2, <2>1, <3>1, <3>2 DEF WrapAfter
  <2> QED
    BY <1>3, <1>4, <2>2, <2>3, <2>4 DEF Wraps
<1>8. CASE ~ w.moved
  <2> DEFINE reads == w.ir.opr1 = spilled \/ w.ir.opr2 = spilled
             load == TmpLoad(spilled, tmp)
             store == TmpStore(spilled, tmp)
  <2>1. /\ x.ir.kind = w.ir.kind
        /\ x.ir.dst = Sub(w.ir.dst, spilled, tmp)
        /\ x.ir.opr1 = Sub(w.ir.opr1, spilled, tmp)
        /\ x.ir.opr2 = Sub(w.ir.opr2, spilled, tmp)
        /\ x.before = IF reads THEN Append(w.before, load) ELSE w.before
        /\ x.after = IF w.ir.dst = spilled THEN Append(w.after, store) ELSE w.after
        /\ x.moved <=> w.ir.dst = spilled
    <3>1. TmpUsed(x, w, spilled, m + 1)
      BY <1>8, InsertTmpParts
    <3> QED
      BY <3>1 DEF TmpUsed
  <2>2. ASSUME NEW p, NEW q, Replaced(p, q, vs, m), p \in 0 .. m
        PROVE  Replaced(Sub(p, spilled, tmp), q, vs, tmp)
    <3>1. CASE p = spilled
      <4>1. p = q
        BY <1>1, <1>3, <2>2, <3>1 DEF Replaced
      <4> QED
        BY <1>1, <1>3, <3>1, <4>1 DEF Replaced, Sub
    <3>2. CASE p # spilled
      BY <1>6, <2>2, <3>2 DEF Sub
    <3> QED
      BY <3>1, <3>2
  <2>3. WrapIr(x, old, vs)
    <3>1. /\ w.ir.kind = old.kind
          /\ Replaced(w.ir.dst, old.dst, vs, m)
          /\ Replaced(w.ir.opr1, old.opr1, vs, m)
          /\ Replaced(w.ir.opr2, old.opr2, vs, m)
      BY <1>1 DEF Wraps, WrapIr
    <3> QED
      BY <1>1, <1>2, <2>1, <2>2, <3>1 DEF WrapIr
  <2>4. Len(w.before) \in Nat
    BY <1>1
  <2>5. WrapBefore(x, old, vs)
    <3> DEFINE l == Len(w.before)
    <3>1. /\ \A k \in 1 .. l : LoadFor(w.before[k], w.ir, vs, m)
          /\ \A k, o \in 1 .. l : w.before[k].dst = w.before[o].dst => k = o
          /\ w.ir.opr1 > n => Loaded(w, w.ir.opr1, old.opr1)
          /\ w.ir.opr2 > n => Loaded(w, w.ir.opr2, old.opr2)
      BY <1>1 DEF Wraps, WrapBefore
    <3>2. ASSUME NEW k \in 1 .. l
          PROVE  LoadFor(w.before[k], x.ir, vs, tmp) /\ w.before[k].dst \in n + 1 .. m
      <4>1. LoadFor(w.before[k], w.ir, vs, m)
        BY <3>1
      <4>2. w.before[k].dst \in n + 1 .. m /\ w.before[k].dst # spilled
        BY <1>1, <1>3, <4>1 DEF LoadFor
      <4>3. w.before[k].dst = x.ir.opr1 \/ w.before[k].dst = x.ir.opr2
        BY <2>1, <4>1, <4>2 DEF LoadFor, Sub
      <4> QED
        BY <1>5, <4>1, <4>2, <4>3
    <3>3. CASE ~ reads
      <4>1. x.before = w.before /\ x.ir.opr1 = w.ir.opr1 /\ x.ir.opr2 = w.ir.opr2
        BY <2>1, <3>3 DEF Sub
      <4> QED
        BY <1>2, <3>1, <3>2, <4>1 DEF WrapBefore, Loaded
    <3>4. CASE reads
      <4>1. /\ Len(x.before) = l + 1 /\ x.before[l + 1] = load
            /\ \A k \in 1 .. l : x.before[k] = w.before[k]
        BY <1>1, <2>1, <3>4, AppendProperties
      <4>2. LoadFor(load, x.ir, vs, tmp) /\ load.dst = tmp
        <5>1. x.ir.opr1 = tmp \/ x.ir.opr2 = tmp
          BY <2>1, <3>4 DEF Sub
        <5>2. load.kind = "LOAD_SPILLED" /\ load.dst = tmp /\ load.opr1 = spilled /\ load.opr2 = 0
          BY DEF TmpLoad
        <5>3. tmp \in n + 1 .. tmp
          BY <1>1
        <5> HIDE DEF load, tmp
        <5> QED
          BY <1>3, <5>1, <5>2, <5>3 DEF LoadFor
      <4>3. ASSUME NEW k \in 1 .. l + 1 PROVE LoadFor(x.before[k], x.ir, vs, tmp)
        <5>1. k \in 1 .. l \/ k = l + 1
          BY <2>4
        <5> QED
          BY <3>2, <4>1, <4>2, <5>1
      <4>4. ASSUME NEW k \in 1 .. l + 1, NEW o \in 1 .. l + 1, x.before[k].dst = x.before[o].dst
            PROVE  k = o
        <5>1. (k \in 1 .. l \/ k = l + 1) /\ (o \in 1 .. l \/ o = l + 1)
          BY <2>4
        <5>2. \A a \in 1 .. l : w.before[a].dst # tmp
          BY <1>1, <3>2
        <5> HIDE DEF load
        <5> QED
          BY <3>1, <4>1, <4>2, <4>4, <5>1, <5>2
      <4>5. ASSUME NEW v, NEW u, Replaced(v, u, vs, m), v > n => Loaded(w, v, u), v \in 0 .. m,
                   Sub(v, spilled, tmp) > n
            PROVE  Loaded(x, Sub(v, spilled, tmp), u)
        <5>1. CASE v = spilled
          <6>1. l + 1 \in 1 .. l + 1
            BY <2>4
          <6>2. u = spilled
            BY <1>1, <1>3, <4>5, <5>1 DEF Replaced
          <6>3. load.opr1 = spilled
            BY DEF TmpLoad
          <6> HIDE DEF load
          <6> QED
            BY <4>1, <4>2, <5>1, <6>1, <6>2, <6>3 DEF Loaded, Sub
        <5>2. CASE v # spilled
          <6>1. Sub(v, spilled, tmp) = v /\ v > n
            BY <4>5, <5>2 DEF Sub
          <6>2. PICK k \in 1 .. l : w.before[k].dst = v /\ w.before[k].opr1 = u
            BY <4>5, <6>1 DEF Loaded
          <6>3. k \in 1 .. l + 1
            BY <2>4
          <6> QED
            BY <4>1, <6>1, <6>2, <6>3 DEF Loaded
        <5> QED
          BY <5>1, <5>2
      <4>6. /\ x.ir.opr1 > n => Loaded(x, x.ir.opr1, old.opr1)
            /\ x.ir.opr2 > n => Loaded(x, x.ir.opr2, old.opr2)
        <5>1. Replaced(w.ir.opr1, old.opr1, vs, m) /\ Replaced(w.ir.opr2, old.opr2, vs, m)
          BY <1>1 DEF Wraps, WrapIr
        <5> HIDE DEF tmp
        <5> QED
          BY <1>1, <2>1, <3>1, <4>5, <5>1
      <4> HIDE DEF l, load
      <4> QED
        BY <1>2, <4>1, <4>3, <4>4, <4>6 DEF WrapBefore
    <3> HIDE DEF reads
    <3> QED
      BY <3>3, <3>4
  <2>6. WrapAfter(x, old, vs)
    <3>1. w.after = <<>> /\ w.ir.dst = old.dst
      BY <1>8 DEF Wraps, WrapAfter
    <3>2. CASE w.ir.dst = spilled
      <4>1. x.after = <<store>> /\ x.ir.dst = tmp
        BY <2>1, <3>1, <3>2 DEF Sub
      <4>2. Len(x.after) = 1 /\ x.after[1] = store
        BY <4>1
      <4>3. old.dst = spilled
        BY <3>1, <3>2
      <4>4. store.kind = "STORE_SPILLED" /\ store.dst = 0 /\ store.opr1 = tmp /\ store.opr2 = spilled
        BY DEF TmpStore
      <4>5. tmp \in n + 1 .. tmp /\ tmp > n
        BY <1>1
      <4> HIDE DEF store, tmp
      <4>6. StoreFor(store, x.ir, old, vs, tmp)
        BY <1>3, <4>1, <4>3, <4>4, <4>5 DEF StoreFor
      <4> QED
        BY <1>2, <2>1, <3>2, <4>1, <4>2, <4>5, <4>6 DEF WrapAfter
    <3>3. CASE w.ir.dst # spilled
      BY <2>1, <3>1, <3>3 DEF WrapAfter, Sub
    <3> QED
      BY <3>2, <3>3
  <2> QED
    BY <1>3, <1>4, <2>3, <2>5, <2>6 DEF Wraps
<1> QED
  BY <1>7, <1>8

(* One operand.                                                            *)
LEMMA InsertForWraps ==
  ASSUME NEW m \in Nat, NEW w, IsWork(w, m), NEW vs, Len(vs) \in Nat, NEW old, Wraps(w, old, vs),
         NEW field \in {"dst", "opr1", "opr2"}
  PROVE  Wraps(InsertFor(w, field), old, vs)
<1>1. CASE NeedsTmp(w, field)
  <2>1. w.ir \in Instructions(m)
    BY DEF IsWork, Works
  <2>2. w.ir[field] \in 1 .. m /\ InFrame(w.vregs, w.ir[field])
    <3>1. w.ir[field] \in 0 .. m
      BY <2>1 DEF Instructions
    <3> QED
      BY <1>1, <3>1 DEF NeedsTmp, InFrame
  <2>3. InsertFor(w, field) = InsertTmp(w, w.ir[field])
    BY <1>1 DEF InsertFor
  <2> QED
    BY <2>2, <2>3, InsertTmpWraps
<1>2. CASE ~ NeedsTmp(w, field)
  BY <1>2 DEF InsertFor
<1> QED
  BY <1>1, <1>2

Worked(w, ir, vs) == \E m \in Nat : m >= Len(vs) /\ IsWork(w, m) /\ Wraps(w, ir, vs)

(* The three operands.                                                     *)
LEMMA InsertAroundWraps ==
  ASSUME NEW n \in Nat, NEW vs \in Seq(VRegs), Len(vs) = n, NEW ir \in Instructions(n)
  PROVE  /\ Worked(InsertAround(ir, vs), ir, vs)
         /\ ~ Proper(ir) => InsertAround(ir, vs) = Untouched(ir, vs)
<1> DEFINE w0 == Untouched(ir, vs)
           w1 == InsertFor(w0, "opr1")
           w2 == InsertFor(w1, "opr2")
           w3 == InsertFor(w2, "dst")
<1>1. IsWork(w0, n)
  BY DEF Untouched, IsWork, Works
<1>2. Wraps(w0, ir, vs)
  <2>1. /\ w0.ir = ir /\ w0.before = <<>> /\ w0.after = <<>> /\ w0.vregs = vs /\ w0.moved = FALSE
    BY DEF Untouched
  <2>2. ir.dst \in 0 .. n /\ ir.opr1 \in 0 .. n /\ ir.opr2 \in 0 .. n
    BY InstructionIs
  <2> HIDE DEF w0
  <2> QED
    BY <2>1, <2>2 DEF Wraps, WrapRegs, WrapIr, WrapBefore, WrapAfter, Replaced
<1>3. InsertAround(ir, vs) = w3
  BY DEF InsertAround
<1>4. ~ Proper(ir) => w3 = w0
  <2>1. w0.ir = ir
    BY DEF Untouched
  <2> HIDE DEF w0
  <2>2. ASSUME ~ Proper(ir), NEW field PROVE InsertFor(w0, field) = w0
    BY <2>1, <2>2 DEF InsertFor, NeedsTmp, TakesRegister, Proper
  <2> QED
    BY <2>2
<1> HIDE DEF w0
<1>6. /\ \E m \in {n, n + 1} : IsWork(w1, m)
      /\ Wraps(w1, ir, vs)
  BY <1>1, <1>2, InsertForIs, InsertForWraps
<1> HIDE DEF w1
<1>7. PICK m1 \in {n, n + 1} : IsWork(w1, m1)
  BY <1>6
<1>8. /\ \E m \in {m1, m1 + 1} : IsWork(w2, m)
      /\ Wraps(w2, ir, vs)
  BY <1>6, <1>7, InsertForIs, InsertForWraps
<1> HIDE DEF w2
<1>9. PICK m2 \in {m1, m1 + 1} : IsWork(w2, m2)
  BY <1>8
<1>10. /\ \E m \in {m2, m2 + 1} : IsWork(w3, m)
       /\ Wraps(w3, ir, vs)
  BY <1>7, <1>8, <1>9, InsertForIs, InsertForWraps
<1> HIDE DEF w3
<1>11. PICK m3 \in {m2, m2 + 1} : IsWork(w3, m3)
  BY <1>10
<1>12. m3 \in Nat /\ m3 >= n
  BY <1>7, <1>9, <1>11
<1> QED
  BY <1>3, <1>4, <1>10, <1>11, <1>12 DEF Worked, w0

(* The loads, the instruction and the stores do what the instruction did.  *)
LEMMA WrapMeans ==
  ASSUME NEW vs, Len(vs) \in Nat, NEW ir \in Instructions(Len(vs)), Proper(ir),
         NEW w, Worked(w, ir, vs), NEW s
  PROVE  Alike(Len(vs), Execute(s, ir, Homes(vs)),
               RunBlock(w.before \o <<w.ir>> \o w.after, s, Homes(w.vregs)))
<1> DEFINE n == Len(vs)
           G == Homes(vs)
           H == Homes(w.vregs)
           l == Len(w.before)
           f == Within(w.before, s, H)
<1>1. PICK m \in Nat : m >= n /\ IsWork(w, m) /\ Wraps(w, ir, vs)
  BY DEF Worked
<1>2. /\ Len(w.vregs) = m
      /\ w.ir \in Instructions(m) /\ w.before \in Seq(Instructions(m)) /\ w.after \in Seq(Instructions(m))
      /\ l \in Nat
  BY <1>1 DEF IsWork, Works
<1>3. /\ AtHome(n, G)
      /\ \A v \in 0 .. n : H[v] = G[v]
      /\ \A v \in n + 1 .. m : H[v] = Slot(v)
      /\ \A v \in 1 .. n : InFrame(vs, v) => G[v] = Slot(v)
  <2>1. SameConsts(n, vs, w.vregs)
    BY <1>1 DEF Wraps, WrapRegs, SameConsts
  <2>2. AtHome(n, G) /\ \A v \in 0 .. n : H[v] = G[v]
    <3>1. n \in Nat /\ Len(w.vregs) \in Nat /\ n <= Len(w.vregs) /\ n <= Len(vs)
      BY <1>1, <1>2
    <3> HIDE DEF n
    <3>2. Len(vs) \in Nat
      BY DEF n
    <3> QED
      BY <2>1, <3>1, <3>2, HomesSame
  <2>3. ASSUME NEW v \in n + 1 .. m PROVE H[v] = Slot(v)
    <3>1. w.vregs[v].flag = {"VRF_NO_SPILL"} /\ v \in 0 .. Len(w.vregs) /\ v # 0
      BY <1>1, <1>2 DEF Wraps, WrapRegs
    <3> QED
      BY <1>2, <3>1, HomesAre
  <2>4. ASSUME NEW v \in 1 .. n, InFrame(vs, v) PROVE G[v] = Slot(v)
    BY <2>4, HomesAre DEF InFrame
  <2> QED
    BY <2>2, <2>3, <2>4
<1>4. /\ f[0] = s
      /\ \A k \in 1 .. l : f[k] = Execute(f[k - 1], w.before[k], H)
  BY <1>2, WithinIs
<1>5. /\ \A k \in 1 .. l : LoadFor(w.before[k], w.ir, vs, m)
      /\ \A k, o \in 1 .. l : w.before[k].dst = w.before[o].dst => k = o
      /\ w.ir.opr1 > n => Loaded(w, w.ir.opr1, ir.opr1)
      /\ w.ir.opr2 > n => Loaded(w, w.ir.opr2, ir.opr2)
  BY <1>1, <1>2 DEF Wraps, WrapBefore
<1>6. RunBlock(w.before, s, H) = f[l]
  BY DEF RunBlock
<1> HIDE DEF f, H, G
<1> DEFINE D(k) == /\ f[k].log = s.log
                   /\ SameValues(n, f[k].mem, s.mem)
                   /\ \A o \in 1 .. k : ValueAt(f[k].mem, Slot(w.before[o].dst))
                                        = ValueAt(s.mem, Slot(w.before[o].opr1))
           T == {k \in 0 .. l : D(k)}
<1>7. 0 .. l \subseteq T
  <2>1. 0 \in T
    BY <1>2, <1>4 DEF SameValues
  <2>2. ASSUME NEW k \in 1 .. l, k - 1 \in T PROVE k \in T
    <3> DEFINE ld == w.before[k]
               p == f[k - 1]
    <3>1. D(k - 1)
      BY <2>2
    <3>2. LoadFor(ld, w.ir, vs, m)
      BY <1>5
    <3>3. /\ ld.kind = "LOAD_SPILLED" /\ ld.dst \in n + 1 .. m /\ ld.opr1 \in 1 .. n
      BY <3>2 DEF LoadFor
    <3>4. f[k] = Execute(p, ld, H)
      BY <1>4
    <3>5. /\ f[k].mem = Stored(p.mem, Slot(ld.dst), ValueAt(p.mem, Slot(ld.opr1)))
          /\ f[k].log = p.log
      BY <1>3, <3>3, <3>4, ExecuteIs
    <3>6. ValueAt(p.mem, Slot(ld.opr1)) = ValueAt(s.mem, Slot(ld.opr1))
      <4>1. ld.opr1 \in 0 .. n
        BY <3>3
      <4> QED
        BY <3>1, <4>1 DEF SameValues
    <3>7. \A q : ~ Fixed(q) =>
            ValueAt(f[k].mem, q) = IF q # Slot(ld.dst) THEN ValueAt(p.mem, q)
                                   ELSE ValueAt(s.mem, Slot(ld.opr1))
      <4> SUFFICES ASSUME NEW q, ~ Fixed(q)
                   PROVE  ValueAt(f[k].mem, q) = IF q # Slot(ld.dst) THEN ValueAt(p.mem, q)
                                                 ELSE ValueAt(s.mem, Slot(ld.opr1))
        OBVIOUS
      <4>1. q[1] # "none" /\ q[1] # "const"
        BY DEF Fixed
      <4> QED
        BY <3>5, <3>6, <4>1, ValueStored
    <3>8. SameValues(n, f[k].mem, s.mem)
      <4> SUFFICES ASSUME NEW v \in 0 .. n
                   PROVE  ValueAt(f[k].mem, Slot(v)) = ValueAt(s.mem, Slot(v))
        BY DEF SameValues
      <4>1. v # ld.dst
        BY <3>3
      <4>2. ~ Fixed(Slot(v)) /\ Slot(v) # Slot(ld.dst)
        BY <4>1, SlotsDiffer
      <4> QED
        BY <3>1, <3>7, <4>2 DEF SameValues
    <3>9. ASSUME NEW o \in 1 .. k
          PROVE  ValueAt(f[k].mem, Slot(w.before[o].dst)) = ValueAt(s.mem, Slot(w.before[o].opr1))
      <4>1. ~ Fixed(Slot(w.before[o].dst))
        BY SlotsDiffer
      <4>2. CASE o = k
        BY <3>7, <4>1, <4>2
      <4>3. CASE o # k
        <5>1. o \in 1 .. k - 1 /\ o \in 1 .. l
          BY <4>3
        <5>2. w.before[o].dst # ld.dst
          BY <1>5, <4>3, <5>1
        <5>3. Slot(w.before[o].dst) # Slot(ld.dst)
          BY <5>2, SlotsDiffer
        <5> HIDE DEF ld, p
        <5>4. ValueAt(p.mem, Slot(w.before[o].dst)) = ValueAt(s.mem, Slot(w.before[o].opr1))
          BY <3>1, <5>1 DEF p
        <5> QED
          BY <3>7, <4>1, <5>3, <5>4
      <4> QED
        BY <4>2, <4>3
    <3>10. f[k].log = s.log
      BY <3>1, <3>5
    <3>11. k \in 0 .. l
      OBVIOUS
    <3> QED
      BY <3>8, <3>9, <3>10, <3>11
  <2> HIDE DEF T
  <2> QED
    BY <1>2, <2>1, <2>2, UpTo
<1> DEFINE u == f[l]
           t == Execute(u, w.ir, H)
           e == Execute(s, ir, G)
<1>8. D(l)
  <2>1. l \in T
    BY <1>2, <1>7
  <2> QED
    BY <2>1
<1>9. ASSUME NEW p, NEW q \in 0 .. n, Replaced(p, q, vs, m), p > n => Loaded(w, p, q)
      PROVE  ValueAt(u.mem, H[p]) = ValueAt(s.mem, G[q])
  <2>1. CASE p = q
    <3>1. H[p] = G[q] /\ (Fixed(G[q]) \/ G[q] = Slot(q))
      BY <1>3, <2>1 DEF AtHome
    <3>2. ValueAt(u.mem, Slot(q)) = ValueAt(s.mem, Slot(q))
      BY <1>8 DEF SameValues
    <3> QED
      BY <3>1, <3>2, FixedValue
  <2>2. CASE p # q
    <3>1. p \in n + 1 .. m /\ q \in 1 .. n /\ InFrame(vs, q)
      BY <1>9, <2>2 DEF Replaced
    <3>2. PICK k \in 1 .. l : w.before[k].dst = p /\ w.before[k].opr1 = q
      BY <1>9, <3>1 DEF Loaded
    <3> QED
      BY <1>3, <1>8, <3>1, <3>2
  <2> QED
    BY <2>1, <2>2
<1>10. /\ w.ir.kind = ir.kind
       /\ Replaced(w.ir.dst, ir.dst, vs, m)
       /\ Replaced(w.ir.opr1, ir.opr1, vs, m) /\ Replaced(w.ir.opr2, ir.opr2, vs, m)
  BY <1>1, <1>2 DEF Wraps, WrapIr
<1>11. ir.dst \in 0 .. n /\ ir.opr1 \in 0 .. n /\ ir.opr2 \in 0 .. n
  BY InstructionIs
<1>12. /\ ValueAt(u.mem, H[w.ir.opr1]) = ValueAt(s.mem, G[ir.opr1])
       /\ ValueAt(u.mem, H[w.ir.opr2]) = ValueAt(s.mem, G[ir.opr2])
  <2> HIDE DEF u, n
  <2> QED
    BY <1>5, <1>9, <1>10, <1>11
<1>13. SameValues(n, u.mem, s.mem) /\ u.log = s.log
  BY <1>8
<1>14. /\ t.log = e.log
       /\ t.mem = Stored(u.mem, H[w.ir.dst], Len(s.log) + 1)
       /\ e.mem = Stored(s.mem, G[ir.dst], Len(s.log) + 1)
  <2> HIDE DEF u, n
  <2>1. CASE ir.kind = "OP"
    <3>1. /\ t.mem = Stored(u.mem, H[w.ir.dst], Len(u.log) + 1)
          /\ t.log = Append(u.log, <<ValueAt(u.mem, H[w.ir.opr1]), ValueAt(u.mem, H[w.ir.opr2])>>)
          /\ e.mem = Stored(s.mem, G[ir.dst], Len(s.log) + 1)
          /\ e.log = Append(s.log, <<ValueAt(s.mem, G[ir.opr1]), ValueAt(s.mem, G[ir.opr2])>>)
      BY <1>10, <2>1, ExecuteIs
    <3> HIDE DEF t, e
    <3> QED
      BY <1>12, <1>13, <3>1
  <2>2. CASE ir.kind = "OFS"
    <3>1. /\ t.mem = Stored(u.mem, H[w.ir.dst], Len(u.log) + 1)
          /\ t.log = Append(u.log, <<>>)
          /\ e.mem = Stored(s.mem, G[ir.dst], Len(s.log) + 1)
          /\ e.log = Append(s.log, <<>>)
      BY <1>10, <2>2, ExecuteIs
    <3> HIDE DEF t, e
    <3> QED
      BY <1>13, <3>1
  <2> QED
    BY <2>1, <2>2 DEF Proper
<1>15. RunBlock(w.before \o <<w.ir>> \o w.after, s, H) = RunBlock(w.after, t, H)
  <2> DEFINE I == Instructions(m)
             one == <<w.ir>>
  <2>1. w.before \in Seq(I) /\ one \in Seq(I) /\ w.after \in Seq(I)
    BY <1>2
  <2>2. w.before \o one \in Seq(I)
    BY <2>1, ConcatProperties
  <2> HIDE DEF I, one
  <2>3. RunBlock((w.before \o one) \o w.after, s, H) = RunBlock(w.after, RunBlock(w.before \o one, s, H), H)
    <3> DEFINE x == w.before \o one
    <3> HIDE DEF x
    <3>1. x \in Seq(I)
      BY <2>2 DEF x
    <3>2. RunBlock(x \o w.after, s, H) = RunBlock(w.after, RunBlock(x, s, H), H)
      BY <2>1, <3>1, RunConcat
    <3> QED
      BY <3>2 DEF x
  <2>4. RunBlock(w.before \o one, s, H) = RunBlock(one, RunBlock(w.before, s, H), H)
    BY <2>1, RunConcat
  <2>5. RunBlock(one, u, H) = t
    BY RunShort DEF one
  <2> HIDE DEF t
  <2> QED
    BY <1>6, <2>3, <2>4, <2>5 DEF one
<1> HIDE DEF t, e, u
<1>16. Alike(n, e, RunBlock(w.after, t, H))
  <2>1. CASE w.moved
    <3> DEFINE st == w.after[1]
               r == Execute(t, st, H)
               x == Len(s.log) + 1
    <3>1. Len(w.after) = 1 /\ StoreFor(st, w.ir, ir, vs, m)
      BY <1>1, <1>2, <2>1 DEF Wraps, WrapAfter
    <3>2. w.after = <<st>>
      BY <1>2, <3>1
    <3>3. /\ st.kind = "STORE_SPILLED" /\ st.opr1 = w.ir.dst /\ w.ir.dst \in n + 1 .. m
          /\ st.opr2 = ir.dst /\ ir.dst \in 1 .. n /\ InFrame(vs, ir.dst)
      BY <3>1 DEF StoreFor
    <3> HIDE DEF st
    <3>4. RunBlock(w.after, t, H) = r
      BY <3>2, RunShort
    <3>5. H[w.ir.dst] = Slot(w.ir.dst) /\ G[ir.dst] = Slot(ir.dst)
      BY <1>3, <3>3
    <3>6. ValueAt(t.mem, Slot(w.ir.dst)) = x
      <4>1. ~ Fixed(Slot(w.ir.dst))
        BY SlotsDiffer
      <4> QED
        BY <1>14, <3>5, <4>1, ValueStored DEF Fixed
    <3>7. r.log = t.log /\ r.mem = Stored(t.mem, Slot(ir.dst), x)
      <4> HIDE DEF x
      <4> QED
        BY <3>3, <3>5, <3>6, ExecuteIs
    <3> HIDE DEF r, x
    <3>8. SameValues(n, e.mem, r.mem)
      <4> SUFFICES ASSUME NEW v \in 0 .. n
                   PROVE  ValueAt(e.mem, Slot(v)) = ValueAt(r.mem, Slot(v))
        BY DEF SameValues
      <4>1. ~ Fixed(Slot(v)) /\ Slot(v) # Slot(w.ir.dst)
        BY <3>3, SlotsDiffer
      <4>2. ValueAt(u.mem, Slot(v)) = ValueAt(s.mem, Slot(v))
        BY <1>13 DEF SameValues
      <4>3. ValueAt(t.mem, Slot(v)) = ValueAt(u.mem, Slot(v))
        BY <1>14, <3>5, <4>1, ValueStored DEF Fixed, x
      <4>4. CASE Slot(v) = Slot(ir.dst)
        BY <1>14, <3>5, <3>7, <4>1, <4>4, ValueStored DEF Fixed, x
      <4>5. CASE Slot(v) # Slot(ir.dst)
        BY <1>14, <3>5, <3>7, <4>1, <4>2, <4>3, <4>5, ValueStored DEF Fixed, x
      <4> QED
        BY <4>4, <4>5
    <3> QED
      BY <1>14, <3>4, <3>7, <3>8 DEF Alike
  <2>2. CASE ~ w.moved
    <3>1. w.after = <<>> /\ w.ir.dst = ir.dst
      BY <1>1, <2>2 DEF Wraps, WrapAfter
    <3>2. RunBlock(w.after, t, H) = t
      BY <3>1, RunShort
    <3>3. H[w.ir.dst] = G[ir.dst]
      BY <1>3, <1>11, <3>1
    <3>4. SameValues(n, t.mem, e.mem)
      BY <1>13, <1>14, <3>3, SameStored
    <3>5. SameValues(n, e.mem, t.mem)
      BY <3>4 DEF SameValues
    <3> QED
      BY <1>14, <3>2, <3>5 DEF Alike
  <2> QED
    BY <2>1, <2>2
<1> QED
  BY <1>15, <1>16 DEF e, G, H

(* The code that takes the place of an instruction.                        *)
NewCode(w) == w.before \o <<w.ir>> \o w.after

NewParts(new, w) ==
  /\ Len(w.before) \in Nat
  /\ Len(new) = IF w.moved THEN Len(w.before) + 2 ELSE Len(w.before) + 1
  /\ \A q \in 1 .. Len(w.before) : new[q] = w.before[q]
  /\ new[Len(w.before) + 1] = w.ir
  /\ w.moved => new[Len(w.before) + 2] = w.after[1]

(* The code for an instruction consists of instructions, in the order that *)
(* the code inserts them.                                                  *)
LEMMA NewIs ==
  ASSUME NEW vs, NEW ir, NEW w, NEW m \in Nat, IsWork(w, m), Wraps(w, ir, vs)
  PROVE  NewCode(w) \in Seq(Instructions(m)) /\ NewParts(NewCode(w), w)
<1> DEFINE I == Instructions(m)
           nb == Len(w.before)
           na == Len(w.after)
           one == <<w.ir>>
           x == w.before \o one
           y == x \o w.after
<1>1. w.before \in Seq(I) /\ w.ir \in I /\ w.after \in Seq(I)
  BY DEF IsWork, Works
<1>2. one \in Seq(I) /\ Len(one) = 1 /\ one[1] = w.ir
  BY <1>1
<1>3. nb \in Nat /\ na \in Nat /\ na = IF w.moved THEN 1 ELSE 0
  <2>1. IF w.moved THEN na = 1 ELSE w.after = <<>>
    BY DEF Wraps, WrapAfter
  <2>2. nb \in Nat /\ na \in Nat /\ Len(<<>>) = 0
    BY <1>1
  <2> QED
    BY <2>1, <2>2
<1> HIDE DEF one, I
<1>4. /\ x \in Seq(I) /\ Len(x) = nb + 1
      /\ \A q \in 1 .. nb + 1 : x[q] = IF q <= nb THEN w.before[q] ELSE one[q - nb]
  <2> DEFINE z == w.before
  <2>1. z \in Seq(I) /\ one \in Seq(I) /\ Len(one) = 1 /\ nb = Len(z) /\ x = z \o one
    BY ONLY <1>1, <1>2
  <2> HIDE DEF z
  <2>2. /\ z \o one \in Seq(I) /\ Len(z \o one) = Len(z) + Len(one)
        /\ \A q \in 1 .. Len(z) + Len(one) :
             (z \o one)[q] = IF q <= Len(z) THEN z[q] ELSE one[q - Len(z)]
    BY ONLY <2>1, ConcatProperties
  <2> HIDE DEF nb, x
  <2> QED
    BY ONLY <2>1, <2>2 DEF z
<1> HIDE DEF x
<1>5. /\ y \in Seq(I) /\ Len(y) = nb + 1 + na
      /\ \A q \in 1 .. nb + 1 + na : y[q] = IF q <= nb + 1 THEN x[q] ELSE w.after[q - (nb + 1)]
  <2> DEFINE z == w.after
  <2> HIDE DEF z
  <2>1. z \in Seq(I)
    BY <1>1 DEF z
  <2>2. /\ x \o z \in Seq(I) /\ Len(x \o z) = Len(x) + Len(z)
        /\ \A q \in 1 .. Len(x) + Len(z) : (x \o z)[q] = IF q <= Len(x) THEN x[q] ELSE z[q - Len(x)]
    BY <1>4, <2>1, ConcatProperties
  <2>3. y = x \o z /\ na = Len(z)
    BY DEF z
  <2> HIDE DEF na, y
  <2> QED
    BY <1>4, <2>2, <2>3 DEF z
<1>6. NewCode(w) = y
  BY DEF NewCode, one, x
<1> HIDE DEF y, nb, na
<1>11. \A q \in 1 .. nb + 1 + na : y[q] = IF q <= nb + 1 THEN x[q] ELSE w.after[q - (nb + 1)]
  BY <1>5
<1>7. \A q \in 1 .. nb : y[q] = w.before[q]
  BY <1>3, <1>4, <1>5
<1>8. y[nb + 1] = w.ir
  <2>1. nb + 1 \in 1 .. nb + 1 /\ nb + 1 \in 1 .. nb + 1 + na /\ ~ (nb + 1 <= nb) /\ nb + 1 - nb = 1
        /\ nb + 1 <= nb + 1
    BY <1>3
  <2> QED
    <3>1. y[nb + 1] = x[nb + 1]
      BY <1>11, <2>1
    <3>2. ASSUME NEW q \in 1 .. nb + 1, q = nb + 1 PROVE x[q] = one[1]
      <4>1. x[q] = (IF q <= nb THEN w.before[q] ELSE one[q - nb]) /\ ~ (q <= nb) /\ q - nb = 1
        BY <1>3, <1>4, <3>2
      <4> QED
        BY <4>1
    <3> QED
      BY <1>2, <2>1, <3>1, <3>2
<1>9. w.moved => y[nb + 2] = w.after[1]
  <2> SUFFICES ASSUME w.moved PROVE y[nb + 2] = w.after[1]
    OBVIOUS
  <2>1. nb + 2 \in 1 .. nb + 1 + na /\ ~ (nb + 2 <= nb + 1) /\ nb + 2 - (nb + 1) = 1
    BY <1>3
  <2> QED
    <3>1. ASSUME NEW q \in 1 .. nb + 1 + na, q = nb + 2 PROVE y[q] = w.after[1]
      <4>1. /\ y[q] = IF q <= nb + 1 THEN x[q] ELSE w.after[q - (nb + 1)]
            /\ ~ (q <= nb + 1) /\ q - (nb + 1) = 1
        BY <1>3, <1>11, <3>1
      <4> QED
        BY <4>1
    <3> QED
      BY <2>1, <3>1
<1>10. Len(y) = IF w.moved THEN nb + 2 ELSE nb + 1
  BY <1>3, <1>5
<1> QED
  BY <1>3, <1>5, <1>6, <1>7, <1>8, <1>9, <1>10 DEF NewParts, nb, I

(* Loads and stores are between the frame and a register made for them.    *)
LoadStore(ir, vs, n) ==
  /\ ir.kind = "LOAD_SPILLED" =>
       ir.dst \in n + 1 .. Len(vs) /\ ir.opr1 \in 1 .. n /\ InFrame(vs, ir.opr1) /\ ir.opr2 = 0
  /\ ir.kind = "STORE_SPILLED" =>
       ir.opr1 \in n + 1 .. Len(vs) /\ ir.opr2 \in 1 .. n /\ InFrame(vs, ir.opr2) /\ ir.dst = 0

(* What it mentions. At a is the instruction itself.                       *)
NewAnchor(new, a) == a \in 1 .. Len(new) /\ \A q \in 1 .. Len(new) : Proper(new[q]) <=> q = a

NewOld(new, a, ir, vs) ==
  \A v \in 1 .. Len(vs), q \in 1 .. Len(new) : Free(vs, v) =>
    /\ new[q].dst = v <=> q = a /\ ir.dst = v
    /\ Reads(new[q], v) <=> q = a /\ Reads(ir, v)

NewFree(new, a, ws) ==
  \A v \in 1 .. Len(ws), q \in 1 .. Len(new) :
    Free(ws, v) /\ Mentions(new[q], v) => Mentions(new[a], v)

NewPairs(new, a, n, m) ==
  \A t \in n + 1 .. m : \A q, r \in 1 .. Len(new) :
    Mentions(new[q], t) /\ Mentions(new[r], t) /\ q < r => q <= a /\ a <= r

NewReads(new, n, m) ==
  \A t \in n + 1 .. m, q \in 1 .. Len(new) : Reads(new[q], t) =>
    \E r \in 1 .. Len(new) : r < q /\ new[r].dst = t

NewFrame(new, vs, ws) == \A q \in 1 .. Len(new) : LoadStore(new[q], ws, Len(vs))

NewFacts(new, a, ir, vs, ws) ==
  /\ Len(new) \in Nat
  /\ NewAnchor(new, a) /\ NewOld(new, a, ir, vs) /\ NewFree(new, a, ws)
  /\ NewPairs(new, a, Len(vs), Len(ws)) /\ NewReads(new, Len(vs), Len(ws)) /\ NewFrame(new, vs, ws)

(* The code that insert_load_store_instructions makes has these            *)
(* properties.                                                             *)
LEMMA NewFactsHold ==
  ASSUME NEW vs, Len(vs) \in Nat, NEW ir \in Instructions(Len(vs)), Proper(ir),
         NEW w, Worked(w, ir, vs), NEW new, new = NewCode(w)
  PROVE  NewFacts(new, Len(w.before) + 1, ir, vs, w.vregs)
<1> DEFINE n == Len(vs)
           m == Len(w.vregs)
           nb == Len(w.before)
           a == nb + 1
<1>1. m \in Nat /\ m >= n /\ IsWork(w, m) /\ Wraps(w, ir, vs)
  BY DEF Worked, IsWork
<1>2. NewParts(new, w)
  BY <1>1, NewIs
<1>3. nb \in Nat /\ Len(new) \in Nat /\ a \in 1 .. Len(new) /\ a \in Nat
  BY <1>2 DEF NewParts
<1>4. /\ \A k \in 1 .. nb : LoadFor(w.before[k], w.ir, vs, m)
      /\ \A k, l \in 1 .. nb : w.before[k].dst = w.before[l].dst => k = l
      /\ w.ir.opr1 > n => Loaded(w, w.ir.opr1, ir.opr1)
      /\ w.ir.opr2 > n => Loaded(w, w.ir.opr2, ir.opr2)
  BY <1>1 DEF Wraps, WrapBefore
<1>5. ASSUME NEW q \in 1 .. Len(new)
      PROVE  \/ q \in 1 .. nb /\ q < a /\ q # a /\ new[q] = w.before[q] /\ LoadFor(new[q], w.ir, vs, m)
             \/ q = a /\ new[q] = w.ir
             \/ q = Len(new) /\ a < q /\ q # a /\ StoreFor(new[q], w.ir, ir, vs, m)
  <2>1. CASE q <= nb
    <3>1. q \in 1 .. nb /\ q < a /\ q # a
      BY <1>3, <2>1
    <3> QED
      BY <1>2, <1>4, <3>1 DEF NewParts
  <2>2. CASE q = a
    BY <1>2, <2>2 DEF NewParts
  <2>3. CASE q > nb /\ q # a
    <3>1. w.moved /\ q = nb + 2 /\ q = Len(new) /\ a < q
      BY <1>2, <1>3, <2>3 DEF NewParts
    <3>2. StoreFor(w.after[1], w.ir, ir, vs, m)
      BY <1>1, <3>1 DEF Wraps, WrapAfter
    <3> QED
      BY <1>2, <3>1, <3>2 DEF NewParts
  <2> QED
    BY <1>3, <2>1, <2>2, <2>3
<1>6. /\ w.ir.kind = ir.kind /\ Proper(w.ir)
      /\ Replaced(w.ir.dst, ir.dst, vs, m)
      /\ Replaced(w.ir.opr1, ir.opr1, vs, m) /\ Replaced(w.ir.opr2, ir.opr2, vs, m)
  BY <1>1 DEF Wraps, WrapIr, Proper
<1>7. /\ \A v \in 1 .. n : w.vregs[v] = vs[v]
      /\ \A v \in n + 1 .. m : w.vregs[v].flag = {"VRF_NO_SPILL"} /\ w.vregs[v].param = FALSE
  BY <1>1 DEF Wraps, WrapRegs
<1>8. /\ ir.dst \in 0 .. n /\ ir.opr1 \in 0 .. n /\ ir.opr2 \in 0 .. n
      /\ w.ir.dst \in 0 .. m /\ w.ir.opr1 \in 0 .. m /\ w.ir.opr2 \in 0 .. m
  <2>1. w.ir \in Instructions(m)
    BY <1>1 DEF IsWork, Works
  <2> QED
    BY <2>1, InstructionIs
<1>9. \A q \in 1 .. nb : q \in 1 .. Len(new) /\ q < a /\ new[q] = w.before[q]
  BY <1>2, <1>3 DEF NewParts
<1>10. new[a] = w.ir
  BY <1>2 DEF NewParts
<1> HIDE DEF a, nb, m, n
<1>11. NewAnchor(new, a)
  <2> SUFFICES ASSUME NEW q \in 1 .. Len(new) PROVE Proper(new[q]) <=> q = a
    BY <1>3 DEF NewAnchor
  <2> QED
    BY <1>5, <1>6 DEF LoadFor, StoreFor, Proper
<1>12. NewOld(new, a, ir, vs)
  <2> SUFFICES ASSUME NEW v \in 1 .. n, NEW q \in 1 .. Len(new), Free(vs, v)
               PROVE  /\ new[q].dst = v <=> q = a /\ ir.dst = v
                      /\ Reads(new[q], v) <=> q = a /\ Reads(ir, v)
    BY DEF NewOld, n
  <2>1. ASSUME NEW p, NEW o, Replaced(p, o, vs, m)
        PROVE  p = v <=> o = v
    BY <2>1 DEF Replaced, Free, InFrame, n
  <2>2. w.ir.dst = v <=> ir.dst = v
    BY <1>6, <2>1
  <2>3. Reads(w.ir, v) <=> Reads(ir, v)
    BY <1>6, <2>1 DEF Reads
  <2>4. ASSUME LoadFor(new[q], w.ir, vs, m) PROVE new[q].dst # v /\ ~ Reads(new[q], v)
    BY <2>4 DEF LoadFor, Reads, Free, InFrame, n
  <2>5. ASSUME StoreFor(new[q], w.ir, ir, vs, m) PROVE new[q].dst # v /\ ~ Reads(new[q], v)
    BY <2>5 DEF StoreFor, Reads, Free, InFrame, n
  <2> QED
    BY <1>5, <2>2, <2>3, <2>4, <2>5
<1>13. ASSUME NEW v \in 1 .. n PROVE InFrame(vs, v) => InFrame(w.vregs, v) /\ ~ Free(w.vregs, v)
  BY <1>7 DEF InFrame, Free
<1>14. NewFree(new, a, w.vregs)
  <2> SUFFICES ASSUME NEW v \in 1 .. m, NEW q \in 1 .. Len(new), Free(w.vregs, v), Mentions(new[q], v)
               PROVE  Mentions(w.ir, v)
    BY <1>10 DEF NewFree, m
  <2>1. ASSUME LoadFor(new[q], w.ir, vs, m) PROVE Mentions(w.ir, v)
    <3>1. new[q].opr1 # v /\ new[q].opr2 # v
      BY <1>13, <2>1 DEF LoadFor, n
    <3> QED
      BY <2>1, <3>1 DEF LoadFor, Mentions
  <2>2. ASSUME StoreFor(new[q], w.ir, ir, vs, m) PROVE Mentions(w.ir, v)
    <3>1. new[q].opr2 # v /\ new[q].dst # v
      BY <1>13, <2>2 DEF StoreFor, n
    <3> QED
      BY <2>2, <3>1 DEF StoreFor, Mentions
  <2> QED
    BY <1>5, <2>1, <2>2
<1>15. NewPairs(new, a, n, m)
  <2> SUFFICES ASSUME NEW t \in n + 1 .. m, NEW q \in 1 .. Len(new), NEW r \in 1 .. Len(new),
                      Mentions(new[q], t), Mentions(new[r], t), q < r
               PROVE  q <= a /\ a <= r
    BY DEF NewPairs
  <2>1. n \in Nat /\ m \in Nat /\ a \in Nat /\ Len(new) \in Nat
    BY <1>1, <1>3 DEF n
  <2>2. q <= a
    <3>1. ~ (q = Len(new) /\ a < q)
      BY <2>1
    <3> QED
      BY <1>5, <2>1, <3>1
  <2>3. ASSUME r < a PROVE FALSE
    <3>1. q < a
      BY <2>1, <2>3
    <3>2. ASSUME NEW k \in 1 .. Len(new), k < a
          PROVE  k \in 1 .. nb /\ new[k] = w.before[k] /\ LoadFor(new[k], w.ir, vs, m)
      <4>1. k # a /\ ~ (a < k)
        BY <2>1, <3>2
      <4> QED
        BY <1>5, <4>1
    <3>3. \A k \in 1 .. Len(new) : k < a /\ Mentions(new[k], t) => w.before[k].dst = t
      <4> SUFFICES ASSUME NEW k \in 1 .. Len(new), k < a, Mentions(new[k], t)
                   PROVE  w.before[k].dst = t
        OBVIOUS
      <4>1. new[k] = w.before[k] /\ LoadFor(new[k], w.ir, vs, m)
        BY <3>2
      <4>2. new[k].opr1 # t /\ new[k].opr2 # t
        BY <2>1, <4>1 DEF LoadFor, n
      <4> QED
        BY <4>1, <4>2 DEF Mentions
    <3>4. w.before[q].dst = t /\ w.before[r].dst = t /\ q \in 1 .. nb /\ r \in 1 .. nb
      BY <2>3, <3>1, <3>2, <3>3
    <3>5. q = r
      BY <1>4, <3>4
    <3> QED
      BY <2>1, <3>5
  <2> QED
    BY <2>1, <2>2, <2>3
<1>16. NewReads(new, n, m)
  <2> SUFFICES ASSUME NEW t \in n + 1 .. m, NEW q \in 1 .. Len(new), Reads(new[q], t)
               PROVE  \E r \in 1 .. Len(new) : r < q /\ new[r].dst = t
    BY DEF NewReads
  <2>1. n \in Nat /\ m \in Nat /\ t > n /\ t # 0
    BY <1>1 DEF n
  <2>2. CASE q \in 1 .. nb /\ LoadFor(new[q], w.ir, vs, m)
    <3>1. new[q].opr1 # t /\ new[q].opr2 # t
      BY <2>1, <2>2 DEF LoadFor, n
    <3> QED
      BY <3>1 DEF Reads
  <2>3. CASE q = a /\ new[q] = w.ir
    <3>1. Loaded(w, t, ir.opr1) \/ Loaded(w, t, ir.opr2)
      BY <1>4, <2>1, <2>3 DEF Reads
    <3>2. PICK k \in 1 .. nb : w.before[k].dst = t
      BY <3>1 DEF Loaded, nb
    <3> QED
      BY <1>9, <2>3, <3>2
  <2>4. CASE q # a /\ a < q /\ StoreFor(new[q], w.ir, ir, vs, m)
    <3>1. new[q].opr2 # t
      BY <2>1, <2>4 DEF StoreFor, n
    <3>2. w.ir.dst = t
      BY <2>4, <3>1 DEF Reads, StoreFor
    <3> QED
      BY <1>3, <1>10, <2>4, <3>2
  <2> QED
    BY <1>5, <2>2, <2>3, <2>4
<1>17. NewFrame(new, vs, w.vregs)
  <2> SUFFICES ASSUME NEW q \in 1 .. Len(new) PROVE LoadStore(new[q], w.vregs, n)
    BY DEF NewFrame, n
  <2>1. ASSUME LoadFor(new[q], w.ir, vs, m) PROVE LoadStore(new[q], w.vregs, n)
    <3>1. InFrame(w.vregs, new[q].opr1)
      BY <1>13, <2>1 DEF LoadFor, n
    <3> QED
      BY <2>1, <3>1 DEF LoadFor, LoadStore, m, n
  <2>2. ASSUME StoreFor(new[q], w.ir, ir, vs, m) PROVE LoadStore(new[q], w.vregs, n)
    <3>1. InFrame(w.vregs, new[q].opr2)
      BY <1>13, <2>2 DEF StoreFor, n
    <3> QED
      BY <2>2, <3>1 DEF StoreFor, LoadStore, m, n
  <2> QED
    BY <1>5, <1>6, <2>1, <2>2 DEF LoadStore, Proper
<1> QED
  BY <1>3, <1>11, <1>12, <1>14, <1>15, <1>16, <1>17 DEF NewFacts, n, m, a, nb
----------------------------------------------------------------------------
(***************************************************************************)
(* Code with one instruction replaced by new code, of length l, that has   *)
(* the instruction at place a.                                             *)
(***************************************************************************)
Spliced(irs2, irs, j, new) ==
  /\ Len(irs2) = Len(irs) - 1 + Len(new)
  /\ \A p \in 1 .. j - 1 : irs2[p] = irs[p]
  /\ \A q \in 1 .. Len(new) : irs2[j - 1 + q] = new[q]
  /\ \A p \in j + 1 .. Len(irs) : irs2[p - 1 + Len(new)] = irs[p]

(* Where the code is after the instruction at j was replaced.              *)
LEMMA SpliceIs ==
  ASSUME NEW S, NEW irs \in Seq(S), NEW new \in Seq(S), NEW j \in 1 .. Len(irs)
  PROVE  Spliced(SubSeq(irs, 1, j - 1) \o new \o SubSeq(irs, j + 1, Len(irs)), irs, j, new)
<1> DEFINE x == SubSeq(irs, 1, j - 1)
           z == SubSeq(irs, j + 1, Len(irs))
           n == Len(irs)
           l == Len(new)
           y == x \o new
           r == y \o z
<1>1. n \in Nat /\ l \in Nat /\ j \in 1 .. n
  OBVIOUS
<1>2. x \in Seq(S) /\ Len(x) = j - 1 /\ \A p \in 1 .. j - 1 : x[p] = irs[p]
  BY <1>1
<1>3. z \in Seq(S) /\ Len(z) = n - j /\ \A p \in 1 .. n - j : z[p] = irs[p + j]
  BY <1>1
<1> HIDE DEF x, z
<1>4. /\ y \in Seq(S) /\ Len(y) = Len(x) + l
      /\ \A q \in 1 .. Len(x) + l : y[q] = IF q <= Len(x) THEN x[q] ELSE new[q - Len(x)]
  BY <1>2, ConcatProperties
<1>5. /\ Len(y) = j - 1 + l
      /\ \A q \in 1 .. j - 1 + l : y[q] = IF q <= j - 1 THEN x[q] ELSE new[q - (j - 1)]
  BY <1>2, <1>4
<1> HIDE DEF y
<1>6. /\ Len(r) = Len(y) + Len(z)
      /\ \A q \in 1 .. Len(y) + Len(z) : r[q] = IF q <= Len(y) THEN y[q] ELSE z[q - Len(y)]
  <2>1. y \in Seq(S) /\ z \in Seq(S)
    BY <1>3, <1>4
  <2> QED
    BY <2>1, ConcatProperties
<1> HIDE DEF r, n, l
<1>7. /\ Len(r) = n - 1 + l
      /\ \A q \in 1 .. n - 1 + l : r[q] = IF q <= j - 1 + l THEN y[q] ELSE z[q - (j - 1 + l)]
  <2>1. Len(y) + Len(z) = n - 1 + l
    BY <1>1, <1>3, <1>5
  <2> QED
    BY <1>5, <1>6, <2>1
<1>8. ASSUME NEW p \in 1 .. j - 1 PROVE r[p] = irs[p]
  <2>1. p \in 1 .. n - 1 + l /\ p <= j - 1 + l /\ p \in 1 .. j - 1 + l /\ p <= j - 1
    BY <1>1
  <2>2. r[p] = y[p] /\ y[p] = x[p]
    BY <1>5, <1>7, <2>1
  <2> QED
    BY <1>2, <2>2
<1>9. ASSUME NEW q \in 1 .. l PROVE r[j - 1 + q] = new[q]
  <2>1. ASSUME NEW p \in 1 .. n - 1 + l, p = j - 1 + q PROVE r[p] = new[q]
    <3>1. p <= j - 1 + l /\ p \in 1 .. j - 1 + l /\ ~ (p <= j - 1) /\ p - (j - 1) = q
      BY <1>1, <2>1
    <3>2. r[p] = y[p] /\ y[p] = new[p - (j - 1)]
      BY <1>5, <1>7, <3>1
    <3> QED
      BY <3>1, <3>2
  <2>2. j - 1 + q \in 1 .. n - 1 + l
    BY <1>1
  <2> QED
    BY <2>1, <2>2
<1>10. ASSUME NEW p \in j + 1 .. n PROVE r[p - 1 + l] = irs[p]
  <2>1. ASSUME NEW q \in 1 .. n - 1 + l, q = p - 1 + l PROVE r[q] = irs[p]
    <3>1. ~ (q <= j - 1 + l) /\ q - (j - 1 + l) = p - j /\ p - j \in 1 .. n - j /\ p - j + j = p
      BY <1>1, <2>1
    <3>2. r[q] = z[p - j]
      BY <1>7, <3>1
    <3> QED
      BY <1>3, <3>1, <3>2
  <2>2. p - 1 + l \in 1 .. n - 1 + l
    BY <1>1
  <2> QED
    BY <2>1, <2>2
<1>11. r = SubSeq(irs, 1, j - 1) \o new \o SubSeq(irs, j + 1, Len(irs))
  BY DEF r, y, x, z
<1> QED
  BY <1>7, <1>8, <1>9, <1>10, <1>11 DEF Spliced, n, l

(* Where an instruction goes, and where one is from.                       *)
To(p, j, a, l) == IF p < j THEN p ELSE IF p = j THEN j - 1 + a ELSE p - 1 + l

From(x, j, l) == IF x < j THEN x ELSE IF x <= j - 1 + l THEN j ELSE x + 1 - l

Goes(irs2, irs, j, a, new) ==
  /\ \A p \in 1 .. Len(irs) :
       /\ To(p, j, a, Len(new)) \in 1 .. Len(irs2)
       /\ p # j => irs2[To(p, j, a, Len(new))] = irs[p]
       /\ p = j => irs2[To(p, j, a, Len(new))] = new[a]
  /\ \A p, r \in 1 .. Len(irs) : p < r => To(p, j, a, Len(new)) < To(r, j, a, Len(new))

Comes(irs2, irs, j, a, new) ==
  \A x \in 1 .. Len(irs2) :
    /\ From(x, j, Len(new)) \in 1 .. Len(irs)
    /\ From(x, j, Len(new)) # j =>
         /\ irs2[x] = irs[From(x, j, Len(new))]
         /\ x = To(From(x, j, Len(new)), j, a, Len(new))
    /\ From(x, j, Len(new)) = j =>
         /\ x - (j - 1) \in 1 .. Len(new)
         /\ irs2[x] = new[x - (j - 1)]
         /\ x = To(j, j, a, Len(new)) <=> x - (j - 1) = a

Between(irs2, irs, j, a, new) ==
  \A x \in 1 .. Len(irs2), p, r \in 1 .. Len(irs) :
    To(p, j, a, Len(new)) <= x /\ x <= To(r, j, a, Len(new)) =>
      p <= From(x, j, Len(new)) /\ From(x, j, Len(new)) <= r

(* The maps of places follow from the splice.                              *)
LEMMA SplicedPlaces ==
  ASSUME NEW irs, Len(irs) \in Nat, NEW j \in 1 .. Len(irs), NEW new, Len(new) \in Nat,
         NEW a \in 1 .. Len(new), NEW irs2, Spliced(irs2, irs, j, new)
  PROVE  /\ Goes(irs2, irs, j, a, new)
         /\ Comes(irs2, irs, j, a, new)
         /\ Between(irs2, irs, j, a, new)
<1> DEFINE n == Len(irs)
           l == Len(new)
<1>1. n \in Nat /\ l \in Nat /\ j \in 1 .. n /\ a \in 1 .. l /\ Len(irs2) = n - 1 + l
  BY DEF Spliced
<1>2. /\ \A p \in 1 .. j - 1 : irs2[p] = irs[p]
      /\ \A q \in 1 .. l : irs2[j - 1 + q] = new[q]
      /\ \A p \in j + 1 .. n : irs2[p - 1 + l] = irs[p]
  BY DEF Spliced
<1> HIDE DEF n, l
<1>3. Goes(irs2, irs, j, a, new)
  <2>1. ASSUME NEW p \in 1 .. n
        PROVE  /\ To(p, j, a, l) \in 1 .. Len(irs2)
               /\ p # j => irs2[To(p, j, a, l)] = irs[p]
               /\ p = j => irs2[To(p, j, a, l)] = new[a]
    <3>1. CASE p < j
      <4>1. p \in 1 .. j - 1 /\ To(p, j, a, l) = p /\ p # j
        BY <1>1, <3>1 DEF To
      <4> QED
        BY <1>1, <1>2, <4>1
    <3>2. CASE p = j
      <4>1. To(p, j, a, l) = j - 1 + a
        BY <1>1, <3>2 DEF To
      <4> QED
        BY <1>1, <1>2, <3>2, <4>1
    <3>3. CASE p > j
      <4>1. p \in j + 1 .. n /\ To(p, j, a, l) = p - 1 + l /\ p # j
        BY <1>1, <3>3 DEF To
      <4> QED
        BY <1>1, <1>2, <4>1
    <3> QED
      BY <1>1, <3>1, <3>2, <3>3
  <2>2. \A p, r \in 1 .. n : p < r => To(p, j, a, l) < To(r, j, a, l)
    BY <1>1 DEF To
  <2> QED
    BY <2>1, <2>2 DEF Goes, n, l
<1>4. Comes(irs2, irs, j, a, new)
  <2> SUFFICES ASSUME NEW x \in 1 .. n - 1 + l
               PROVE  /\ From(x, j, l) \in 1 .. n
                      /\ From(x, j, l) # j =>
                           /\ irs2[x] = irs[From(x, j, l)]
                           /\ x = To(From(x, j, l), j, a, l)
                      /\ From(x, j, l) = j =>
                           /\ x - (j - 1) \in 1 .. l
                           /\ irs2[x] = new[x - (j - 1)]
                           /\ x = To(j, j, a, l) <=> x - (j - 1) = a
    BY <1>1 DEF Comes, n, l
  <2>1. CASE x < j
    <3>1. x \in 1 .. j - 1 /\ From(x, j, l) = x /\ x # j /\ To(x, j, a, l) = x
      BY <1>1, <2>1 DEF From, To
    <3> QED
      BY <1>1, <1>2, <3>1
  <2>2. CASE x >= j /\ x <= j - 1 + l
    <3>1. /\ From(x, j, l) = j /\ x - (j - 1) \in 1 .. l /\ j - 1 + (x - (j - 1)) = x
          /\ To(j, j, a, l) = j - 1 + a
      BY <1>1, <2>2 DEF From, To
    <3>2. irs2[j - 1 + (x - (j - 1))] = new[x - (j - 1)]
      BY <1>2, <3>1
    <3> QED
      BY <1>1, <3>1, <3>2
  <2>3. CASE x > j - 1 + l
    <3>1. /\ From(x, j, l) = x + 1 - l /\ x + 1 - l \in j + 1 .. n /\ x + 1 - l - 1 + l = x
          /\ x + 1 - l # j /\ To(x + 1 - l, j, a, l) = x + 1 - l - 1 + l
      BY <1>1, <2>3 DEF From, To
    <3>2. ASSUME NEW p \in j + 1 .. n, p = x + 1 - l PROVE irs2[x] = irs[p]
      <4>1. p - 1 + l = x
        BY <1>1, <3>2
      <4> QED
        BY <1>2, <4>1
    <3> QED
      BY <1>1, <3>1, <3>2
  <2> QED
    BY <1>1, <2>1, <2>2, <2>3
<1>5. Between(irs2, irs, j, a, new)
  <2> SUFFICES ASSUME NEW x \in 1 .. n - 1 + l, NEW p \in 1 .. n, NEW r \in 1 .. n,
                      To(p, j, a, l) <= x, x <= To(r, j, a, l)
               PROVE  p <= From(x, j, l) /\ From(x, j, l) <= r
    BY <1>1 DEF Between, n, l
  <2> QED
    BY <1>1 DEF From, To
<1> QED
  BY <1>3, <1>4, <1>5

(* What the insertion for one instruction of a block does.                 *)
VRegsGrown(vs2, vs) ==
  /\ Len(vs) \in Nat /\ Len(vs2) \in Nat /\ Len(vs) <= Len(vs2)
  /\ \A v \in 1 .. Len(vs) : vs2[v] = vs[v]
  /\ \A v \in Len(vs) + 1 .. Len(vs2) :
       vs2[v].flag = {"VRF_NO_SPILL"} /\ vs2[v].param = FALSE

Replaces(irs2, vs2, irs, vs, j, a, new) ==
  /\ irs \in Seq(Instructions(Len(vs))) /\ j \in 1 .. Len(irs) /\ Proper(irs[j])
  /\ DOMAIN irs2 = 1 .. Len(irs2) /\ Len(irs2) \in Nat
  /\ VRegsGrown(vs2, vs)
  /\ NewFacts(new, a, irs[j], vs, vs2)
  /\ Goes(irs2, irs, j, a, new) /\ Comes(irs2, irs, j, a, new) /\ Between(irs2, irs, j, a, new)

(* The registers that were there are in the frame as before, and the new   *)
(* ones are not.                                                           *)
LEMMA GrownIs ==
  ASSUME NEW vs, NEW vs2, VRegsGrown(vs2, vs)
  PROVE  /\ \A v \in 1 .. Len(vs) : /\ Free(vs2, v) <=> Free(vs, v)
                                    /\ InFrame(vs2, v) <=> InFrame(vs, v)
         /\ \A v \in Len(vs) + 1 .. Len(vs2) : Free(vs2, v) /\ ~ InFrame(vs2, v) /\ ~ vs2[v].param
         /\ \A v \in 1 .. Len(vs2) : v \in 1 .. Len(vs) \/ v \in Len(vs) + 1 .. Len(vs2)
<1>1. \A v \in 1 .. Len(vs) : /\ Free(vs2, v) <=> Free(vs, v)
                              /\ InFrame(vs2, v) <=> InFrame(vs, v)
  BY DEF VRegsGrown, Free, InFrame
<1>2. \A v \in Len(vs) + 1 .. Len(vs2) : Free(vs2, v) /\ ~ InFrame(vs2, v) /\ ~ vs2[v].param
  BY DEF VRegsGrown, Free, InFrame
<1>3. \A v \in 1 .. Len(vs2) : v \in 1 .. Len(vs) \/ v \in Len(vs) + 1 .. Len(vs2)
  BY DEF VRegsGrown
<1> QED
  BY <1>1, <1>2, <1>3

(* A free register of the code is mentioned where it was.                  *)
LEMMA OldMentions ==
  ASSUME NEW irs2, NEW vs2, NEW irs, NEW vs, NEW j, NEW a, NEW new,
         Replaces(irs2, vs2, irs, vs, j, a, new),
         NEW v \in 1 .. Len(vs), Free(vs, v)
  PROVE  /\ \A p \in 1 .. Len(irs) :
              /\ irs2[To(p, j, a, Len(new))].dst = v <=> irs[p].dst = v
              /\ Reads(irs2[To(p, j, a, Len(new))], v) <=> Reads(irs[p], v)
         /\ \A x \in 1 .. Len(irs2) :
              irs2[x].dst = v \/ Reads(irs2[x], v) => x = To(From(x, j, Len(new)), j, a, Len(new))
<1> DEFINE l == Len(new)
<1>1. /\ NewOld(new, a, irs[j], vs) /\ NewAnchor(new, a)
      /\ Goes(irs2, irs, j, a, new) /\ Comes(irs2, irs, j, a, new)
  BY DEF Replaces, NewFacts
<1>2. ASSUME NEW p \in 1 .. Len(irs)
      PROVE  /\ irs2[To(p, j, a, l)].dst = v <=> irs[p].dst = v
             /\ Reads(irs2[To(p, j, a, l)], v) <=> Reads(irs[p], v)
  <2>1. CASE p = j
    <3>1. irs2[To(p, j, a, l)] = new[a] /\ a \in 1 .. Len(new)
      BY <1>1, <2>1 DEF Goes, NewAnchor
    <3> QED
      BY <1>1, <2>1, <3>1 DEF NewOld
  <2>2. CASE p # j
    BY <1>1, <2>2 DEF Goes
  <2> QED
    BY <2>1, <2>2
<1>3. ASSUME NEW x \in 1 .. Len(irs2), irs2[x].dst = v \/ Reads(irs2[x], v)
      PROVE  x = To(From(x, j, l), j, a, l)
  <2>1. CASE From(x, j, l) # j
    BY <1>1, <2>1 DEF Comes
  <2>2. CASE From(x, j, l) = j
    <3>1. /\ x - (j - 1) \in 1 .. Len(new) /\ irs2[x] = new[x - (j - 1)]
          /\ x = To(j, j, a, l) <=> x - (j - 1) = a
      BY <1>1, <2>2 DEF Comes
    <3>2. x - (j - 1) = a
      BY <1>1, <1>3, <3>1 DEF NewOld
    <3> QED
      BY <2>2, <3>1, <3>2
  <2> QED
    BY <2>1, <2>2
<1> QED
  BY <1>2, <1>3

(* A register made for the code is mentioned in the new code only.         *)
LEMMA NewMentions ==
  ASSUME NEW irs2, NEW vs2, NEW irs, NEW vs, NEW j, NEW a, NEW new,
         Replaces(irs2, vs2, irs, vs, j, a, new),
         NEW t \in Len(vs) + 1 .. Len(vs2), NEW x \in 1 .. Len(irs2),
         irs2[x].dst = t \/ Reads(irs2[x], t)
  PROVE  /\ From(x, j, Len(new)) = j
         /\ x - (j - 1) \in 1 .. Len(new)
         /\ irs2[x] = new[x - (j - 1)]
<1> DEFINE l == Len(new)
           p == From(x, j, l)
<1>1. /\ Comes(irs2, irs, j, a, new) /\ irs \in Seq(Instructions(Len(vs))) /\ Len(vs) \in Nat
  BY DEF Replaces, VRegsGrown
<1>2. p \in 1 .. Len(irs)
  BY <1>1 DEF Comes
<1>3. ASSUME p # j PROVE FALSE
  <2>1. irs2[x] = irs[p]
    BY <1>1, <1>3 DEF Comes
  <2>2. irs[p] \in Instructions(Len(vs))
    BY <1>1, <1>2
  <2>3. irs[p].dst \in 0 .. Len(vs) /\ irs[p].opr1 \in 0 .. Len(vs) /\ irs[p].opr2 \in 0 .. Len(vs)
    BY <2>2, InstructionIs
  <2> QED
    BY <1>1, <2>1, <2>3 DEF Reads
<1> QED
  BY <1>1, <1>3 DEF Comes

(* The flow stays known.                                                   *)
LEMMA FlowKept ==
  ASSUME NEW bb2, NEW vs2, NEW bb, NEW vs, NEW j, NEW a, NEW new,
         Replaces(bb2.irs, vs2, bb.irs, vs, j, a, new),
         bb2.in_regs = bb.in_regs, bb2.out_regs = bb.out_regs, bb.out_regs \subseteq 1 .. Len(vs),
         \A v \in 1 .. Len(vs) : Free(vs, v) => FlowKnown(bb, v)
  PROVE  \A v \in 1 .. Len(vs2) : Free(vs2, v) => FlowKnown(bb2, v)
<1> SUFFICES ASSUME NEW v \in 1 .. Len(vs2), Free(vs2, v),
                    ReadsFirst(bb2.irs, v) \/ PassesOn(bb2, v)
             PROVE  v \in bb.in_regs
  BY DEF FlowKnown
<1> DEFINE irs == bb.irs
           irs2 == bb2.irs
           l == Len(new)
<1>1. /\ VRegsGrown(vs2, vs) /\ Len(vs) \in Nat /\ DOMAIN irs2 = 1 .. Len(irs2) /\ Len(irs2) \in Nat
      /\ DOMAIN irs = 1 .. Len(irs) /\ Len(irs) \in Nat /\ j \in 1 .. Len(irs)
      /\ Goes(irs2, irs, j, a, new) /\ Comes(irs2, irs, j, a, new)
      /\ NewReads(new, Len(vs), Len(vs2)) /\ l \in Nat
  <2>1. irs \in Seq(Instructions(Len(vs)))
    BY DEF Replaces
  <2> QED
    BY <2>1, LenProperties DEF Replaces, VRegsGrown, NewFacts
<1> HIDE DEF irs, irs2
<1>2. CASE v \in Len(vs) + 1 .. Len(vs2)
  <2>1. v \notin bb2.out_regs
    BY <1>1, <1>2
  <2>2. PICK x \in 1 .. Len(irs2) : Reads(irs2[x], v) /\ \A k \in 1 .. x - 1 : irs2[k].dst # v
    BY <1>1, <2>1 DEF ReadsFirst, PassesOn, irs2
  <2>3. x - (j - 1) \in 1 .. l /\ irs2[x] = new[x - (j - 1)]
    BY <1>2, <2>2, NewMentions DEF irs, irs2
  <2>4. PICK r \in 1 .. l : r < x - (j - 1) /\ new[r].dst = v
    BY <1>1, <1>2, <2>2, <2>3 DEF NewReads
  <2> DEFINE k == j - 1 + r
  <2>5. k \in 1 .. x - 1 /\ k \in 1 .. Len(irs2) /\ From(k, j, l) = j /\ k - (j - 1) = r
    BY <1>1, <2>3, <2>4 DEF From
  <2>6. irs2[k] = new[k - (j - 1)]
    BY <1>1, <2>5 DEF Comes
  <2> QED
    BY <2>2, <2>4, <2>5, <2>6
<1>3. CASE v \in 1 .. Len(vs)
  <2>1. Free(vs, v) /\ FlowKnown(bb, v)
    BY <1>1, <1>3, GrownIs
  <2>2. /\ \A p \in 1 .. Len(irs) :
             /\ irs2[To(p, j, a, l)].dst = v <=> irs[p].dst = v
             /\ Reads(irs2[To(p, j, a, l)], v) <=> Reads(irs[p], v)
        /\ \A x \in 1 .. Len(irs2) :
             irs2[x].dst = v \/ Reads(irs2[x], v) => x = To(From(x, j, l), j, a, l)
    BY <1>3, <2>1, OldMentions DEF irs, irs2
  <2>3. CASE PassesOn(bb2, v)
    <3>1. v \in bb.out_regs /\ \A k \in 1 .. Len(irs2) : irs2[k].dst # v
      BY <1>1, <2>3 DEF PassesOn, irs2
    <3>2. ASSUME NEW p \in 1 .. Len(irs) PROVE irs[p].dst # v
      <4>1. To(p, j, a, l) \in 1 .. Len(irs2)
        BY <1>1 DEF Goes
      <4> QED
        BY <2>2, <3>1, <4>1
    <3>3. PassesOn(bb, v)
      BY <1>1, <3>1, <3>2 DEF PassesOn, irs
    <3> QED
      BY <2>1, <3>3 DEF FlowKnown
  <2>4. CASE ReadsFirst(bb2.irs, v)
    <3>1. PICK x \in 1 .. Len(irs2) : Reads(irs2[x], v) /\ \A k \in 1 .. x - 1 : irs2[k].dst # v
      BY <1>1, <2>4 DEF ReadsFirst, irs2
    <3> DEFINE p == From(x, j, l)
    <3>2. p \in 1 .. Len(irs)
      BY <1>1 DEF Comes
    <3>3. x = To(p, j, a, l) /\ Reads(irs[p], v)
      <4>1. x = To(p, j, a, l)
        BY <2>2, <3>1
      <4> HIDE DEF p
      <4> QED
        BY <2>2, <3>1, <3>2, <4>1
    <3> HIDE DEF p
    <3>4. ASSUME NEW r \in 1 .. p - 1 PROVE irs[r].dst # v
      <4>1. r \in 1 .. Len(irs) /\ r < p
        BY <1>1, <3>2
      <4>2. To(r, j, a, l) < x /\ To(r, j, a, l) \in 1 .. Len(irs2)
        BY <1>1, <3>2, <3>3, <4>1 DEF Goes
      <4>3. To(r, j, a, l) \in 1 .. x - 1
        BY <4>2
      <4> QED
        BY <2>2, <3>1, <4>1, <4>3
    <3>5. ReadsFirst(bb.irs, v)
      BY <1>1, <3>2, <3>3, <3>4 DEF ReadsFirst, irs
    <3> QED
      BY <2>1, <3>5 DEF FlowKnown
  <2> QED
    BY <2>3, <2>4
<1> QED
  BY <1>1, <1>2, <1>3, GrownIs

(* From j to k there is one proper instruction, and the free registers of  *)
(* the loads and stores around it are its own.                             *)
NarrowAt(irs, j, k, vs, a) ==
  \A m \in j .. k :
    /\ Proper(irs[m]) <=> m = a
    /\ \A v \in 1 .. Len(vs) : Mentions(irs[m], v) /\ Free(vs, v) => Mentions(irs[a], v)

Narrow(irs, j, k, vs) == \E a \in j .. k : NarrowAt(irs, j, k, vs, a)

(* A register that was made for an instruction stays close to it.          *)
TmpsLocal(bs, vs, n) ==
  \A t \in n + 1 .. Len(vs) : \A b, c \in 1 .. Len(bs) :
    \A j \in 1 .. Len(bs[b].irs), k \in 1 .. Len(bs[c].irs) :
      Mentions(bs[b].irs[j], t) /\ Mentions(bs[c].irs[k], t) =>
        b = c /\ (j < k => Narrow(bs[b].irs, j, k, vs))

(* New registers do not widen a distance.                                  *)
LEMMA NarrowSame ==
  ASSUME NEW irs, NEW vs, NEW vs2, irs \in Seq(Instructions(Len(vs))), VRegsGrown(vs2, vs),
         NEW j \in 1 .. Len(irs), NEW k \in 1 .. Len(irs), Narrow(irs, j, k, vs)
  PROVE  Narrow(irs, j, k, vs2)
<1>1. PICK a \in j .. k : NarrowAt(irs, j, k, vs, a)
  BY DEF Narrow
<1>2. ASSUME NEW m \in j .. k, NEW v \in 1 .. Len(vs2), Mentions(irs[m], v), Free(vs2, v)
      PROVE  Mentions(irs[a], v)
  <2>1. m \in 1 .. Len(irs) /\ Len(vs) \in Nat
    BY DEF VRegsGrown
  <2>2. irs[m] \in Instructions(Len(vs))
    BY <2>1
  <2>3. v \in 1 .. Len(vs)
    BY <1>2, <2>1, <2>2, InstructionIs DEF Mentions
  <2>4. Free(vs, v)
    BY <1>2, <2>3, GrownIs
  <2> QED
    BY <1>1, <1>2, <2>3, <2>4 DEF NarrowAt
<1> QED
  BY <1>1, <1>2 DEF Narrow, NarrowAt

(* Neither does the code that one instruction becomes.                     *)
LEMMA NarrowKept ==
  ASSUME NEW irs2, NEW vs2, NEW irs, NEW vs, NEW j, NEW a, NEW new,
         Replaces(irs2, vs2, irs, vs, j, a, new),
         NEW p \in 1 .. Len(irs), NEW r \in 1 .. Len(irs), Narrow(irs, p, r, vs)
  PROVE  Narrow(irs2, To(p, j, a, Len(new)), To(r, j, a, Len(new)), vs2)
<1> DEFINE l == Len(new)
           F(x) == From(x, j, l)
           T(x) == To(x, j, a, l)
<1>1. /\ Goes(irs2, irs, j, a, new) /\ Comes(irs2, irs, j, a, new) /\ Between(irs2, irs, j, a, new)
      /\ irs \in Seq(Instructions(Len(vs))) /\ Len(irs) \in Nat /\ j \in 1 .. Len(irs) /\ Proper(irs[j])
      /\ Len(irs2) \in Nat /\ VRegsGrown(vs2, vs) /\ Len(vs) \in Nat /\ Len(vs2) \in Nat
      /\ NewAnchor(new, a) /\ NewFree(new, a, vs2) /\ NewOld(new, a, irs[j], vs)
  <2>1. irs \in Seq(Instructions(Len(vs)))
    BY DEF Replaces
  <2> QED
    BY <2>1, LenProperties DEF Replaces, VRegsGrown, NewFacts
<1>2. PICK o \in p .. r : NarrowAt(irs, p, r, vs, o)
  BY DEF Narrow
<1>3. o \in 1 .. Len(irs)
  BY <1>1
<1>4. T(p) \in 1 .. Len(irs2) /\ T(r) \in 1 .. Len(irs2) /\ T(o) \in 1 .. Len(irs2)
  BY <1>1, <1>3 DEF Goes
<1>5. T(o) \in T(p) .. T(r)
  <2> HIDE DEF T
  <2>1. ASSUME NEW x \in 1 .. Len(irs), NEW y \in 1 .. Len(irs), x <= y PROVE T(x) <= T(y)
    <3>1. x = y \/ x < y
      BY <1>1, <2>1
    <3>2. x < y => T(x) < T(y)
      BY <1>1 DEF Goes, T
    <3>3. T(x) \in 1 .. Len(irs2) /\ T(y) \in 1 .. Len(irs2)
      BY <1>1 DEF Goes, T
    <3> QED
      BY <1>1, <3>1, <3>2, <3>3
  <2>2. p <= o /\ o <= r
    BY <1>1
  <2> QED
    BY <1>1, <1>3, <1>4, <2>1, <2>2
<1> HIDE DEF T, F
<1>6. ASSUME NEW x \in T(p) .. T(r)
      PROVE  /\ x \in 1 .. Len(irs2) /\ F(x) \in p .. r /\ F(x) \in 1 .. Len(irs)
             /\ F(x) # j => irs2[x] = irs[F(x)] /\ x = T(F(x))
             /\ F(x) = j => /\ x - (j - 1) \in 1 .. l /\ irs2[x] = new[x - (j - 1)]
                            /\ x = T(j) <=> x - (j - 1) = a
  <2>1. x \in 1 .. Len(irs2)
    BY <1>1, <1>4
  <2>2. /\ F(x) \in 1 .. Len(irs)
        /\ F(x) # j => irs2[x] = irs[F(x)] /\ x = T(F(x))
        /\ F(x) = j => /\ x - (j - 1) \in 1 .. l /\ irs2[x] = new[x - (j - 1)]
                       /\ x = T(j) <=> x - (j - 1) = a
    BY <1>1, <2>1 DEF Comes, F, T
  <2>3. p <= F(x) /\ F(x) <= r
    <3>1. T(p) <= x /\ x <= T(r)
      BY <1>4
    <3> QED
      BY <1>1, <2>1, <3>1 DEF Between, F, T
  <2>4. F(x) \in p .. r
    BY <2>2, <2>3
  <2> QED
    BY <2>1, <2>2, <2>4
<1>7. j \in p .. r => o = j
  BY <1>1, <1>2 DEF NarrowAt
<1>8. ASSUME o = j PROVE irs2[T(o)] = new[a]
  BY <1>1, <1>3, <1>8 DEF Goes, T
<1>9. ASSUME o # j PROVE irs2[T(o)] = irs[o]
  BY <1>1, <1>3, <1>9 DEF Goes, T
<1>10. ASSUME NEW x \in T(p) .. T(r) PROVE Proper(irs2[x]) <=> x = T(o)
  <2>1. CASE F(x) = j
    <3>1. o = j
      BY <1>6, <1>7, <2>1
    <3>2. Proper(new[x - (j - 1)]) <=> x - (j - 1) = a
      BY <1>1, <1>6, <2>1 DEF NewAnchor
    <3> QED
      BY <1>6, <2>1, <3>1, <3>2
  <2>2. CASE F(x) # j
    <3>1. Proper(irs[F(x)]) <=> F(x) = o
      BY <1>2, <1>6 DEF NarrowAt
    <3>2. x = T(o) => F(x) = o
      <4> SUFFICES ASSUME x = T(o), F(x) # o PROVE FALSE
        OBVIOUS
      <4>1. F(x) < o \/ o < F(x)
        BY <1>1, <1>3, <1>6
      <4>2. T(F(x)) < T(o) \/ T(o) < T(F(x))
        BY <1>1, <1>3, <1>6, <4>1 DEF Goes, T
      <4>3. T(o) \in Nat
        BY <1>4
      <4> QED
        BY <1>6, <2>2, <4>2, <4>3
    <3> QED
      BY <1>6, <2>2, <3>1, <3>2
  <2> QED
    BY <2>1, <2>2
<1>11. ASSUME NEW x \in T(p) .. T(r), NEW v \in 1 .. Len(vs2), Mentions(irs2[x], v), Free(vs2, v)
       PROVE  Mentions(irs2[T(o)], v)
  <2>1. CASE F(x) = j
    <3>1. o = j
      BY <1>6, <1>7, <2>1
    <3>2. Mentions(new[a], v)
      BY <1>1, <1>6, <1>11, <2>1 DEF NewFree
    <3> QED
      BY <1>8, <3>1, <3>2
  <2>2. CASE F(x) # j
    <3>1. Mentions(irs[F(x)], v) /\ irs[F(x)] \in Instructions(Len(vs))
      BY <1>1, <1>6, <1>11, <2>2
    <3>2. v \in 1 .. Len(vs)
      BY <1>1, <3>1, InstructionIs DEF Mentions
    <3>3. Free(vs, v)
      BY <1>1, <1>11, <3>2, GrownIs
    <3>4. Mentions(irs[o], v)
      BY <1>2, <1>6, <3>1, <3>2, <3>3 DEF NarrowAt
    <3>5. CASE o = j
      <4>1. a \in 1 .. Len(new)
        BY <1>1 DEF NewAnchor
      <4>2. Mentions(new[a], v)
        BY <1>1, <3>2, <3>3, <3>4, <3>5, <4>1 DEF NewOld, Mentions, Reads
      <4> QED
        BY <1>8, <3>5, <4>2
    <3>6. CASE o # j
      BY <1>9, <3>4, <3>6
    <3> QED
      BY <3>5, <3>6
  <2> QED
    BY <2>1, <2>2
<1>12. NarrowAt(irs2, T(p), T(r), vs2, T(o))
  BY <1>10, <1>11 DEF NarrowAt
<1> QED
  BY <1>5, <1>12 DEF Narrow, T

(* The new registers are around the one instruction.                       *)
LEMMA NarrowNew ==
  ASSUME NEW irs2, NEW vs2, NEW irs, NEW vs, NEW j, NEW a, NEW new,
         Replaces(irs2, vs2, irs, vs, j, a, new),
         NEW t \in Len(vs) + 1 .. Len(vs2), NEW x \in 1 .. Len(irs2), NEW y \in 1 .. Len(irs2),
         Mentions(irs2[x], t), Mentions(irs2[y], t), x < y
  PROVE  Narrow(irs2, x, y, vs2)
<1> DEFINE l == Len(new)
           o == j - 1 + a
<1>1. /\ Comes(irs2, irs, j, a, new) /\ NewAnchor(new, a) /\ NewFree(new, a, vs2)
      /\ NewPairs(new, a, Len(vs), Len(vs2)) /\ l \in Nat /\ j \in Nat /\ a \in 1 .. l
  <2>1. irs \in Seq(Instructions(Len(vs))) /\ j \in 1 .. Len(irs)
    BY DEF Replaces
  <2> QED
    BY <2>1, LenProperties DEF Replaces, NewFacts, NewAnchor
<1>2. /\ x - (j - 1) \in 1 .. l /\ irs2[x] = new[x - (j - 1)]
      /\ y - (j - 1) \in 1 .. l /\ irs2[y] = new[y - (j - 1)]
  BY NewMentions DEF Mentions, Reads
<1>3. x - (j - 1) < y - (j - 1)
  BY <1>1
<1>4. x - (j - 1) <= a /\ a <= y - (j - 1)
  BY <1>1, <1>2, <1>3 DEF NewPairs
<1>5. o \in x .. y
  BY <1>1, <1>4
<1>6. ASSUME NEW z \in x .. y
      PROVE  /\ z - (j - 1) \in 1 .. l /\ irs2[z] = new[z - (j - 1)]
             /\ z = o <=> z - (j - 1) = a
  <2>1. z \in 1 .. Len(irs2) /\ From(z, j, l) = j
    <3>1. PICK d \in Nat, m \in Nat : d = j /\ m = l
      BY <1>1
    <3>2. x - (d - 1) \in 1 .. m /\ y - (d - 1) \in 1 .. m
      BY <1>2, <3>1
    <3>3. z \in 1 .. Len(irs2) /\ d <= z /\ z <= d - 1 + m
      BY ONLY <3>2
    <3>4. From(z, d, m) = d
      BY ONLY <3>3 DEF From
    <3> QED
      BY <3>1, <3>3, <3>4
  <2>2. z - (j - 1) \in 1 .. l /\ irs2[z] = new[z - (j - 1)]
    BY <1>1, <2>1 DEF Comes
  <2> QED
    BY <1>1, <2>2
<1>7. irs2[o] = new[a]
  <2>1. o - (j - 1) = a
    BY <1>1
  <2>2. irs2[o] = new[o - (j - 1)]
    BY <1>5, <1>6
  <2> HIDE DEF o
  <2> QED
    BY <2>1, <2>2
<1> HIDE DEF o
<1>8. ASSUME NEW z \in x .. y
      PROVE  /\ Proper(irs2[z]) <=> z = o
             /\ \A v \in 1 .. Len(vs2) : Mentions(irs2[z], v) /\ Free(vs2, v) => Mentions(irs2[o], v)
  <2> DEFINE q == z - (j - 1)
  <2>1. q \in 1 .. l /\ irs2[z] = new[q] /\ (z = o <=> q = a)
    BY <1>6
  <2> HIDE DEF q
  <2> QED
    BY <1>1, <1>7, <2>1 DEF NewAnchor, NewFree
<1> QED
  BY <1>5, <1>8 DEF Narrow, NarrowAt
----------------------------------------------------------------------------
(***************************************************************************)
(* The code of all blocks.                                                 *)
(***************************************************************************)
RegsKept(vs, os) ==
  /\ Len(vs) >= Len(os)
  /\ \A v \in 1 .. Len(os) :
       /\ "VRF_CONST" \in vs[v].flag <=> "VRF_CONST" \in os[v].flag
       /\ vs[v].param = os[v].param
       /\ "VRF_SPILLED" \in os[v].flag => "VRF_SPILLED" \in vs[v].flag
       /\ "VRF_NO_SPILL" \notin vs[v].flag
  /\ \A v \in Len(os) + 1 .. Len(vs) : Free(vs, v) /\ ~ vs[v].param

BlocksKept(bs, os) ==
  /\ Len(bs) = Len(os)
  /\ \A b \in 1 .. Len(os) : bs[b].in_regs = os[b].in_regs /\ bs[b].out_regs = os[b].out_regs

FlowsKnown(bs, vs) ==
  \A b \in 1 .. Len(bs), v \in 1 .. Len(vs) : Free(vs, v) => FlowKnown(bs[b], v)

LoadsStores(bs, vs, n) ==
  \A b \in 1 .. Len(bs) : \A j \in 1 .. Len(bs[b].irs) : LoadStore(bs[b].irs[j], vs, n)

(* What stays true of the code of a program from round to round.           *)
Code(p, bs, vs) ==
  /\ Len(p.vregs) \in Nat /\ Len(p.bbs) \in Nat
  /\ RegsKept(vs, p.vregs) /\ BlocksKept(bs, p.bbs)
  /\ FlowsKnown(bs, vs) /\ LoadsStores(bs, vs, Len(p.vregs)) /\ TmpsLocal(bs, vs, Len(p.vregs))

Typed(bs, vs) == vs \in Seq(VRegs) /\ bs \in Seq(Blocks(Len(vs)))

(* One instruction is replaced.                                            *)
Rewritten(bs2, vs2, bs, vs, b, j, a, new) ==
  /\ Len(bs2) = Len(bs) /\ b \in 1 .. Len(bs)
  /\ \A c \in 1 .. Len(bs) :
       /\ bs2[c].in_regs = bs[c].in_regs /\ bs2[c].out_regs = bs[c].out_regs
       /\ c # b => bs2[c].irs = bs[c].irs
  /\ Replaces(bs2[b].irs, vs2, bs[b].irs, vs, j, a, new)

(* What the types of code and registers say, in the form that the proofs   *)
(* below use.                                                              *)
LEMMA TypedIs ==
  ASSUME NEW bs, NEW vs, Typed(bs, vs)
  PROVE  /\ Len(vs) \in Nat /\ DOMAIN vs = 1 .. Len(vs)
         /\ \A v \in 1 .. Len(vs) : vs[v] \in VRegs
         /\ Len(bs) \in Nat /\ DOMAIN bs = 1 .. Len(bs)
         /\ \A b \in 1 .. Len(bs) :
              /\ bs[b] \in Blocks(Len(vs))
              /\ bs[b].in_regs \subseteq 1 .. Len(vs) /\ bs[b].out_regs \subseteq 1 .. Len(vs)
              /\ bs[b].irs \in Seq(Instructions(Len(vs)))
              /\ Len(bs[b].irs) \in Nat
              /\ DOMAIN bs[b].irs = 1 .. Len(bs[b].irs)
<1>1. /\ Len(vs) \in Nat /\ DOMAIN vs = 1 .. Len(vs)
      /\ Len(bs) \in Nat /\ DOMAIN bs = 1 .. Len(bs)
      /\ \A v \in 1 .. Len(vs) : vs[v] \in VRegs
      /\ \A b \in 1 .. Len(bs) : bs[b] \in Blocks(Len(vs))
  BY DEF Typed
<1>2. \A b \in 1 .. Len(bs) : /\ bs[b].irs \in Seq(Instructions(Len(vs)))
                              /\ bs[b].in_regs \subseteq 1 .. Len(vs)
                              /\ bs[b].out_regs \subseteq 1 .. Len(vs)
  BY <1>1 DEF Blocks
<1>3. \A b \in 1 .. Len(bs) : /\ Len(bs[b].irs) \in Nat
                              /\ DOMAIN bs[b].irs = 1 .. Len(bs[b].irs)
  BY <1>2, LenProperties
<1> QED
  BY <1>1, <1>2, <1>3

(* Code mentions only registers of its function.                           *)
LEMMA MentionedIs ==
  ASSUME NEW n \in Nat, NEW irs \in Seq(Instructions(n)), NEW k \in 1 .. Len(irs), NEW t, t > n, t \in Nat
  PROVE  ~ Mentions(irs[k], t)
<1>1. irs[k] \in Instructions(n)
  OBVIOUS
<1> QED
  BY <1>1, InstructionIs DEF Mentions

(* Registers made for earlier instructions stay close to these, and the    *)
(* new ones are close to theirs.                                           *)
LEMMA TmpsKept ==
  ASSUME NEW bs, NEW vs, Typed(bs, vs), NEW bs2, NEW vs2, NEW b, NEW j, NEW a, NEW new,
         Rewritten(bs2, vs2, bs, vs, b, j, a, new),
         NEW n \in Nat, n <= Len(vs), TmpsLocal(bs, vs, n), \A v \in n + 1 .. Len(vs) : Free(vs, v)
  PROVE  TmpsLocal(bs2, vs2, n)
<1> SUFFICES ASSUME NEW t \in n + 1 .. Len(vs2), NEW c \in 1 .. Len(bs), NEW d \in 1 .. Len(bs),
                    NEW x \in 1 .. Len(bs2[c].irs), NEW y \in 1 .. Len(bs2[d].irs),
                    Mentions(bs2[c].irs[x], t), Mentions(bs2[d].irs[y], t)
             PROVE  c = d /\ (x < y => Narrow(bs2[c].irs, x, y, vs2))
  BY DEF TmpsLocal, Rewritten
<1> DEFINE irs == bs[b].irs
           irs2 == bs2[b].irs
           l == Len(new)
<1>1. /\ Replaces(irs2, vs2, irs, vs, j, a, new) /\ VRegsGrown(vs2, vs)
      /\ Len(vs) \in Nat /\ Len(vs2) \in Nat /\ b \in 1 .. Len(bs) /\ j \in 1 .. Len(irs)
      /\ \A e \in 1 .. Len(bs) : e # b => bs2[e].irs = bs[e].irs
      /\ \A e \in 1 .. Len(bs) : bs[e].irs \in Seq(Instructions(Len(vs))) /\ Len(bs[e].irs) \in Nat
      /\ Goes(irs2, irs, j, a, new) /\ Comes(irs2, irs, j, a, new) /\ Len(irs2) \in Nat
  BY TypedIs DEF Rewritten, Replaces, VRegsGrown
<1>2. CASE t > Len(vs)
  <2>1. t \in Len(vs) + 1 .. Len(vs2) /\ t \in Nat
    BY <1>1, <1>2
  <2>2. ASSUME NEW e \in 1 .. Len(bs), e # b, NEW k \in 1 .. Len(bs[e].irs)
        PROVE  ~ Mentions(bs[e].irs[k], t)
    BY <1>1, <1>2, <2>1, MentionedIs
  <2>3. c = b /\ d = b
    BY <1>1, <2>2
  <2>4. x < y => Narrow(irs2, x, y, vs2)
    BY <1>1, <2>1, <2>3, NarrowNew
  <2> QED
    BY <2>3, <2>4
<1>3. CASE ~ (t > Len(vs))
  <2>1. t \in n + 1 .. Len(vs) /\ t \in 1 .. Len(vs) /\ Free(vs, t)
    BY <1>1, <1>3
  <2>7. /\ \A k \in 1 .. Len(irs) :
             /\ irs2[To(k, j, a, l)].dst = t <=> irs[k].dst = t
             /\ Reads(irs2[To(k, j, a, l)], t) <=> Reads(irs[k], t)
        /\ \A k \in 1 .. Len(irs2) :
             irs2[k].dst = t \/ Reads(irs2[k], t) => k = To(From(k, j, l), j, a, l)
    <3>1. Replaces(irs2, vs2, irs, vs, j, a, new)
      BY <1>1
    <3> HIDE DEF irs, irs2
    <3> QED
      BY <2>1, <3>1, OldMentions
  (* In which instruction of the code before.                              *)
  <2> DEFINE Old(e, z, p) == IF e = b THEN z = To(p, j, a, l) ELSE z = p
  <2>2. ASSUME NEW e \in 1 .. Len(bs), NEW z \in 1 .. Len(bs2[e].irs), Mentions(bs2[e].irs[z], t)
        PROVE  \E p \in 1 .. Len(bs[e].irs) : Old(e, z, p) /\ Mentions(bs[e].irs[p], t)
    <3>1. CASE e # b
      <4>1. bs2[e].irs = bs[e].irs
        BY <1>1, <3>1
      <4>2. Old(e, z, z)
        BY <3>1
      <4> HIDE DEF Old
      <4> QED
        BY <2>2, <4>1, <4>2
    <3>2. CASE e = b
      <4> DEFINE p == From(z, j, l)
      <4>1. z = To(p, j, a, l) /\ p \in 1 .. Len(irs)
        <5>1. irs2[z].dst = t \/ Reads(irs2[z], t)
          BY <2>2, <3>2 DEF Mentions, Reads
        <5>2. z = To(p, j, a, l)
          BY <2>7, <3>2, <5>1
        <5>3. p \in 1 .. Len(irs)
          BY <1>1, <3>2 DEF Comes
        <5> QED
          BY <5>2, <5>3
      <4> HIDE DEF p
      <4>2. Mentions(irs[p], t)
        <5>2. irs2[To(p, j, a, l)].dst = t \/ Reads(irs2[To(p, j, a, l)], t)
          BY <2>2, <3>2, <4>1 DEF Mentions, Reads
        <5> QED
          BY <2>7, <4>1, <5>2 DEF Mentions, Reads
      <4> QED
        BY <3>2, <4>1, <4>2
    <3> QED
      BY <3>1, <3>2
  <2> HIDE DEF Old
  <2>3. PICK p \in 1 .. Len(bs[c].irs) : Old(c, x, p) /\ Mentions(bs[c].irs[p], t)
    BY <2>2
  <2>4. PICK r \in 1 .. Len(bs[d].irs) : Old(d, y, r) /\ Mentions(bs[d].irs[r], t)
    BY <2>2
  <2>5. c = d /\ (p < r => Narrow(bs[c].irs, p, r, vs))
    BY <2>1, <2>3, <2>4 DEF TmpsLocal
  <2>6. ASSUME x < y PROVE Narrow(bs2[c].irs, x, y, vs2)
    <3>1. CASE c # b
      <4>1. x = p /\ y = r /\ bs2[c].irs = bs[c].irs
        BY <1>1, <2>3, <2>4, <2>5, <3>1 DEF Old
      <4> QED
        BY <1>1, <2>5, <2>6, <4>1, NarrowSame
    <3>2. CASE c = b
      <4>1. x = To(p, j, a, l) /\ y = To(r, j, a, l) /\ p \in 1 .. Len(irs) /\ r \in 1 .. Len(irs)
        BY <2>3, <2>4, <2>5, <3>2 DEF Old
      <4>2. p < r
        <5>1. r < p \/ r = p \/ p < r
          BY <1>1, <4>1
        <5>2. r < p => y < x
          BY <1>1, <4>1 DEF Goes
        <5>3. x \in Nat /\ y \in Nat
          BY <1>1
        <5> QED
          BY <2>6, <4>1, <5>1, <5>2, <5>3
      <4> QED
        BY <1>1, <2>5, <3>2, <4>1, <4>2, NarrowKept
    <3> QED
      BY <3>1, <3>2
  <2> QED
    BY <2>5, <2>6
<1> QED
  BY <1>2, <1>3

(* What is known of the code stays true.                                   *)
LEMMA CodeKept ==
  ASSUME NEW p, NEW bs, NEW vs, Typed(bs, vs), Code(p, bs, vs),
         NEW bs2, NEW vs2, NEW b, NEW j, NEW a, NEW new,
         Rewritten(bs2, vs2, bs, vs, b, j, a, new)
  PROVE  Code(p, bs2, vs2)
<1> DEFINE n == Len(p.vregs)
<1>1. /\ n \in Nat /\ n <= Len(vs) /\ Len(vs) \in Nat /\ Len(vs2) \in Nat /\ Len(vs) <= Len(vs2)
      /\ VRegsGrown(vs2, vs) /\ \A v \in n + 1 .. Len(vs) : Free(vs, v) /\ ~ vs[v].param
      /\ Len(bs2) = Len(bs) /\ b \in 1 .. Len(bs) /\ Len(p.bbs) \in Nat
  BY DEF Code, RegsKept, Rewritten, Replaces, VRegsGrown
<1>2. RegsKept(vs2, p.vregs)
  <2>1. Len(vs2) >= n
    BY <1>1
  <2>2. ASSUME NEW v \in 1 .. n
        PROVE  /\ "VRF_CONST" \in vs2[v].flag <=> "VRF_CONST" \in p.vregs[v].flag
               /\ vs2[v].param = p.vregs[v].param
               /\ "VRF_SPILLED" \in p.vregs[v].flag => "VRF_SPILLED" \in vs2[v].flag
               /\ "VRF_NO_SPILL" \notin vs2[v].flag
    <3>1. vs2[v] = vs[v]
      BY <1>1 DEF VRegsGrown
    <3> QED
      BY <3>1 DEF Code, RegsKept
  <2>3. ASSUME NEW v \in n + 1 .. Len(vs2)
        PROVE  Free(vs2, v) /\ ~ vs2[v].param
    <3>1. CASE v \in 1 .. Len(vs)
      <4>1. v \in n + 1 .. Len(vs)
        BY <1>1, <3>1
      <4>2. vs2[v] = vs[v]
        BY <1>1, <3>1 DEF VRegsGrown
      <4> QED
        BY <1>1, <4>1, <4>2 DEF Free
    <3>2. CASE v \in Len(vs) + 1 .. Len(vs2)
      BY <1>1, <3>2, GrownIs
    <3> QED
      BY <1>1, <3>1, <3>2
  <2> QED
    BY <2>1, <2>2, <2>3 DEF RegsKept
<1>3. BlocksKept(bs2, p.bbs)
  BY DEF Code, BlocksKept, Rewritten
<1>4. FlowsKnown(bs2, vs2)
  <2>1. FlowsKnown(bs, vs)
    BY DEF Code
  <2> SUFFICES ASSUME NEW c \in 1 .. Len(bs)
               PROVE  \A v \in 1 .. Len(vs2) : Free(vs2, v) => FlowKnown(bs2[c], v)
    BY <1>1 DEF FlowsKnown
  <2>2. bs2[c].in_regs = bs[c].in_regs /\ bs2[c].out_regs = bs[c].out_regs
    BY DEF Rewritten
  <2>3. bs[c].out_regs \subseteq 1 .. Len(vs)
    BY TypedIs
  <2>4. \A v \in 1 .. Len(vs) : Free(vs, v) => FlowKnown(bs[c], v)
    BY <2>1 DEF FlowsKnown
  <2>5. CASE c = b
    <3>1. Replaces(bs2[c].irs, vs2, bs[c].irs, vs, j, a, new)
      BY <2>5 DEF Rewritten
    <3> DEFINE bb == bs[c]
               bb2 == bs2[c]
    <3> HIDE DEF bb, bb2
    <3>2. /\ Replaces(bb2.irs, vs2, bb.irs, vs, j, a, new)
          /\ bb2.in_regs = bb.in_regs /\ bb2.out_regs = bb.out_regs
          /\ bb.out_regs \subseteq 1 .. Len(vs)
          /\ \A v \in 1 .. Len(vs) : Free(vs, v) => FlowKnown(bb, v)
      BY <2>2, <2>3, <2>4, <3>1 DEF bb, bb2
    <3>3. \A v \in 1 .. Len(vs2) : Free(vs2, v) => FlowKnown(bb2, v)
      BY <3>2, FlowKept
    <3> QED
      BY <3>3 DEF bb2
  <2>6. CASE c # b
    <3> SUFFICES ASSUME NEW v \in 1 .. Len(vs2), Free(vs2, v) PROVE FlowKnown(bs2[c], v)
      OBVIOUS
    <3>1. bs2[c].irs = bs[c].irs
      BY <2>6 DEF Rewritten
    <3>2. CASE v \in 1 .. Len(vs)
      <4>1. FlowKnown(bs[c], v)
        BY <1>1, <2>4, <3>2, GrownIs
      <4> QED
        BY <2>2, <3>1, <4>1 DEF FlowKnown, PassesOn
    <3>3. CASE v \in Len(vs) + 1 .. Len(vs2)
      <4>1. v \notin bs[c].out_regs /\ v > Len(vs) /\ v \in Nat
        BY <1>1, <2>3, <3>3
      <4>2. bs[c].irs \in Seq(Instructions(Len(vs))) /\ DOMAIN bs[c].irs = 1 .. Len(bs[c].irs)
        BY TypedIs
      <4>3. \A k \in 1 .. Len(bs[c].irs) : ~ Mentions(bs[c].irs[k], v)
        BY <1>1, <4>1, <4>2, MentionedIs
      <4> QED
        BY <2>2, <3>1, <4>1, <4>2, <4>3 DEF FlowKnown, ReadsFirst, PassesOn, Reads, Mentions
    <3> QED
      BY <1>1, <3>2, <3>3
  <2> QED
    BY <2>5, <2>6
<1>5. LoadsStores(bs2, vs2, n)
  <2> SUFFICES ASSUME NEW c \in 1 .. Len(bs), NEW x \in 1 .. Len(bs2[c].irs)
               PROVE  LoadStore(bs2[c].irs[x], vs2, n)
    BY <1>1 DEF LoadsStores
  <2>1. \A e \in 1 .. Len(bs) : \A k \in 1 .. Len(bs[e].irs) : LoadStore(bs[e].irs[k], vs, n)
    BY DEF Code, LoadsStores
  <2>2. ASSUME NEW ir, LoadStore(ir, vs, n) PROVE LoadStore(ir, vs2, n)
    <3>1. \A v \in 1 .. n : v \in 1 .. Len(vs)
      BY <1>1
    <3>2. \A v \in 1 .. n : InFrame(vs, v) => InFrame(vs2, v)
      BY <1>1, <3>1, GrownIs
    <3>3. n + 1 .. Len(vs) \subseteq n + 1 .. Len(vs2)
      BY <1>1
    <3> QED
      BY <2>2, <3>2, <3>3 DEF LoadStore
  <2>3. CASE c # b
    <3>1. bs2[c].irs = bs[c].irs
      BY <2>3 DEF Rewritten
    <3> QED
      BY <2>1, <2>2, <3>1
  <2>4. CASE c = b
    <3> DEFINE irs == bs[b].irs
               irs2 == bs2[b].irs
               f == From(x, j, Len(new))
    <3>1. /\ Comes(irs2, irs, j, a, new) /\ NewFrame(new, vs, vs2)
      BY DEF Rewritten, Replaces, NewFacts
    <3>2. f \in 1 .. Len(irs)
      BY <2>4, <3>1 DEF Comes
    <3>3. CASE f # j
      <4>1. irs2[x] = irs[f]
        BY <2>4, <3>1, <3>3 DEF Comes
      <4> HIDE DEF f
      <4> QED
        BY <1>1, <2>1, <2>2, <2>4, <3>2, <4>1
    <3>4. CASE f = j
      <4>1. x - (j - 1) \in 1 .. Len(new) /\ irs2[x] = new[x - (j - 1)]
        BY <2>4, <3>1, <3>4 DEF Comes
      <4> DEFINE ir == irs2[x]
      <4>2. LoadStore(ir, vs2, Len(vs))
        BY <3>1, <4>1 DEF NewFrame
      <4> HIDE DEF ir
      <4>3. ASSUME NEW v \in 1 .. Len(vs), InFrame(vs2, v) PROVE v \in 1 .. n
        <5>1. ~ Free(vs, v)
          <6>1. InFrame(vs, v)
            BY <1>1, <4>3, GrownIs
          <6> QED
            BY <6>1 DEF InFrame, Free
        <5> QED
          BY <1>1, <5>1
      <4>4. Len(vs) + 1 .. Len(vs2) \subseteq n + 1 .. Len(vs2)
        BY <1>1
      <4>5. LoadStore(ir, vs2, n)
        <5>1. ir.kind = "LOAD_SPILLED" =>
                ir.dst \in n + 1 .. Len(vs2) /\ ir.opr1 \in 1 .. n /\ InFrame(vs2, ir.opr1) /\ ir.opr2 = 0
          BY <4>2, <4>3, <4>4 DEF LoadStore
        <5>2. ir.kind = "STORE_SPILLED" =>
                ir.opr1 \in n + 1 .. Len(vs2) /\ ir.opr2 \in 1 .. n /\ InFrame(vs2, ir.opr2) /\ ir.dst = 0
          BY <4>2, <4>3, <4>4 DEF LoadStore
        <5> QED
          BY <5>1, <5>2 DEF LoadStore
      <4> QED
        BY <2>4, <4>5 DEF ir
    <3> QED
      BY <3>3, <3>4
  <2> QED
    BY <2>3, <2>4
<1>6. TmpsLocal(bs2, vs2, n)
  <2>1. TmpsLocal(bs, vs, n)
    BY DEF Code
  <2> QED
    BY <1>1, <2>1, TmpsKept
<1> QED
  BY <1>1, <1>2, <1>3, <1>4, <1>5, <1>6 DEF Code

(* A block with one instruction replaced does what it did.                 *)
LEMMA ReplacedBlock ==
  ASSUME NEW n \in Nat, NEW vs, Len(vs) = n, NEW irs \in Seq(Instructions(n)), NEW j \in 1 .. Len(irs),
         NEW w, Worked(w, irs[j], vs), Proper(irs[j]), NEW irs2,
         irs2 = SubSeq(irs, 1, j - 1) \o NewCode(w) \o SubSeq(irs, j + 1, Len(irs)),
         NEW s, NEW t, Alike(n, s, t)
  PROVE  Alike(n, RunBlock(irs, s, Homes(vs)), RunBlock(irs2, t, Homes(w.vregs)))
<1> DEFINE H == Homes(vs)
           G == Homes(w.vregs)
           ir == irs[j]
           new == NewCode(w)
           one == <<ir>>
           pre == SubSeq(irs, 1, j - 1)
           post == SubSeq(irs, j + 1, Len(irs))
           I == Instructions(n)
<1>1. PICK m \in Nat : m >= n /\ IsWork(w, m) /\ Wraps(w, ir, vs)
  BY DEF Worked
<1>2. Len(irs) \in Nat /\ ir \in I
  OBVIOUS
<1>3. new \in Seq(Instructions(m))
  BY <1>1, NewIs
<1>4. pre \in Seq(I) /\ post \in Seq(I) /\ one \in Seq(I) /\ pre \o one \in Seq(I)
  BY <1>2
<1>5. irs = (pre \o one) \o post
  <2>1. pre \o one = SubSeq(irs, 1, j)
    BY <1>2, SubSeqRecursiveSecond
  <2>2. SubSeq(irs, 1, j) \o post = SubSeq(irs, 1, Len(irs))
    BY <1>2, ConcatAdjacentSubSeq
  <2>3. SubSeq(irs, 1, Len(irs)) = irs
    BY SubSeqFull
  <2> QED
    BY <2>1, <2>2, <2>3
<1>6. /\ AtHome(n, H) /\ \A v \in 0 .. n : G[v] = H[v]
  <2>1. SameConsts(n, vs, w.vregs) /\ Len(w.vregs) = m
    BY <1>1 DEF Wraps, WrapRegs, SameConsts, IsWork
  <2>2. n <= Len(w.vregs) /\ Len(w.vregs) \in Nat /\ Len(vs) \in Nat /\ n <= Len(vs)
    BY <1>1, <2>1
  <2> QED
    BY <2>1, <2>2, HomesSame
<1>7. \A u : Alike(n, Execute(u, ir, H), RunBlock(new, u, G))
  BY <1>2, WrapMeans DEF NewCode
<1> DEFINE s1 == RunBlock(pre, s, H)
           t1 == RunBlock(pre, t, G)
           s2 == Execute(s1, ir, H)
           t2 == RunBlock(new, t1, G)
<1>8. RunBlock(irs, s, H) = RunBlock(post, s2, H)
  <2> HIDE DEF I, pre, post, H, one
  <2>1. RunBlock((pre \o one) \o post, s, H) = RunBlock(post, RunBlock(pre \o one, s, H), H)
    <3> DEFINE x == pre \o one
    <3> HIDE DEF x
    <3>1. x \in Seq(I)
      BY <1>4 DEF x
    <3>2. RunBlock(x \o post, s, H) = RunBlock(post, RunBlock(x, s, H), H)
      BY <1>4, <3>1, RunConcat
    <3> QED
      BY <3>2 DEF x
  <2>2. RunBlock(pre \o one, s, H) = RunBlock(one, s1, H)
    BY <1>4, RunConcat
  <2>3. RunBlock(one, s1, H) = s2
    BY RunShort DEF one
  <2> QED
    BY <1>5, <2>1, <2>2, <2>3
<1>9. RunBlock(irs2, t, G) = RunBlock(post, t2, G)
  <2> DEFINE J == Instructions(m)
  <2>1. pre \in Seq(J) /\ post \in Seq(J)
    BY <1>1, <1>4, MoreRegisters, SeqMonotonic
  <2>2. new \in Seq(J)
    BY <1>3
  <2> HIDE DEF J, pre, post, G, new
  <2>3. RunBlock((pre \o new) \o post, t, G) = RunBlock(post, RunBlock(pre \o new, t, G), G)
    <3> DEFINE x == pre \o new
    <3> HIDE DEF x
    <3>1. x \in Seq(J)
      BY <2>1, <2>2, ConcatProperties DEF x
    <3>2. RunBlock(x \o post, t, G) = RunBlock(post, RunBlock(x, t, G), G)
      BY <2>1, <3>1, RunConcat
    <3> QED
      BY <3>2 DEF x
  <2>4. RunBlock(pre \o new, t, G) = t2
    BY <2>1, <2>2, RunConcat
  <2>5. irs2 = (pre \o new) \o post
    BY DEF pre, new, post
  <2> QED
    BY <2>3, <2>4, <2>5
<1> HIDE DEF H, G, new, pre, post, I, ir, one
<1>10. Alike(n, s1, t1)
  BY <1>4, <1>6, AlikeBlock DEF I
<1>11. Alike(n, s2, t2)
  <2>1. Alike(n, s2, Execute(t1, ir, H))
    BY <1>2, <1>6, <1>10, AlikeExecute DEF I
  <2>2. Alike(n, Execute(t1, ir, H), t2)
    BY <1>7
  <2> HIDE DEF s2, t2, t1
  <2> QED
    BY <2>1, <2>2 DEF Alike, SameValues
<1> HIDE DEF s2, t2
<1>12. Alike(n, RunBlock(post, s2, H), RunBlock(post, t2, G))
  BY <1>4, <1>6, <1>11, AlikeBlock DEF I
<1> QED
  BY <1>8, <1>9, <1>12 DEF H, G

(* Two versions of the code that do the same in every block do the same.   *)
AlikeCode(n, S, bs, loc, bs2, other) ==
  \A b \in S : \A s, t : Alike(n, s, t) =>
    Alike(n, RunBlock(bs[b].irs, s, loc), RunBlock(bs2[b].irs, t, other))

(* By induction along the path.                                            *)
LEMMA SameAlong ==
  ASSUME NEW n \in Nat, NEW bs, NEW bs2, NEW loc, NEW other, NEW S, NEW path \in Seq(S),
         AlikeCode(n, S, bs, loc, bs2, other)
  PROVE  Run(path, bs, loc) = Run(path, bs2, other)
<1> DEFINE l == Len(path)
           f == Along(path, bs, loc)
           g == Along(path, bs2, other)
           T == {k \in 0 .. l : Alike(n, f[k], g[k])}
<1>1. l \in Nat /\ \A k \in 1 .. l : path[k] \in S
  OBVIOUS
<1>2. /\ f[0] = Nothing /\ \A k \in 1 .. l : f[k] = RunBlock(bs[path[k]].irs, f[k - 1], loc)
      /\ g[0] = Nothing /\ \A k \in 1 .. l : g[k] = RunBlock(bs2[path[k]].irs, g[k - 1], other)
  BY <1>1, AlongIs
<1> HIDE DEF f, g
<1>3. 0 \in T
  BY <1>1, <1>2 DEF Alike, SameValues
<1>4. ASSUME NEW k \in 1 .. l, k - 1 \in T PROVE k \in T
  <2>1. k \in 0 .. l /\ Alike(n, f[k - 1], g[k - 1]) /\ path[k] \in S
    BY <1>1, <1>4
  <2>2. Alike(n, RunBlock(bs[path[k]].irs, f[k - 1], loc),
                 RunBlock(bs2[path[k]].irs, g[k - 1], other))
    BY <2>1 DEF AlikeCode
  <2> QED
    BY <1>2, <2>1, <2>2
<1> HIDE DEF T
<1>5. l \in T
  <2>1. 0 .. l \subseteq T
    BY <1>1, <1>3, <1>4, UpTo
  <2> QED
    BY <1>1, <2>1
<1> QED
  BY <1>5 DEF T, Alike, Run, f, g
----------------------------------------------------------------------------
(***************************************************************************)
(* The rounds.                                                             *)
(***************************************************************************)

(* The flag VRF_SPILLED is set for registers of the program.               *)
FlagsOnly(vs2, vs, n) ==
  /\ Len(vs2) = Len(vs) /\ Len(vs) \in Nat
  /\ \A v \in 1 .. Len(vs) :
       /\ vs2[v].param = vs[v].param
       /\ "VRF_CONST" \in vs2[v].flag <=> "VRF_CONST" \in vs[v].flag
       /\ "VRF_NO_SPILL" \in vs2[v].flag <=> "VRF_NO_SPILL" \in vs[v].flag
       /\ "VRF_SPILLED" \in vs[v].flag => "VRF_SPILLED" \in vs2[v].flag
  /\ \A v \in n + 1 .. Len(vs) : vs2[v] = vs[v]

(* Spilling leaves the code of the program what it was.                    *)
LEMMA FlagsKeepCode ==
  ASSUME NEW p, NEW bs, NEW vs, NEW vs2, Code(p, bs, vs), FlagsOnly(vs2, vs, Len(p.vregs))
  PROVE  Code(p, bs, vs2)
<1> DEFINE n == Len(p.vregs)
<1>1. n \in Nat /\ Len(vs) \in Nat /\ n <= Len(vs) /\ Len(vs2) = Len(vs)
  BY DEF Code, RegsKept, FlagsOnly
<1>2. \A v \in 1 .. Len(vs) : /\ Free(vs2, v) => Free(vs, v)
                              /\ InFrame(vs, v) => InFrame(vs2, v)
  BY DEF FlagsOnly, Free, InFrame
<1>3. RegsKept(vs2, p.vregs)
  <2>1. ASSUME NEW v \in 1 .. n
        PROVE  /\ "VRF_CONST" \in vs2[v].flag <=> "VRF_CONST" \in p.vregs[v].flag
               /\ vs2[v].param = p.vregs[v].param
               /\ "VRF_SPILLED" \in p.vregs[v].flag => "VRF_SPILLED" \in vs2[v].flag
               /\ "VRF_NO_SPILL" \notin vs2[v].flag
    <3>1. v \in 1 .. Len(vs)
      BY <1>1
    <3> QED
      BY <3>1 DEF FlagsOnly, Code, RegsKept
  <2>2. ASSUME NEW v \in n + 1 .. Len(vs) PROVE Free(vs2, v) /\ ~ vs2[v].param
    BY DEF FlagsOnly, Code, RegsKept, Free
  <2> QED
    BY <1>1, <2>1, <2>2 DEF RegsKept
<1>4. FlowsKnown(bs, vs2)
  BY <1>1, <1>2 DEF Code, FlowsKnown
<1>5. LoadsStores(bs, vs2, n)
  <2> SUFFICES ASSUME NEW b \in 1 .. Len(bs), NEW j \in 1 .. Len(bs[b].irs)
               PROVE  LoadStore(bs[b].irs[j], vs2, n)
    BY DEF LoadsStores
  <2>1. LoadStore(bs[b].irs[j], vs, n)
    BY DEF Code, LoadsStores
  <2>2. \A v \in 1 .. n : v \in 1 .. Len(vs)
    BY <1>1
  <2> QED
    BY <1>1, <1>2, <2>1, <2>2 DEF LoadStore
<1>6. TmpsLocal(bs, vs2, n)
  <2>1. ASSUME NEW irs, NEW j, NEW k, Narrow(irs, j, k, vs)
        PROVE  Narrow(irs, j, k, vs2)
    BY <1>1, <1>2, <2>1 DEF Narrow, NarrowAt
  <2> QED
    BY <1>1, <2>1 DEF Code, TmpsLocal
<1> QED
  BY <1>3, <1>4, <1>5, <1>6 DEF Code, BlocksKept

(* Spilling leaves the homes where they are.                               *)
LEMMA FlagsKeepHomes ==
  ASSUME NEW vs, NEW vs2, NEW n, FlagsOnly(vs2, vs, n)
  PROVE  Homes(vs2) = Homes(vs)
<1>1. \A v \in 0 .. Len(vs) : Home(vs2, v) = Home(vs, v)
  <2> SUFFICES ASSUME NEW v \in 0 .. Len(vs) PROVE Home(vs2, v) = Home(vs, v)
    OBVIOUS
  <2>1. v = 0 \/ v \in 1 .. Len(vs)
    BY DEF FlagsOnly
  <2> QED
    BY <2>1 DEF FlagsOnly, Home
<1> QED
  BY <1>1 DEF Homes, FlagsOnly

(* The rounds look at the same code.                                       *)
LEMMA SameCode ==
  ASSUME bbs' = bbs
  PROVE  /\ CodeBefore' = CodeBefore
         /\ \A v : Occurrences(v)' = Occurrences(v)
<1>1. CodeBefore' = CodeBefore
  BY DEF CodeBefore
<1>2. ASSUME NEW v PROVE Occurrences(v)' = Occurrences(v)
  BY <1>1 DEF Occurrences, BlockStart
<1> QED
  BY <1>1, <1>2

(* An interval has all the numbers at which its register was seen, and it  *)
(* ends at one of them.                                                    *)
Covers ==
  \A a \in 1 .. N :
    LET v == iv[a].virt
        occ == Occurrences(v)
    IN  /\ \A x \in occ : iv[a].start <= x /\ x <= iv[a].end
        /\ iv[a].end = -1 \/ iv[a].end \in occ
        /\ vregs[v].param \/ occ = {} \/ iv[a].start \in occ

Distinct == \A a, b \in 1 .. N : iv[a].virt = iv[b].virt => a = b

(* What the scan may give a register, and what it may spill.               *)
ScanKnows ==
  \A a \in 1 .. N :
    /\ state[a] = "LI_NORMAL" => Free(vregs, iv[a].virt)
    /\ state[a] = "LI_SPILL" => iv[a].virt <= Len(prog.vregs)

ParamsSpilled ==
  \A v \in 1 .. Len(vregs) : vregs[v].param => "VRF_SPILLED" \in vregs[v].flag

(* From the frame alone, the code does what the program did.               *)
SameRun == Run(prog.path, bbs, Homes(vregs)) = RunOriginal

RunInv ==
  /\ prog \in Programs
  /\ Code(prog, bbs, vregs)
  /\ phase # "check" => ParamsSpilled
  /\ phase \in {"scan", "spill"} => ScanKnows
  /\ phase \in {"scan", "spill"} \/ (phase \in {"insert", "done"} /\ ~ cur.inserted) =>
       Covers /\ Distinct
  /\ SameRun

(* A step that does not change what the code does from the frame keeps     *)
(* SameRun.                                                                *)
LEMMA RunAgain ==
  ASSUME prog' = prog, Run(prog.path, bbs', Homes(vregs')) = RunOriginal
  PROVE  SameRun'
  BY DEF SameRun, RunOriginal

(* The flags of a round.                                                   *)
LEMMA FlagsKeepRun ==
  ASSUME RunInv, prog' = prog, bbs' = bbs, FlagsOnly(vregs', vregs, Len(prog.vregs))
  PROVE  prog' \in Programs /\ Code(prog', bbs', vregs') /\ SameRun'
<1>1. Code(prog, bbs, vregs')
  BY FlagsKeepCode DEF RunInv
<1>2. Homes(vregs') = Homes(vregs)
  BY FlagsKeepHomes
<1>3. Run(prog.path, bbs', Homes(vregs')) = RunOriginal
  <2>1. Run(prog.path, bbs, Homes(vregs)) = RunOriginal
    BY DEF RunInv, SameRun
  <2> QED
    BY <1>2, <2>1
<1>4. SameRun'
  BY <1>3, RunAgain
<1> QED
  BY <1>1, <1>4 DEF RunInv

(* A program as it is handed over.                                         *)
LEMMA InitRunInv == RaInit => RunInv
<1> SUFFICES ASSUME RaInit PROVE RunInv
  OBVIOUS
<1> DEFINE n == Len(vregs)
<1>1. /\ IsProgram(prog) /\ prog \in Programs
      /\ vregs = prog.vregs /\ bbs = prog.bbs /\ phase = "check" /\ cur = CursorStart
  BY ProgramsAssumption DEF RaInit
<1>2. Typed(bbs, vregs)
  BY <1>1 DEF IsProgram, Typed
<1>3. /\ n \in Nat /\ DOMAIN vregs = 1 .. n /\ Len(bbs) \in Nat /\ DOMAIN bbs = 1 .. Len(bbs)
      /\ \A b \in 1 .. Len(bbs) : DOMAIN bbs[b].irs = 1 .. Len(bbs[b].irs)
  BY <1>2, TypedIs
<1>4. /\ \A v \in 1 .. n : "VRF_NO_SPILL" \notin vregs[v].flag
      /\ \A b \in 1 .. Len(bbs) :
           /\ \A j \in 1 .. Len(bbs[b].irs) : Proper(bbs[b].irs[j])
           /\ \A v \in 1 .. n : "VRF_CONST" \notin vregs[v].flag => FlowKnown(bbs[b], v)
  BY <1>1, <1>3 DEF IsProgram, Proper
<1>5. n + 1 .. n = {}
  BY <1>3
<1>6. Code(prog, bbs, vregs)
  <2>1. RegsKept(vregs, prog.vregs) /\ BlocksKept(bbs, prog.bbs)
    BY <1>1, <1>3, <1>4, <1>5 DEF RegsKept, BlocksKept
  <2>2. FlowsKnown(bbs, vregs)
    BY <1>4 DEF FlowsKnown, Free
  <2>3. LoadsStores(bbs, vregs, n)
    BY <1>4 DEF LoadsStores, LoadStore, Proper
  <2>4. TmpsLocal(bbs, vregs, n)
    BY <1>5 DEF TmpsLocal
  <2> QED
    BY <1>1, <1>3, <2>1, <2>2, <2>3, <2>4 DEF Code
<1>7. SameRun
  BY <1>1 DEF SameRun, RunOriginal
<1> QED
  BY <1>1, <1>6, <1>7 DEF RunInv

(* The intervals of a round.                                               *)
LEMMA CheckedIntervals ==
  ASSUME RaTypeOK, CheckIntervals
  PROVE  /\ N' = Len(vregs)
         /\ \A a \in 1 .. Len(vregs) : \E v \in 1 .. Len(vregs) : iv'[a] = LiveInterval(v)
         /\ \A a, b \in 1 .. Len(vregs) : iv'[a].virt = iv'[b].virt => a = b
         /\ \A a \in 1 .. Len(vregs) : state'[a] = iv'[a].state
<1> DEFINE n == Len(vregs)
           lis == [v \in DOMAIN vregs |-> LiveInterval(v)]
<1>1. n \in Nat /\ DOMAIN vregs = 1 .. n
  BY BlocksAre
<1>2. PICK ascending \in BOOLEAN : iv' = SortIntervals(lis, ascending)
  BY DEF CheckIntervals
<1>3. DOMAIN lis = 1 .. n /\ \A v \in 1 .. n : lis[v] = LiveInterval(v)
  BY <1>1
<1> HIDE DEF lis
<1>4. \A v \in 1 .. n : lis[v].start \in Int /\ lis[v].end \in Int /\ lis[v].virt = v
  BY <1>1, <1>3, LiveIntervalIs DEF IsInterval
<1>5. state' = [a \in DOMAIN iv' |-> iv'[a].state]
  BY DEF CheckIntervals
<1> DEFINE sorted == iv'
<1>6. sorted = SortIntervals(lis, ascending)
  BY <1>2
<1> HIDE DEF sorted, n
<1>7. /\ DOMAIN sorted = 1 .. n
      /\ Len(sorted) = n
      /\ SameElements(sorted, lis, n)
      /\ \A k, l \in 1 .. n : sorted[k].virt = sorted[l].virt => k = l
  BY <1>1, <1>3, <1>4, <1>6, SortIs
<1>8. N' = n
  BY <1>7 DEF N, sorted
<1>9. \A a \in 1 .. n : \E v \in 1 .. n : sorted[a] = LiveInterval(v)
  BY <1>3, <1>7 DEF SameElements
<1>10. \A a \in 1 .. n : state'[a] = sorted[a].state
  BY <1>5, <1>7 DEF sorted
<1> QED
  BY <1>7, <1>8, <1>9, <1>10 DEF sorted, n

(* The first step of a round makes intervals that cover the code.          *)
LEMMA CheckRunInv ==
  ASSUME RaInv, RunInv, CheckIntervals
  PROVE  RunInv'
<1> DEFINE n == Len(vregs)
           n0 == Len(prog.vregs)
           S == {v \in 1 .. n : vregs[v].param}
<1>1. RaTypeOK /\ n \in Nat /\ DOMAIN vregs = 1 .. n /\ CodeLength \in Nat
  BY BlocksAre, CodeAscends DEF RaInv
<1>2. /\ phase' = "scan" /\ prog' = prog /\ bbs' = bbs /\ cur' = cur
  BY DEF CheckIntervals
<1>3. /\ Len(vregs') = n
      /\ \A v \in 1 .. n :
           vregs'[v] = IF v \in S THEN [vregs[v] EXCEPT !.flag = @ \cup {"VRF_SPILLED"}] ELSE vregs[v]
  <2>1. vregs' = [v \in DOMAIN vregs |->
                    IF v \in S THEN [vregs[v] EXCEPT !.flag = @ \cup {"VRF_SPILLED"}]
                    ELSE vregs[v]]
    BY <1>1 DEF CheckIntervals
  <2> HIDE DEF S
  <2>2. Len(vregs') = n
    BY <1>1, <2>1, FlagsAdded
  <2> QED
    BY <1>1, <2>1, <2>2
<1>4. \A v \in 1 .. n :
        /\ vregs'[v].param = vregs[v].param
        /\ "VRF_CONST" \in vregs'[v].flag <=> "VRF_CONST" \in vregs[v].flag
        /\ "VRF_NO_SPILL" \in vregs'[v].flag <=> "VRF_NO_SPILL" \in vregs[v].flag
        /\ "VRF_SPILLED" \in vregs'[v].flag <=> "VRF_SPILLED" \in vregs[v].flag \/ vregs[v].param
  <2> SUFFICES ASSUME NEW v \in 1 .. n
               PROVE  /\ vregs'[v].param = vregs[v].param
                      /\ "VRF_CONST" \in vregs'[v].flag <=> "VRF_CONST" \in vregs[v].flag
                      /\ "VRF_NO_SPILL" \in vregs'[v].flag <=> "VRF_NO_SPILL" \in vregs[v].flag
                      /\ "VRF_SPILLED" \in vregs'[v].flag <=>
                           "VRF_SPILLED" \in vregs[v].flag \/ vregs[v].param
    OBVIOUS
  <2>1. vregs[v] \in VRegs
    BY <1>1, BlocksAre
  <2>2. CASE v \in S
    <3>1. vregs'[v] = [vregs[v] EXCEPT !.flag = @ \cup {"VRF_SPILLED"}]
      BY <1>3, <2>2
    <3>2. vregs'[v].param = vregs[v].param /\ vregs'[v].flag = vregs[v].flag \cup {"VRF_SPILLED"}
      BY <2>1, <3>1 DEF VRegs
    <3> QED
      BY <2>2, <3>2
  <2>3. CASE v \notin S
    <3>1. vregs'[v] = vregs[v]
      BY <1>3, <2>3
    <3> QED
      BY <2>3, <3>1
  <2> QED
    BY <2>2, <2>3
<1>5. \A v \in n0 + 1 .. n : Free(vregs, v) /\ ~ vregs[v].param
  BY DEF RunInv, Code, RegsKept
<1>6. FlagsOnly(vregs', vregs, n0)
  <2>1. n0 \in Nat
    BY DEF RunInv, Code
  <2>2. \A v \in n0 + 1 .. n : v \in 1 .. n /\ v \notin S
    BY <1>5, <2>1
  <2>3. \A v \in n0 + 1 .. n : vregs'[v] = vregs[v]
    BY <1>3, <2>2
  <2> QED
    BY <1>1, <1>3, <1>4, <2>3 DEF FlagsOnly
<1>7. Code(prog', bbs', vregs') /\ SameRun' /\ prog' \in Programs
  BY <1>2, <1>6, FlagsKeepRun
<1>8. ParamsSpilled'
  BY <1>3, <1>4 DEF ParamsSpilled
<1> HIDE DEF S
<1>9. /\ N' = n
      /\ \A a \in 1 .. n : \E v \in 1 .. n : iv'[a] = LiveInterval(v)
      /\ \A a, b \in 1 .. n : iv'[a].virt = iv'[b].virt => a = b
      /\ \A a \in 1 .. n : state'[a] = iv'[a].state
  BY <1>1, CheckedIntervals
<1>10. Distinct'
  BY <1>9 DEF Distinct
<1>11. ScanKnows'
  <2> SUFFICES ASSUME NEW a \in 1 .. n
               PROVE  /\ state'[a] = "LI_NORMAL" => Free(vregs', iv'[a].virt)
                      /\ state'[a] = "LI_SPILL" => iv'[a].virt <= Len(prog.vregs)
    <3>1. \A a \in 1 .. N' : /\ state'[a] = "LI_NORMAL" => Free(vregs', iv'[a].virt)
                             /\ state'[a] = "LI_SPILL" => iv'[a].virt <= Len(prog'.vregs)
      BY <1>2, <1>9
    <3> QED
      BY <3>1 DEF ScanKnows, Free
  <2>1. PICK v \in 1 .. n : iv'[a] = LiveInterval(v)
    BY <1>9
  <2>2. /\ iv'[a].virt = v
        /\ state'[a] = CASE "VRF_CONST" \in vregs[v].flag -> "LI_CONST"
                         [] "VRF_CONST" \notin vregs[v].flag /\ (vregs[v].param \/ Spilled(v)) ->
                              "LI_SPILL"
                         [] OTHER -> "LI_NORMAL"
    BY <1>9, <2>1 DEF LiveInterval
  <2>3. CASE IsConst(v)
    <3>1. state'[a] = "LI_CONST"
      BY <2>2, <2>3 DEF IsConst
    <3> QED
      BY <3>1
  <2>4. CASE ~ IsConst(v) /\ (vregs[v].param \/ Spilled(v))
    <3>1. state'[a] = "LI_SPILL"
      BY <2>2, <2>4 DEF IsConst
    <3>2. ~ (v \in n0 + 1 .. n)
      BY <1>5, <2>4 DEF Free, Spilled
    <3>3. n0 \in Nat
      BY DEF RunInv, Code
    <3> QED
      BY <1>1, <2>2, <3>1, <3>2, <3>3
  <2>5. CASE ~ IsConst(v) /\ ~ (vregs[v].param \/ Spilled(v))
    <3>1. state'[a] = "LI_NORMAL"
      BY <2>2, <2>5 DEF IsConst
    <3>2. Free(vregs', v)
      BY <1>4, <2>5 DEF Free, IsConst, Spilled
    <3> QED
      BY <2>2, <3>1, <3>2
  <2> QED
    BY <2>3, <2>4, <2>5
<1>12. Covers'
  <2> SUFFICES ASSUME NEW a \in 1 .. n
               PROVE  LET v == iv'[a].virt
                          occ == Occurrences(v)
                      IN  /\ \A x \in occ : iv'[a].start <= x /\ x <= iv'[a].end
                          /\ iv'[a].end = -1 \/ iv'[a].end \in occ
                          /\ vregs'[v].param \/ occ = {} \/ iv'[a].start \in occ
    <3>1. \A v : Occurrences(v)' = Occurrences(v)
      BY <1>2, SameCode
    <3> QED
      BY <1>9, <3>1 DEF Covers
  <2>1. PICK v \in 1 .. n : iv'[a] = LiveInterval(v)
    BY <1>9
  <2> DEFINE occ == Occurrences(v)
  <2>2. /\ iv'[a].virt = v
        /\ iv'[a].start = IF vregs[v].param THEN 0 ELSE IF occ = {} THEN -1 ELSE Min(occ)
        /\ iv'[a].end = IF occ = {} THEN -1 ELSE Max(occ)
    BY <2>1 DEF LiveInterval
  <2>3. occ \subseteq 0 .. CodeLength
    BY <1>1, OccurrencesInCode
  <2>4. occ # {} => /\ Min(occ) \in occ /\ Max(occ) \in occ
                    /\ \A x \in occ : Min(occ) <= x /\ x <= Max(occ)
    BY <1>1, <2>3, MinMaxIn
  <2> HIDE DEF occ
  <2>5. \A x \in occ : iv'[a].start <= x /\ x <= iv'[a].end
    <3> SUFFICES ASSUME NEW x \in occ PROVE iv'[a].start <= x /\ x <= iv'[a].end
      OBVIOUS
    <3>1. occ # {} /\ x \in Nat /\ Min(occ) <= x /\ x <= Max(occ)
      BY <2>3, <2>4
    <3>2. iv'[a].end = Max(occ)
      BY <2>2, <3>1
    <3>3. iv'[a].start = Min(occ) \/ iv'[a].start = 0
      BY <2>2, <3>1
    <3> QED
      BY <3>1, <3>2, <3>3
  <2>6. iv'[a].end = -1 \/ iv'[a].end \in occ
    BY <2>2, <2>4
  <2>7. vregs'[v].param \/ occ = {} \/ iv'[a].start \in occ
    BY <1>4, <2>2, <2>4
  <2> QED
    BY <2>2, <2>5, <2>6, <2>7 DEF occ
<1> QED
  BY <1>2, <1>7, <1>8, <1>10, <1>11, <1>12 DEF RunInv

(* What a step that leaves code and intervals alone keeps.                 *)
LEMMA IntervalsKeep ==
  ASSUME iv' = iv, bbs' = bbs, Len(vregs') = Len(vregs),
         \A v \in 1 .. Len(vregs) : vregs'[v].param = vregs[v].param,
         \A a \in 1 .. N : iv[a].virt \in 1 .. Len(vregs),
         Covers, Distinct
  PROVE  Covers' /\ Distinct'
<1>1. N' = N
  BY DEF N
<1>2. Distinct'
  BY <1>1 DEF Distinct
<1>3. \A v : Occurrences(v)' = Occurrences(v)
  BY SameCode
<1>4. Covers'
  BY <1>1, <1>3 DEF Covers
<1> QED
  BY <1>2, <1>4

(* What such a step keeps of RunInv.                                       *)
LEMMA SameVars ==
  ASSUME prog' = prog, bbs' = bbs, vregs' = vregs, RunInv
  PROVE  /\ prog' \in Programs /\ Code(prog', bbs', vregs') /\ SameRun'
         /\ phase # "check" => ParamsSpilled'
<1>1. Run(prog.path, bbs', Homes(vregs')) = RunOriginal
  <2>1. Run(prog.path, bbs, Homes(vregs)) = RunOriginal
    BY DEF RunInv, SameRun
  <2> QED
    BY <2>1
<1>2. SameRun'
  BY <1>1, RunAgain
<1>3. phase # "check" => ParamsSpilled'
  BY DEF RunInv, ParamsSpilled
<1> QED
  BY <1>2, <1>3 DEF RunInv

(* The end of the scan changes neither code nor intervals.                 *)
LEMMA ScanEndRunInv ==
  ASSUME RunInv, ScanEnd
  PROVE  RunInv'
<1>1. /\ UNCHANGED scanVars /\ prog' = prog /\ vregs' = vregs /\ bbs' = bbs /\ cur' = cur
      /\ phase = "scan" /\ phase' = "spill"
  BY DEF ScanEnd
<1>2. iv' = iv /\ state' = state /\ N' = N
  BY <1>1 DEF scanVars, N
<1>3. /\ prog' \in Programs /\ Code(prog', bbs', vregs') /\ SameRun' /\ ParamsSpilled'
  BY <1>1, SameVars
<1>4. ScanKnows'
  BY <1>1, <1>2 DEF RunInv, ScanKnows, Free
<1>5. Distinct'
  BY <1>1, <1>2 DEF RunInv, Distinct
<1>6. \A v : Occurrences(v)' = Occurrences(v)
  BY <1>1, SameCode
<1>7. Covers'
  BY <1>1, <1>2, <1>6 DEF RunInv, Covers
<1> QED
  BY <1>1, <1>3, <1>4, <1>5, <1>7 DEF RunInv

(* spill_vregs sets flags only, and of registers of the program only.      *)
LEMMA SpillRunInv ==
  ASSUME RaInv, RunInv, SpillVregs
  PROVE  RunInv'
<1> DEFINE n == Len(vregs)
           n0 == Len(prog.vregs)
           S == {v \in 1 .. n : \E a \in 1 .. N : iv[a].virt = v /\ state[a] = "LI_SPILL"}
<1>1. /\ RaTypeOK /\ n \in Nat /\ DOMAIN vregs = 1 .. n /\ n0 \in Nat
  BY BlocksAre DEF RaInv, RunInv, Code
<1>2. /\ phase = "spill" /\ phase' = "insert" /\ prog' = prog /\ bbs' = bbs /\ cur' = cur
      /\ iv' = iv /\ N' = N /\ Fits
  BY DEF SpillVregs, scanVars, RaInv, N
<1>3. \A v \in S : v <= n0
  BY <1>2 DEF RunInv, ScanKnows
<1>4. /\ Len(vregs') = n
      /\ \A v \in 1 .. n :
           vregs'[v] = IF v \in S THEN [vregs[v] EXCEPT !.flag = @ \cup {"VRF_SPILLED"}] ELSE vregs[v]
  <2>1. vregs' = [v \in DOMAIN vregs |->
                    IF v \in S THEN [vregs[v] EXCEPT !.flag = @ \cup {"VRF_SPILLED"}]
                    ELSE vregs[v]]
    BY <1>1 DEF SpillVregs
  <2> HIDE DEF S
  <2>2. Len(vregs') = n
    BY <1>1, <2>1, FlagsAdded
  <2> QED
    BY <1>1, <2>1, <2>2
<1> HIDE DEF S
<1>5. \A v \in 1 .. n :
        /\ vregs'[v].param = vregs[v].param
        /\ "VRF_CONST" \in vregs'[v].flag <=> "VRF_CONST" \in vregs[v].flag
        /\ "VRF_NO_SPILL" \in vregs'[v].flag <=> "VRF_NO_SPILL" \in vregs[v].flag
        /\ "VRF_SPILLED" \in vregs[v].flag => "VRF_SPILLED" \in vregs'[v].flag
  <2> SUFFICES ASSUME NEW v \in 1 .. n
               PROVE  /\ vregs'[v].param = vregs[v].param
                      /\ "VRF_CONST" \in vregs'[v].flag <=> "VRF_CONST" \in vregs[v].flag
                      /\ "VRF_NO_SPILL" \in vregs'[v].flag <=> "VRF_NO_SPILL" \in vregs[v].flag
                      /\ "VRF_SPILLED" \in vregs[v].flag => "VRF_SPILLED" \in vregs'[v].flag
    OBVIOUS
  <2>1. vregs[v] \in VRegs
    BY <1>1, BlocksAre
  <2>2. CASE v \in S
    <3>1. vregs'[v] = [vregs[v] EXCEPT !.flag = @ \cup {"VRF_SPILLED"}]
      BY <1>4, <2>2
    <3>2. vregs'[v].param = vregs[v].param /\ vregs'[v].flag = vregs[v].flag \cup {"VRF_SPILLED"}
      BY <2>1, <3>1 DEF VRegs
    <3> QED
      BY <3>2
  <2>3. CASE v \notin S
    <3>1. vregs'[v] = vregs[v]
      BY <1>4, <2>3
    <3> QED
      BY <3>1
  <2> QED
    BY <2>2, <2>3
<1>6. FlagsOnly(vregs', vregs, n0)
  <2>1. \A v \in n0 + 1 .. n : v \in 1 .. n /\ v \notin S
    BY <1>1, <1>3
  <2>2. \A v \in n0 + 1 .. n : vregs'[v] = vregs[v]
    BY <1>4, <2>1
  <2> QED
    BY <1>1, <1>4, <1>5, <2>2 DEF FlagsOnly
<1>7. Code(prog', bbs', vregs') /\ SameRun' /\ prog' \in Programs
  BY <1>2, <1>6, FlagsKeepRun
<1>8. ParamsSpilled'
  BY <1>2, <1>4, <1>5 DEF RunInv, ParamsSpilled
<1>9. Covers' /\ Distinct'
  <2>1. \A a \in 1 .. N : iv[a].virt \in 1 .. Len(vregs)
    BY <1>2 DEF Fits
  <2>2. Covers /\ Distinct
    BY <1>2 DEF RunInv
  <2> QED
    BY <1>2, <1>4, <1>5, <2>1, <2>2, IntervalsKeep
<1> QED
  BY <1>2, <1>7, <1>8, <1>9 DEF RunInv

(* The insertion goes on to the next block.                                *)
LEMMA InsertNextBlockRunInv ==
  ASSUME RunInv, InsertNextBlock
  PROVE  RunInv'
<1>1. /\ UNCHANGED scanVars /\ prog' = prog /\ vregs' = vregs /\ bbs' = bbs
      /\ cur' = [cur EXCEPT !.b = @ + 1, !.j = 1] /\ phase = "insert" /\ phase' = "insert"
  BY DEF InsertNextBlock
<1>2. cur'.inserted = cur.inserted
  BY <1>1
<1>3. /\ prog' \in Programs /\ Code(prog', bbs', vregs') /\ SameRun' /\ ParamsSpilled'
  BY <1>1, SameVars
<1>4. iv' = iv /\ N' = N
  BY <1>1 DEF scanVars, N
<1>5. \A v : Occurrences(v)' = Occurrences(v)
  BY <1>1, SameCode
<1>6. ~ cur.inserted => Covers' /\ Distinct'
  BY <1>1, <1>4, <1>5 DEF RunInv, Covers, Distinct
<1> QED
  BY <1>1, <1>2, <1>3, <1>6 DEF RunInv

(* The end of the insertion: without a load or a store in this round, the  *)
(* intervals are still those of the code.                                  *)
LEMMA InsertEndRunInv ==
  ASSUME RunInv, InsertEnd
  PROVE  RunInv'
<1>1. /\ UNCHANGED scanVars /\ prog' = prog /\ vregs' = vregs /\ bbs' = bbs
      /\ phase' = IF cur.inserted THEN "check" ELSE "done"
      /\ phase = "insert"
  BY DEF InsertEnd
<1>2. /\ prog' \in Programs /\ Code(prog', bbs', vregs') /\ SameRun' /\ ParamsSpilled'
  BY <1>1, SameVars
<1>3. iv' = iv /\ N' = N
  BY <1>1 DEF scanVars, N
<1>4. \A v : Occurrences(v)' = Occurrences(v)
  BY <1>1, SameCode
<1>5. ~ cur.inserted => Covers' /\ Distinct'
  BY <1>1, <1>3, <1>4 DEF RunInv, Covers, Distinct
<1> QED
  BY <1>1, <1>2, <1>5 DEF RunInv

(* A step that changes nothing.                                            *)
LEMMA StutterRunInv ==
  ASSUME RunInv, UNCHANGED vars
  PROVE  RunInv'
<1>1. /\ UNCHANGED scanVars /\ prog' = prog /\ vregs' = vregs /\ bbs' = bbs /\ phase' = phase
      /\ cur' = cur
  BY DEF vars, raVars
<1>2. /\ prog' \in Programs /\ Code(prog', bbs', vregs') /\ SameRun'
      /\ phase # "check" => ParamsSpilled'
  BY <1>1, SameVars
<1>3. iv' = iv /\ N' = N /\ state' = state
  BY <1>1 DEF scanVars, N
<1>4. \A v : Occurrences(v)' = Occurrences(v)
  BY <1>1, SameCode
<1>5. Covers /\ Distinct => Covers' /\ Distinct'
  BY <1>1, <1>3, <1>4 DEF Covers, Distinct
<1>6. ScanKnows => ScanKnows'
  BY <1>1, <1>3 DEF ScanKnows, Free
<1> QED
  BY <1>1, <1>2, <1>5, <1>6 DEF RunInv

(* Only the code of one block changes.                                     *)
OneBlock(bs2, bs, b, irs2) ==
  /\ Len(bs2) = Len(bs)
  /\ \A c \in 1 .. Len(bs) :
       /\ bs2[c].in_regs = bs[c].in_regs /\ bs2[c].out_regs = bs[c].out_regs
       /\ bs2[c].irs = IF c = b THEN irs2 ELSE bs[c].irs

(* The work w on one instruction is done.                                  *)
Reworked(bs2, w, bs, vs, b, j) ==
  /\ b \in 1 .. Len(bs) /\ j \in 1 .. Len(bs[b].irs)
  /\ Proper(bs[b].irs[j]) /\ Worked(w, bs[b].irs[j], vs)
  /\ OneBlock(bs2, bs, b, SubSeq(bs[b].irs, 1, j - 1) \o NewCode(w)
                            \o SubSeq(bs[b].irs, j + 1, Len(bs[b].irs)))

(* The code of a block with loads and stores for one instruction.          *)
LEMMA StepRewrites ==
  ASSUME NEW bs, NEW vs, Typed(bs, vs), NEW b, NEW j, NEW w, NEW bs2,
         Reworked(bs2, w, bs, vs, b, j)
  PROVE  Rewritten(bs2, w.vregs, bs, vs, b, j, Len(w.before) + 1, NewCode(w))
<1> DEFINE n == Len(vs)
           irs == bs[b].irs
           ir == irs[j]
           new == NewCode(w)
           a == Len(w.before) + 1
           irs2 == SubSeq(irs, 1, j - 1) \o new \o SubSeq(irs, j + 1, Len(irs))
<1>0. /\ b \in 1 .. Len(bs) /\ j \in 1 .. Len(irs) /\ Proper(ir) /\ Worked(w, ir, vs)
      /\ OneBlock(bs2, bs, b, irs2)
  BY DEF Reworked
<1> HIDE DEF irs2
<1>1. /\ n \in Nat /\ irs \in Seq(Instructions(n)) /\ Len(irs) \in Nat /\ ir \in Instructions(n)
  <2>1. n \in Nat /\ irs \in Seq(Instructions(n)) /\ Len(irs) \in Nat
    BY <1>0, TypedIs
  <2> QED
    BY <1>0, <2>1
<1>2. PICK m \in Nat : m >= n /\ IsWork(w, m) /\ Wraps(w, ir, vs)
  BY <1>0 DEF Worked
<1>3. Len(w.vregs) = m
  BY <1>2 DEF IsWork, Works
<1>4. VRegsGrown(w.vregs, vs)
  BY <1>1, <1>2, <1>3 DEF VRegsGrown, Wraps, WrapRegs
<1>5. NewFacts(new, a, ir, vs, w.vregs)
  BY <1>0, <1>1, NewFactsHold
<1>6. /\ new \in Seq(Instructions(m)) /\ irs \in Seq(Instructions(m))
  BY <1>1, <1>2, NewIs, MoreRegisters
<1> HIDE DEF irs, new, ir, a, n
<1>7. j \in 1 .. Len(irs)
  BY <1>0
<1>8. irs2 = SubSeq(irs, 1, j - 1) \o new \o SubSeq(irs, j + 1, Len(irs))
  BY DEF irs2
<1>9. Spliced(irs2, irs, j, new)
  BY <1>6, <1>7, <1>8, SpliceIs
<1>10. Len(new) \in Nat /\ a \in 1 .. Len(new)
  BY <1>5 DEF NewFacts, NewAnchor
<1>11. /\ Goes(irs2, irs, j, a, new) /\ Comes(irs2, irs, j, a, new)
       /\ Between(irs2, irs, j, a, new)
  BY <1>1, <1>7, <1>9, <1>10, SplicedPlaces
<1>12. irs2 \in Seq(Instructions(m))
  <2> DEFINE x == SubSeq(irs, 1, j - 1)
             z == SubSeq(irs, j + 1, Len(irs))
             I == Instructions(m)
  <2>1. x \in Seq(I) /\ z \in Seq(I) /\ new \in Seq(I)
    BY <1>1, <1>6, <1>7
  <2> HIDE DEF x, z, I
  <2>2. x \o new \in Seq(I)
    BY <2>1, ConcatProperties
  <2>3. x \o new \o z \in Seq(I)
    BY <2>1, <2>2, ConcatProperties
  <2> QED
    BY <1>8, <2>3 DEF x, z, I
<1>13. DOMAIN irs2 = 1 .. Len(irs2) /\ Len(irs2) \in Nat
  BY <1>12, LenProperties
<1>14. Replaces(irs2, w.vregs, irs, vs, j, a, new)
  BY <1>0, <1>1, <1>4, <1>5, <1>7, <1>11, <1>13 DEF Replaces, n, ir, irs
<1>15. bs2[b].irs = irs2
  BY <1>0 DEF OneBlock
<1> QED
  BY <1>0, <1>14, <1>15 DEF Rewritten, OneBlock, irs, a, new

(* One instruction gets its loads and stores, or nothing happens.          *)
LEMMA InsertStepIs ==
  ASSUME RaInv, InsertStep, NEW irs, irs = bbs[cur.b].irs, NEW w, w = InsertAround(irs[cur.j], vregs)
  PROVE  /\ Typed(bbs, vregs) /\ cur.b \in 1 .. Len(bbs) /\ cur.j \in 1 .. Len(irs)
         /\ prog' = prog /\ iv' = iv /\ N' = N /\ phase = "insert" /\ phase' = "insert"
         /\ vregs' = w.vregs
         /\ cur'.inserted = (cur.inserted \/ w.inserted)
         /\ Len(bbs') = Len(bbs)
         /\ \A c \in 1 .. Len(bbs) :
              /\ bbs'[c].in_regs = bbs[c].in_regs /\ bbs'[c].out_regs = bbs[c].out_regs
              /\ bbs'[c].irs = IF c = cur.b
                               THEN SubSeq(irs, 1, cur.j - 1) \o NewCode(w)
                                      \o SubSeq(irs, cur.j + 1, Len(irs))
                               ELSE bbs[c].irs
         /\ w = Untouched(irs[cur.j], vregs) => vregs' = vregs /\ bbs' = bbs
<1> DEFINE n == Len(vregs)
           new == NewCode(w)
           irs2 == SubSeq(irs, 1, cur.j - 1) \o new \o SubSeq(irs, cur.j + 1, Len(irs))
<1>1. /\ UNCHANGED scanVars /\ phase = "insert" /\ phase' = "insert" /\ prog' = prog
      /\ cur.b <= Len(bbs) /\ cur.j <= Len(irs)
      /\ bbs' = [bbs EXCEPT ![cur.b].irs = irs2]
      /\ vregs' = w.vregs
      /\ cur' = [cur EXCEPT !.j = @ + Len(new), !.inserted = @ \/ w.inserted]
  BY Zenon DEF InsertStep, NewCode
<1>2. RaTypeOK /\ cur \in [b : Nat, j : Nat, inserted : BOOLEAN] /\ cur.b > 0 /\ cur.j > 0
  BY DEF RaInv, RaTypeOK
<1>3. cur.b \in Nat /\ cur.j \in Nat /\ cur.inserted \in BOOLEAN
  BY <1>2
<1>4. Typed(bbs, vregs)
  BY <1>2 DEF RaTypeOK, Typed
<1>5. /\ Len(bbs) \in Nat /\ DOMAIN bbs = 1 .. Len(bbs)
      /\ \A b \in 1 .. Len(bbs) : /\ bbs[b] \in Blocks(n)
                                  /\ bbs[b].irs \in Seq(Instructions(n))
                                  /\ Len(bbs[b].irs) \in Nat
  BY <1>4, TypedIs
<1>6. cur.b \in 1 .. Len(bbs)
  BY <1>1, <1>2, <1>3, <1>5
<1>7. cur.j \in 1 .. Len(irs)
  <2>1. Len(irs) \in Nat
    BY <1>5, <1>6
  <2>2. cur.j <= Len(irs) /\ cur.j > 0
    BY ONLY <1>1, <1>2
  <2> QED
    BY ONLY <1>3, <2>1, <2>2
<1>8. iv' = iv /\ N' = N
  BY <1>1 DEF scanVars, N
<1>9. cur'.inserted = (cur.inserted \/ w.inserted)
  <2> DEFINE x == cur.j + Len(new)
             y == cur.inserted \/ w.inserted
  <2>1. cur' = [cur EXCEPT !.j = x, !.inserted = y]
    BY <1>1
  <2> HIDE DEF x, y
  <2>2. cur'.inserted = y
    BY ONLY <1>2, <2>1
  <2> QED
    BY ONLY <2>2 DEF y
<1> HIDE DEF irs2, n
<1>10. /\ Len(bbs') = Len(bbs)
       /\ \A c \in 1 .. Len(bbs) : bbs'[c] = IF c = cur.b THEN [bbs[c] EXCEPT !.irs = irs2] ELSE bbs[c]
  BY <1>1, <1>5, <1>6
<1>11. ASSUME NEW c \in 1 .. Len(bbs)
       PROVE  /\ bbs'[c].in_regs = bbs[c].in_regs /\ bbs'[c].out_regs = bbs[c].out_regs
              /\ bbs'[c].irs = IF c = cur.b THEN irs2 ELSE bbs[c].irs
  BY <1>5, <1>10 DEF Blocks
<1>12. ASSUME w = Untouched(irs[cur.j], vregs) PROVE vregs' = vregs /\ bbs' = bbs
  <2>1. w.vregs = vregs /\ w.before = <<>> /\ w.after = <<>> /\ w.ir = irs[cur.j]
    BY <1>12 DEF Untouched
  <2>2. new = <<>> \o <<irs[cur.j]>> \o <<>>
    BY <2>1 DEF NewCode
  <2>3. irs \in Seq(Instructions(n))
    BY <1>5, <1>6
  <2>4. irs2 = irs
    <3> HIDE DEF new
    <3> QED
      BY <1>7, <2>2, <2>3, PutBack DEF irs2
  <2>5. bbs' = bbs
    <3>1. bbs' = [bbs EXCEPT ![cur.b].irs = irs]
      BY <1>1, <2>4
    <3>2. bbs[cur.b] = [bbs[cur.b] EXCEPT !.irs = irs]
      BY <1>5, <1>6 DEF Blocks
    <3>3. bbs = [b \in 1 .. Len(bbs) |-> bbs[b]]
      BY <1>2 DEF RaTypeOK
    <3> QED
      BY <3>1, <3>2, <3>3
  <2> QED
    BY <1>1, <2>1, <2>5
<1>13. \A c \in 1 .. Len(bbs) :
         /\ bbs'[c].in_regs = bbs[c].in_regs /\ bbs'[c].out_regs = bbs[c].out_regs
         /\ bbs'[c].irs = IF c = cur.b
                          THEN SubSeq(irs, 1, cur.j - 1) \o NewCode(w)
                                 \o SubSeq(irs, cur.j + 1, Len(irs))
                          ELSE bbs[c].irs
  BY ONLY <1>11 DEF irs2, new
<1>14. /\ prog' = prog /\ phase = "insert" /\ phase' = "insert" /\ vregs' = w.vregs
       /\ Len(bbs') = Len(bbs)
  BY ONLY <1>1, <1>10
<1> QED
  BY ONLY <1>4, <1>6, <1>7, <1>8, <1>9, <1>12, <1>13, <1>14, Zenon

(* The code with the loads and stores of one instruction does from the     *)
(* frame what the code without them did.                                   *)
LEMMA StepRunsAlike ==
  ASSUME NEW bs, NEW vs, Typed(bs, vs), NEW b, NEW j, NEW w, NEW bs2,
         Reworked(bs2, w, bs, vs, b, j), NEW path \in Seq(1 .. Len(bs))
  PROVE  Run(path, bs2, Homes(w.vregs)) = Run(path, bs, Homes(vs))
<1> DEFINE n == Len(vs)
           H == Homes(vs)
           G == Homes(w.vregs)
           irs == bs[b].irs
           irs2 == SubSeq(irs, 1, j - 1) \o NewCode(w) \o SubSeq(irs, j + 1, Len(irs))
<1>0. /\ b \in 1 .. Len(bs) /\ j \in 1 .. Len(irs) /\ Proper(irs[j]) /\ Worked(w, irs[j], vs)
      /\ OneBlock(bs2, bs, b, irs2)
  BY DEF Reworked
<1> HIDE DEF irs, irs2
<1>1. n \in Nat /\ \A c \in 1 .. Len(bs) : bs[c].irs \in Seq(Instructions(n))
  BY TypedIs
<1>2. PICK m \in Nat : m >= n /\ IsWork(w, m) /\ Wraps(w, irs[j], vs)
  BY <1>0 DEF Worked
<1>3. Len(w.vregs) = m
  BY <1>2 DEF IsWork, Works
<1>4. SameConsts(n, vs, w.vregs)
  BY <1>2 DEF Wraps, WrapRegs, SameConsts
<1>5. AtHome(n, H) /\ \A v \in 0 .. n : G[v] = H[v]
  BY <1>1, <1>2, <1>3, <1>4, HomesSame
<1> HIDE DEF n, H, G
<1>6. ASSUME NEW c \in 1 .. Len(bs), NEW s, NEW t, Alike(n, s, t)
      PROVE  Alike(n, RunBlock(bs[c].irs, s, H), RunBlock(bs2[c].irs, t, G))
  <2>1. CASE c = b
    <3>1. irs \in Seq(Instructions(n))
      BY <1>0, <1>1 DEF irs
    <3>2. bs2[c].irs = irs2
      BY <1>0, <2>1 DEF OneBlock
    <3>3. irs2 = SubSeq(irs, 1, j - 1) \o NewCode(w) \o SubSeq(irs, j + 1, Len(irs))
      BY DEF irs2
    <3>4. Alike(n, RunBlock(irs, s, Homes(vs)), RunBlock(irs2, t, Homes(w.vregs)))
      BY <1>0, <1>1, <1>6, <3>1, <3>3, ReplacedBlock DEF n
    <3> QED
      BY <2>1, <3>2, <3>4 DEF irs, H, G
  <2>2. CASE c # b
    <3>1. bs2[c].irs = bs[c].irs
      BY <1>0, <2>2 DEF OneBlock
    <3> QED
      BY <1>1, <1>5, <1>6, <3>1, AlikeBlock
  <2> QED
    BY <2>1, <2>2
<1>7. Run(path, bs, H) = Run(path, bs2, G)
  <2> DEFINE S == 1 .. Len(bs)
  <2>1. AlikeCode(n, S, bs, H, bs2, G)
    BY <1>6 DEF AlikeCode
  <2>2. path \in Seq(S)
    OBVIOUS
  <2> HIDE DEF S
  <2> QED
    BY <1>1, <2>1, <2>2, SameAlong
<1> QED
  BY <1>7 DEF H, G

(* A step of insert_load_store_instructions keeps RunInv.                  *)
LEMMA InsertStepRunInv ==
  ASSUME RaInv, RunInv, InsertStep
  PROVE  RunInv'
<1> DEFINE irs == bbs[cur.b].irs
           ir == irs[cur.j]
           w == InsertAround(ir, vregs)
<1>1. /\ Typed(bbs, vregs) /\ cur.b \in 1 .. Len(bbs) /\ cur.j \in 1 .. Len(irs)
      /\ prog' = prog /\ iv' = iv /\ N' = N /\ phase = "insert" /\ phase' = "insert"
      /\ vregs' = w.vregs
      /\ cur'.inserted = (cur.inserted \/ w.inserted)
      /\ Len(bbs') = Len(bbs)
      /\ \A c \in 1 .. Len(bbs) :
           /\ bbs'[c].in_regs = bbs[c].in_regs /\ bbs'[c].out_regs = bbs[c].out_regs
           /\ bbs'[c].irs = IF c = cur.b
                            THEN SubSeq(irs, 1, cur.j - 1) \o NewCode(w)
                                   \o SubSeq(irs, cur.j + 1, Len(irs))
                            ELSE bbs[c].irs
      /\ w = Untouched(ir, vregs) => vregs' = vregs /\ bbs' = bbs
  <2> DEFINE x == w
  <2> HIDE DEF x
  <2>1. x = InsertAround(irs[cur.j], vregs)
    BY DEF x
  <2> QED
    BY <2>1, InsertStepIs DEF x
<1>2. ir \in Instructions(Len(vregs)) /\ vregs \in Seq(VRegs) /\ Len(vregs) \in Nat
  BY <1>1, TypedIs DEF Typed
<1>3. /\ Worked(w, ir, vregs)
      /\ ~ Proper(ir) => w = Untouched(ir, vregs)
  BY <1>2, InsertAroundWraps
<1>4. ~ w.inserted => w = Untouched(ir, vregs)
  BY <1>2, InsertAroundIs DEF RaInv
<1>5. ~ cur'.inserted => ~ cur.inserted /\ ~ w.inserted
  BY <1>1
<1> HIDE DEF w
<1>6. CASE w = Untouched(ir, vregs)
  <2>1. bbs' = bbs /\ vregs' = vregs
    BY <1>1, <1>6
  <2>2. /\ prog' \in Programs /\ Code(prog', bbs', vregs') /\ SameRun' /\ ParamsSpilled'
    BY <1>1, <2>1, SameVars
  <2>3. \A v : Occurrences(v)' = Occurrences(v)
    BY <2>1, SameCode
  <2>4. ~ cur'.inserted => Covers' /\ Distinct'
    BY <1>1, <1>5, <2>1, <2>3 DEF RunInv, Covers, Distinct
  <2> QED
    BY <1>1, <2>2, <2>4 DEF RunInv
<1>7. CASE w # Untouched(ir, vregs)
  <2> DEFINE irs2 == SubSeq(irs, 1, cur.j - 1) \o NewCode(w) \o SubSeq(irs, cur.j + 1, Len(irs))
             new == NewCode(w)
             a == Len(w.before) + 1
  <2>1. Proper(ir) /\ cur'.inserted
    BY <1>3, <1>4, <1>5, <1>7
  <2>2. \A c \in 1 .. Len(bbs) :
           /\ bbs'[c].in_regs = bbs[c].in_regs /\ bbs'[c].out_regs = bbs[c].out_regs
           /\ bbs'[c].irs = IF c = cur.b THEN irs2 ELSE bbs[c].irs
    BY <1>1
  <2>10. Reworked(bbs', w, bbs, vregs, cur.b, cur.j)
    <3>1. OneBlock(bbs', bbs, cur.b, irs2)
      BY <1>1, <2>2 DEF OneBlock
    <3> QED
      BY <1>1, <1>3, <2>1, <3>1 DEF Reworked
  <2> HIDE DEF new, a
  <2>3. Rewritten(bbs', w.vregs, bbs, vregs, cur.b, cur.j, a, new)
    <3> DEFINE bs2 == bbs'
    <3>1. Reworked(bs2, w, bbs, vregs, cur.b, cur.j)
      BY <2>10
    <3> HIDE DEF bs2
    <3>2. Rewritten(bs2, w.vregs, bbs, vregs, cur.b, cur.j, Len(w.before) + 1, NewCode(w))
      BY <1>1, <3>1, StepRewrites
    <3> QED
      BY <3>2 DEF bs2, a, new
  <2>4. Code(prog, bbs', vregs')
    <3>1. Code(prog, bbs, vregs)
      BY DEF RunInv
    <3> DEFINE bs2 == bbs'
               vs2 == vregs'
    <3>2. Rewritten(bs2, vs2, bbs, vregs, cur.b, cur.j, a, new)
      BY <1>1, <2>3
    <3> HIDE DEF bs2, vs2
    <3>3. Code(prog, bs2, vs2)
      BY <1>1, <3>1, <3>2, CodeKept
    <3> QED
      BY <3>3 DEF bs2, vs2
  <2>5. ParamsSpilled'
    <3>1. VRegsGrown(vregs', vregs)
      BY <1>1, <2>3 DEF Rewritten, Replaces
    <3>2. \A v \in 1 .. Len(vregs') : v \in 1 .. Len(vregs) \/ v \in Len(vregs) + 1 .. Len(vregs')
      BY <3>1, GrownIs
    <3>3. ParamsSpilled
      BY <1>1 DEF RunInv
    <3> QED
      BY <3>1, <3>2, <3>3 DEF ParamsSpilled, VRegsGrown
  <2>6. prog.path \in Seq(1 .. Len(bbs))
    <3>1. IsProgram(prog)
      BY ProgramsAssumption DEF RunInv
    <3>2. DOMAIN prog.bbs = 1 .. Len(prog.bbs) /\ prog.path \in Seq(DOMAIN prog.bbs)
      <4>1. prog.bbs \in Seq(Blocks(Len(prog.vregs))) /\ prog.path \in Seq(DOMAIN prog.bbs)
        BY <3>1 DEF IsProgram, IsPath
      <4> QED
        BY <4>1, LenProperties
    <3>3. Len(bbs) = Len(prog.bbs)
      BY DEF RunInv, Code, BlocksKept
    <3> QED
      BY <3>2, <3>3
  <2>7. Run(prog.path, bbs', Homes(vregs')) = Run(prog.path, bbs, Homes(vregs))
    <3> DEFINE bs2 == bbs'
    <3>1. Reworked(bs2, w, bbs, vregs, cur.b, cur.j)
      BY <2>10
    <3> HIDE DEF bs2
    <3>2. Run(prog.path, bs2, Homes(w.vregs)) = Run(prog.path, bbs, Homes(vregs))
      BY <1>1, <2>6, <3>1, StepRunsAlike
    <3> QED
      BY <1>1, <3>2 DEF bs2
  <2>8. SameRun'
    <3>1. Run(prog.path, bbs', Homes(vregs')) = RunOriginal
      <4>1. Run(prog.path, bbs, Homes(vregs)) = RunOriginal
        BY DEF RunInv, SameRun
      <4> QED
        BY <2>7, <4>1
    <3> QED
      BY <1>1, <3>1, RunAgain
  <2>9. prog' \in Programs /\ Code(prog', bbs', vregs')
    BY <1>1, <2>4 DEF RunInv
  <2> QED
    BY <1>1, <2>1, <2>5, <2>8, <2>9 DEF RunInv
<1> QED
  BY <1>6, <1>7
----------------------------------------------------------------------------
(***************************************************************************)
(* Places in the code, and the registers made for loads and stores.        *)
(***************************************************************************)
LEMMA CodeMonotone ==
  ASSUME RaTypeOK, NEW c \in 0 .. Len(bbs), NEW b \in 0 .. c
  PROVE  CodeBefore[b] \in Nat /\ CodeBefore[c] \in Nat /\ CodeBefore[b] <= CodeBefore[c]
<1> DEFINE n == Len(bbs)
           T == {d \in 0 .. n : \A e \in 0 .. d : CodeBefore[e] <= CodeBefore[d]}
<1>1. n \in Nat /\ \A d \in 1 .. n : Len(bbs[d].irs) \in Nat
  BY BlocksAre
<1>2. \A d \in 0 .. n : CodeBefore[d] \in Nat
  BY CodeBeforeIs
<1>3. \A d \in 1 .. n : CodeBefore[d] = CodeBefore[d - 1] + Len(bbs[d].irs)
  BY CodeBeforeIs
<1> HIDE DEF n
<1>4. 0 \in T
  BY <1>1, <1>2
<1>5. ASSUME NEW d \in 1 .. n, d - 1 \in T PROVE d \in T
  <2>1. d \in 0 .. n /\ d - 1 \in 0 .. n
    BY <1>1
  <2>2. CodeBefore[d - 1] <= CodeBefore[d]
    <3>1. CodeBefore[d] = CodeBefore[d - 1] + Len(bbs[d].irs) /\ Len(bbs[d].irs) \in Nat
      BY <1>1, <1>3
    <3>2. CodeBefore[d - 1] \in Nat
      BY <1>2, <2>1
    <3> QED
      BY ONLY <3>1, <3>2
  <2>3. ASSUME NEW e \in 0 .. d PROVE CodeBefore[e] <= CodeBefore[d]
    <3>1. CASE e = d
      BY <1>2, <2>1, <3>1
    <3>2. CASE e # d
      <4>1. e \in 0 .. d - 1 /\ e \in 0 .. n
        BY <1>1, <3>2
      <4>2. CodeBefore[e] <= CodeBefore[d - 1]
        BY <1>5, <4>1
      <4> QED
        BY <1>2, <2>1, <2>2, <4>1, <4>2
    <3> QED
      BY <3>1, <3>2
  <2> QED
    BY <2>1, <2>3
<1> HIDE DEF T
<1>6. 0 .. n \subseteq T
  BY <1>1, <1>4, <1>5, UpTo
<1> QED
  <2>1. c \in T /\ b \in 0 .. n
    BY <1>1, <1>6 DEF n
  <2> QED
    BY <1>2, <2>1 DEF T

(* The numbers of the instructions: the blocks follow each other.          *)
LEMMA BlockStartIs ==
  ASSUME RaTypeOK, NEW b \in 1 .. Len(bbs)
  PROVE  /\ BlockStart(b) = CodeBefore[b - 1] /\ BlockStart(b) \in Nat
         /\ BlockStart(b + 1) = CodeBefore[b] /\ BlockStart(b + 1) \in Nat
         /\ BlockStart(b + 1) = BlockStart(b) + Len(bbs[b].irs) /\ Len(bbs[b].irs) \in Nat
         /\ \A c \in 1 .. Len(bbs) : /\ c < b => BlockStart(c + 1) <= BlockStart(b)
                                     /\ b < c => BlockStart(b + 1) <= BlockStart(c)
<1>1. Len(bbs) \in Nat /\ Len(bbs[b].irs) \in Nat
  BY BlocksAre
<1>2. b - 1 \in 0 .. Len(bbs) /\ b \in 0 .. Len(bbs) /\ b + 1 - 1 = b
  BY <1>1
<1>3. BlockStart(b) = CodeBefore[b - 1] /\ BlockStart(b + 1) = CodeBefore[b]
  BY <1>2 DEF BlockStart
<1>4. CodeBefore[b - 1] \in Nat /\ CodeBefore[b] \in Nat
  BY <1>2, CodeBeforeIs
<1>5. CodeBefore[b] = CodeBefore[b - 1] + Len(bbs[b].irs)
  BY CodeBeforeIs
<1>6. ASSUME NEW c \in 1 .. Len(bbs)
      PROVE  /\ c < b => BlockStart(c + 1) <= BlockStart(b)
             /\ b < c => BlockStart(b + 1) <= BlockStart(c)
  <2>1. BlockStart(c) = CodeBefore[c - 1] /\ BlockStart(c + 1) = CodeBefore[c]
    <3>1. c + 1 - 1 = c
      OBVIOUS
    <3> QED
      BY <3>1 DEF BlockStart
  <2>2. c < b => CodeBefore[c] <= CodeBefore[b - 1]
    <3> SUFFICES ASSUME c < b PROVE CodeBefore[c] <= CodeBefore[b - 1]
      OBVIOUS
    <3>1. c \in 0 .. b - 1
      OBVIOUS
    <3> QED
      BY <1>2, <3>1, CodeMonotone
  <2>3. b < c => CodeBefore[b] <= CodeBefore[c - 1]
    <3> SUFFICES ASSUME b < c PROVE CodeBefore[b] <= CodeBefore[c - 1]
      OBVIOUS
    <3>1. b \in 0 .. c - 1 /\ c - 1 \in 0 .. Len(bbs)
      BY <1>1
    <3> QED
      BY <3>1, CodeMonotone
  <2> QED
    BY <1>3, <2>1, <2>2, <2>3
<1> QED
  BY <1>1, <1>3, <1>4, <1>5, <1>6

(* Where a register is seen.                                               *)
SeenAt(v, b, x) ==
  \/ \E j \in 1 .. Len(bbs[b].irs) : Mentions(bbs[b].irs[j], v) /\ x = BlockStart(b) + j - 1
  \/ v \in bbs[b].in_regs /\ x = BlockStart(b)
  \/ v \in bbs[b].out_regs /\ x = BlockStart(b + 1)

(* The occurrences from which the intervals are made are the places where  *)
(* a register is seen.                                                     *)
LEMMA OccurrenceIs ==
  ASSUME RaTypeOK, NEW v, NEW x
  PROVE  x \in Occurrences(v) <=> \E b \in 1 .. Len(bbs) : SeenAt(v, b, x)
<1>1. DOMAIN bbs = 1 .. Len(bbs) /\ \A b \in 1 .. Len(bbs) : DOMAIN bbs[b].irs = 1 .. Len(bbs[b].irs)
  BY BlocksAre
<1>2. \A b \in 1 .. Len(bbs) :
        x \in ({BlockStart(b) + j - 1 : j \in {k \in DOMAIN bbs[b].irs : Mentions(bbs[b].irs[k], v)}}
               \cup (IF v \in bbs[b].in_regs THEN {BlockStart(b)} ELSE {})
               \cup (IF v \in bbs[b].out_regs THEN {BlockStart(b + 1)} ELSE {}))
        <=> SeenAt(v, b, x)
  BY <1>1 DEF SeenAt
<1> QED
  BY <1>1, <1>2 DEF Occurrences

(* Inside a block, where instructions mention it.                          *)
LEMMA InsidePlace ==
  ASSUME RaTypeOK, NEW b \in 1 .. Len(bbs), NEW x \in Nat,
         BlockStart(b) < x, x < BlockStart(b + 1), NEW v, x \in Occurrences(v)
  PROVE  \E j \in 1 .. Len(bbs[b].irs) : Mentions(bbs[b].irs[j], v) /\ x = BlockStart(b) + j - 1
<1>1. PICK c \in 1 .. Len(bbs) : SeenAt(v, c, x)
  BY OccurrenceIs
<1>2. /\ BlockStart(b) \in Nat /\ BlockStart(b + 1) \in Nat
      /\ c < b => BlockStart(c + 1) <= BlockStart(b)
      /\ b < c => BlockStart(b + 1) <= BlockStart(c)
  BY BlockStartIs
<1>3. /\ BlockStart(c) \in Nat /\ BlockStart(c + 1) \in Nat /\ Len(bbs[c].irs) \in Nat
      /\ BlockStart(c + 1) = BlockStart(c) + Len(bbs[c].irs)
  BY BlockStartIs
<1>4. BlockStart(c) <= x /\ x <= BlockStart(c + 1)
  BY <1>1, <1>3 DEF SeenAt
<1>5. c = b
  BY <1>2, <1>3, <1>4, BlocksAre
<1> QED
  BY <1>1, <1>2, <1>5 DEF SeenAt

(* What is alive within the range of a register that was made for a load   *)
(* or a store is an operand of one instruction.                            *)
Operands(t, ir) ==
  \A u \in 1 .. N :
    state[u] = "LI_NORMAL" /\ iv[t].start < iv[u].end /\ iv[u].end <= iv[t].end =>
      Mentions(ir, iv[u].virt)

(* The instruction that a register was made for has all that lives to the  *)
(* end of this register's interval as operands.                            *)
LEMMA TmpRange ==
  ASSUME RaInv, RunInv, phase = "scan", NEW t \in 1 .. N, iv[t].virt > Len(prog.vregs),
         iv[t].start < iv[t].end
  PROVE  \E b \in 1 .. Len(bbs) : \E a \in 1 .. Len(bbs[b].irs) : Operands(t, bbs[b].irs[a])
<1> DEFINE v == iv[t].virt
           n0 == Len(prog.vregs)
<1>1. RaTypeOK /\ Fits /\ Covers /\ ScanKnows /\ Code(prog, bbs, vregs) /\ IInv
  BY DEF RaInv, RunInv, SInv
<1>2. /\ iv[t].start \in Int /\ iv[t].end \in Int /\ n0 \in Nat
      /\ \A u \in 1 .. N : iv[u].start \in Int /\ iv[u].end \in Int
      /\ \A u \in 1 .. N : iv[u].virt \in 1 .. Len(vregs)
  BY <1>1, EndsAreNumbers DEF Fits, Code
<1>3. v \in n0 + 1 .. Len(vregs) /\ ~ vregs[v].param
  <2>1. v \in n0 + 1 .. Len(vregs)
    BY <1>2
  <2> QED
    BY <1>1, <2>1 DEF Code, RegsKept
<1>4. /\ Occurrences(v) \subseteq Nat
      /\ iv[t].end \in Occurrences(v) /\ iv[t].start \in Occurrences(v)
  <2>1. /\ \A x \in Occurrences(v) : iv[t].start <= x /\ x <= iv[t].end
        /\ iv[t].end = -1 \/ iv[t].end \in Occurrences(v)
        /\ vregs[v].param \/ Occurrences(v) = {} \/ iv[t].start \in Occurrences(v)
    BY <1>1 DEF Covers
  <2>2. Occurrences(v) \subseteq Nat
    BY <1>1, OccurrencesInCode, CodeAscends
  <2>3. iv[t].start \in Nat
    BY DEF RaInv, StartsInCode
  <2>4. iv[t].end # -1
    BY <1>2, <2>3
  <2> QED
    BY <1>3, <2>1, <2>2, <2>4
<1>5. \A b \in 1 .. Len(bbs) : v \notin bbs[b].in_regs /\ v \notin bbs[b].out_regs
  <2>1. Typed(prog.bbs, prog.vregs)
    BY ProgramsAssumption DEF RunInv, IsProgram, Typed
  <2>2. \A b \in 1 .. Len(prog.bbs) :
          prog.bbs[b].in_regs \subseteq 1 .. n0 /\ prog.bbs[b].out_regs \subseteq 1 .. n0
    BY <2>1, TypedIs
  <2>3. v \notin 1 .. n0
    BY <1>2, <1>3
  <2> QED
    BY <1>1, <2>2, <2>3 DEF Code, BlocksKept
<1>6. PICK b \in 1 .. Len(bbs) : SeenAt(v, b, iv[t].start)
  BY <1>1, <1>4, OccurrenceIs
<1>7. PICK c \in 1 .. Len(bbs) : SeenAt(v, c, iv[t].end)
  BY <1>1, <1>4, OccurrenceIs
<1>8. PICK j \in 1 .. Len(bbs[b].irs) : Mentions(bbs[b].irs[j], v) /\ iv[t].start = BlockStart(b) + j - 1
  BY <1>5, <1>6 DEF SeenAt
<1>9. PICK k \in 1 .. Len(bbs[c].irs) : Mentions(bbs[c].irs[k], v) /\ iv[t].end = BlockStart(c) + k - 1
  BY <1>5, <1>7 DEF SeenAt
<1>10. b = c /\ (j < k => Narrow(bbs[b].irs, j, k, vregs))
  BY <1>1, <1>3, <1>8, <1>9 DEF Code, TmpsLocal
<1>11. /\ BlockStart(b) \in Nat /\ Len(bbs[b].irs) \in Nat
       /\ BlockStart(b + 1) = BlockStart(b) + Len(bbs[b].irs)
  BY <1>1, BlockStartIs
<1>12. j < k
  BY <1>8, <1>9, <1>10, <1>11
<1>13. PICK a \in j .. k : NarrowAt(bbs[b].irs, j, k, vregs, a)
  BY <1>10, <1>12 DEF Narrow
<1>14. a \in 1 .. Len(bbs[b].irs)
  BY <1>8, <1>9, <1>10, <1>11
<1>15. ASSUME NEW u \in 1 .. N, state[u] = "LI_NORMAL",
              iv[t].start < iv[u].end, iv[u].end <= iv[t].end
       PROVE  Mentions(bbs[b].irs[a], iv[u].virt)
  <2> DEFINE x == iv[u].end
             w == iv[u].virt
  <2>1. x \in Nat
    <3>1. iv[t].start \in Nat
      BY DEF RaInv, StartsInCode
    <3> QED
      BY <1>2, <1>15, <3>1
  <2>2. x \in Occurrences(w)
    <3>1. x = -1 \/ x \in Occurrences(w)
      BY <1>1 DEF Covers
    <3> QED
      BY <2>1, <3>1
  <2>3. BlockStart(b) < x /\ x < BlockStart(b + 1)
    <3>1. c = b /\ iv[t].end = BlockStart(b) + k - 1 /\ k \in 1 .. Len(bbs[b].irs)
      BY <1>9, <1>10
    <3> HIDE DEF x
    <3>2. BlockStart(b) + j - 1 < x /\ x <= BlockStart(b) + k - 1
      BY <1>8, <1>15, <3>1 DEF x
    <3>3. j \in Nat /\ 1 <= j /\ k \in Nat /\ k <= Len(bbs[b].irs)
      BY <1>8, <1>11, <3>1
    <3>4. PICK s \in Nat, l \in Nat, y \in Nat :
                 s = BlockStart(b) /\ l = Len(bbs[b].irs) /\ y = x
      BY <1>11, <2>1
    <3>5. s + j - 1 < y /\ y <= s + k - 1 /\ k <= l
      BY <3>2, <3>3, <3>4
    <3>6. s < y /\ y < s + l
      BY ONLY <3>3, <3>5
    <3> QED
      BY <1>11, <3>4, <3>6
  <2> HIDE DEF x
  <2>4. PICK m \in 1 .. Len(bbs[b].irs) : Mentions(bbs[b].irs[m], w) /\ x = BlockStart(b) + m - 1
    BY <1>1, <2>1, <2>2, <2>3, InsidePlace
  <2>5. m \in j .. k
    <3>1. BlockStart(b) + j - 1 < x /\ x <= BlockStart(b) + k - 1
      BY <1>8, <1>9, <1>10, <1>15 DEF x
    <3> QED
      BY <1>8, <1>9, <1>11, <2>4, <3>1
  <2>6. Free(vregs, w) /\ w \in 1 .. Len(vregs)
    BY <1>1, <1>2, <1>15 DEF ScanKnows
  <2> QED
    BY <1>13, <2>4, <2>5, <2>6 DEF NarrowAt
<1> QED
  BY <1>14, <1>15 DEF Operands

(* Four registers are more than an instruction has.                        *)
LEMMA FourAreTooMany ==
  ASSUME NEW ir, NEW a, NEW b, NEW c, NEW d,
         Mentions(ir, a), Mentions(ir, b), Mentions(ir, c), Mentions(ir, d)
  PROVE  a = b \/ a = c \/ a = d \/ b = c \/ b = d \/ c = d
BY DEF Mentions

(* More registers than an instruction has operands: there are 7 and 8 on   *)
(* x64 (PHYSICAL_REG_MAX, PHYSICAL_FREG_MAX), and more on aarch64.         *)
EnoughRegisters == \A c \in Class : PhysMax[c] > 3

(* The scan spills no register that was made for a load or a store.        *)
LEMMA SplitSpares ==
  ASSUME RaInv, RunInv, EnoughRegisters, phase = "scan", Split,
         NEW t \in {i, ExpiredActive(iv[i].cls, i)[ExpiredCount(iv[i].cls, i) - 1]},
         \A k \in 0 .. ExpiredCount(iv[i].cls, i) - 1 :
           iv[ExpiredActive(iv[i].cls, i)[k]].end <= iv[t].end
  PROVE  iv[t].virt <= Len(prog.vregs)
<1> DEFINE c == iv[i].cls
           act == ExpiredActive(c, i)
           n == ExpiredCount(c, i)
<1>1. i \in 1 .. N /\ n >= PhysMax[c]
  BY DEF Split, RaInv, SInv, IInv, TypeInv, ScanTypes
<1>2. c \in Class /\ PhysMax[c] \in Nat /\ PhysMax[c] > 3
  BY <1>1, PhysMaxAssumption DEF EnoughRegisters, RaInv, SInv, IInv, TypeInv, IsInterval
<1>3. Good(c, act, n, ExpiredUsing(c, i), phys, state, i - 1)
  BY <1>1, <1>2, ExpiredIsGood DEF RaInv, SInv
<1>4. \A k \in 0 .. n - 1 : iv[act[k]].end > iv[i].start
  BY <1>1, <1>2, ExpireLeavesAlive DEF RaInv
<1> HIDE DEF act, n, c
<1>5. n \in Nat /\ n > 3
  BY <1>1, <1>2, <1>3 DEF Good
<1>6. \A k \in 0 .. n - 1 : act[k] \in 1 .. i - 1 /\ state[act[k]] = "LI_NORMAL"
  BY <1>3 DEF Good
<1>7. \A k, l \in 0 .. n - 1 : k # l => act[k] # act[l]
  BY <1>3 DEF Good
<1>8. /\ \A u \in 1 .. N : iv[u].start \in Int /\ iv[u].end \in Int
      /\ \A u \in 1 .. N : iv[u].virt \in 1 .. Len(vregs)
      /\ N \in Nat /\ Len(prog.vregs) \in Nat
  BY EndsAreNumbers DEF RaInv, SInv, Fits, RunInv, Code, IInv, TypeInv, ScanTypes, N
<1>9. t \in 1 .. N /\ iv[t].start <= iv[i].start
  <2>1. CASE t = i
    BY <1>1, <1>8, <2>1
  <2>2. CASE t # i
    <3>1. t = act[n - 1] /\ n - 1 \in 0 .. n - 1
      BY <1>5, <2>2 DEF act, n, c
    <3>2. t \in 1 .. i - 1
      BY <1>6, <3>1
    <3>3. t \in 1 .. N /\ t < i
      BY <1>1, <1>8, <3>2
    <3>4. TypeInv /\ Sorted(iv)
      BY DEF RaInv, SInv, IInv
    <3> QED
      BY <1>1, <3>3, <3>4, StartsAscend
  <2> QED
    BY <2>1, <2>2
<1>10. \A k \in 0 .. n - 1 : iv[act[k]].end <= iv[t].end
  BY DEF act, n, c
<1>11. \A k \in 0 .. n - 1 : act[k] \in 1 .. N /\ iv[t].start < iv[act[k]].end
  <2> SUFFICES ASSUME NEW k \in 0 .. n - 1
               PROVE  act[k] \in 1 .. N /\ iv[t].start < iv[act[k]].end
    OBVIOUS
  <2>1. act[k] \in 1 .. N
    BY <1>1, <1>6, <1>8
  <2>2. iv[act[k]].end \in Int /\ iv[t].start \in Int /\ iv[i].start \in Int
    BY <1>1, <1>8, <1>9, <2>1
  <2> QED
    BY <1>4, <1>9, <2>1, <2>2
<1>12. SUFFICES ASSUME iv[t].virt > Len(prog.vregs) PROVE FALSE
  BY <1>8, <1>9
<1>13. iv[t].start < iv[t].end
  <2>1. 0 \in 0 .. n - 1
    BY <1>5
  <2>2. /\ iv[act[0]].end \in Int /\ iv[t].start \in Int /\ iv[t].end \in Int
        /\ iv[t].start < iv[act[0]].end /\ iv[act[0]].end <= iv[t].end
    BY <1>8, <1>9, <1>10, <1>11, <2>1
  <2> QED
    BY <2>2
<1>14. PICK b \in 1 .. Len(bbs) : \E a \in 1 .. Len(bbs[b].irs) : Operands(t, bbs[b].irs[a])
  BY <1>9, <1>12, <1>13, TmpRange
<1>15. PICK ir : Operands(t, ir)
  BY <1>14
<1>16. \A k \in 0 .. n - 1 : Mentions(ir, iv[act[k]].virt)
  BY <1>6, <1>10, <1>11, <1>15 DEF Operands
<1>17. \A k, l \in 0 .. n - 1 : k # l => iv[act[k]].virt # iv[act[l]].virt
  <2>1. Distinct
    BY DEF RunInv
  <2> QED
    BY <1>7, <1>11, <2>1 DEF Distinct
<1>18. 0 \in 0 .. n - 1 /\ 1 \in 0 .. n - 1 /\ 2 \in 0 .. n - 1 /\ 3 \in 0 .. n - 1
  BY <1>5
<1>19. /\ iv[act[0]].virt # iv[act[1]].virt /\ iv[act[0]].virt # iv[act[2]].virt
       /\ iv[act[0]].virt # iv[act[3]].virt /\ iv[act[1]].virt # iv[act[2]].virt
       /\ iv[act[1]].virt # iv[act[3]].virt /\ iv[act[2]].virt # iv[act[3]].virt
  BY <1>17, <1>18
<1>20. /\ Mentions(ir, iv[act[0]].virt) /\ Mentions(ir, iv[act[1]].virt)
       /\ Mentions(ir, iv[act[2]].virt) /\ Mentions(ir, iv[act[3]].virt)
  BY <1>16, <1>18
<1> QED
  BY <1>19, <1>20, FourAreTooMany

(* A step of the scan keeps RunInv: it never gives up a register that was  *)
(* made for a load or a store.                                             *)
LEMMA ScanRunInv ==
  ASSUME RaInv, RunInv, EnoughRegisters, Scan
  PROVE  RunInv'
<1>1. /\ ScanNext /\ phase = "scan" /\ iv' = iv /\ N' = N
      /\ prog' = prog /\ vregs' = vregs /\ bbs' = bbs /\ phase' = phase /\ cur' = cur
  BY DEF Scan, raVars, ScanNext, Skip, Assign, Split, N
<1>2. /\ prog' \in Programs /\ Code(prog', bbs', vregs') /\ SameRun' /\ ParamsSpilled'
  BY <1>1, SameVars
<1>3. \A v : Occurrences(v)' = Occurrences(v)
  BY <1>1, SameCode
<1>4. Covers' /\ Distinct'
  BY <1>1, <1>3 DEF RunInv, Covers, Distinct
<1>5. ScanKnows
  BY <1>1 DEF RunInv
<1>6. state \in [1 .. N -> LiveIntervalState]
  BY DEF RaInv, SInv, IInv, TypeInv, ScanTypes
<1>7. \A a \in 1 .. N : \/ state'[a] = state[a]
                        \/ state'[a] = "LI_SPILL" /\ iv[a].virt <= Len(prog.vregs)
  <2>1. CASE Skip \/ Assign
    BY <2>1 DEF Skip, Assign
  <2>2. CASE Split
    <3> DEFINE c == iv[i].cls
               act == ExpiredActive(c, i)
               n == ExpiredCount(c, i)
    <3>1. i \in 1 .. N /\ n >= PhysMax[c] /\ split_at_interval(c, act, n)
      BY <2>2 DEF Split, RaInv, SInv, IInv, TypeInv, ScanTypes
    <3>2. c \in Class /\ PhysMax[c] \in Nat \ {0}
      BY <3>1, PhysMaxAssumption DEF RaInv, SInv, IInv, TypeInv, IsInterval
    <3>3. Good(c, act, n, ExpiredUsing(c, i), phys, state, i - 1)
      BY <3>1, <3>2, ExpiredIsGood DEF RaInv, SInv
    <3>4. Ordered(act, n)
      BY <3>1, <3>2, ExpireLeavesAlive DEF RaInv
    <3> HIDE DEF act, n, c
    <3>5. n \in Nat /\ n - 1 \in 0 .. n - 1
      BY <3>1, <3>2, <3>3 DEF Good
    <3>6. \A k \in 0 .. n - 1 : act[k] \in 1 .. N
      <4>1. \A k \in 0 .. n - 1 : act[k] \in 1 .. i - 1
        BY <3>3 DEF Good
      <4>2. N \in Nat
        BY DEF RaInv, SInv, IInv, TypeInv, ScanTypes, N
      <4> QED
        BY <3>1, <4>1, <4>2
    <3>7. \A a \in 1 .. N : iv[a].end \in Int
      BY EndsAreNumbers DEF RaInv, SInv
    <3>8. \A k \in 0 .. n - 1 : iv[act[k]].end <= iv[act[n - 1]].end
      <4> SUFFICES ASSUME NEW k \in 0 .. n - 1 PROVE iv[act[k]].end <= iv[act[n - 1]].end
        OBVIOUS
      <4>1. CASE k = n - 1
        <5>1. iv[act[k]].end \in Int
          BY <3>6, <3>7
        <5> QED
          BY <4>1, <5>1
      <4>2. CASE k # n - 1
        <5>1. k < n - 1
          BY <3>5, <4>2
        <5> QED
          BY <3>4, <3>5, <5>1 DEF Ordered
      <4> QED
        BY <4>1, <4>2
    <3>9. \E t \in {i, act[n - 1]} :
            /\ state' = [state EXCEPT ![t] = "LI_SPILL"]
            /\ iv[act[n - 1]].end <= iv[t].end
      <4>1. iv[act[n - 1]].end \in Int /\ iv[i].end \in Int
        BY <3>1, <3>5, <3>6, <3>7
      <4> QED
        BY <3>1, <4>1 DEF split_at_interval
    <3>10. PICK t \in {i, act[n - 1]} : /\ state' = [state EXCEPT ![t] = "LI_SPILL"]
                                        /\ iv[act[n - 1]].end <= iv[t].end
      BY <3>9
    <3>11. t \in 1 .. N
      BY <3>1, <3>5, <3>6, <3>10
    <3>12. \A k \in 0 .. n - 1 : iv[act[k]].end <= iv[t].end
      <4> SUFFICES ASSUME NEW k \in 0 .. n - 1 PROVE iv[act[k]].end <= iv[t].end
        OBVIOUS
      <4>1. iv[act[k]].end \in Int /\ iv[t].end \in Int /\ iv[act[n - 1]].end \in Int
        BY <3>5, <3>6, <3>7, <3>11
      <4> QED
        BY <3>8, <3>10, <4>1
    <3>13. iv[t].virt <= Len(prog.vregs)
      BY <1>1, <2>2, <3>10, <3>12, SplitSpares DEF act, n, c
    <3> QED
      BY <1>6, <3>10, <3>11, <3>13
  <2> QED
    BY <1>1, <2>1, <2>2 DEF ScanNext
<1>8. ScanKnows'
  <2>1. \A a \in 1 .. N : /\ state'[a] = "LI_NORMAL" => Free(vregs, iv[a].virt)
                          /\ state'[a] = "LI_SPILL" => iv[a].virt <= Len(prog.vregs)
    BY <1>5, <1>7 DEF ScanKnows
  <2> QED
    BY <1>1, <2>1 DEF ScanKnows, Free
<1> QED
  BY <1>1, <1>2, <1>4, <1>8 DEF RunInv

(* RunInv is inductive, beside RaInv.                                      *)
LEMMA RaNextRunInv ==
  ASSUME RaInv, RunInv, EnoughRegisters, [RaNext]_vars
  PROVE  RunInv'
<1>1. CASE CheckIntervals
  BY <1>1, CheckRunInv
<1>2. CASE Scan
  BY <1>2, ScanRunInv
<1>3. CASE ScanEnd
  BY <1>3, ScanEndRunInv
<1>4. CASE SpillVregs
  BY <1>4, SpillRunInv
<1>5. CASE InsertStep
  BY <1>5, InsertStepRunInv
<1>6. CASE InsertNextBlock
  BY <1>6, InsertNextBlockRunInv
<1>7. CASE InsertEnd
  BY <1>7, InsertEndRunInv
<1>8. CASE UNCHANGED vars
  BY <1>8, StutterRunInv
<1> QED
  BY <1>1, <1>2, <1>3, <1>4, <1>5, <1>6, <1>7, <1>8 DEF RaNext

(* Through all rounds the code does from the frame what the program did.   *)
THEOREM RoundsRunInv == ASSUME EnoughRegisters PROVE RaSpec => []RunInv
<1>1. RaInit => RunInv
  BY InitRunInv
<1>2. RaInv /\ RunInv /\ [RaNext]_vars => RunInv'
  BY RaNextRunInv
<1>3. RaSpec => []RaInv
  BY RoundsRaInv
<1> QED
  BY <1>1, <1>2, <1>3, PTL DEF RaSpec

(* The assertions of the allocator hold.                                   *)
LEMMA RunKeepsTmps == RaInv /\ RunInv => NoSpillKept
<1> SUFFICES ASSUME RaInv, RunInv PROVE NoSpillKept
  OBVIOUS
<1>1. DOMAIN vregs = 1 .. Len(vregs) /\ Len(vregs) \in Nat
  BY BlocksAre DEF RaInv
<1>2. \A v \in 1 .. Len(vregs) :
        "VRF_NO_SPILL" \in vregs[v].flag => "VRF_SPILLED" \notin vregs[v].flag
  BY <1>1 DEF RunInv, Code, RegsKept, Free
<1> QED
  BY <1>1, <1>2 DEF NoSpillKept

(* The assertions of regalloc.c hold in every round: a register is free    *)
(* when the scan takes one, and no register of a load or a store is        *)
(* spilled.                                                                *)
THEOREM RoundsAssertions == ASSUME EnoughRegisters PROVE RaSpec => []AssertionsHold
<1>1. RaInv /\ RunInv => NoSpillKept
  BY RunKeepsTmps
<1>2. RaSpec => []RaInv /\ []RunInv
  BY RoundsRaInv, RoundsRunInv
<1>3. RaSpec => []RegisterFree
  BY RoundsRegisterFree
<1>4. RegisterFree /\ NoSpillKept => AssertionsHold
  BY DEF AssertionsHold
<1> QED
  BY <1>1, <1>2, <1>3, <1>4, PTL
----------------------------------------------------------------------------
(***************************************************************************)
(* The code in physical registers.                                         *)
(***************************************************************************)
Finished == RaInv /\ RunInv /\ phase = "done"

(* What the end of the rounds says of the intervals.                       *)
LEMMA AtTheEnd ==
  ASSUME Finished
  PROVE  /\ RaTypeOK /\ AllSettled /\ Fits /\ SpillsMarked /\ i > N
         /\ Code(prog, bbs, vregs) /\ ParamsSpilled /\ Covers /\ Distinct
         /\ i \in Nat /\ N \in Nat /\ Len(vregs) \in Nat
         /\ \A a \in 1 .. N : /\ iv[a].start \in Int /\ iv[a].end \in Int
                              /\ iv[a].cls \in Class
<1>1. RaTypeOK /\ AllSettled /\ i > N /\ cur = CursorStart
  BY DEF Finished, RaInv
<1>2. ~ cur.inserted
  BY <1>1 DEF CursorStart
<1>3. Fits /\ SpillsMarked /\ Covers /\ Distinct /\ ParamsSpilled /\ Code(prog, bbs, vregs)
  BY <1>2 DEF Finished, RaInv, RunInv
<1>4. /\ i \in Nat /\ N \in Nat
      /\ \A a \in 1 .. N : /\ iv[a].start \in Int /\ iv[a].end \in Int
                           /\ iv[a].cls \in Class
  BY DEF Finished, RaInv, SInv, IInv, TypeInv, ScanTypes, IsInterval
<1>5. Len(vregs) \in Nat
  BY <1>1, BlocksAre
<1> QED
  BY <1>1, <1>3, <1>4, <1>5

(* A register that is neither in the frame nor a constant has got one.     *)
LEMMA FreeHasRegister ==
  ASSUME Finished, NEW v \in 1 .. Len(vregs), Free(vregs, v)
  PROVE  /\ IntervalOf(v) \in 1 .. N /\ iv[IntervalOf(v)].virt = v
         /\ state[IntervalOf(v)] = "LI_NORMAL"
         /\ Registers[v] = RegisterOf(IntervalOf(v))
         /\ Registers[v][1] \in Class
<1> DEFINE a == IntervalOf(v)
<1>1. Fits /\ SpillsMarked /\ i > N /\ i \in Nat /\ N \in Nat /\ Len(vregs) \in Nat
      /\ \A b \in 1 .. N : iv[b].cls \in Class
  BY AtTheEnd
<1>2. a \in 1 .. N /\ iv[a].virt = v
  BY <1>1 DEF Fits, IntervalOf
<1>3. Registers[v] = RegisterOf(a)
  BY <1>1 DEF Registers, Free, IsConst
<1> HIDE DEF a
<1>4. state[a] # "LI_SPILL"
  BY <1>1, <1>2 DEF SpillsMarked, Free, Spilled
<1>5. state[a] # "LI_CONST"
  BY <1>1, <1>2 DEF Finished, RaInv, ConstsKept, Fits, Free, IsConst
<1>6. state[a] \in LiveIntervalState
  BY <1>2 DEF Finished, RaInv, SInv, IInv, TypeInv, ScanTypes
<1>7. state[a] = "LI_NORMAL"
  BY <1>4, <1>5, <1>6 DEF LiveIntervalState
<1>8. RegisterOf(a)[1] \in Class
  BY <1>1, <1>2 DEF RegisterOf
<1> QED
  BY <1>2, <1>3, <1>7, <1>8 DEF a

(* The value of a register is read later, before it is assigned again.     *)
LiveAt(bb, j, v) ==
  \/ \E k \in j .. Len(bb.irs) : Reads(bb.irs[k], v) /\ \A m \in j .. k - 1 : bb.irs[m].dst # v
  \/ v \in bb.out_regs /\ \A m \in j .. Len(bb.irs) : bb.irs[m].dst # v

(* Before a read, the register is live.                                    *)
LEMMA LiveReads ==
  ASSUME NEW bb, Len(bb.irs) \in Nat, NEW j \in 1 .. Len(bb.irs), NEW v, Reads(bb.irs[j], v)
  PROVE  LiveAt(bb, j, v)
<1>1. j \in j .. Len(bb.irs) /\ j .. j - 1 = {}
  OBVIOUS
<1> QED
  BY <1>1 DEF LiveAt

(* Live after an instruction that does not assign it, live before the      *)
(* instruction.                                                            *)
LEMMA LiveBefore ==
  ASSUME NEW bb, Len(bb.irs) \in Nat, NEW j \in 1 .. Len(bb.irs), NEW v,
         bb.irs[j].dst # v, LiveAt(bb, j + 1, v)
  PROVE  LiveAt(bb, j, v)
<1>1. CASE \E k \in j + 1 .. Len(bb.irs) :
             Reads(bb.irs[k], v) /\ \A m \in j + 1 .. k - 1 : bb.irs[m].dst # v
  <2>1. PICK k \in j + 1 .. Len(bb.irs) :
               Reads(bb.irs[k], v) /\ \A m \in j + 1 .. k - 1 : bb.irs[m].dst # v
    BY <1>1
  <2>2. k \in j .. Len(bb.irs)
    OBVIOUS
  <2>3. ASSUME NEW m \in j .. k - 1 PROVE bb.irs[m].dst # v
    <3>1. m = j \/ m \in j + 1 .. k - 1
      OBVIOUS
    <3> QED
      BY <2>1, <3>1
  <2> QED
    BY <2>1, <2>2, <2>3 DEF LiveAt
<1>2. CASE v \in bb.out_regs /\ \A m \in j + 1 .. Len(bb.irs) : bb.irs[m].dst # v
  <2>1. ASSUME NEW m \in j .. Len(bb.irs) PROVE bb.irs[m].dst # v
    <3>1. m = j \/ m \in j + 1 .. Len(bb.irs)
      OBVIOUS
    <3> QED
      BY <1>2, <3>1
  <2> QED
    BY <1>2, <2>1 DEF LiveAt
<1> QED
  BY <1>1, <1>2 DEF LiveAt

(* What is live at the start of a block the block receives, and what the   *)
(* next one receives is live at its end.                                   *)
LEMMA LiveAtStart ==
  ASSUME Finished, NEW b \in 1 .. Len(bbs), NEW v \in 1 .. Len(vregs), Free(vregs, v),
         LiveAt(bbs[b], 1, v)
  PROVE  v \in bbs[b].in_regs
<1>1. FlowKnown(bbs[b], v)
  BY AtTheEnd DEF Code, FlowsKnown
<1>2. DOMAIN bbs[b].irs = 1 .. Len(bbs[b].irs)
  BY AtTheEnd, BlocksAre
<1>3. ReadsFirst(bbs[b].irs, v) \/ PassesOn(bbs[b], v)
  BY <1>2 DEF LiveAt, ReadsFirst, PassesOn
<1> QED
  BY <1>1, <1>3 DEF FlowKnown

(* What a block passes on is live at its end.                              *)
LEMMA PassedIsLive ==
  ASSUME NEW bb, Len(bb.irs) \in Nat, NEW v, v \in bb.out_regs
  PROVE  LiveAt(bb, Len(bb.irs) + 1, v)
  BY DEF LiveAt

(* A live range: the interval of a register reaches to where it is needed, *)
(* and begins where it was assigned or received.                           *)
LEMMA LiveRange ==
  ASSUME Finished, NEW b \in 1 .. Len(bbs), NEW j \in 1 .. Len(bbs[b].irs),
         NEW v \in 1 .. Len(vregs), Free(vregs, v),
         bbs[b].irs[j].dst # v, LiveAt(bbs[b], j + 1, v),
         NEW a \in 1 .. N, iv[a].virt = v
  PROVE  /\ BlockStart(b) + j - 1 < iv[a].end
         /\ \/ iv[a].start < BlockStart(b) + j - 1
            \/ v \in bbs[b].in_regs /\ iv[a].start <= BlockStart(b)
<1> DEFINE irs == bbs[b].irs
           l == Len(irs)
           s == BlockStart(b)
           st == iv[a].start
           en == iv[a].end
<1>1. RaTypeOK /\ Covers /\ st \in Int /\ en \in Int
  BY AtTheEnd
<1>2. /\ s \in Nat /\ l \in Nat /\ BlockStart(b + 1) = s + l
      /\ j \in Nat /\ 1 <= j /\ j <= l
  BY <1>1, BlockStartIs
<1>3. \A x : SeenAt(v, b, x) => st <= x /\ x <= en
  <2> SUFFICES ASSUME NEW x, SeenAt(v, b, x) PROVE st <= x /\ x <= en
    OBVIOUS
  <2>1. x \in Occurrences(v)
    BY <1>1, OccurrenceIs
  <2> QED
    BY <1>1, <2>1 DEF Covers
<1>4. \A k \in 1 .. l : Mentions(irs[k], v) => st <= s + k - 1 /\ s + k - 1 <= en
  BY <1>3 DEF SeenAt
<1>5. /\ v \in bbs[b].in_regs => st <= s
      /\ v \in bbs[b].out_regs => s + l <= en
  BY <1>2, <1>3 DEF SeenAt
<1> HIDE DEF s, st, en
<1>6. s + j - 1 < en
  <2>1. CASE \E k \in j + 1 .. l : Reads(irs[k], v)
    <3>1. PICK k \in j + 1 .. l : Reads(irs[k], v)
      BY <2>1
    <3>2. k \in 1 .. l /\ Mentions(irs[k], v)
      BY <3>1 DEF Reads, Mentions
    <3>3. s + k - 1 <= en
      BY <1>4, <3>2
    <3>4. k \in Int /\ j < k
      BY <1>2
    <3> HIDE DEF l, irs
    <3> QED
      BY ONLY <1>1, <1>2, <3>3, <3>4
  <2>2. CASE v \in bbs[b].out_regs
    <3>1. s + l <= en
      BY <1>5, <2>2
    <3> HIDE DEF l, irs
    <3> QED
      BY <1>1, <1>2, <3>1
  <2> QED
    BY <2>1, <2>2 DEF LiveAt
<1>7. CASE \E m \in 1 .. j : irs[m].dst = v
  <2>1. PICK m \in 1 .. j : irs[m].dst = v
    BY <1>7
  <2>2. m # j /\ m \in 1 .. l /\ m < j /\ m \in Int
    <3>1. m # j
      BY <2>1
    <3> HIDE DEF l, irs
    <3> QED
      BY <1>2, <3>1
  <2>3. Mentions(irs[m], v)
    BY <2>1 DEF Mentions
  <2>4. st <= s + m - 1
    BY <1>4, <2>2, <2>3
  <2>5. st < s + j - 1
    <3> HIDE DEF l, irs
    <3> QED
      BY <1>1, <1>2, <2>2, <2>4
  <2> QED
    BY <1>6, <2>5 DEF s, st, en
<1>8. CASE \A m \in 1 .. j : irs[m].dst # v
  <2>1. LiveAt(bbs[b], 1, v)
    <3>1. CASE \E k \in j + 1 .. l : Reads(irs[k], v) /\ \A m \in j + 1 .. k - 1 : irs[m].dst # v
      <4>1. PICK k \in j + 1 .. l : Reads(irs[k], v) /\ \A m \in j + 1 .. k - 1 : irs[m].dst # v
        BY <3>1
      <4>2. k \in 1 .. l
        BY <1>2
      <4>3. ASSUME NEW m \in 1 .. k - 1 PROVE irs[m].dst # v
        <5>1. m \in 1 .. j \/ m \in j + 1 .. k - 1
          BY <1>2
        <5> QED
          BY <1>8, <4>1, <5>1
      <4> QED
        BY <4>1, <4>2, <4>3 DEF LiveAt
    <3>2. CASE v \in bbs[b].out_regs /\ \A m \in j + 1 .. l : irs[m].dst # v
      <4>1. ASSUME NEW m \in 1 .. l PROVE irs[m].dst # v
        <5>1. m \in 1 .. j \/ m \in j + 1 .. l
          BY <1>2
        <5> QED
          BY <1>8, <3>2, <5>1
      <4> QED
        BY <3>2, <4>1 DEF LiveAt
    <3> QED
      BY <3>1, <3>2 DEF LiveAt
  <2>2. v \in bbs[b].in_regs
    BY <2>1, LiveAtStart
  <2> QED
    BY <1>5, <1>6, <2>2 DEF s, st, en
<1> QED
  BY <1>7, <1>8

(* What an instruction assigns takes no register away from a value that is *)
(* needed behind it.                                                       *)
LEMMA ApartBehind ==
  ASSUME Finished, ~ LateEntry, NEW b \in 1 .. Len(bbs), NEW j \in 1 .. Len(bbs[b].irs),
         NEW v \in 1 .. Len(vregs), Free(vregs, v),
         NEW d \in 1 .. Len(vregs), Free(vregs, d), bbs[b].irs[j].dst = d, v # d,
         LiveAt(bbs[b], j + 1, v)
  PROVE  Registers[v] # Registers[d]
<1> DEFINE a == IntervalOf(v)
           c == IntervalOf(d)
           p == BlockStart(b) + j - 1
           sa == iv[a].start
           ea == iv[a].end
           sc == iv[c].start
           ec == iv[c].end
<1>1. /\ RaTypeOK /\ Covers /\ i > N /\ RaInv
      /\ \A e \in 1 .. N : iv[e].start \in Int /\ iv[e].end \in Int
  BY AtTheEnd DEF Finished
<1>2. /\ a \in 1 .. N /\ iv[a].virt = v /\ state[a] = "LI_NORMAL" /\ Registers[v] = RegisterOf(a)
      /\ c \in 1 .. N /\ iv[c].virt = d /\ state[c] = "LI_NORMAL" /\ Registers[d] = RegisterOf(c)
  BY FreeHasRegister
<1> HIDE DEF a, c
<1>3. a # c /\ a \in Int /\ c \in Int
  BY <1>1, <1>2 DEF RaInv, SInv, IInv, TypeInv, ScanTypes
<1>4. /\ BlockStart(b) \in Nat /\ Len(bbs[b].irs) \in Nat /\ p \in Int
      /\ sa \in Int /\ ea \in Int /\ sc \in Int /\ ec \in Int
      /\ j \in Nat /\ 1 <= j /\ 1 <= Len(bbs[b].irs)
  <2>1. BlockStart(b) \in Nat /\ Len(bbs[b].irs) \in Nat
    BY <1>1, BlockStartIs
  <2>2. sa \in Int /\ ea \in Int /\ sc \in Int /\ ec \in Int
    BY <1>1, <1>2
  <2> QED
    BY <2>1, <2>2
<1>5. sc <= p /\ p <= ec
  <2>1. SeenAt(d, b, p)
    BY DEF SeenAt, Mentions
  <2>2. p \in Occurrences(d)
    BY <1>1, <2>1, OccurrenceIs
  <2> QED
    BY <1>1, <1>2, <2>2 DEF Covers
<1>6. p < ea /\ (sa < p \/ (v \in bbs[b].in_regs /\ sa <= BlockStart(b)))
  BY <1>2, LiveRange
<1>7. BlockStart(b) <= p /\ (p = BlockStart(b) => j = 1)
  BY ONLY <1>4
<1>8. CASE sa < sc \/ (sa = sc /\ a < c)
  <2>1. sc < ea
    <3> HIDE DEF sa, ea, sc, ec, p
    <3> QED
      BY ONLY <1>4, <1>5, <1>6
  <2>2. RegisterOf(a) # RegisterOf(c)
    BY <1>1, <1>2, <1>3, <1>8, <2>1, ApartWhereLive
  <2> QED
    BY <1>2, <2>2
<1>9. CASE (sc < sa \/ (sc = sa /\ c < a)) /\ sa < ec
  <2>1. RegisterOf(c) # RegisterOf(a)
    BY <1>1, <1>2, <1>3, <1>9, ApartWhereLive
  <2> QED
    BY <1>2, <2>1
<1>10. CASE ec <= sa
  <2>1. sa = p /\ ec = p /\ p = BlockStart(b) /\ v \in bbs[b].in_regs
    <3> HIDE DEF sa, ea, sc, ec, p
    <3> QED
      BY ONLY <1>4, <1>5, <1>6, <1>7, <1>10
  <2>2. j = 1
    BY <1>7, <2>1
  <2>3. bbs[b].irs # <<>> /\ b \in DOMAIN bbs /\ iv[c].virt = bbs[b].irs[1].dst
    <3>1. b \in DOMAIN bbs
      BY <1>1, BlocksAre
    <3>2. bbs[b].irs # <<>>
      BY <1>4
    <3> QED
      BY <1>2, <2>2, <3>1, <3>2
  <2>4. RegisterOf(a) # RegisterOf(c)
    BY <1>2, <1>3, <2>1, <2>3 DEF LateEntry
  <2> QED
    BY <1>2, <2>4
<1> HIDE DEF sa, ea, sc, ec, p
<1> QED
  BY <1>3, <1>4, <1>8, <1>9, <1>10

(* What the two runs agree on: what is in the frame, and the values that   *)
(* are needed, each in its register.                                       *)
SameFrame(s, t) ==
  \A v \in 1 .. Len(vregs) : InFrame(vregs, v) => ValueAt(s.mem, Slot(v)) = ValueAt(t.mem, Slot(v))

SameLive(bb, j, s, t) ==
  \A v \in 1 .. Len(vregs) : Free(vregs, v) /\ LiveAt(bb, j, v) =>
    ValueAt(s.mem, Slot(v)) = ValueAt(t.mem, Registers[v])

SameAt(bb, j, s, t) == s.log = t.log /\ SameFrame(s, t) /\ SameLive(bb, j, s, t)

(* Where the two runs keep a register.                                     *)
LEMMA PlacesAre ==
  ASSUME Finished, NEW v \in 0 .. Len(vregs)
  PROVE  /\ v = 0 \/ (v \in 1 .. Len(vregs) /\ "VRF_CONST" \in vregs[v].flag) =>
              Registers[v] = Homes(vregs)[v] /\ Fixed(Homes(vregs)[v])
         /\ v \in 1 .. Len(vregs) /\ Free(vregs, v) =>
              /\ Homes(vregs)[v] = Slot(v)
              /\ ~ Fixed(Registers[v])
              /\ \A w : Registers[v] # Slot(w)
<1>1. Len(vregs) \in Nat
  BY AtTheEnd
<1>2. Homes(vregs)[v] = Home(vregs, v)
  BY <1>1, HomesAre
<1>3. ASSUME v = 0 \/ (v \in 1 .. Len(vregs) /\ "VRF_CONST" \in vregs[v].flag)
      PROVE  Registers[v] = Homes(vregs)[v] /\ Fixed(Homes(vregs)[v])
  <2>1. Registers[v] = Home(vregs, v)
    BY <1>3 DEF Registers, IsConst
  <2>2. Fixed(Homes(vregs)[v])
    BY <1>1, <1>3, HomesAre
  <2> QED
    BY <1>2, <2>1, <2>2
<1>4. ASSUME v \in 1 .. Len(vregs), Free(vregs, v)
      PROVE  /\ Homes(vregs)[v] = Slot(v)
             /\ ~ Fixed(Registers[v])
             /\ \A w : Registers[v] # Slot(w)
  <2>1. Registers[v][1] \in {"ireg", "freg"}
    BY <1>4, FreeHasRegister DEF Class
  <2>2. Homes(vregs)[v] = Slot(v)
    BY <1>2, <1>4 DEF Home, Free
  <2>3. \A w : Slot(w)[1] = "slot"
    BY DEF Slot
  <2> HIDE DEF Slot
  <2> QED
    BY <2>1, <2>2, <2>3 DEF Fixed
<1> QED
  BY <1>3, <1>4

(* The operands that both runs read.                                       *)
LEMMA OperandSame ==
  ASSUME Finished, NEW b \in 1 .. Len(bbs), NEW j \in 1 .. Len(bbs[b].irs),
         NEW s, NEW t, SameAt(bbs[b], j, s, t),
         NEW v \in 0 .. Len(vregs), Reads(bbs[b].irs[j], v),
         v \in 1 .. Len(vregs) => "VRF_CONST" \in vregs[v].flag \/ "VRF_SPILLED" \notin vregs[v].flag
  PROVE  ValueAt(s.mem, Homes(vregs)[v]) = ValueAt(t.mem, Registers[v])
<1>0. Len(vregs) \in Nat /\ Len(bbs[b].irs) \in Nat
  BY AtTheEnd, BlocksAre
<1>1. CASE v = 0 \/ (v \in 1 .. Len(vregs) /\ "VRF_CONST" \in vregs[v].flag)
  <2>1. Registers[v] = Homes(vregs)[v] /\ Fixed(Homes(vregs)[v])
    BY <1>1, PlacesAre
  <2> QED
    BY <2>1, FixedValue
<1>2. CASE v \in 1 .. Len(vregs) /\ Free(vregs, v)
  <2>1. Homes(vregs)[v] = Slot(v)
    BY <1>2, PlacesAre
  <2>2. LiveAt(bbs[b], j, v)
    BY <1>0, LiveReads
  <2> QED
    BY <1>2, <2>1, <2>2 DEF SameAt, SameLive
<1> QED
  <2>1. v = 0 \/ v \in 1 .. Len(vregs)
    BY <1>0
  <2> QED
    BY <1>1, <1>2, <2>1 DEF Free

(* One value is written where each run has the place for it.               *)
LEMMA WriteSame ==
  ASSUME Finished, ~ LateEntry, NEW b \in 1 .. Len(bbs), NEW j \in 1 .. Len(bbs[b].irs),
         NEW s, NEW t, SameAt(bbs[b], j, s, t), NEW d, d = bbs[b].irs[j].dst,
         NEW x, NEW s2, NEW t2, s2.log = t2.log,
         d \in 1 .. Len(vregs) => "VRF_CONST" \in vregs[d].flag \/ "VRF_SPILLED" \notin vregs[d].flag,
         s2.mem = Stored(s.mem, Homes(vregs)[d], x), t2.mem = Stored(t.mem, Registers[d], x)
  PROVE  SameAt(bbs[b], j + 1, s2, t2)
<1>1. /\ Len(vregs) \in Nat /\ Len(bbs[b].irs) \in Nat
      /\ bbs[b].irs \in Seq(Instructions(Len(vregs)))
  BY AtTheEnd, BlocksAre
<1>2. d \in 0 .. Len(vregs)
  <2> DEFINE irs == bbs[b].irs
  <2>1. irs \in Seq(Instructions(Len(vregs))) /\ j \in 1 .. Len(irs) /\ d = irs[j].dst
    BY <1>1
  <2> HIDE DEF irs
  <2>2. irs[j] \in Instructions(Len(vregs))
    BY ONLY <2>1
  <2> QED
    BY <2>1, <2>2, InstructionIs
<1> DEFINE p == Homes(vregs)[d]
           q == Registers[d]
<1>3. \/ Fixed(p) /\ q = p /\ \A v \in 1 .. Len(vregs) : Free(vregs, v) => v # d
      \/ d \in 1 .. Len(vregs) /\ Free(vregs, d) /\ p = Slot(d) /\ ~ Fixed(q) /\ \A w : q # Slot(w)
  <2>1. CASE d = 0 \/ (d \in 1 .. Len(vregs) /\ "VRF_CONST" \in vregs[d].flag)
    BY <1>2, <2>1, PlacesAre DEF Free
  <2>2. CASE d \in 1 .. Len(vregs) /\ Free(vregs, d)
    BY <1>2, <2>2, PlacesAre
  <2>3. d = 0 \/ d \in 1 .. Len(vregs)
    BY <1>1, <1>2
  <2> QED
    BY <2>1, <2>2, <2>3 DEF Free
<1> HIDE DEF p, q
<1>4. /\ \A r : ValueAt(s2.mem, r) =
                  IF r[1] = "none" \/ r[1] = "const" \/ r # p THEN ValueAt(s.mem, r) ELSE x
      /\ \A r : ValueAt(t2.mem, r) =
                  IF r[1] = "none" \/ r[1] = "const" \/ r # q THEN ValueAt(t.mem, r) ELSE x
  BY ValueStored DEF p, q
<1>5. SameFrame(s2, t2)
  <2> SUFFICES ASSUME NEW v \in 1 .. Len(vregs), InFrame(vregs, v)
               PROVE  ValueAt(s2.mem, Slot(v)) = ValueAt(t2.mem, Slot(v))
    BY DEF SameFrame
  <2>1. ValueAt(s.mem, Slot(v)) = ValueAt(t.mem, Slot(v))
    BY DEF SameAt, SameFrame
  <2>2. ~ Fixed(Slot(v)) /\ (\A w : Slot(v) = Slot(w) => v = w)
    BY SlotsDiffer
  <2>3. Slot(v) # p
    BY <1>3, <2>2 DEF Free, InFrame
  <2>4. Slot(v) # q
    BY <1>3, <2>2, <2>3
  <2> QED
    BY <1>4, <2>1, <2>3, <2>4
<1>6. SameLive(bbs[b], j + 1, s2, t2)
  <2> SUFFICES ASSUME NEW v \in 1 .. Len(vregs), Free(vregs, v), LiveAt(bbs[b], j + 1, v)
               PROVE  ValueAt(s2.mem, Slot(v)) = ValueAt(t2.mem, Registers[v])
    BY DEF SameLive
  <2>0. v \in 0 .. Len(vregs)
    BY <1>1
  <2>1. ~ Fixed(Slot(v)) /\ (\A w : Slot(v) = Slot(w) => v = w)
    BY SlotsDiffer
  <2>2. ~ Fixed(Registers[v])
    BY <2>0, PlacesAre
  <2>3. CASE v = d
    <3>1. p = Slot(v) /\ q = Registers[v]
      BY <1>3, <2>3 DEF q
    <3> QED
      BY <1>4, <2>1, <2>2, <3>1 DEF Fixed
  <2>4. CASE v # d
    <3>1. LiveAt(bbs[b], j, v)
      BY <1>1, <2>4, LiveBefore
    <3>2. ValueAt(s.mem, Slot(v)) = ValueAt(t.mem, Registers[v])
      BY <3>1 DEF SameAt, SameLive
    <3>3. Slot(v) # p
      BY <1>3, <2>1, <2>4
    <3>4. Registers[v] # q
      <4>1. CASE Fixed(q)
        BY <2>2, <4>1
      <4>2. CASE d \in 1 .. Len(vregs) /\ Free(vregs, d)
        BY <2>4, <4>2, ApartBehind DEF q
      <4> QED
        BY <1>3, <4>1, <4>2
    <3> QED
      BY <1>4, <3>2, <3>3, <3>4
  <2> QED
    BY <2>3, <2>4
<1> QED
  BY <1>5, <1>6 DEF SameAt

(* One instruction keeps what the two runs agree on.                       *)
LEMMA ExecuteSame ==
  ASSUME Finished, ~ LateEntry, NEW b \in 1 .. Len(bbs), NEW j \in 1 .. Len(bbs[b].irs),
         NEW s, NEW t, SameAt(bbs[b], j, s, t)
  PROVE  SameAt(bbs[b], j + 1, Execute(s, bbs[b].irs[j], Homes(vregs)),
                               Execute(t, bbs[b].irs[j], Registers))
<1> DEFINE ir == bbs[b].irs[j]
           p == Execute(s, ir, Homes(vregs))
           q == Execute(t, ir, Registers)
           n0 == Len(prog.vregs)
           Ready(v) == v \in 1 .. Len(vregs) =>
                         "VRF_CONST" \in vregs[v].flag \/ "VRF_SPILLED" \notin vregs[v].flag
<1> SUFFICES SameAt(bbs[b], j + 1, p, q)
  OBVIOUS
<1>1. /\ Len(vregs) \in Nat /\ Len(bbs[b].irs) \in Nat /\ n0 \in Nat
      /\ bbs[b].irs \in Seq(Instructions(Len(vregs)))
      /\ Settled(ir, vregs) /\ LoadStore(ir, vregs, n0)
      /\ \A v \in n0 + 1 .. Len(vregs) : Free(vregs, v)
  BY AtTheEnd, BlocksAre DEF AllSettled, Code, LoadsStores, RegsKept
<1>2. ir \in Instructions(Len(vregs))
  BY <1>1
<1>3. /\ ir.dst \in 0 .. Len(vregs) /\ ir.opr1 \in 0 .. Len(vregs) /\ ir.opr2 \in 0 .. Len(vregs)
      /\ ir.kind \in {"OP", "OFS", "LOAD_SPILLED", "STORE_SPILLED"}
  BY <1>2, InstructionIs
<1>4. \A v \in 0 .. Len(vregs) : Reads(ir, v) /\ Ready(v) =>
        ValueAt(s.mem, Homes(vregs)[v]) = ValueAt(t.mem, Registers[v])
  BY OperandSame
<1>5. \A v : InFrame(vregs, v) /\ v \in 1 .. Len(vregs) => ValueAt(s.mem, Slot(v)) = ValueAt(t.mem, Slot(v))
  BY DEF SameAt, SameFrame
<1>6. s.log = t.log
  BY DEF SameAt
<1>7. ASSUME ir.kind \in {"OP", "OFS"}, NEW x, p.log = q.log,
             p.mem = Stored(s.mem, Homes(vregs)[ir.dst], x), q.mem = Stored(t.mem, Registers[ir.dst], x)
      PROVE  SameAt(bbs[b], j + 1, p, q)
  <2>1. TakesRegister(ir, "dst")
    BY <1>7 DEF TakesRegister
  <2>2. Ready(ir.dst)
    BY <1>1, <2>1 DEF Settled
  <2> DEFINE d == ir.dst
  <2>3. d = bbs[b].irs[j].dst
    OBVIOUS
  <2> HIDE DEF p, q, d
  <2> QED
    BY <1>7, <2>2, <2>3, WriteSame DEF d
<1>8. CASE ir.kind = "OP"
  <2>1. Ready(ir.opr1) /\ Ready(ir.opr2)
    <3>1. TakesRegister(ir, "opr1") /\ TakesRegister(ir, "opr2")
      BY <1>8 DEF TakesRegister
    <3> QED
      BY <1>1, <3>1 DEF Settled
  <2>2. /\ ValueAt(s.mem, Homes(vregs)[ir.opr1]) = ValueAt(t.mem, Registers[ir.opr1])
        /\ ValueAt(s.mem, Homes(vregs)[ir.opr2]) = ValueAt(t.mem, Registers[ir.opr2])
    BY <1>3, <1>4, <2>1 DEF Reads
  <2> HIDE DEF ir
  <2>3. /\ p.mem = Stored(s.mem, Homes(vregs)[ir.dst], Len(s.log) + 1)
        /\ p.log = Append(s.log, <<ValueAt(s.mem, Homes(vregs)[ir.opr1]),
                                   ValueAt(s.mem, Homes(vregs)[ir.opr2])>>)
        /\ q.mem = Stored(t.mem, Registers[ir.dst], Len(t.log) + 1)
        /\ q.log = Append(t.log, <<ValueAt(t.mem, Registers[ir.opr1]),
                                   ValueAt(t.mem, Registers[ir.opr2])>>)
    BY <1>8, ExecuteIs
  <2> HIDE DEF p, q
  <2>4. p.log = q.log
    BY ONLY <1>6, <2>2, <2>3
  <2> DEFINE x == Len(s.log) + 1
  <2>5. p.mem = Stored(s.mem, Homes(vregs)[ir.dst], x) /\ q.mem = Stored(t.mem, Registers[ir.dst], x)
    BY <1>6, <2>3
  <2> HIDE DEF x
  <2> QED
    BY <1>7, <1>8, <2>4, <2>5
<1>9. CASE ir.kind = "OFS"
  <2> HIDE DEF ir
  <2>1. /\ p.mem = Stored(s.mem, Homes(vregs)[ir.dst], Len(s.log) + 1)
        /\ p.log = Append(s.log, <<>>)
        /\ q.mem = Stored(t.mem, Registers[ir.dst], Len(t.log) + 1)
        /\ q.log = Append(t.log, <<>>)
    BY <1>9, ExecuteIs
  <2> HIDE DEF p, q
  <2>2. p.log = q.log
    BY ONLY <1>6, <2>1
  <2> DEFINE x == Len(s.log) + 1
  <2>3. p.mem = Stored(s.mem, Homes(vregs)[ir.dst], x) /\ q.mem = Stored(t.mem, Registers[ir.dst], x)
    BY <1>6, <2>1
  <2> HIDE DEF x
  <2> QED
    BY <1>7, <1>9, <2>2, <2>3
<1>10. CASE ir.kind = "LOAD_SPILLED"
  <2>1. /\ ir.dst \in n0 + 1 .. Len(vregs) /\ ir.opr1 \in 1 .. n0 /\ InFrame(vregs, ir.opr1)
    BY <1>1, <1>10 DEF LoadStore
  <2>2. ir.opr1 \in 1 .. Len(vregs) /\ Free(vregs, ir.dst)
    BY <1>1, <1>3, <2>1
  <2> DEFINE x == ValueAt(s.mem, Slot(ir.opr1))
             d == ir.dst
  <2>3. x = ValueAt(t.mem, Slot(ir.opr1))
    BY <1>5, <2>1, <2>2
  <2>4. /\ p.mem = Stored(s.mem, Homes(vregs)[d], ValueAt(s.mem, Slot(ir.opr1))) /\ p.log = s.log
        /\ q.mem = Stored(t.mem, Registers[d], ValueAt(t.mem, Slot(ir.opr1))) /\ q.log = t.log
    BY <1>10, ExecuteIs
  <2>5. d = bbs[b].irs[j].dst /\ Ready(d)
    BY <2>2 DEF Free
  <2>6. p.log = q.log /\ p.mem = Stored(s.mem, Homes(vregs)[d], x) /\ q.mem = Stored(t.mem, Registers[d], x)
    BY <1>6, <2>3, <2>4
  <2> HIDE DEF p, q, d, x
  <2> QED
    BY <2>5, <2>6, WriteSame
<1>11. CASE ir.kind = "STORE_SPILLED"
  <2>1. /\ ir.opr1 \in n0 + 1 .. Len(vregs) /\ ir.opr2 \in 1 .. n0 /\ InFrame(vregs, ir.opr2)
        /\ ir.dst = 0
    BY <1>1, <1>11 DEF LoadStore
  <2>2. Ready(ir.opr1) /\ Reads(ir, ir.opr1)
    BY <1>1, <2>1 DEF Free, Reads
  <2> DEFINE x == ValueAt(s.mem, Homes(vregs)[ir.opr1])
             r == Slot(ir.opr2)
  <2>3. x = ValueAt(t.mem, Registers[ir.opr1])
    BY <1>3, <1>4, <2>2
  <2>4. /\ p.mem = Stored(s.mem, r, x) /\ p.log = s.log
        /\ q.mem = Stored(t.mem, r, x) /\ q.log = t.log
    BY <1>11, <2>3, ExecuteIs
  <2> HIDE DEF p, q, x
  <2>5. \A m, y : ValueAt(Stored(m, r, x), y) =
                    IF y[1] = "none" \/ y[1] = "const" \/ y # r THEN ValueAt(m, y) ELSE x
    BY ValueStored
  <2>6. SameFrame(p, q)
    BY <1>5, <2>4, <2>5 DEF SameFrame
  <2>7. SameLive(bbs[b], j + 1, p, q)
    <3> SUFFICES ASSUME NEW v \in 1 .. Len(vregs), Free(vregs, v), LiveAt(bbs[b], j + 1, v)
                 PROVE  ValueAt(p.mem, Slot(v)) = ValueAt(q.mem, Registers[v])
      BY DEF SameLive
    <3>1. LiveAt(bbs[b], j, v)
      <4>1. bbs[b].irs[j].dst # v
        BY <2>1
      <4> QED
        BY <1>1, <4>1, LiveBefore
    <3>2. ValueAt(s.mem, Slot(v)) = ValueAt(t.mem, Registers[v])
      BY <3>1 DEF SameAt, SameLive
    <3>3. v \in 0 .. Len(vregs)
      BY <1>1
    <3>4. Registers[v] # r
      BY <3>3, PlacesAre
    <3>5. Slot(v) # r
      BY <2>1, SlotsDiffer DEF Free, InFrame
    <3> QED
      BY <2>4, <2>5, <3>2, <3>4, <3>5
  <2> QED
    BY <1>6, <2>4, <2>6, <2>7 DEF SameAt
<1> QED
  BY <1>3, <1>8, <1>9, <1>10, <1>11

(* And so does a block: what the next block receives is the same behind it *)
LEMMA BlockSame ==
  ASSUME Finished, ~ LateEntry, NEW b \in 1 .. Len(bbs),
         NEW s, NEW t, SameAt(bbs[b], 1, s, t)
  PROVE  SameAt(bbs[b], Len(bbs[b].irs) + 1, RunBlock(bbs[b].irs, s, Homes(vregs)),
                                             RunBlock(bbs[b].irs, t, Registers))
<1> DEFINE irs == bbs[b].irs
           l == Len(irs)
           f == Within(irs, s, Homes(vregs))
           g == Within(irs, t, Registers)
           T == {j \in 0 .. l : SameAt(bbs[b], j + 1, f[j], g[j])}
<1>1. l \in Nat
  BY AtTheEnd, BlocksAre
<1>2. /\ f[0] = s /\ \A j \in 1 .. l : f[j] = Execute(f[j - 1], irs[j], Homes(vregs))
      /\ g[0] = t /\ \A j \in 1 .. l : g[j] = Execute(g[j - 1], irs[j], Registers)
  BY <1>1, WithinIs
<1> HIDE DEF f, g
<1>3. 0 \in T
  BY <1>1, <1>2
<1>4. ASSUME NEW j \in 1 .. l, j - 1 \in T PROVE j \in T
  <2>1. j - 1 + 1 = j /\ j \in 0 .. l
    BY <1>1
  <2>2. SameAt(bbs[b], j - 1 + 1, f[j - 1], g[j - 1])
    BY <1>4
  <2>3. SameAt(bbs[b], j, f[j - 1], g[j - 1])
    BY <2>1, <2>2
  <2>4. SameAt(bbs[b], j + 1, Execute(f[j - 1], irs[j], Homes(vregs)), Execute(g[j - 1], irs[j], Registers))
    BY <2>3, ExecuteSame
  <2> QED
    BY <1>2, <2>1, <2>4
<1> HIDE DEF T
<1>5. 0 .. l \subseteq T
  BY <1>1, <1>3, <1>4, UpTo
<1>6. l \in T
  BY <1>1, <1>5
<1> QED
  BY <1>6 DEF T, RunBlock, f, g

(* The next block of a path receives no more than was passed on to it, and *)
(* the first one only what is in the frame.                                *)
LEMMA NextReceives ==
  ASSUME Finished, NEW k \in 1 .. Len(prog.path) - 1
  PROVE  bbs[prog.path[k + 1]].in_regs \subseteq bbs[prog.path[k]].out_regs
<1>1. IsPath(prog.path, prog.bbs, prog.vregs) /\ prog.path \in Seq(DOMAIN prog.bbs)
  BY ProgramsAssumption DEF Finished, RunInv, IsProgram, IsPath
<1>2. BlocksKept(bbs, prog.bbs) /\ DOMAIN prog.bbs = 1 .. Len(prog.bbs)
  <2>1. prog.bbs \in Seq(Blocks(Len(prog.vregs)))
    BY ProgramsAssumption DEF Finished, RunInv, IsProgram
  <2> QED
    BY <2>1, AtTheEnd DEF Code
<1>3. k + 1 \in 1 .. Len(prog.path) /\ k \in 1 .. Len(prog.path)
  BY <1>1
<1>4. prog.path[k + 1] \in 1 .. Len(prog.bbs) /\ prog.path[k] \in 1 .. Len(prog.bbs)
  BY <1>1, <1>2, <1>3
<1>5. prog.bbs[prog.path[k + 1]].in_regs \subseteq prog.bbs[prog.path[k]].out_regs
  BY <1>1 DEF IsPath
<1> QED
  BY <1>2, <1>4, <1>5 DEF BlocksKept

(* What the first block receives are parameters, and these are in the      *)
(* frame here: none of them has a physical register.                       *)
LEMMA FirstReceives ==
  ASSUME Finished, prog.path # <<>>, NEW v \in bbs[prog.path[1]].in_regs
  PROVE  ~ Free(vregs, v)
<1>1. IsPath(prog.path, prog.bbs, prog.vregs) /\ prog.path \in Seq(DOMAIN prog.bbs)
  BY ProgramsAssumption DEF Finished, RunInv, IsProgram, IsPath
<1>2. Typed(prog.bbs, prog.vregs) /\ DOMAIN prog.bbs = 1 .. Len(prog.bbs)
  BY ProgramsAssumption DEF Finished, RunInv, IsProgram, Typed
<1>3. /\ BlocksKept(bbs, prog.bbs) /\ RegsKept(vregs, prog.vregs) /\ ParamsSpilled
      /\ Len(prog.vregs) \in Nat /\ Len(vregs) \in Nat
  BY AtTheEnd DEF Code
<1>4. prog.path[1] \in 1 .. Len(prog.bbs)
  BY <1>1, <1>2
<1>5. v \in prog.bbs[prog.path[1]].in_regs
  BY <1>3, <1>4 DEF BlocksKept
<1>6. v \in 1 .. Len(prog.vregs)
  BY <1>2, <1>4, <1>5, TypedIs
<1>7. prog.vregs[v].param \/ prog.vregs[v].flag \cap {"VRF_SPILLED", "VRF_CONST"} # {}
  BY <1>1, <1>5 DEF IsPath
<1>8. v \in 1 .. Len(vregs)
  BY <1>3, <1>6 DEF RegsKept
<1> QED
  BY <1>3, <1>6, <1>7, <1>8 DEF RegsKept, ParamsSpilled, Free

(* Along the whole path.                                                   *)
LEMMA RunSame ==
  ASSUME Finished, ~ LateEntry
  PROVE  Run(prog.path, bbs, Homes(vregs)) = Run(prog.path, bbs, Registers)
<1> DEFINE l == Len(prog.path)
           f == Along(prog.path, bbs, Homes(vregs))
           g == Along(prog.path, bbs, Registers)
           Agrees(k) == /\ f[k].log = g[k].log /\ SameFrame(f[k], g[k])
                        /\ k < l => SameLive(bbs[prog.path[k + 1]], 1, f[k], g[k])
           T == {k \in 0 .. l : Agrees(k)}
<1>1. l \in Nat /\ \A k \in 1 .. l : prog.path[k] \in 1 .. Len(bbs)
  <2>1. prog.path \in Seq(DOMAIN prog.bbs) /\ prog.bbs \in Seq(Blocks(Len(prog.vregs)))
    BY ProgramsAssumption DEF Finished, RunInv, IsProgram, IsPath
  <2>2. Len(prog.bbs) = Len(bbs)
    BY AtTheEnd DEF Code, BlocksKept
  <2> QED
    BY <2>1, <2>2
<1>2. /\ f[0] = Nothing
      /\ \A k \in 1 .. l : f[k] = RunBlock(bbs[prog.path[k]].irs, f[k - 1], Homes(vregs))
      /\ g[0] = Nothing
      /\ \A k \in 1 .. l : g[k] = RunBlock(bbs[prog.path[k]].irs, g[k - 1], Registers)
  BY <1>1, AlongIs
<1> HIDE DEF f, g
<1>3. 0 \in T
  <2>1. f[0].log = g[0].log /\ SameFrame(f[0], g[0])
    BY <1>2 DEF SameFrame
  <2>2. ASSUME 0 < l PROVE SameLive(bbs[prog.path[0 + 1]], 1, f[0], g[0])
    <3>1. prog.path[1] \in 1 .. Len(bbs) /\ prog.path # <<>>
      BY <1>1, <2>2
    <3>2. \A v \in 1 .. Len(vregs) : Free(vregs, v) => ~ LiveAt(bbs[prog.path[1]], 1, v)
      BY <3>1, LiveAtStart, FirstReceives
    <3> QED
      BY <3>2 DEF SameLive
  <2> QED
    BY <1>1, <2>1, <2>2
<1>4. ASSUME NEW k \in 1 .. l, k - 1 \in T PROVE k \in T
  <2> DEFINE b == prog.path[k]
  <2>1. k - 1 < l /\ k - 1 + 1 = k /\ k \in 0 .. l /\ b \in 1 .. Len(bbs)
    BY <1>1
  <2>2. SameAt(bbs[b], 1, f[k - 1], g[k - 1])
    BY <1>4, <2>1 DEF SameAt
  <2> HIDE DEF b
  <2>3. SameAt(bbs[b], Len(bbs[b].irs) + 1, RunBlock(bbs[b].irs, f[k - 1], Homes(vregs)),
                                            RunBlock(bbs[b].irs, g[k - 1], Registers))
    BY <2>1, <2>2, BlockSame
  <2>4. SameAt(bbs[b], Len(bbs[b].irs) + 1, f[k], g[k])
    BY <1>2, <2>3 DEF b
  <2>5. ASSUME k < l PROVE SameLive(bbs[prog.path[k + 1]], 1, f[k], g[k])
    <3> SUFFICES ASSUME NEW v \in 1 .. Len(vregs), Free(vregs, v), LiveAt(bbs[prog.path[k + 1]], 1, v)
                 PROVE  ValueAt(f[k].mem, Slot(v)) = ValueAt(g[k].mem, Registers[v])
      BY DEF SameLive
    <3>1. k + 1 \in 1 .. l /\ k \in 1 .. l - 1
      BY <1>1, <2>5
    <3>2. prog.path[k + 1] \in 1 .. Len(bbs)
      BY <1>1, <3>1
    <3>3. v \in bbs[prog.path[k + 1]].in_regs
      BY <3>2, LiveAtStart
    <3>4. v \in bbs[b].out_regs
      BY <3>1, <3>3, NextReceives DEF b
    <3>5. LiveAt(bbs[b], Len(bbs[b].irs) + 1, v)
      BY <2>1, <3>4, AtTheEnd, BlocksAre, PassedIsLive
    <3> QED
      BY <2>4, <3>5 DEF SameAt, SameLive
  <2> QED
    BY <2>1, <2>4, <2>5 DEF SameAt
<1> HIDE DEF T
<1>5. 0 .. l \subseteq T
  BY <1>1, <1>3, <1>4, UpTo
<1>6. l \in T
  BY <1>1, <1>5
<1> QED
  BY <1>6 DEF T, Run, f, g

(* The allocated code computes what the program did (regalloc.c:307-368),  *)
(* whatever the program, unless a block begins as LateEntry says.          *)
THEOREM RoundsCodePreserved ==
  ASSUME EnoughRegisters
  PROVE  RaSpec => [](~ LateEntry => CodePreserved)
<1>1. RaInv /\ RunInv => (~ LateEntry => CodePreserved)
  <2> SUFFICES ASSUME RaInv, RunInv, ~ LateEntry, phase = "done"
               PROVE  RunAllocated = RunOriginal
    BY DEF CodePreserved
  <2>1. Run(prog.path, bbs, Homes(vregs)) = Run(prog.path, bbs, Registers)
    BY RunSame DEF Finished
  <2>2. Run(prog.path, bbs, Homes(vregs)) = RunOriginal
    BY DEF RunInv, SameRun
  <2> QED
    BY <2>1, <2>2 DEF RunAllocated
<1>2. RaSpec => []RaInv /\ []RunInv
  BY RoundsRaInv, RoundsRunInv
<1> QED
  BY <1>1, <1>2, PTL
=============================================================================
