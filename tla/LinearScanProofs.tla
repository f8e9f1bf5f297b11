-------------------------- MODULE LinearScanProofs --------------------------
(***************************************************************************)
(* Proofs about the linear scan, for any number of registers and any       *)
(* sequence of live intervals.                                             *)
(***************************************************************************)
EXTENDS LinearScan, FiniteSetTheorems, WellFoundedInduction, TLAPS

(***************************************************************************)
(* The inductive invariant. The active array and using_bits describe the   *)
(* same registers, and an interval that holds a register without being     *)
(* active ended before every interval the scan has not reached yet.        *)
(***************************************************************************)
IsActive(a, c) == \E k \in 0 .. count[c] - 1 : active[c][k] = a

ActiveHolds ==
  \A c \in Class : \A k \in 0 .. count[c] - 1 :
    /\ active[c][k] \in 1 .. i - 1
    /\ iv[active[c][k]].cls = c
    /\ state[active[c][k]] = "LI_NORMAL"

ActiveInjective ==
  \A c \in Class : \A k, l \in 0 .. count[c] - 1 :
    k # l => phys[active[c][k]] # phys[active[c][l]]

UsingIsActive ==
  \A c \in Class : using[c] = {phys[active[c][k]] : k \in 0 .. count[c] - 1}

InactiveEnded ==
  \A a \in 1 .. N : InRegister(a) =>
    \/ IsActive(a, iv[a].cls)
    \/ \A b \in i .. N : iv[a].end <= iv[b].start

(* Whatever set the intervals come from.                                   *)
TypeInv ==
  /\ N \in Nat
  /\ \A a \in 1 .. N : IsInterval(iv[a])
  /\ ScanTypes

IInv ==
  /\ TypeInv
  /\ Sorted(iv)
  /\ ActiveHolds
  /\ ActiveInjective
  /\ UsingIsActive
  /\ InactiveEnded
  /\ UsedCoversAssigned
  /\ NoClash

----------------------------------------------------------------------------
(***************************************************************************)
(* The helpers.                                                            *)
(***************************************************************************)

(* A nonempty set of natural numbers has a least element, and Least finds  *)
(* it: the for loops of the scan stop at a definite index.                 *)
LEMMA LeastIsLeast ==
  ASSUME NEW S \in SUBSET Nat, S # {}
  PROVE  IsLeast(Least(S), S)
<1> DEFINE R == OpToRel(<, Nat)
<1>1. IsWellFoundedOn(R, Nat)
  BY NatLessThanWellFounded
<1>2. PICK x \in S : \A y \in S : ~ (<<y, x>> \in R)
  <2> HIDE DEF R
  <2> QED BY <1>1, WFMin
<1>3. ASSUME NEW y \in S PROVE x <= y
  <2>1. R = {p \in Nat \X Nat : p[1] < p[2]}
    BY DEF OpToRel
  <2> HIDE DEF R
  <2>2. <<y, x>> \in R <=> y < x
    BY <2>1
  <2> QED BY <1>2, <2>2
<1>4. IsLeast(x, S)
  BY <1>3 DEF IsLeast
<1> QED
  BY <1>4 DEF Least

(* The order of sort_live_interval is an order by start.                   *)
LEMMA StartsAscend ==
  ASSUME TypeInv, Sorted(iv),
         NEW a \in 1 .. N, NEW b \in 1 .. N, a < b
  PROVE  iv[a].start <= iv[b].start
<1>1. SortedBefore(iv[a], iv[b])
  BY DEF Sorted, N
<1>2. iv[a].start \in Int /\ iv[b].start \in Int
  BY DEF TypeInv, IsInterval
<1> QED BY <1>1, <1>2 DEF SortedBefore

(* expire_old_intervals stops at the first interval that is still live.    *)
LEMMA ExpireCountStops ==
  ASSUME NEW act, NEW n \in Nat, NEW start,
         NEW m, m = ExpireCount(act, n, start)
  PROVE  /\ m \in 0 .. n
         /\ \A k \in 0 .. m - 1 : ~ (iv[act[k]].end > start)
         /\ m < n => iv[act[m]].end > start
<1> DEFINE S == {n} \cup {k \in 0 .. n - 1 : iv[act[k]].end > start}
<1>1. S \in SUBSET Nat /\ S # {}
  OBVIOUS
<1>2. IsLeast(m, S)
  BY <1>1, LeastIsLeast DEF ExpireCount
<1> QED
  BY <1>2 DEF IsLeast

(* insert_active keeps the order of the array and adds li at one place.    *)
LEMMA InsertActive ==
  ASSUME NEW c \in Class, NEW act \in [Regs(c) -> 0 .. N], NEW n \in Nat,
         n < PhysMax[c], PhysMax[c] \in Nat,
         NEW li \in 1 .. N,
         NEW j, j = InsertPlace(act, n, li),
         NEW r, r = insert_active(act, n, li)
  PROVE  /\ j \in 0 .. n
         /\ \A k \in 0 .. j - 1 : ~ (iv[li].end < iv[act[k]].end)
         /\ j < n => iv[li].end < iv[act[j]].end
         /\ r \in [Regs(c) -> 0 .. N]
         /\ r[j] = li
         /\ \A k \in 0 .. j - 1 : r[k] = act[k]
         /\ \A k \in j + 1 .. n : r[k] = act[k - 1]
<1> DEFINE S == {n} \cup {k \in 0 .. n - 1 : iv[li].end < iv[act[k]].end}
<1>1. S \in SUBSET Nat /\ S # {}
  OBVIOUS
<1>2. IsLeast(j, S)
  BY <1>1, LeastIsLeast DEF InsertPlace
<1>3. /\ j \in 0 .. n
      /\ \A k \in 0 .. j - 1 : ~ (iv[li].end < iv[act[k]].end)
      /\ j < n => iv[li].end < iv[act[j]].end
  BY <1>2 DEF IsLeast
<1>4. r = [k \in Regs(c) |-> IF k = j THEN li
                             ELSE IF k \in j + 1 .. n THEN act[k - 1]
                             ELSE act[k]]
  BY DEF insert_active
<1>5. \A k \in 0 .. n : k \in Regs(c)
  BY DEF Regs
<1>6. \A k \in j + 1 .. n : k - 1 \in Regs(c)
  BY <1>3 DEF Regs
<1>7. N \in Nat => r \in [Regs(c) -> 0 .. N]
  BY <1>3, <1>4, <1>6
<1>8. N \in Nat
  BY DEF N
<1> QED
  BY <1>3, <1>4, <1>5, <1>7, <1>8

(* The facts the loop body relies on after expire_old_intervals: what is   *)
(* left in the array e of class c still describes the registers u, and     *)
(* every interval that dropped out ended before iv[i] starts.              *)
Expired(c, e, n, u) ==
  /\ n \in 0 .. count[c]
  /\ e \in [Regs(c) -> 0 .. N]
  /\ \A k \in 0 .. n - 1 : /\ e[k] \in 1 .. i - 1
                           /\ iv[e[k]].cls = c
                           /\ state[e[k]] = "LI_NORMAL"
                           /\ phys[e[k]] \in Regs(c)
  /\ \A k, l \in 0 .. n - 1 : k # l => phys[e[k]] # phys[e[l]]
  /\ u = {phys[e[k]] : k \in 0 .. n - 1}
  /\ \A a \in 1 .. N : InRegister(a) /\ iv[a].cls = c =>
       \/ \E k \in 0 .. n - 1 : e[k] = a
       \/ iv[a].end <= iv[i].start

(* expire_old_intervals leaves the active list in order and drops only     *)
(* what has ended.                                                         *)
LEMMA ExpireKeeps ==
  ASSUME IInv, i \in 1 .. N, NEW c \in Class
  PROVE  Expired(c, ExpiredActive(c, i), ExpiredCount(c, i), ExpiredUsing(c, i))
<1> DEFINE m == ExpireCount(active[c], count[c], iv[i].start)
           e == ExpiredActive(c, i)
           n == ExpiredCount(c, i)
           u == ExpiredUsing(c, i)
<1>1. /\ count[c] \in Nat
      /\ count[c] <= PhysMax[c]
      /\ PhysMax[c] \in Nat
      /\ active[c] \in [Regs(c) -> 0 .. N]
      /\ N \in Nat
  BY PhysMaxAssumption DEF IInv, TypeInv, ScanTypes, N
<1>2. /\ m \in 0 .. count[c]
      /\ \A k \in 0 .. m - 1 : ~ (iv[active[c][k]].end > iv[i].start)
  BY <1>1, ExpireCountStops
<1>3. n = count[c] - m
  BY DEF ExpiredCount
<1>4. e = [k \in Regs(c) |-> IF k \in 0 .. n - 1 THEN active[c][k + m] ELSE active[c][k]]
  BY <1>1, <1>3 DEF ExpiredActive, remove_active
<1>5. u = using[c] \ {phys[active[c][k]] : k \in 0 .. m - 1}
  BY DEF ExpiredUsing
<1> HIDE DEF m, e, n, u
<1>6. n \in 0 .. count[c]
  BY <1>1, <1>2, <1>3
<1>7. \A k \in 0 .. n - 1 : /\ k \in Regs(c)
                           /\ k + m \in 0 .. count[c] - 1
                           /\ k + m \in Regs(c)
                           /\ e[k] = active[c][k + m]
  BY <1>1, <1>2, <1>3, <1>4 DEF Regs
<1>8. e \in [Regs(c) -> 0 .. N]
  BY <1>1, <1>4, <1>7
<1>9. ASSUME NEW k \in 0 .. n - 1
      PROVE  /\ e[k] \in 1 .. i - 1
             /\ iv[e[k]].cls = c
             /\ state[e[k]] = "LI_NORMAL"
             /\ phys[e[k]] \in Regs(c)
  <2>1. /\ e[k] \in 1 .. i - 1
        /\ iv[e[k]].cls = c
        /\ state[e[k]] = "LI_NORMAL"
    BY <1>7 DEF IInv, ActiveHolds
  <2>2. e[k] \in 1 .. N /\ InRegister(e[k])
    BY <2>1, <1>1 DEF InRegister
  <2> QED BY <2>1, <2>2 DEF IInv, UsedCoversAssigned
<1>10. \A k, l \in 0 .. n - 1 : k # l => phys[e[k]] # phys[e[l]]
  <2> SUFFICES ASSUME NEW k \in 0 .. n - 1, NEW l \in 0 .. n - 1, k # l
               PROVE  phys[e[k]] # phys[e[l]]
    OBVIOUS
  <2>1. k + m # l + m
    BY <1>2, <1>6, <1>1
  <2> QED BY <2>1, <1>7 DEF IInv, ActiveInjective
<1>11. u = {phys[e[k]] : k \in 0 .. n - 1}
  <2>1. using[c] = {phys[active[c][k]] : k \in 0 .. count[c] - 1}
    BY DEF IInv, UsingIsActive
  <2>2. ASSUME NEW r \in u PROVE \E k \in 0 .. n - 1 : r = phys[e[k]]
    <3>1. PICK l \in 0 .. count[c] - 1 : r = phys[active[c][l]]
      BY <1>5, <2>1
    <3>2. ~ (l \in 0 .. m - 1)
      BY <3>1, <1>5
    <3>3. l - m \in 0 .. n - 1 /\ (l - m) + m = l
      BY <3>2, <1>1, <1>2, <1>3
    <3> QED BY <3>1, <3>3, <1>7
  <2>3. ASSUME NEW k \in 0 .. n - 1 PROVE phys[e[k]] \in u
    <3>1. phys[e[k]] \in using[c]
      BY <2>1, <1>7
    <3>2. \A l \in 0 .. m - 1 : l \in 0 .. count[c] - 1 /\ l # k + m
      BY <1>1, <1>2
    <3>3. \A l \in 0 .. m - 1 : phys[active[c][l]] # phys[active[c][k + m]]
      BY <3>2, <1>7 DEF IInv, ActiveInjective
    <3> QED BY <3>1, <3>3, <1>5, <1>7
  <2> QED BY <2>2, <2>3
<1>12. ASSUME NEW a \in 1 .. N, InRegister(a), iv[a].cls = c
       PROVE  \/ \E k \in 0 .. n - 1 : e[k] = a
              \/ iv[a].end <= iv[i].start
  <2>1. CASE \A b \in i .. N : iv[a].end <= iv[b].start
    BY <2>1
  <2>2. CASE IsActive(a, c)
    <3>1. PICK l \in 0 .. count[c] - 1 : active[c][l] = a
      BY <2>2 DEF IsActive
    <3>2. CASE l \in 0 .. m - 1
      <4>1. ~ (iv[a].end > iv[i].start)
        BY <3>1, <3>2, <1>2
      <4>2. iv[a].end \in Int /\ iv[i].start \in Int
        BY DEF IInv, TypeInv, ScanTypes, N, IsInterval
      <4> QED BY <4>1, <4>2
    <3>3. CASE ~ (l \in 0 .. m - 1)
      <4>1. l - m \in 0 .. n - 1 /\ (l - m) + m = l
        BY <3>3, <1>1, <1>2, <1>3
      <4> QED BY <4>1, <3>1, <1>7
    <3> QED BY <3>2, <3>3
  <2> QED BY <1>12, <2>1, <2>2 DEF IInv, InactiveEnded
<1>13. Expired(c, e, n, u)
  BY <1>6, <1>8, <1>9, <1>10, <1>11, <1>12 DEF Expired
<1> QED BY <1>13 DEF e, n, u
----------------------------------------------------------------------------
(***************************************************************************)
(* An array act of class c that describes the registers use, when the      *)
(* intervals have the registers p and the states s and the scan has gone   *)
(* through the first `top' of them.                                        *)
(***************************************************************************)
Good(c, act, cnt, use, p, s, top) ==
  /\ cnt \in 0 .. PhysMax[c]
  /\ act \in [Regs(c) -> 0 .. N]
  /\ \A k \in 0 .. cnt - 1 : /\ act[k] \in 1 .. top
                             /\ iv[act[k]].cls = c
                             /\ s[act[k]] = "LI_NORMAL"
                             /\ p[act[k]] \in Regs(c)
  /\ \A k, l \in 0 .. cnt - 1 : k # l => p[act[k]] # p[act[l]]
  /\ use = {p[act[k]] : k \in 0 .. cnt - 1}

(* The first n + 1 elements of r are the first n of e and the new one.     *)
HoldsBoth(r, e, n) ==
  /\ \A k \in 0 .. n - 1 : \E l \in 0 .. n : r[l] = e[k]
  /\ \E l \in 0 .. n : r[l] = i

(* insert_active of an interval with a register that no other one has.     *)
LEMMA InsertKeepsGood ==
  ASSUME NEW c \in Class, NEW e, NEW n, NEW u, NEW p, NEW s,
         i \in 1 .. N,
         Good(c, e, n, u, p, s, i - 1),
         n < PhysMax[c],
         iv[i].cls = c, s[i] = "LI_NORMAL", p[i] \in Regs(c), p[i] \notin u,
         NEW r, r = insert_active(e, n, i)
  PROVE  /\ Good(c, r, n + 1, u \cup {p[i]}, p, s, i)
         /\ HoldsBoth(r, e, n)
<1> DEFINE j == InsertPlace(e, n, i)
<1>1. /\ PhysMax[c] \in Nat /\ n \in Nat /\ N \in Nat
      /\ e \in [Regs(c) -> 0 .. N]
  BY PhysMaxAssumption DEF Good, N
<1>2. /\ j \in 0 .. n
      /\ r \in [Regs(c) -> 0 .. N]
      /\ r[j] = i
      /\ \A k \in 0 .. j - 1 : r[k] = e[k]
      /\ \A k \in j + 1 .. n : r[k] = e[k - 1]
  BY <1>1, InsertActive, SMTT(40)
<1> HIDE DEF j
<1>3. ASSUME NEW k \in 0 .. n
      PROVE  \/ k = j /\ r[k] = i
             \/ k \in 0 .. j - 1 /\ k \in 0 .. n - 1 /\ r[k] = e[k]
             \/ k \in j + 1 .. n /\ k - 1 \in 0 .. n - 1 /\ r[k] = e[k - 1]
  BY <1>1, <1>2
<1>4. ASSUME NEW k \in 0 .. n
      PROVE  /\ r[k] \in 1 .. i
             /\ iv[r[k]].cls = c
             /\ s[r[k]] = "LI_NORMAL"
             /\ p[r[k]] \in Regs(c)
  <2>1. CASE r[k] = i
    BY <2>1
  <2>2. CASE \E l \in 0 .. n - 1 : r[k] = e[l]
    BY <2>2 DEF Good
  <2> QED BY <2>1, <2>2, <1>3
<1>5. \A k \in 0 .. n - 1 : p[e[k]] # p[i]
  BY DEF Good
<1>6. \A k, l \in 0 .. n : k < l => p[r[k]] # p[r[l]]
  <2> SUFFICES ASSUME NEW k \in 0 .. n, NEW l \in 0 .. n, k < l
               PROVE  p[r[k]] # p[r[l]]
    OBVIOUS
  <2>1. CASE k = j
    <3>1. r[k] = i /\ l - 1 \in 0 .. n - 1 /\ r[l] = e[l - 1]
      BY <2>1, <1>3, <1>2, <1>1
    <3> QED BY <3>1, <1>5
  <2>2. CASE l = j
    <3>1. r[l] = i /\ k \in 0 .. n - 1 /\ r[k] = e[k]
      BY <2>2, <1>3, <1>2, <1>1
    <3> QED BY <3>1, <1>5
  <2>3. CASE k # j /\ l # j
    <3>1. PICK k1 \in 0 .. n - 1 : r[k] = e[k1] /\ k1 = IF k < j THEN k ELSE k - 1
      BY <2>3, <1>3, <1>2, <1>1
    <3>2. PICK l1 \in 0 .. n - 1 : r[l] = e[l1] /\ l1 = IF l < j THEN l ELSE l - 1
      BY <2>3, <1>3, <1>2, <1>1
    <3>3. k1 # l1
      BY <3>1, <3>2, <2>3, <1>2, <1>1
    <3> QED BY <3>1, <3>2, <3>3 DEF Good
  <2> QED BY <2>1, <2>2, <2>3
<1>7. \A k, l \in 0 .. n : k # l => p[r[k]] # p[r[l]]
  <2> SUFFICES ASSUME NEW k \in 0 .. n, NEW l \in 0 .. n, k # l
               PROVE  p[r[k]] # p[r[l]]
    OBVIOUS
  <2>1. k < l \/ l < k
    BY <1>1
  <2> QED BY <2>1, <1>6
<1>8. ASSUME NEW k \in 0 .. n - 1 PROVE \E l \in 0 .. n : r[l] = e[k]
  <2>1. CASE k < j
    BY <2>1, <1>1, <1>2
  <2>2. CASE k >= j
    <3>1. k + 1 \in j + 1 .. n /\ k + 1 \in 0 .. n /\ (k + 1) - 1 = k
      BY <2>2, <1>1, <1>2
    <3> QED BY <3>1, <1>2
  <2> QED BY <2>1, <2>2, <1>2, <1>1
<1>9. j \in 0 .. n /\ r[j] = i
  BY <1>2
<1>10. u \cup {p[i]} = {p[r[k]] : k \in 0 .. n}
  <2>1. u = {p[e[k]] : k \in 0 .. n - 1}
    BY DEF Good
  <2>2. ASSUME NEW q \in u \cup {p[i]} PROVE \E l \in 0 .. n : q = p[r[l]]
    BY <2>1, <1>8, <1>9
  <2>3. ASSUME NEW k \in 0 .. n PROVE p[r[k]] \in u \cup {p[i]}
    BY <2>1, <1>3
  <2> QED BY <2>2, <2>3
<1>11. n + 1 \in 0 .. PhysMax[c] /\ (n + 1) - 1 = n
  BY <1>1
<1>12. Good(c, r, n + 1, u \cup {p[i]}, p, s, i)
  BY <1>2, <1>4, <1>7, <1>10, <1>11 DEF Good
<1> QED BY <1>8, <1>9, <1>12 DEF HoldsBoth

(* What a step of the scan has to establish for IInv to hold after it.     *)
LEMMA Assemble ==
  ASSUME IInv, i \in 1 .. N,
         iv' = iv, i' = i + 1,
         state' \in [1 .. N -> LiveIntervalState],
         phys' \in [1 .. N -> Int],
         DOMAIN active' = Class,
         count' \in [Class -> Nat],
         using' \in [Class -> SUBSET Nat],
         used' \in [Class -> SUBSET Nat],
         \A d \in Class : Good(d, active'[d], count'[d], using'[d], phys', state', i),
         \A d \in Class : used[d] \subseteq used'[d],
         \A a \in 1 .. i - 1 : state'[a] = "LI_NORMAL" =>
           state[a] = "LI_NORMAL" /\ phys'[a] = phys[a],
         \A a \in 1 .. i - 1 : state'[a] = "LI_NORMAL" =>
           \/ \E k \in 0 .. count'[iv[a].cls] - 1 : active'[iv[a].cls][k] = a
           \/ iv[a].end <= iv[i].start,
         state'[i] = "LI_NORMAL" =>
           /\ phys'[i] \in used'[iv[i].cls]
           /\ \E k \in 0 .. count'[iv[i].cls] - 1 : active'[iv[i].cls][k] = i
  PROVE  IInv'
<1>1. /\ N' = N /\ N \in Nat
      /\ Sorted(iv)
      /\ \A a \in 1 .. N : /\ iv[a].cls \in Class
                           /\ iv[a].start \in Int
                           /\ iv[a].end \in Int
  BY DEF N, IInv, TypeInv, ScanTypes, IsInterval
<1>2. TypeInv'
  <2>1. ASSUME NEW d \in Class
        PROVE  /\ active'[d] \in [Regs(d) -> 0 .. N]
               /\ count'[d] \in 0 .. PhysMax[d]
               /\ using'[d] \subseteq Regs(d)
    BY DEF Good
  <2>2. i' \in 1 .. N' + 1
    BY <1>1
  <2>3. \A a \in 1 .. N' : IsInterval(iv'[a])
    BY <1>1 DEF IInv, TypeInv
  <2> QED BY <1>1, <2>1, <2>2, <2>3 DEF TypeInv, ScanTypes
<1>3. Sorted(iv)'
  BY <1>1 DEF Sorted
<1>4. ActiveHolds' /\ ActiveInjective' /\ UsingIsActive'
  <2>1. 1 .. i' - 1 = 1 .. i
    BY <1>1
  <2> QED BY <2>1, <1>1 DEF Good, ActiveHolds, ActiveInjective, UsingIsActive
<1>5. InactiveEnded'
  <2> SUFFICES ASSUME NEW a \in 1 .. N, a < i + 1, state'[a] = "LI_NORMAL"
               PROVE  \/ \E k \in 0 .. count'[iv[a].cls] - 1 : active'[iv[a].cls][k] = a
                      \/ \A b \in i + 1 .. N : iv[a].end <= iv[b].start
    BY <1>1 DEF InactiveEnded, InRegister, IsActive
  <2>1. CASE a = i
    BY <2>1
  <2>2. CASE a # i
    <3>1. a \in 1 .. i - 1
      BY <2>2, <1>1
    <3>2. CASE iv[a].end <= iv[i].start
      <4>1. ASSUME NEW b \in i + 1 .. N PROVE iv[a].end <= iv[b].start
        <5>1. b \in 1 .. N /\ i < b
          BY <1>1
        <5>2. iv[i].start <= iv[b].start
          BY <5>1, <1>1, StartsAscend DEF IInv
        <5>3. iv[a].end \in Int /\ iv[i].start \in Int /\ iv[b].start \in Int
          BY <5>1, <1>1
        <5> QED BY <5>2, <5>3, <3>2
      <4> QED BY <4>1
    <3> QED BY <3>1, <3>2
  <2> QED BY <2>1, <2>2
<1>6. UsedCoversAssigned'
  <2> SUFFICES ASSUME NEW a \in 1 .. N, a < i + 1, state'[a] = "LI_NORMAL"
               PROVE  phys'[a] \in Regs(iv[a].cls) /\ phys'[a] \in used'[iv[a].cls]
    BY <1>1 DEF UsedCoversAssigned, InRegister
  <2>1. CASE a = i
    <3>1. PICK k \in 0 .. count'[iv[i].cls] - 1 : active'[iv[i].cls][k] = i
      BY <2>1
    <3>2. phys'[i] \in Regs(iv[i].cls)
      BY <3>1, <1>1 DEF Good
    <3> QED BY <2>1, <3>2
  <2>2. CASE a # i
    <3>0. a \in 1 .. i - 1 /\ a < i
      BY <2>2, <1>1
    <3>1. a \in 1 .. i - 1 /\ InRegister(a) /\ phys'[a] = phys[a]
      BY <3>0 DEF InRegister
    <3>2. phys[a] \in Regs(iv[a].cls) /\ phys[a] \in used[iv[a].cls]
      BY <3>1 DEF IInv, UsedCoversAssigned
    <3> QED BY <3>1, <3>2, <1>1
  <2> QED BY <2>1, <2>2
<1>7. NoClash'
  <2> SUFFICES ASSUME NEW a \in 1 .. N, NEW b \in 1 .. N, a < b, b < i + 1,
                      state'[a] = "LI_NORMAL", state'[b] = "LI_NORMAL",
                      iv[a].cls = iv[b].cls, iv[a].end > iv[b].start
               PROVE  phys'[a] # phys'[b]
    BY <1>1 DEF NoClash, InRegister
  <2>0. a \in 1 .. i - 1 /\ a < i
    BY <1>1
  <2>1. a \in 1 .. i - 1 /\ InRegister(a) /\ phys'[a] = phys[a]
    BY <2>0 DEF InRegister
  <2>2. CASE b = i
    <3>0. ~ (iv[a].end <= iv[i].start)
      BY <2>2, <1>1, SMTT(40)
    <3>1. PICK k \in 0 .. count'[iv[a].cls] - 1 : active'[iv[a].cls][k] = a
      BY <2>0, <3>0
    <3>2. PICK l \in 0 .. count'[iv[a].cls] - 1 : active'[iv[a].cls][l] = b
      BY <2>2
    <3>3. k # l
      <4>1. a # b
        BY <2>0, <2>2, <1>1
      <4> QED BY <4>1, <3>1, <3>2
    <3>4. iv[a].cls \in Class
      BY <1>1
    <3>5. \A x, y \in 0 .. count'[iv[a].cls] - 1 : x # y =>
            phys'[active'[iv[a].cls][x]] # phys'[active'[iv[a].cls][y]]
      BY <3>4 DEF Good
    <3> QED BY <3>1, <3>2, <3>3, <3>5
  <2>3. CASE b # i
    <3>0. b \in 1 .. i - 1 /\ b < i
      BY <2>3, <1>1, SMTT(40)
    <3>1. b \in 1 .. i - 1 /\ InRegister(b) /\ phys'[b] = phys[b]
      BY <3>0 DEF InRegister
    <3> QED BY <2>1, <3>1 DEF IInv, NoClash
  <2> QED BY <2>2, <2>3
<1> QED BY <1>2, <1>3, <1>4, <1>5, <1>6, <1>7 DEF IInv
----------------------------------------------------------------------------
(***************************************************************************)
(* Init and the actions.                                                   *)
(***************************************************************************)
LEMMA StartIInv ==
  ASSUME N \in Nat, \A a \in 1 .. N : IsInterval(iv[a]), Sorted(iv), ScanStart(iv)
  PROVE  IInv
<1>1. /\ i = 1
      /\ state = [a \in 1 .. N |-> iv[a].state]
      /\ phys = [a \in 1 .. N |-> -1]
      /\ active = [c \in Class |-> [k \in Regs(c) |-> 0]]
      /\ count = [c \in Class |-> 0]
      /\ using = [c \in Class |-> {}]
      /\ used = [c \in Class |-> {}]
  BY DEF ScanStart, N
<1>2. TypeInv
  <2>1. state \in [1 .. N -> LiveIntervalState]
    BY <1>1 DEF IsInterval
  <2>2. phys \in [1 .. N -> Int]
    BY <1>1
  <2>3. \A c \in Class : /\ active[c] \in [Regs(c) -> 0 .. N]
                          /\ count[c] \in 0 .. PhysMax[c]
                          /\ using[c] \subseteq Regs(c)
    BY <1>1, PhysMaxAssumption
  <2>4. /\ count \in [Class -> Nat]
        /\ using \in [Class -> SUBSET Nat]
        /\ used \in [Class -> SUBSET Nat]
        /\ DOMAIN active = Class
        /\ i \in 1 .. N + 1
    BY <1>1
  <2> QED BY <2>1, <2>2, <2>3, <2>4 DEF TypeInv, ScanTypes
<1>3. \A a \in 1 .. N : ~ InRegister(a)
  BY <1>1 DEF InRegister
<1>4. \A c \in Class : count[c] = 0 /\ using[c] = {}
  BY <1>1
<1>5. ActiveHolds /\ ActiveInjective
  BY <1>4 DEF ActiveHolds, ActiveInjective
<1>6. UsingIsActive
  BY <1>4 DEF UsingIsActive
<1>7. InactiveEnded /\ UsedCoversAssigned /\ NoClash
  BY <1>3 DEF InactiveEnded, UsedCoversAssigned, NoClash
<1> QED BY <1>2, <1>5, <1>6, <1>7 DEF IInv

(* The intervals that ScanSpec starts with are such.                       *)
LEMMA InitIsStart ==
  ASSUME ScanInit
  PROVE  /\ N \in Nat
         /\ \A a \in 1 .. N : IsInterval(iv[a])
         /\ Sorted(iv)
         /\ ScanStart(iv)
         /\ iv \in Seq(Intervals)
<1>1. PICK n \in 0 .. MaxLen : /\ iv \in [1 .. n -> Intervals]
                               /\ Sorted(iv)
                               /\ ScanStart(iv)
  BY DEF ScanInit
<1>2. N = n /\ n \in Nat /\ iv \in Seq(Intervals)
  BY <1>1, MaxLenAssumption DEF N
<1>3. \A a \in 1 .. N : iv[a] \in Intervals
  BY <1>1, <1>2
<1> QED BY <1>1, <1>2, <1>3, IntervalsAssumption

(* An interval that is not LI_NORMAL is passed over.                       *)
LEMMA SkipIInv == IInv /\ Skip => IInv'
<1> SUFFICES ASSUME IInv, Skip PROVE IInv'
  OBVIOUS
<1>1. /\ i \in 1 .. N /\ N \in Nat
      /\ UNCHANGED <<iv, state, phys, active, count, using, used>>
      /\ i' = i + 1
      /\ state[i] # "LI_NORMAL"
  BY DEF Skip, IInv, TypeInv, ScanTypes, N
<1>2. N' = N /\ \A d \in Class : PhysMax[d] \in Nat
  BY <1>1, PhysMaxAssumption DEF N
<1>3. \A a \in 1 .. N : InRegister(a)' <=> InRegister(a)
  BY <1>1 DEF InRegister
<1>4. TypeInv'
  BY <1>1, <1>2 DEF IInv, TypeInv, ScanTypes
<1>5. Sorted(iv)' /\ ActiveInjective' /\ UsingIsActive'
  BY <1>1 DEF IInv, Sorted, ActiveInjective, UsingIsActive
<1>6. ActiveHolds'
  <2>1. 1 .. i - 1 \subseteq 1 .. i' - 1
    BY <1>1
  <2> QED BY <1>1, <2>1 DEF IInv, ActiveHolds
<1>7. InactiveEnded'
  <2>1. \A b \in i' .. N' : b \in i .. N
    BY <1>1, <1>2
  <2> QED BY <1>1, <1>2, <1>3, <2>1 DEF IInv, InactiveEnded, IsActive
<1>8. UsedCoversAssigned' /\ NoClash'
  BY <1>1, <1>2, <1>3 DEF IInv, UsedCoversAssigned, NoClash
<1> QED BY <1>4, <1>5, <1>6, <1>7, <1>8 DEF IInv
(* After expire_old_intervals the arrays of both classes are good.         *)
LEMMA ExpiredIsGood ==
  ASSUME IInv, i \in 1 .. N, NEW c \in Class
  PROVE  Good(c, ExpiredActive(c, i), ExpiredCount(c, i), ExpiredUsing(c, i),
              phys, state, i - 1)
<1>1. Expired(c, ExpiredActive(c, i), ExpiredCount(c, i), ExpiredUsing(c, i))
  BY ExpireKeeps
<1>2. count[c] \in 0 .. PhysMax[c] /\ PhysMax[c] \in Nat
  BY PhysMaxAssumption DEF IInv, TypeInv, ScanTypes
<1>3. ExpiredCount(c, i) \in 0 .. PhysMax[c]
  BY <1>1, <1>2 DEF Expired
<1> QED BY <1>1, <1>3 DEF Expired, Good

(* Only the intervals in the array matter.                                 *)
LEMMA GoodAgrees ==
  ASSUME NEW c \in Class, NEW e, NEW n, NEW u, NEW p, NEW s, NEW t \in Int,
         NEW q, NEW z, NEW w \in Int, t <= w,
         Good(c, e, n, u, p, s, t),
         \A k \in 0 .. n - 1 : q[e[k]] = p[e[k]] /\ z[e[k]] = s[e[k]]
  PROVE  Good(c, e, n, u, q, z, w)
<1>1. \A k \in 0 .. n - 1 : e[k] \in 1 .. w
  BY DEF Good
<1>2. {q[e[k]] : k \in 0 .. n - 1} = {p[e[k]] : k \in 0 .. n - 1}
  OBVIOUS
<1> QED BY <1>1, <1>2 DEF Good

(* There are phys_max registers.                                           *)
LEMMA InitialSegment ==
  ASSUME NEW m \in Nat
  PROVE  IsFiniteSet(0 .. m - 1) /\ Cardinality(0 .. m - 1) = m
<1>1. 0 \in Int /\ m - 1 \in Int
  OBVIOUS
<1>2. /\ IsFiniteSet(0 .. m - 1)
      /\ Cardinality(0 .. m - 1) = IF 0 > m - 1 THEN 0 ELSE (m - 1) - 0 + 1
  BY <1>1, FS_Interval
<1> QED BY <1>2

(* Fewer than phys_max active intervals leave a register free: the         *)
(* registers in use are the image of an array that is too short.           *)
LEMMA FreeRegister ==
  ASSUME IInv, i \in 1 .. N, NEW c \in Class,
         ExpiredCount(c, i) < PhysMax[c]
  PROVE  Regs(c) \ ExpiredUsing(c, i) # {}
<1> DEFINE e == ExpiredActive(c, i)
           n == ExpiredCount(c, i)
           u == ExpiredUsing(c, i)
<1>1. Good(c, e, n, u, phys, state, i - 1)
  BY ExpiredIsGood
<1>2. n < PhysMax[c]
  OBVIOUS
<1> HIDE DEF e, n, u
<1>3. /\ n \in Nat /\ PhysMax[c] \in Nat \ {0}
      /\ u = {phys[e[k]] : k \in 0 .. n - 1}
  BY <1>1, PhysMaxAssumption DEF Good
<1>4. ASSUME Regs(c) \subseteq u PROVE FALSE
  <2> DEFINE f == [k \in 0 .. n - 1 |-> phys[e[k]]]
  <2>1. u \subseteq Regs(c)
    BY <1>1 DEF Good
  <2>2. u = Regs(c)
    BY <1>4, <2>1
  <2>3. f \in Surjection(0 .. n - 1, u)
    BY <1>3 DEF Surjection
  <2>4. IsFiniteSet(0 .. n - 1) /\ Cardinality(0 .. n - 1) = n
    BY <1>3, InitialSegment
  <2> HIDE DEF f
  <2>5. Cardinality(u) <= n
    BY <2>3, <2>4, FS_Surjection
  <2>6. Cardinality(Regs(c)) = PhysMax[c]
    BY <1>3, InitialSegment DEF Regs
  <2> QED BY <1>2, <1>3, <2>2, <2>5, <2>6
<1>5. Regs(c) \ u # {}
  BY <1>4
<1> QED BY <1>5 DEF u

(* A free register is given to the interval.                               *)
LEMMA AssignIInv == IInv /\ Assign => IInv'
<1> SUFFICES ASSUME IInv, Assign PROVE IInv'
  OBVIOUS
<1> DEFINE c == iv[i].cls
           e(d) == ExpiredActive(d, i)
           n(d) == ExpiredCount(d, i)
           u(d) == ExpiredUsing(d, i)
           regno == Least(Regs(c) \ u(c))
<1>1. /\ i \in 1 .. N /\ N \in Nat
      /\ c \in Class
      /\ iv' = iv /\ i' = i + 1 /\ state' = state
      /\ state[i] = "LI_NORMAL"
  BY DEF Assign, IInv, TypeInv, ScanTypes, N, IsInterval
<1>2. /\ n(c) < PhysMax[c]
      /\ Regs(c) \ u(c) # {}
      /\ phys' = [phys EXCEPT ![i] = regno]
      /\ active' = [d \in Class |-> IF d = c THEN insert_active(e(d), n(d), i) ELSE e(d)]
      /\ count' = [d \in Class |-> IF d = c THEN n(d) + 1 ELSE n(d)]
      /\ using' = [d \in Class |-> IF d = c THEN u(d) \cup {regno} ELSE u(d)]
      /\ used' = [used EXCEPT ![c] = @ \cup u(c) \cup {regno}]
  BY DEF Assign
<1>3. \A d \in Class : Good(d, e(d), n(d), u(d), phys, state, i - 1)
  BY <1>1, ExpiredIsGood
<1>4. \A d \in Class : Expired(d, e(d), n(d), u(d))
  BY <1>1, ExpireKeeps
<1>5. regno \in Regs(c) /\ regno \notin u(c)
  <2>1. Regs(c) \ u(c) \in SUBSET Nat
    BY DEF Regs
  <2>2. IsLeast(regno, Regs(c) \ u(c))
    BY <1>2, <2>1, LeastIsLeast
  <2> QED BY <2>2 DEF IsLeast
<1> HIDE DEF c, e, n, u, regno
<1>6. phys \in [1 .. N -> Int] /\ used \in [Class -> SUBSET Nat]
  BY DEF IInv, TypeInv, ScanTypes
<1>7. /\ phys' \in [1 .. N -> Int]
      /\ phys'[i] = regno
      /\ \A a \in 1 .. i - 1 : a \in 1 .. N /\ phys'[a] = phys[a]
  BY <1>1, <1>2, <1>5, <1>6 DEF Regs
<1>8. \A d \in Class : Good(d, e(d), n(d), u(d), phys', state', i - 1)
  <2> SUFFICES ASSUME NEW d \in Class
               PROVE  Good(d, e(d), n(d), u(d), phys', state', i - 1)
    OBVIOUS
  <2>1. \A k \in 0 .. n(d) - 1 : e(d)[k] \in 1 .. i - 1
    BY <1>3 DEF Good
  <2>2. \A k \in 0 .. n(d) - 1 : /\ phys'[e(d)[k]] = phys[e(d)[k]]
                                /\ state'[e(d)[k]] = state[e(d)[k]]
    BY <2>1, <1>1, <1>7
  <2>3. i - 1 \in Int /\ i - 1 <= i - 1
    BY <1>1
  <2> QED BY <1>3, <2>2, <2>3, GoodAgrees
<1>9. /\ Good(c, active'[c], n(c) + 1, u(c) \cup {phys'[i]}, phys', state', i)
      /\ HoldsBoth(active'[c], e(c), n(c))
  <2>1. active'[c] = insert_active(e(c), n(c), i)
    BY <1>1, <1>2
  <2>2. /\ state'[i] = "LI_NORMAL" /\ phys'[i] \in Regs(c)
        /\ phys'[i] \notin u(c) /\ iv[i].cls = c
    BY <1>1, <1>5, <1>7 DEF c
  <2>3. /\ Good(c, e(c), n(c), u(c), phys', state', i - 1)
        /\ i \in 1 .. N /\ c \in Class /\ n(c) < PhysMax[c]
    BY <1>1, <1>2, <1>8
  <2> QED BY <2>1, <2>2, <2>3, InsertKeepsGood
<1>10. \A d \in Class : Good(d, active'[d], count'[d], using'[d], phys', state', i)
  <2> SUFFICES ASSUME NEW d \in Class
               PROVE  Good(d, active'[d], count'[d], using'[d], phys', state', i)
    OBVIOUS
  <2>1. CASE d = c
    <3>1. count'[d] = n(c) + 1 /\ using'[d] = u(c) \cup {phys'[i]}
      BY <2>1, <1>1, <1>2, <1>7
    <3> QED BY <3>1, <2>1, <1>9
  <2>2. CASE d # c
    <3>1. active'[d] = e(d) /\ count'[d] = n(d) /\ using'[d] = u(d)
      BY <2>2, <1>2
    <3>2. i - 1 \in Int /\ i \in Int /\ i - 1 <= i
      BY <1>1
    <3> QED BY <3>1, <3>2, <1>8, GoodAgrees
  <2> QED BY <2>1, <2>2
<1>11. /\ DOMAIN active' = Class
       /\ count' \in [Class -> Nat]
       /\ using' \in [Class -> SUBSET Nat]
       /\ used' \in [Class -> SUBSET Nat]
       /\ \A d \in Class : used[d] \subseteq used'[d]
       /\ phys'[i] \in used'[c]
  <2>1. \A d \in Class : n(d) \in Nat /\ u(d) \subseteq Nat
    BY <1>3 DEF Good, Regs
  <2>2. regno \in Nat
    BY <1>5 DEF Regs
  <2> QED BY <2>1, <2>2, <1>1, <1>2, <1>6, <1>7
<1>12. ASSUME NEW a \in 1 .. i - 1, state'[a] = "LI_NORMAL"
       PROVE  \/ \E k \in 0 .. count'[iv[a].cls] - 1 : active'[iv[a].cls][k] = a
              \/ iv[a].end <= iv[i].start
  <2>1. InRegister(a) /\ a \in 1 .. N /\ iv[a].cls \in Class
    BY <1>1, <1>12 DEF InRegister, IInv, TypeInv, ScanTypes, N, IsInterval
  <2>2. \/ \E k \in 0 .. n(iv[a].cls) - 1 : e(iv[a].cls)[k] = a
        \/ iv[a].end <= iv[i].start
    BY <2>1, <1>4 DEF Expired
  <2>3. CASE iv[a].cls = c
    <3>1. count'[c] - 1 = n(c) /\ n(c) \in Nat
      BY <1>1, <1>2, <1>3 DEF Good
    <3> QED BY <2>2, <2>3, <3>1, <1>9 DEF HoldsBoth
  <2>4. CASE iv[a].cls # c
    BY <2>1, <2>2, <2>4, <1>2
  <2> QED BY <2>3, <2>4
<1>13. \E k \in 0 .. count'[c] - 1 : active'[c][k] = i
  <2>1. count'[c] - 1 = n(c) /\ n(c) \in Nat
    BY <1>1, <1>2, <1>3 DEF Good
  <2> QED BY <2>1, <1>9 DEF HoldsBoth
<1>14. state' \in [1 .. N -> LiveIntervalState]
  BY <1>1 DEF IInv, TypeInv, ScanTypes
<1>15. \A a \in 1 .. i - 1 : state'[a] = "LI_NORMAL" =>
         state[a] = "LI_NORMAL" /\ phys'[a] = phys[a]
  BY <1>1, <1>7
<1> QED
  BY <1>1, <1>7, <1>10, <1>11, <1>12, <1>13, <1>14, <1>15, Assemble DEF c
(* All registers are taken: the interval that ends last is spilled.        *)
LEMMA SplitIInv == IInv /\ Split => IInv'
<1> SUFFICES ASSUME IInv, Split PROVE IInv'
  OBVIOUS
<1> DEFINE c == iv[i].cls
           e(d) == ExpiredActive(d, i)
           n(d) == ExpiredCount(d, i)
           u(d) == ExpiredUsing(d, i)
           spill == e(c)[n(c) - 1]
<1>1. /\ i \in 1 .. N /\ N \in Nat
      /\ c \in Class
      /\ iv' = iv /\ i' = i + 1
      /\ state[i] = "LI_NORMAL"
  BY DEF Split, IInv, TypeInv, ScanTypes, N, IsInterval
<1>2. /\ n(c) >= PhysMax[c]
      /\ split_at_interval(c, e(c), n(c))
      /\ count' = [d \in Class |-> n(d)]
      /\ using' = [d \in Class |-> u(d)]
      /\ used' = [used EXCEPT ![c] = @ \cup u(c)]
  BY DEF Split
<1>3. \A d \in Class : Good(d, e(d), n(d), u(d), phys, state, i - 1)
  BY <1>1, ExpiredIsGood
<1>4. \A d \in Class : Expired(d, e(d), n(d), u(d))
  BY <1>1, ExpireKeeps
<1>5. \/ /\ phys' = [phys EXCEPT ![i] = phys[spill], ![spill] = PhysMax["ireg"]]
         /\ state' = [state EXCEPT ![spill] = "LI_SPILL"]
         /\ active' = [d \in Class |-> IF d = c THEN insert_active(e(c), n(c) - 1, i)
                                       ELSE e(d)]
      \/ /\ phys' = [phys EXCEPT ![i] = PhysMax["ireg"]]
         /\ state' = [state EXCEPT ![i] = "LI_SPILL"]
         /\ active' = [d \in Class |-> e(d)]
  BY <1>2 DEF split_at_interval
<1> HIDE DEF c, e, n, u, spill
<1>6. /\ phys \in [1 .. N -> Int]
      /\ state \in [1 .. N -> LiveIntervalState]
      /\ used \in [Class -> SUBSET Nat]
      /\ PhysMax["ireg"] \in Int
  BY PhysMaxAssumption DEF IInv, TypeInv, ScanTypes, Class
<1>7. \A d \in Class : n(d) \in Nat /\ u(d) \subseteq Regs(d) /\ Regs(d) \subseteq Nat
  BY <1>3 DEF Good, Regs
<1>8. /\ DOMAIN active' = Class
      /\ count' \in [Class -> Nat]
      /\ using' \in [Class -> SUBSET Nat]
      /\ used' \in [Class -> SUBSET Nat]
      /\ \A d \in Class : used[d] \subseteq used'[d]
      /\ u(c) \subseteq used'[c]
  BY <1>1, <1>2, <1>5, <1>6, <1>7
<1>9. ASSUME NEW a \in 1 .. i - 1, state[a] = "LI_NORMAL"
      PROVE  /\ iv[a].cls \in Class
             /\ \/ \E k \in 0 .. n(iv[a].cls) - 1 : e(iv[a].cls)[k] = a
                \/ iv[a].end <= iv[i].start
  <2>1. InRegister(a) /\ a \in 1 .. N /\ iv[a].cls \in Class
    BY <1>1, <1>9 DEF InRegister, IInv, TypeInv, ScanTypes, N, IsInterval
  <2> QED BY <2>1, <1>4 DEF Expired
<1>10. CASE /\ phys' = [phys EXCEPT ![i] = PhysMax["ireg"]]
            /\ state' = [state EXCEPT ![i] = "LI_SPILL"]
            /\ active' = [d \in Class |-> e(d)]
  <2>1. /\ phys' \in [1 .. N -> Int]
        /\ state' \in [1 .. N -> LiveIntervalState]
        /\ state'[i] # "LI_NORMAL"
        /\ \A a \in 1 .. i - 1 : phys'[a] = phys[a] /\ state'[a] = state[a]
    BY <1>1, <1>6, <1>10 DEF LiveIntervalState
  <2>2. \A d \in Class : Good(d, active'[d], count'[d], using'[d], phys', state', i)
    <3> SUFFICES ASSUME NEW d \in Class
                 PROVE  Good(d, active'[d], count'[d], using'[d], phys', state', i)
      OBVIOUS
    <3>1. active'[d] = e(d) /\ count'[d] = n(d) /\ using'[d] = u(d)
      BY <1>2, <1>10
    <3>2. \A k \in 0 .. n(d) - 1 : e(d)[k] \in 1 .. i - 1
      BY <1>3 DEF Good
    <3>3. i - 1 \in Int /\ i \in Int /\ i - 1 <= i
      BY <1>1
    <3>4. \A k \in 0 .. n(d) - 1 : /\ phys'[e(d)[k]] = phys[e(d)[k]]
                                 /\ state'[e(d)[k]] = state[e(d)[k]]
      BY <3>2, <2>1
    <3>5. Good(d, e(d), n(d), u(d), phys', state', i)
      BY <1>3, <3>3, <3>4, GoodAgrees
    <3> QED BY <3>1, <3>5
  <2>3. \A a \in 1 .. i - 1 : state'[a] = "LI_NORMAL" =>
          \/ \E k \in 0 .. count'[iv[a].cls] - 1 : active'[iv[a].cls][k] = a
          \/ iv[a].end <= iv[i].start
    BY <2>1, <1>2, <1>9, <1>10
  <2> QED BY <1>1, <1>8, <2>1, <2>2, <2>3, Assemble
<1>11. CASE /\ phys' = [phys EXCEPT ![i] = phys[spill], ![spill] = PhysMax["ireg"]]
            /\ state' = [state EXCEPT ![spill] = "LI_SPILL"]
            /\ active' = [d \in Class |-> IF d = c THEN insert_active(e(c), n(c) - 1, i)
                                          ELSE e(d)]
  <2> DEFINE m == n(c) - 1
             w == u(c) \ {phys[spill]}
  <2>1. m \in Nat /\ m + 1 = n(c) /\ m < PhysMax[c] /\ m \in 0 .. n(c) - 1
    BY <1>1, <1>2, <1>3, PhysMaxAssumption DEF Good
  <2>2. spill = e(c)[m]
    BY DEF spill
  <2> HIDE DEF m
  <2>3. /\ spill \in 1 .. i - 1 /\ iv[spill].cls = c
        /\ state[spill] = "LI_NORMAL"
        /\ phys[spill] \in Regs(c) /\ phys[spill] \in u(c)
    BY <1>1, <1>3, <2>1, <2>2 DEF Good
  <2>4. /\ phys' \in [1 .. N -> Int]
        /\ state' \in [1 .. N -> LiveIntervalState]
        /\ phys'[i] = phys[spill]
        /\ state'[i] = "LI_NORMAL"
        /\ state'[spill] # "LI_NORMAL"
        /\ \A a \in 1 .. i - 1 : a # spill =>
             phys'[a] = phys[a] /\ state'[a] = state[a]
    BY <1>1, <1>6, <1>11, <2>3 DEF LiveIntervalState
  <2>5. \A k \in 0 .. m - 1 : k \in 0 .. n(c) - 1 /\ k # m
    BY <2>1
  <2>6. \A k \in 0 .. m - 1 : phys[e(c)[k]] # phys[spill] /\ e(c)[k] \in 1 .. i - 1
    BY <1>1, <1>3, <2>1, <2>2, <2>5 DEF Good
  <2>7. Good(c, e(c), m, w, phys', state', i - 1)
    <3>1. w = {phys[e(c)[k]] : k \in 0 .. m - 1}
      <4>1. u(c) = {phys[e(c)[k]] : k \in 0 .. n(c) - 1}
        BY <1>1, <1>3 DEF Good
      <4>2. \A k \in 0 .. n(c) - 1 : k \in 0 .. m - 1 \/ k = m
        BY <2>1
      <4> QED BY <4>1, <4>2, <2>2, <2>5, <2>6
    <3>2. m \in 0 .. PhysMax[c]
      BY <2>1, <1>1, PhysMaxAssumption
    <3>3. Good(c, e(c), m, w, phys, state, i - 1)
      BY <1>1, <1>3, <2>5, <3>1, <3>2, SMTT(40) DEF Good
    <3>4. \A k \in 0 .. m - 1 : /\ phys'[e(c)[k]] = phys[e(c)[k]]
                               /\ state'[e(c)[k]] = state[e(c)[k]]
      BY <2>4, <2>6
    <3>5. i - 1 \in Int /\ i - 1 <= i - 1
      BY <1>1
    <3> QED BY <1>1, <3>3, <3>4, <3>5, GoodAgrees
  <2>8. /\ Good(c, active'[c], m + 1, w \cup {phys'[i]}, phys', state', i)
        /\ HoldsBoth(active'[c], e(c), m)
    <3>1. active'[c] = insert_active(e(c), m, i)
      BY <1>1, <1>11 DEF m
    <3>2. /\ phys'[i] \in Regs(c) /\ phys'[i] \notin w /\ iv[i].cls = c
          /\ state'[i] = "LI_NORMAL"
      BY <2>3, <2>4 DEF c
    <3> HIDE DEF w
    <3> QED BY <1>1, <2>1, <2>7, <3>1, <3>2, InsertKeepsGood
  <2>9. w \cup {phys'[i]} = u(c)
    BY <2>3, <2>4
  <2> HIDE DEF w
  <2>10. \A d \in Class : Good(d, active'[d], count'[d], using'[d], phys', state', i)
    <3> SUFFICES ASSUME NEW d \in Class
                 PROVE  Good(d, active'[d], count'[d], using'[d], phys', state', i)
      OBVIOUS
    <3>1. CASE d = c
      <4>1. count'[d] = m + 1 /\ using'[d] = w \cup {phys'[i]}
        BY <3>1, <1>2, <2>1, <2>9
      <4> QED BY <3>1, <4>1, <2>8
    <3>2. CASE d # c
      <4>1. active'[d] = e(d) /\ count'[d] = n(d) /\ using'[d] = u(d)
        BY <3>2, <1>2, <1>11
      <4>2. \A k \in 0 .. n(d) - 1 : e(d)[k] \in 1 .. i - 1 /\ e(d)[k] # spill
        BY <3>2, <2>3, <1>3 DEF Good
      <4>3. i - 1 \in Int /\ i \in Int /\ i - 1 <= i
        BY <1>1
      <4>4. \A k \in 0 .. n(d) - 1 : /\ phys'[e(d)[k]] = phys[e(d)[k]]
                                   /\ state'[e(d)[k]] = state[e(d)[k]]
        BY <4>2, <2>4
      <4>5. Good(d, e(d), n(d), u(d), phys', state', i)
        BY <1>3, <4>3, <4>4, GoodAgrees
      <4> QED BY <4>1, <4>5
    <3> QED BY <3>1, <3>2
  <2>11. ASSUME NEW a \in 1 .. i - 1, state'[a] = "LI_NORMAL"
         PROVE  \/ \E k \in 0 .. count'[iv[a].cls] - 1 : active'[iv[a].cls][k] = a
                \/ iv[a].end <= iv[i].start
    <3>1. a # spill /\ state[a] = "LI_NORMAL"
      BY <2>4, <2>11
    <3>2. CASE iv[a].cls # c
      BY <3>1, <3>2, <1>2, <1>9, <1>11
    <3>3. CASE iv[a].cls = c
      <4>1. CASE \E k \in 0 .. n(c) - 1 : e(c)[k] = a
        <5>1. PICK k \in 0 .. n(c) - 1 : e(c)[k] = a
          BY <4>1
        <5>2. k \in 0 .. m - 1
          BY <5>1, <3>1, <2>1, <2>2
        <5>3. PICK l \in 0 .. m : active'[c][l] = a
          BY <5>1, <5>2, <2>8 DEF HoldsBoth
        <5>4. count'[c] - 1 = m
          BY <1>1, <1>2, <2>1
        <5> QED BY <5>3, <5>4, <3>3
      <4> QED BY <4>1, <3>1, <3>3, <1>9
    <3> QED BY <3>2, <3>3
  <2>12. /\ phys'[i] \in used'[c]
         /\ \E k \in 0 .. count'[c] - 1 : active'[c][k] = i
    <3>1. count'[c] - 1 = m
      BY <1>1, <1>2, <2>1
    <3>2. \E k \in 0 .. m : active'[c][k] = i
      BY <2>8 DEF HoldsBoth
    <3> QED BY <3>1, <3>2, <1>8, <2>3, <2>4
  <2>13. \A a \in 1 .. i - 1 : state'[a] = "LI_NORMAL" =>
           state[a] = "LI_NORMAL" /\ phys'[a] = phys[a]
    BY <2>4
  <2> QED BY <1>1, <1>8, <2>4, <2>10, <2>11, <2>12, <2>13, Assemble DEF c
<1> QED BY <1>5, <1>10, <1>11

----------------------------------------------------------------------------
(***************************************************************************)
(* The theorems.                                                           *)
(***************************************************************************)

(* Every step of the scan preserves the inductive invariant.               *)
LEMMA NextIInv == IInv /\ [ScanNext]_scanVars => IInv'
<1> SUFFICES ASSUME IInv, [ScanNext]_scanVars PROVE IInv'
  OBVIOUS
<1>1. CASE Skip
  BY <1>1, SkipIInv
<1>2. CASE Assign
  BY <1>2, AssignIInv
<1>3. CASE Split
  BY <1>3, SplitIInv
<1>4. CASE UNCHANGED scanVars
  BY <1>4 DEF scanVars, IInv, TypeInv, ScanTypes, N, Regs, Sorted, SortedBefore, ActiveHolds,
              ActiveInjective, UsingIsActive, InactiveEnded, InRegister, IsActive,
              UsedCoversAssigned, NoClash
<1> QED BY <1>1, <1>2, <1>3, <1>4 DEF ScanNext

(* The inductive invariant holds in every state of the scan.               *)
THEOREM InductiveInvariant == ScanSpec => []IInv
<1>1. ScanInit => IInv
  BY InitIsStart, StartIInv
<1> QED BY <1>1, NextIInv, PTL DEF ScanSpec

(* Type correctness of the scan: the indices into the active arrays stay   *)
(* below phys_max and the register numbers inside the register file.       *)
THEOREM TypeCorrect == ScanSpec => []TypeOK
<1> DEFINE Given == iv \in Seq(Intervals)
<1>1. ScanInit => Given
  BY InitIsStart
<1>2. Given /\ [ScanNext]_scanVars => Given'
  BY DEF ScanNext, Skip, Assign, Split, scanVars
<1>3. IInv /\ Given => TypeOK
  BY DEF IInv, TypeInv, TypeOK
<1> QED BY <1>1, <1>2, <1>3, InductiveInvariant, PTL DEF ScanSpec

(* No two intervals that are live at the same time share a register.       *)
THEOREM NoClashTheorem == ScanSpec => []NoClash
<1>1. IInv => NoClash
  BY DEF IInv
<1> QED BY <1>1, InductiveInvariant, PTL

(* used_bits names every register that the scan handed out.                *)
THEOREM UsedTheorem == ScanSpec => []UsedCoversAssigned
<1>1. IInv => UsedCoversAssigned
  BY DEF IInv
<1> QED BY <1>1, InductiveInvariant, PTL

(* using_bits are the registers of the active intervals, each once.        *)
LEMMA OneIsFree == IInv => RegisterFree
<1> SUFFICES ASSUME IInv, i <= N, state[i] = "LI_NORMAL",
                    ExpiredCount(iv[i].cls, i) < PhysMax[iv[i].cls]
             PROVE  Regs(iv[i].cls) \ ExpiredUsing(iv[i].cls, i) # {}
  BY DEF RegisterFree
<1>1. i \in 1 .. N /\ iv[i].cls \in Class
  BY DEF IInv, TypeInv, ScanTypes, N, IsInterval
<1> QED BY <1>1, FreeRegister

(* assert(regno >= 0) never fails.                                         *)
THEOREM RegisterFreeTheorem == ScanSpec => []RegisterFree
  BY OneIsFree, InductiveInvariant, PTL

----------------------------------------------------------------------------
(***************************************************************************)
(* Nothing is spilled without need.  `active' is ordered by end, so that   *)
(* what expire_old_intervals leaves is alive where the new interval        *)
(* starts: when no register is free, all those intervals need one.         *)
(***************************************************************************)
Ordered(act, n) == \A k, l \in 0 .. n - 1 : k < l => iv[act[k]].end <= iv[act[l]].end

(* The scan changes a state only from LI_NORMAL, and only behind i.        *)
StatesKept ==
  \A a \in 1 .. N : /\ state[a] = "LI_NORMAL" => iv[a].state = "LI_NORMAL"
                    /\ a >= i => state[a] = iv[a].state

SInv ==
  /\ IInv
  /\ \A c \in Class : Ordered(active[c], count[c])
  /\ StatesKept
  /\ SpillNecessary

(* The live intervals that the scan reads start and end at positions.      *)
LEMMA EndsAreNumbers ==
  ASSUME IInv
  PROVE  \A a \in 1 .. N : iv[a].start \in Int /\ iv[a].end \in Int /\ iv[a].cls \in Class
  BY DEF IInv, TypeInv, ScanTypes, N, IsInterval

(* expire_old_intervals stops at the first interval that is alive: with    *)
(* the array in order, all that are left are alive.                        *)
LEMMA ExpireLeavesAlive ==
  ASSUME SInv, i \in 1 .. N, NEW c \in Class
  PROVE  /\ Ordered(ExpiredActive(c, i), ExpiredCount(c, i))
         /\ \A k \in 0 .. ExpiredCount(c, i) - 1 : iv[ExpiredActive(c, i)[k]].end > iv[i].start
<1> DEFINE m == ExpireCount(active[c], count[c], iv[i].start)
           e == ExpiredActive(c, i)
           n == ExpiredCount(c, i)
<1>1. /\ count[c] \in Nat /\ active[c] \in [Regs(c) -> 0 .. N] /\ N \in Nat
      /\ count[c] <= PhysMax[c] /\ PhysMax[c] \in Nat
  BY PhysMaxAssumption DEF SInv, IInv, TypeInv, ScanTypes, N
<1>2. /\ m \in 0 .. count[c]
      /\ m < count[c] => iv[active[c][m]].end > iv[i].start
  BY <1>1, ExpireCountStops
<1>3. n = count[c] - m
  BY DEF ExpiredCount
<1>4. e = [k \in Regs(c) |-> IF k \in 0 .. n - 1 THEN active[c][k + m] ELSE active[c][k]]
  BY <1>1, <1>3 DEF ExpiredActive, remove_active
<1> HIDE DEF m, e, n
<1>5. \A k \in 0 .. n - 1 : /\ k + m \in 0 .. count[c] - 1 /\ e[k] = active[c][k + m]
                           /\ active[c][k + m] \in 1 .. N
  <2>1. \A k \in 0 .. n - 1 : k \in Regs(c) /\ k + m \in 0 .. count[c] - 1
    BY <1>1, <1>2, <1>3 DEF Regs
  <2>2. \A k \in 0 .. count[c] - 1 : active[c][k] \in 1 .. N
    BY <1>1 DEF SInv, IInv, ActiveHolds, TypeInv, ScanTypes
  <2> QED
    BY <1>4, <2>1, <2>2
<1>6. Ordered(active[c], count[c])
  BY DEF SInv
<1>7. Ordered(e, n)
  <2> SUFFICES ASSUME NEW k \in 0 .. n - 1, NEW l \in 0 .. n - 1, k < l
               PROVE  iv[e[k]].end <= iv[e[l]].end
    BY DEF Ordered
  <2>1. k + m < l + m
    BY <1>2
  <2> QED
    BY <1>5, <1>6, <2>1 DEF Ordered
<1>8. ASSUME NEW k \in 0 .. n - 1 PROVE iv[e[k]].end > iv[i].start
  <2>1. m < count[c] /\ m \in 0 .. count[c] - 1 /\ m <= k + m
    BY <1>1, <1>2, <1>3
  <2>2. active[c][m] \in 1 .. N
    BY <1>1, <2>1 DEF SInv, IInv, ActiveHolds, TypeInv, ScanTypes
  <2>3. iv[active[c][m]].end <= iv[active[c][k + m]].end
    <3>1. CASE k = 0
      <4>1. k + m = m
        BY <1>2, <3>1
      <4>2. iv[active[c][m]].end \in Int
        BY <2>2, EndsAreNumbers DEF SInv
      <4> QED
        BY <4>1, <4>2
    <3>2. CASE k # 0
      <4>1. m < k + m
        BY <1>2, <3>2
      <4> QED
        BY <1>5, <1>6, <2>1, <4>1 DEF Ordered
    <3> QED
      BY <3>1, <3>2
  <2>4. /\ iv[active[c][m]].end \in Int /\ iv[active[c][k + m]].end \in Int /\ iv[i].start \in Int
    BY <1>5, <2>2, EndsAreNumbers DEF SInv
  <2> QED
    BY <1>2, <1>5, <2>1, <2>3, <2>4
<1> QED
  BY <1>7, <1>8 DEF e, n

(* insert_active keeps the array in order.                                 *)
LEMMA InsertOrdered ==
  ASSUME IInv, i \in 1 .. N, NEW c \in Class, NEW e \in [Regs(c) -> 0 .. N], NEW n \in Nat,
         n < PhysMax[c], \A k \in 0 .. n - 1 : e[k] \in 1 .. N, Ordered(e, n)
  PROVE  Ordered(insert_active(e, n, i), n + 1)
<1> DEFINE j == InsertPlace(e, n, i)
           r == insert_active(e, n, i)
<1>1. PhysMax[c] \in Nat /\ j = InsertPlace(e, n, i) /\ r = insert_active(e, n, i)
  BY PhysMaxAssumption
<1> HIDE DEF j, r
<1>2. /\ j \in 0 .. n
      /\ \A k \in 0 .. j - 1 : ~ (iv[i].end < iv[e[k]].end)
      /\ j < n => iv[i].end < iv[e[j]].end
      /\ r[j] = i
      /\ \A k \in 0 .. j - 1 : r[k] = e[k]
      /\ \A k \in j + 1 .. n : r[k] = e[k - 1]
  BY <1>1, InsertActive
<1>3. iv[i].end \in Int /\ \A k \in 0 .. n - 1 : iv[e[k]].end \in Int
  BY EndsAreNumbers
<1> SUFFICES ASSUME NEW k \in 0 .. n, NEW l \in 0 .. n, k < l
             PROVE  iv[r[k]].end <= iv[r[l]].end
  BY DEF Ordered, r
<1>4. CASE l < j
  <2>1. k \in 0 .. j - 1 /\ l \in 0 .. j - 1 /\ k \in 0 .. n - 1 /\ l \in 0 .. n - 1
    BY <1>2, <1>4
  <2> QED
    BY <1>2, <2>1 DEF Ordered
<1>5. CASE l = j
  <2>1. k \in 0 .. j - 1 /\ k \in 0 .. n - 1
    BY <1>2, <1>5
  <2> QED
    BY <1>2, <1>3, <1>5, <2>1
<1>6. CASE l > j
  <2>1. l \in j + 1 .. n /\ l - 1 \in 0 .. n - 1 /\ r[l] = e[l - 1]
    BY <1>2, <1>6
  <2>2. CASE k < j
    <3>1. k \in 0 .. j - 1 /\ k \in 0 .. n - 1 /\ k < l - 1
      BY <1>2, <1>6, <2>2
    <3> QED
      BY <1>2, <2>1, <3>1 DEF Ordered
  <2>3. CASE k = j
    <3>1. j \in 0 .. n - 1 /\ j < n
      BY <1>2, <1>6
    <3>2. iv[e[j]].end <= iv[e[l - 1]].end
      <4>1. CASE j = l - 1
        BY <1>3, <3>1, <4>1
      <4>2. CASE j # l - 1
        <5>1. j < l - 1
          BY <1>2, <1>6, <4>2
        <5> QED
          BY <2>1, <3>1, <5>1 DEF Ordered
      <4> QED
        BY <4>1, <4>2
    <3> QED
      BY <1>2, <1>3, <2>1, <2>3, <3>1, <3>2
  <2>4. CASE k > j
    <3>1. k \in j + 1 .. n /\ k - 1 \in 0 .. n - 1 /\ k - 1 < l - 1 /\ r[k] = e[k - 1]
      BY <1>2, <1>6, <2>4
    <3> QED
      BY <2>1, <3>1 DEF Ordered
  <2> QED
    BY <1>2, <2>2, <2>3, <2>4
<1> QED
  BY <1>2, <1>4, <1>5, <1>6

(* When every register of a class is taken, more intervals need one.       *)
LEMMA PressureIsHigh ==
  ASSUME SInv, i \in 1 .. N, state[i] = "LI_NORMAL", ExpiredCount(iv[i].cls, i) >= PhysMax[iv[i].cls]
  PROVE  LET c == iv[i].cls
         IN  /\ i \in Pressure(c, i)
             /\ \A k \in 0 .. ExpiredCount(c, i) - 1 : ExpiredActive(c, i)[k] \in Pressure(c, i)
             /\ Cardinality(Pressure(c, i)) > PhysMax[c]
<1> DEFINE c == iv[i].cls
           e == ExpiredActive(c, i)
           n == ExpiredCount(c, i)
           u == ExpiredUsing(c, i)
           P == Pressure(c, i)
<1>1. IInv /\ c \in Class /\ PhysMax[c] \in Nat /\ N \in Nat
  BY EndsAreNumbers, PhysMaxAssumption DEF SInv, N, IInv, TypeInv, ScanTypes
<1>2. Good(c, e, n, u, phys, state, i - 1)
  BY <1>1, ExpiredIsGood
<1>3. \A k \in 0 .. n - 1 : iv[e[k]].end > iv[i].start
  BY <1>1, ExpireLeavesAlive
<1>4. i \in P
  BY DEF Pressure, SInv, StatesKept
<1>5. n \in Nat /\ n >= PhysMax[c]
  BY <1>1, <1>2 DEF Good
<1> HIDE DEF c, e, n, u
<1>6. \A k \in 0 .. n - 1 : e[k] \in P /\ e[k] \in 1 .. i - 1
  <2> SUFFICES ASSUME NEW k \in 0 .. n - 1 PROVE e[k] \in P /\ e[k] \in 1 .. i - 1
    OBVIOUS
  <2>1. e[k] \in 1 .. i - 1 /\ iv[e[k]].cls = c /\ state[e[k]] = "LI_NORMAL"
    BY <1>2 DEF Good
  <2>2. e[k] \in 1 .. N /\ e[k] \in 1 .. i
    BY <1>1, <2>1
  <2>3. iv[e[k]].state = "LI_NORMAL"
    BY <2>1, <2>2 DEF SInv, StatesKept
  <2> QED
    BY <1>3, <2>1, <2>2, <2>3 DEF Pressure
<1>7. \A k, l \in 0 .. n - 1 : k # l => e[k] # e[l]
  BY <1>2 DEF Good
<1>8. Cardinality(P) > PhysMax[c]
  <2> DEFINE f == [k \in 0 .. n |-> IF k < n THEN e[k] ELSE i]
  <2>1. IsFiniteSet(P)
    <3>1. P \subseteq 0 .. (i + 1) - 1 /\ i + 1 \in Nat
      BY DEF Pressure
    <3> QED
      BY <3>1, InitialSegment, FS_Subset
  <2>2. IsFiniteSet(0 .. n) /\ Cardinality(0 .. n) = n + 1
    <3>1. n + 1 \in Nat /\ (n + 1) - 1 = n
      BY <1>5
    <3> QED
      BY <3>1, InitialSegment
  <2>3. \A k \in 0 .. n : k < n \/ k = n
    BY <1>5
  <2>4. \A k \in 0 .. n : k < n => k \in 0 .. n - 1
    BY <1>5
  <2>5. f \in [0 .. n -> P]
    BY <1>4, <1>6, <2>4
  <2>6. \A k, l \in 0 .. n : f[k] = f[l] => k = l
    <3> SUFFICES ASSUME NEW k \in 0 .. n, NEW l \in 0 .. n, k # l PROVE f[k] # f[l]
      OBVIOUS
    <3>1. f[k] = (IF k < n THEN e[k] ELSE i) /\ f[l] = (IF l < n THEN e[l] ELSE i)
      OBVIOUS
    <3> HIDE DEF f
    <3>2. i \notin 1 .. i - 1
      OBVIOUS
    <3>3. CASE k < n /\ l < n
      BY <1>7, <2>4, <3>1, <3>3
    <3>4. CASE k < n /\ l = n
      <4>1. f[k] = e[k] /\ f[l] = i
        BY <1>5, <3>1, <3>4
      <4> QED
        BY <1>6, <2>4, <3>2, <3>4, <4>1
    <3>5. CASE k = n /\ l < n
      <4>1. f[k] = i /\ f[l] = e[l]
        BY <1>5, <3>1, <3>5
      <4> QED
        BY <1>6, <2>4, <3>2, <3>5, <4>1
    <3> QED
      BY <2>3, <3>3, <3>4, <3>5
  <2>7. f \in Injection(0 .. n, P)
    BY <2>5, <2>6 DEF Injection, IsInjective
  <2> HIDE DEF f, P
  <2>8. n + 1 <= Cardinality(P)
    BY <2>1, <2>2, <2>7, FS_Injection
  <2>9. Cardinality(P) \in Nat
    BY <2>1, FS_CardinalityType
  <2> QED
    BY <1>1, <1>5, <2>8, <2>9
<1> QED
  BY <1>4, <1>6, <1>8 DEF c, e, n
PressureOf(s, c, b) ==
  {a \in 1 .. b : /\ s[a].cls = c
                  /\ s[a].state = "LI_NORMAL"
                  /\ a = b \/ s[a].end > s[b].start}

(* SpillNecessary of the intervals s in the states st, scanned up to t.    *)
SpillsNeeded(s, st, t) ==
  \A a \in 1 .. Len(s) :
    s[a].state = "LI_NORMAL" /\ st[a] = "LI_SPILL" =>
      \E b \in a .. t - 1 :
        /\ a \in PressureOf(s, s[a].cls, b)
        /\ Cardinality(PressureOf(s, s[a].cls, b)) > PhysMax[s[a].cls]

(* SpillNecessary depends on the intervals, their states and the interval  *)
(* that the scan has reached only.                                         *)
LEMMA SpillNecessaryIs ==
  /\ SpillNecessary = SpillsNeeded(iv, state, i)
  /\ SpillNecessary' = SpillsNeeded(iv', state', i')
  /\ \A c, b : Pressure(c, b) = PressureOf(iv, c, b)
<1>1. SpillNecessary = SpillsNeeded(iv, state, i)
  BY DEF SpillNecessary, SpillsNeeded, Pressure, PressureOf, N
<1>2. SpillNecessary' = SpillsNeeded(iv', state', i')
  BY DEF SpillNecessary, SpillsNeeded, Pressure, PressureOf, N
<1>3. \A c, b : Pressure(c, b) = PressureOf(iv, c, b)
  BY DEF Pressure, PressureOf
<1> QED
  BY <1>1, <1>2, <1>3

(* A spill that was needed once was needed.                                *)
LEMMA SpillsStayNecessary ==
  ASSUME SInv, i \in 1 .. N, iv' = iv, i' = i + 1,
         \A a \in 1 .. N : iv[a].state = "LI_NORMAL" /\ state'[a] = "LI_SPILL" =>
           \/ state[a] = "LI_SPILL"
           \/ a <= i /\ a \in Pressure(iv[a].cls, i)
                /\ Cardinality(Pressure(iv[a].cls, i)) > PhysMax[iv[a].cls]
  PROVE  SpillNecessary'
<1>1. N \in Nat /\ i' - 1 = i
  BY DEF N, SInv, IInv, TypeInv, ScanTypes
<1>0. SpillsNeeded(iv, state, i)
  BY SpillNecessaryIs DEF SInv
<1> SUFFICES SpillsNeeded(iv, state', i')
  BY SpillNecessaryIs
<1> SUFFICES ASSUME NEW a \in 1 .. N, iv[a].state = "LI_NORMAL", state'[a] = "LI_SPILL"
             PROVE  \E b \in a .. i : /\ a \in PressureOf(iv, iv[a].cls, b)
                                      /\ Cardinality(PressureOf(iv, iv[a].cls, b)) > PhysMax[iv[a].cls]
  BY <1>1 DEF SpillsNeeded, N
<1>2. CASE state[a] = "LI_SPILL"
  <2>1. PICK b \in a .. i - 1 : /\ a \in PressureOf(iv, iv[a].cls, b)
                                /\ Cardinality(PressureOf(iv, iv[a].cls, b)) > PhysMax[iv[a].cls]
    BY <1>0, <1>2 DEF SpillsNeeded, N
  <2>2. b \in a .. i
    BY <1>1, <2>1
  <2> QED
    BY <2>1, <2>2
<1>3. CASE state[a] # "LI_SPILL"
  BY <1>1, <1>3, SpillNecessaryIs
<1> QED
  BY <1>2, <1>3

(* The scan starts with empty arrays, nothing is spilled.                  *)
LEMMA StartSInv ==
  ASSUME N \in Nat, \A a \in 1 .. N : IsInterval(iv[a]), Sorted(iv), ScanStart(iv)
  PROVE  SInv
<1>1. IInv
  BY StartIInv
<1>4. /\ i = 1 /\ state = [a \in 1 .. N |-> iv[a].state]
      /\ \A c \in Class : count[c] = 0
  BY DEF ScanStart, N
<1>5. \A c \in Class : Ordered(active[c], count[c])
  BY <1>4 DEF Ordered
<1>6. StatesKept
  BY <1>4 DEF StatesKept
<1>7. SpillNecessary
  BY <1>4 DEF SpillNecessary, LiveIntervalState
<1> QED
  BY <1>1, <1>5, <1>6, <1>7 DEF SInv

(* Each interval that the scan handles keeps the arrays in order and every *)
(* spill needed.                                                           *)
LEMMA NextSInv == SInv /\ [ScanNext]_scanVars => SInv'
<1> SUFFICES ASSUME SInv, [ScanNext]_scanVars PROVE SInv'
  OBVIOUS
<1>1. IInv /\ IInv'
  BY NextIInv DEF SInv
<1>2. N \in Nat /\ \A d \in Class : PhysMax[d] \in Nat \ {0}
  BY <1>1, PhysMaxAssumption DEF IInv, TypeInv, ScanTypes, N
<1>3. CASE UNCHANGED scanVars
  <2>1. iv' = iv /\ i' = i /\ state' = state /\ active' = active /\ count' = count
    BY <1>3 DEF scanVars
  <2>2. StatesKept' /\ \A d \in Class : Ordered(active[d], count[d])'
    BY <2>1 DEF SInv, StatesKept, N, Ordered
  <2>3. SpillNecessary' = SpillNecessary
    BY <2>1, SpillNecessaryIs
  <2> QED
    BY <1>1, <2>2, <2>3 DEF SInv
<1>4. ASSUME i \in 1 .. N
      PROVE  \A d \in Class : /\ Ordered(ExpiredActive(d, i), ExpiredCount(d, i))
                              /\ Good(d, ExpiredActive(d, i), ExpiredCount(d, i),
                                      ExpiredUsing(d, i), phys, state, i - 1)
  BY <1>1, <1>4, ExpireLeavesAlive, ExpiredIsGood
<1>5. CASE Skip
  <2>1. /\ i \in 1 .. N /\ iv' = iv /\ i' = i + 1 /\ state' = state
        /\ UNCHANGED <<active, count>>
    BY <1>1, <1>2, <1>5 DEF Skip, IInv, TypeInv, ScanTypes
  <2>2. SpillNecessary'
    BY <2>1, SpillsStayNecessary
  <2>3. StatesKept'
    BY <1>2, <2>1 DEF SInv, StatesKept, N
  <2>4. \A d \in Class : Ordered(active[d], count[d])'
    BY <2>1 DEF SInv, Ordered
  <2> QED
    BY <1>1, <2>2, <2>3, <2>4 DEF SInv
<1>6. CASE Assign
  <2> DEFINE c == iv[i].cls
             e(d) == ExpiredActive(d, i)
             n(d) == ExpiredCount(d, i)
  <2>1. /\ i \in 1 .. N /\ iv' = iv /\ i' = i + 1 /\ state' = state /\ c \in Class
    BY <1>1, <1>2, <1>6, EndsAreNumbers DEF Assign, IInv, TypeInv, ScanTypes
  <2>2. /\ n(c) < PhysMax[c]
        /\ active' = [d \in Class |-> IF d = c THEN insert_active(e(d), n(d), i) ELSE e(d)]
        /\ count' = [d \in Class |-> IF d = c THEN n(d) + 1 ELSE n(d)]
    BY <1>6 DEF Assign
  <2>3. SpillNecessary'
    BY <2>1, SpillsStayNecessary
  <2>4. StatesKept'
    BY <1>2, <2>1 DEF SInv, StatesKept, N
  <2>5. /\ n(c) \in Nat /\ e(c) \in [Regs(c) -> 0 .. N] /\ Ordered(e(c), n(c))
        /\ \A k \in 0 .. n(c) - 1 : e(c)[k] \in 1 .. N
    BY <1>2, <1>4, <2>1 DEF Good
  <2> HIDE DEF c, e, n
  <2>6. Ordered(insert_active(e(c), n(c), i), n(c) + 1)
    BY <1>1, <2>1, <2>2, <2>5, InsertOrdered
  <2>7. ASSUME NEW d \in Class PROVE Ordered(active[d], count[d])'
    <3>1. CASE d = c
      <4>1. active'[d] = insert_active(e(c), n(c), i) /\ count'[d] = n(c) + 1
        BY <2>2, <3>1
      <4> QED
        BY <2>1, <2>6, <4>1 DEF Ordered
    <3>2. CASE d # c
      <4>1. active'[d] = e(d) /\ count'[d] = n(d)
        BY <2>2, <3>2
      <4>2. Ordered(e(d), n(d))
        BY <1>4, <2>1 DEF e, n
      <4> QED
        BY <2>1, <4>1, <4>2 DEF Ordered
    <3> QED
      BY <3>1, <3>2
  <2> QED
    BY <1>1, <2>3, <2>4, <2>7 DEF SInv
<1>7. CASE Split
  <2> DEFINE c == iv[i].cls
             e(d) == ExpiredActive(d, i)
             n(d) == ExpiredCount(d, i)
             spill == e(c)[n(c) - 1]
  <2>1. /\ i \in 1 .. N /\ iv' = iv /\ i' = i + 1 /\ state[i] = "LI_NORMAL" /\ c \in Class
    BY <1>1, <1>2, <1>7, EndsAreNumbers DEF Split, IInv, TypeInv, ScanTypes
  <2>2. /\ n(c) >= PhysMax[c]
        /\ count' = [d \in Class |-> n(d)]
        /\ \/ /\ state' = [state EXCEPT ![spill] = "LI_SPILL"]
              /\ active' = [d \in Class |-> IF d = c THEN insert_active(e(c), n(c) - 1, i)
                                            ELSE e(d)]
           \/ /\ state' = [state EXCEPT ![i] = "LI_SPILL"]
              /\ active' = [d \in Class |-> e(d)]
    BY <1>7 DEF Split, split_at_interval
  <2>3. /\ i \in Pressure(c, i)
        /\ \A k \in 0 .. n(c) - 1 : e(c)[k] \in Pressure(c, i)
        /\ Cardinality(Pressure(c, i)) > PhysMax[c]
    BY <2>1, <2>2, PressureIsHigh
  <2>4. /\ n(c) \in Nat \ {0} /\ e(c) \in [Regs(c) -> 0 .. N] /\ Ordered(e(c), n(c))
        /\ n(c) <= PhysMax[c] /\ \A k \in 0 .. n(c) - 1 : e(c)[k] \in 1 .. i - 1 /\ iv[e(c)[k]].cls = c
    BY <1>2, <1>4, <2>1, <2>2 DEF Good
  <2>5. spill \in 1 .. i - 1 /\ spill \in 1 .. N /\ iv[spill].cls = c /\ spill \in Pressure(c, i)
    <3>1. n(c) - 1 \in 0 .. n(c) - 1
      BY <2>4
    <3> QED
      BY <1>2, <2>1, <2>3, <2>4, <3>1
  <2>6. iv[i].cls = c
    OBVIOUS
  <2>7. state \in [1 .. N -> LiveIntervalState]
    BY <1>1 DEF IInv, TypeInv, ScanTypes
  <2> HIDE DEF c, e, n, spill
  <2>8. \E x \in {i, spill} : state' = [state EXCEPT ![x] = "LI_SPILL"]
    BY <2>2
  <2>9. SpillNecessary'
    <3> SUFFICES ASSUME NEW a \in 1 .. N, iv[a].state = "LI_NORMAL", state'[a] = "LI_SPILL",
                        state[a] # "LI_SPILL"
                 PROVE  a <= i /\ a \in Pressure(iv[a].cls, i)
                          /\ Cardinality(Pressure(iv[a].cls, i)) > PhysMax[iv[a].cls]
      BY <2>1, SpillsStayNecessary
    <3>1. a = i \/ a = spill
      BY <2>7, <2>8
    <3> QED
      BY <2>1, <2>3, <2>5, <2>6, <3>1
  <2>10. StatesKept'
    <3> SUFFICES ASSUME NEW a \in 1 .. N
                 PROVE  /\ state'[a] = "LI_NORMAL" => iv[a].state = "LI_NORMAL"
                        /\ a >= i + 1 => state'[a] = iv[a].state
      BY <2>1 DEF StatesKept, N
    <3>1. state'[a] = state[a] \/ (a <= i /\ state'[a] = "LI_SPILL")
      BY <2>1, <2>5, <2>7, <2>8
    <3> QED
      BY <1>2, <2>1, <3>1 DEF SInv, StatesKept
  <2>11. ASSUME NEW d \in Class PROVE Ordered(active[d], count[d])'
    <3>1. Ordered(e(d), n(d)) /\ count'[d] = n(d)
      BY <1>4, <2>1, <2>2 DEF e, n
    <3>2. CASE active'[d] = e(d)
      BY <2>1, <3>1, <3>2 DEF Ordered
    <3>3. CASE active'[d] # e(d)
      <4>1. d = c /\ active'[d] = insert_active(e(c), n(c) - 1, i)
        BY <2>2, <3>3
      <4>2. /\ n(c) - 1 \in Nat /\ n(c) - 1 < PhysMax[c] /\ (n(c) - 1) + 1 = n(c)
            /\ \A k \in 0 .. (n(c) - 1) - 1 : k \in 0 .. n(c) - 1
        BY <1>2, <2>1, <2>4
      <4>3. \A k \in 0 .. (n(c) - 1) - 1 : e(c)[k] \in 1 .. N
        BY <1>2, <2>1, <2>4, <4>2
      <4>4. Ordered(e(c), n(c) - 1)
        BY <2>4, <4>2 DEF Ordered
      <4>5. Ordered(insert_active(e(c), n(c) - 1, i), (n(c) - 1) + 1)
        BY <1>1, <2>1, <2>4, <4>2, <4>3, <4>4, InsertOrdered
      <4> QED
        BY <2>1, <3>1, <4>1, <4>2, <4>5 DEF Ordered
    <3> QED
      BY <3>2, <3>3
  <2> QED
    BY <1>1, <2>9, <2>10, <2>11 DEF SInv
<1> QED
  BY <1>3, <1>5, <1>6, <1>7 DEF ScanNext

(* An interval goes to the stack only where more intervals of its class    *)
(* are alive than there are registers.                                     *)
THEOREM SpillNecessaryTheorem == ScanSpec => []SpillNecessary
<1>1. SInv => SpillNecessary
  BY DEF SInv
<1>2. ScanInit => SInv
  BY InitIsStart, StartSInv
<1> QED
  BY <1>1, <1>2, NextSInv, PTL DEF ScanSpec
============================================================================
