---------------------------- MODULE TableProofs ----------------------------
(***************************************************************************)
(* Proofs about the hash table, for every set of names, every hash         *)
(* function and every capacity: the probe loop ends, a stored name is      *)
(* found, and the table implements the map of module Map.                  *)
(*                                                                         *)
(* The heart is the invariant of linear probing (Reachable): from the home *)
(* of a stored name up to its entry no entry is empty and none has the     *)
(* name, so that find_entry gets there and a name is never stored twice.   *)
(***************************************************************************)
EXTENDS Table, NatLemmas, FiniteSetTheorems

Entry == [key : {NoKey}, value : {NoValue, Tombstone}] \cup [key : Key, value : Value]

(* find_entry goes on at such an entry.                                    *)
Passed(e, k) == e # Empty /\ e.key # k

(* Nothing stops find_entry before its d-th place.                         *)
OpenUpTo(ents, cap, k, d) == \A j \in 0 .. d - 1 : Passed(ents[Probe(cap, k, j)], k)

ReachedAt(ents, cap, k, s) ==
  \E d \in Slots(cap) : Probe(cap, k, d) = s /\ OpenUpTo(ents, cap, k, d)

Reachable(ents, cap) == \A s \in Live(ents) : ReachedAt(ents, cap, ents[s].key, s)

HasRoom(ents, cap) == \E s \in Slots(cap) : ents[s] = Empty

Good(ents, cap) ==
  /\ cap \in Nat \ {0}
  /\ ents \in [Slots(cap) -> Entry]
  /\ Reachable(ents, cap)
  /\ HasRoom(ents, cap)

Stored(ents, k) == \E s \in Live(ents) : ents[s].key = k

----------------------------------------------------------------------------
(* The smallest element is one.                                            *)
LEMMA MinimumIs ==
  ASSUME NEW S \in SUBSET Nat, S # {}
  PROVE  Minimum(S) \in S /\ \A y \in S : Minimum(S) <= y
<1>1. \E x \in S : \A y \in S : x <= y
  BY LeastNat
<1> QED
  BY <1>1 DEF Minimum

(* find_entry's places are places of the table, all of them, each once.    *)
LEMMA Probes ==
  ASSUME NEW cap \in Nat \ {0}, NEW k \in Key
  PROVE  /\ \A d \in Slots(cap) : Probe(cap, k, d) \in Slots(cap)
         /\ \A d, e \in Slots(cap) : Probe(cap, k, d) = Probe(cap, k, e) => d = e
         /\ \A s \in Slots(cap) : \E d \in Slots(cap) : Probe(cap, k, d) = s
<1>1. Hash[k] \in Nat
  BY TableAssumption
<1>2. \A d \in Slots(cap) : Hash[k] + d \in Nat
  BY <1>1 DEF Slots
<1> QED
  BY <1>1, <1>2, DivMod, ModInjective, ModSurjective DEF Probe, Slots

(* An entry without a name is empty or a tombstone.                        *)
LEMMA Entries ==
  /\ Empty \in Entry
  /\ \A e \in Entry : e.key = NoKey => e = Empty \/ e.value = Tombstone
  /\ \A e \in Entry : e.key # NoKey => e.key \in Key /\ e.value \in Value
  /\ \A k \in Key, v \in Value : [key |-> k, value |-> v] \in Entry /\ k # NoKey
  BY TableAssumption DEF Entry, Empty

(* find_entry always has a place to stop at.                               *)
LEMMA StopsSome ==
  ASSUME NEW cap, NEW ents, Good(ents, cap), NEW k \in Key
  PROVE  Stops(ents, cap, k) \in SUBSET Nat /\ Stops(ents, cap, k) # {}
<1>1. PICK s \in Slots(cap) : ents[s] = Empty
  BY DEF Good, HasRoom
<1>2. PICK d \in Slots(cap) : Probe(cap, k, d) = s
  BY Probes DEF Good
<1> QED
  BY <1>1, <1>2 DEF Stops, Slots, Good

(* A name is in one entry at most.                                         *)
LEMMA StoredOnce ==
  ASSUME NEW cap, NEW ents, Good(ents, cap),
         NEW s \in Live(ents), NEW t \in Live(ents), ents[s].key = ents[t].key
  PROVE  s = t
<1> DEFINE k == ents[s].key
<1>1. k \in Key /\ s \in Slots(cap) /\ t \in Slots(cap)
  BY Entries DEF Good, Live
<1>2. PICK d \in Slots(cap) : Probe(cap, k, d) = s /\ OpenUpTo(ents, cap, k, d)
  BY DEF Good, Reachable, ReachedAt
<1>3. PICK e \in Slots(cap) : Probe(cap, k, e) = t /\ OpenUpTo(ents, cap, k, e)
  BY DEF Good, Reachable, ReachedAt
<1>4. ~(d < e) /\ ~(e < d)
  BY <1>2, <1>3 DEF OpenUpTo, Passed, Slots
<1> QED
  BY <1>2, <1>3, <1>4 DEF Slots

(* What find_entry finds: the name's entry, or a free one on its way.      *)
LEMMA Found ==
  ASSUME NEW cap, NEW ents, Good(ents, cap), NEW k \in Key
  PROVE  LET e == find_entry(ents, cap, k)
         IN  /\ e \in Slots(cap)
             /\ ReachedAt(ents, cap, k, e)
             /\ IF Stored(ents, k) THEN ents[e].key = k ELSE ents[e].key = NoKey
<1> DEFINE stop == Minimum(Stops(ents, cap, k))
           tombstones == {d \in 0 .. stop - 1 : ents[Probe(cap, k, d)].key = NoKey}
           e == find_entry(ents, cap, k)
<1>1. stop \in Stops(ents, cap, k) /\ \A y \in Stops(ents, cap, k) : stop <= y
  BY StopsSome, MinimumIs
<1>2. stop \in Slots(cap) /\ (ents[Probe(cap, k, stop)] = Empty \/ ents[Probe(cap, k, stop)].key = k)
  BY <1>1 DEF Stops
<1>3. stop \in Nat /\ \A j \in 0 .. stop - 1 : j \in Slots(cap)
  BY <1>2 DEF Slots, Good
<1>4. OpenUpTo(ents, cap, k, stop)
  BY <1>1, <1>3 DEF OpenUpTo, Passed, Stops
<1>5. e = IF ents[Probe(cap, k, stop)].key # k /\ tombstones # {}
          THEN Probe(cap, k, Minimum(tombstones)) ELSE Probe(cap, k, stop)
  BY DEF find_entry
<1> HIDE DEF stop, e
<1>6. k # NoKey
  BY TableAssumption
<1>7. CASE ents[Probe(cap, k, stop)].key = k
  <2>1. e = Probe(cap, k, stop) /\ e \in Slots(cap)
    BY <1>2, <1>5, <1>7, Probes DEF Good
  <2>2. Stored(ents, k)
    BY <1>6, <1>7, <2>1 DEF Stored, Live, Good
  <2> QED
    BY <1>2, <1>4, <1>7, <2>1, <2>2 DEF ReachedAt, e
<1>8. CASE ents[Probe(cap, k, stop)].key # k
  <2>1. ents[Probe(cap, k, stop)].key = NoKey
    BY <1>2, <1>8 DEF Empty
  <2>2. ~Stored(ents, k)
    <3> SUFFICES ASSUME NEW s \in Live(ents), ents[s].key = k
                 PROVE  FALSE
      BY DEF Stored
    <3>1. PICK d \in Slots(cap) : Probe(cap, k, d) = s /\ OpenUpTo(ents, cap, k, d)
      BY DEF Good, Reachable, ReachedAt
    <3>2. d \in Stops(ents, cap, k)
      BY <3>1 DEF Stops
    <3>3. stop < d
      BY <1>1, <1>2, <1>8, <3>1, <3>2 DEF Slots
    <3>4. stop \in 0 .. d - 1
      BY <1>3, <3>1, <3>3 DEF Slots
    <3> QED
      BY <1>2, <1>8, <3>1, <3>4 DEF OpenUpTo, Passed
  <2>3. CASE tombstones = {}
    BY <1>2, <1>4, <1>5, <2>1, <2>2, <2>3, Probes DEF ReachedAt, Good, e
  <2>4. CASE tombstones # {}
    <3> DEFINE m == Minimum(tombstones)
    <3>1. m \in tombstones
      <4>1. tombstones \in SUBSET Nat
        BY <1>3
      <4> HIDE DEF tombstones
      <4> QED
        BY <2>4, <4>1, MinimumIs
    <3> HIDE DEF m
    <3>2. m \in 0 .. stop - 1 /\ ents[Probe(cap, k, m)].key = NoKey /\ m \in Slots(cap)
      BY <1>3, <3>1
    <3>3. OpenUpTo(ents, cap, k, m)
      BY <1>3, <1>4, <3>2 DEF OpenUpTo
    <3>4. e = Probe(cap, k, m)
      BY <1>5, <1>8, <2>4 DEF m
    <3> QED
      BY <2>2, <3>2, <3>3, <3>4, Probes DEF ReachedAt, Good, e
  <2> QED
    BY <2>3, <2>4
<1> QED
  BY <1>7, <1>8

----------------------------------------------------------------------------
(* The entry of find_entry takes the name: what was stored stays where     *)
(* find_entry finds it, and the name is stored in that entry.              *)
LEMMA PutKeepsReachable ==
  ASSUME NEW cap, NEW ents, Good(ents, cap), NEW k \in Key, NEW v \in Value
  PROVE  LET e == find_entry(ents, cap, k)
             new == [ents EXCEPT ![e] = [key |-> k, value |-> v]]
         IN  /\ new \in [Slots(cap) -> Entry]
             /\ Reachable(new, cap)
             /\ Live(new) = Live(ents) \cup {e}
             /\ Stored(ents, k) <=> e \in Live(ents)
<1> DEFINE e == find_entry(ents, cap, k)
           new == [ents EXCEPT ![e] = [key |-> k, value |-> v]]
<1>1. /\ e \in Slots(cap) /\ ReachedAt(ents, cap, k, e)
      /\ IF Stored(ents, k) THEN ents[e].key = k ELSE ents[e].key = NoKey
  BY Found
<1> HIDE DEF e
<1>2. /\ new \in [Slots(cap) -> Entry]
      /\ new[e] = [key |-> k, value |-> v] /\ new[e].key = k /\ k # NoKey
      /\ \A s \in Slots(cap) \ {e} : new[s] = ents[s]
  BY <1>1, Entries DEF Good
<1>3. ents \in [Slots(cap) -> Entry] /\ cap \in Nat \ {0}
  BY DEF Good
<1>4. Live(new) = Live(ents) \cup {e} /\ (Stored(ents, k) <=> e \in Live(ents))
  BY <1>1, <1>2, <1>3 DEF Live
<1> HIDE DEF new
<1>5. ASSUME NEW s \in Live(new) PROVE ReachedAt(new, cap, new[s].key, s)
  <2>1. CASE s = e
    <3>1. PICK d \in Slots(cap) : Probe(cap, k, d) = e /\ OpenUpTo(ents, cap, k, d)
      BY <1>1 DEF ReachedAt
    <3>2. \A j \in 0 .. d - 1 : j \in Slots(cap) /\ j # d
      BY <1>3, <3>1 DEF Slots
    <3>3. \A j \in 0 .. d - 1 : Probe(cap, k, j) \in Slots(cap) \ {e}
      BY <1>3, <3>1, <3>2, Probes
    <3>4. OpenUpTo(new, cap, k, d)
      BY <1>2, <3>1, <3>3 DEF OpenUpTo
    <3> QED
      BY <1>2, <2>1, <3>1, <3>4 DEF ReachedAt
  <2>2. CASE s # e
    <3>1. s \in Live(ents) /\ new[s] = ents[s] /\ ents[s].key \in Key
      BY <1>2, <1>3, <1>4, <1>5, <2>2, Entries DEF Live
    <3> DEFINE q == ents[s].key
    <3>2. PICK d \in Slots(cap) : Probe(cap, q, d) = s /\ OpenUpTo(ents, cap, q, d)
      BY <3>1 DEF Good, Reachable, ReachedAt
    <3>3. q # k
      <4> SUFFICES ASSUME q = k PROVE FALSE
        OBVIOUS
      <4>1. e \in Live(ents) /\ ents[e].key = k
        BY <1>1, <1>4, <3>1 DEF Stored
      <4> QED
        BY <2>2, <3>1, <4>1, StoredOnce
    <3> HIDE DEF q
    <3>4. \A j \in 0 .. d - 1 : Probe(cap, q, j) \in Slots(cap)
      <4>1. \A j \in 0 .. d - 1 : j \in Slots(cap)
        BY <1>3, <3>2 DEF Slots
      <4> QED
        BY <1>3, <3>1, <4>1, Probes DEF q
    <3>5. new[e] # Empty /\ new[e].key # q
      BY <1>2, <3>3 DEF Empty
    <3>6. OpenUpTo(new, cap, q, d)
      BY <1>2, <3>2, <3>4, <3>5 DEF OpenUpTo, Passed
    <3> QED
      BY <3>1, <3>2, <3>6 DEF ReachedAt, q
  <2> QED
    BY <2>1, <2>2
<1>6. Reachable(new, cap)
  BY <1>5 DEF Reachable
<1> QED
  BY <1>2, <1>4, <1>6 DEF e, new

(* A tombstone holds the place of a deleted name for the names behind it.  *)
LEMMA DeleteKeepsReachable ==
  ASSUME NEW cap, NEW ents, Good(ents, cap), NEW e \in Live(ents)
  PROVE  LET new == [ents EXCEPT ![e] = Deleted(e)]
         IN  /\ new \in [Slots(cap) -> Entry]
             /\ Reachable(new, cap)
             /\ Live(new) = Live(ents) \ {e}
             /\ \A s \in Slots(cap) : new[s] = Empty <=> ents[s] = Empty
<1> DEFINE new == [ents EXCEPT ![e] = Deleted(e)]
<1>1. ents \in [Slots(cap) -> Entry] /\ cap \in Nat \ {0} /\ e \in Slots(cap) /\ ents[e].key # NoKey
  BY DEF Good, Live
<1>2. /\ Deleted(e) \in Entry /\ Deleted(e) # Empty /\ ents[e] # Empty
      /\ Deleted(e).key = NoKey
  BY <1>1, TableAssumption DEF Deleted, Entry, Empty
<1>3. /\ new \in [Slots(cap) -> Entry]
      /\ new[e] = Deleted(e)
      /\ \A s \in Slots(cap) \ {e} : new[s] = ents[s]
  BY <1>1, <1>2
<1> HIDE DEF new
<1>4. Live(new) = Live(ents) \ {e} /\ \A s \in Slots(cap) : new[s] = Empty <=> ents[s] = Empty
  BY <1>1, <1>2, <1>3 DEF Live
<1>5. ASSUME NEW s \in Live(new) PROVE ReachedAt(new, cap, new[s].key, s)
  <2>1. s \in Live(ents) /\ new[s] = ents[s] /\ ents[s].key \in Key
    BY <1>1, <1>3, <1>4, <1>5, Entries DEF Live
  <2> DEFINE q == ents[s].key
  <2>2. PICK d \in Slots(cap) : Probe(cap, q, d) = s /\ OpenUpTo(ents, cap, q, d)
    BY <2>1 DEF Good, Reachable, ReachedAt
  <2> HIDE DEF q
  <2>3. \A j \in 0 .. d - 1 : Probe(cap, q, j) \in Slots(cap)
    <3>1. \A j \in 0 .. d - 1 : j \in Slots(cap)
      BY <1>1, <2>2 DEF Slots
    <3> QED
      BY <1>1, <2>1, <3>1, Probes DEF q
  <2>4. new[e] # Empty /\ new[e].key # q
    BY <1>2, <1>3, <2>1, TableAssumption DEF q
  <2>5. OpenUpTo(new, cap, q, d)
    BY <1>3, <2>2, <2>3, <2>4 DEF OpenUpTo, Passed
  <2> QED
    BY <2>1, <2>2, <2>5 DEF ReachedAt, q
<1> QED
  BY <1>3, <1>4, <1>5 DEF Reachable, new

----------------------------------------------------------------------------
(* adjust_capacity.  The loop over the old entries is a recursive function *)
(* in Rehash; it exists, and has the values that its definition says.      *)
MoveOne(before, new, e) ==
  IF e.key = NoKey THEN before ELSE [before EXCEPT ![find_entry(before, new, e.key)] = e]

IsMoved(f, ents, new, n) ==
  f = [i \in 0 .. n |-> IF i = 0 THEN [s \in Slots(new) |-> Empty]
                        ELSE MoveOne(f[i - 1], new, ents[i - 1])]

(* The loop of adjust_capacity over the old entries has a result.          *)
LEMMA MovedExists ==
  ASSUME NEW ents, NEW new, NEW cap \in Nat
  PROVE  \E f : IsMoved(f, ents, new, cap)
<1> DEFINE T == {n \in Nat : ~\E f : IsMoved(f, ents, new, n)}
<1> SUFFICES T = {}
  OBVIOUS
<1> SUFFICES ASSUME T # {} PROVE FALSE
  OBVIOUS
<1>1. PICK m \in T : \A n \in T : m <= n
  <2>1. T \in SUBSET Nat
    OBVIOUS
  <2> HIDE DEF T
  <2> QED
    BY <2>1, LeastNat
<1>2. CASE m = 0
  <2> DEFINE f == [i \in 0 .. 0 |-> [s \in Slots(new) |-> Empty]]
  <2>1. \A i \in 0 .. 0 : i = 0
    OBVIOUS
  <2>2. IsMoved(f, ents, new, 0)
    BY <2>1 DEF IsMoved
  <2> QED
    BY <1>1, <1>2, <2>2
<1>3. CASE m # 0
  <2>1. m - 1 \in Nat /\ m \in Nat
    BY <1>1, <1>3
  <2>2. PICK f : IsMoved(f, ents, new, m - 1)
    BY <1>1, <2>1
  <2> DEFINE g == [i \in 0 .. m |-> IF i < m THEN f[i] ELSE MoveOne(f[m - 1], new, ents[m - 1])]
  <2>3. \A i \in 0 .. m - 1 : f[i] = IF i = 0 THEN [s \in Slots(new) |-> Empty]
                                   ELSE MoveOne(f[i - 1], new, ents[i - 1])
    BY <2>2 DEF IsMoved
  <2>4. \A i \in 0 .. m : g[i] = IF i = 0 THEN [s \in Slots(new) |-> Empty]
                               ELSE MoveOne(g[i - 1], new, ents[i - 1])
    <3> SUFFICES ASSUME NEW i \in 0 .. m
                 PROVE  g[i] = IF i = 0 THEN [s \in Slots(new) |-> Empty]
                               ELSE MoveOne(g[i - 1], new, ents[i - 1])
      OBVIOUS
    <3>1. i # 0 => i - 1 \in 0 .. m /\ i - 1 < m /\ g[i - 1] = f[i - 1]
      BY <2>1
    <3>2. CASE i < m
      <4>1. i \in 0 .. m - 1 /\ g[i] = f[i]
        BY <2>1, <3>2
      <4> HIDE DEF g
      <4> QED
        BY <2>3, <3>1, <4>1
    <3>3. CASE i = m
      <4>1. g[i] = MoveOne(f[m - 1], new, ents[m - 1])
        BY <2>1, <3>3
      <4> HIDE DEF g
      <4> QED
        BY <1>3, <3>1, <3>3, <4>1
    <3> QED
      BY <2>1, <3>2, <3>3
  <2>5. IsMoved(g, ents, new, m)
    <3>1. g = [i \in 0 .. m |-> g[i]]
      OBVIOUS
    <3> HIDE DEF g
    <3> QED
      BY <2>4, <3>1 DEF IsMoved
  <2> QED
    BY <1>1, <2>5
<1> QED
  BY <1>2, <1>3

Moved(ents, cap, new) == CHOOSE f : IsMoved(f, ents, new, cap)

(* Rehash is the last of the tables that the loop goes through.            *)
LEMMA RehashIs ==
  ASSUME NEW ents, NEW cap \in Nat, NEW new
  PROVE  \E mv : Rehash(ents, cap, new) = mv[cap] /\ IsMoved(mv, ents, new, cap)
<1> DEFINE mv == Moved(ents, cap, new)
<1>1. Rehash(ents, cap, new) = mv[cap]
  BY DEF Rehash, IsMoved, MoveOne, Moved
<1>2. IsMoved(mv, ents, new, cap)
  BY MovedExists DEF Moved
<1> HIDE DEF mv
<1> QED
  BY <1>1, <1>2

(* Fewer names than entries: one entry is empty.                           *)
LEMMA RoomLeft ==
  ASSUME NEW cap \in Nat \ {0}, NEW ents, NEW S \in SUBSET Slots(cap), Cardinality(S) < cap,
         \A s \in Slots(cap) \ S : ents[s] = Empty
  PROVE  HasRoom(ents, cap)
<1>1. IsFiniteSet(Slots(cap)) /\ Cardinality(Slots(cap)) = cap
  BY FS_Interval DEF Slots
<1>2. S # Slots(cap)
  BY <1>1
<1> QED
  BY <1>2 DEF HasRoom

UniqueNames(ents) == \A s, t \in Live(ents) : ents[s].key = ents[t].key => s = t

NamedBelow(ents, n) == {s \in Live(ents) : s < n}

(* After n entries of the old table: these and no others are in the new    *)
(* one, which has no tombstones.                                           *)
MovedUpTo(f, ents, new, n) ==
  /\ f \in [Slots(new) -> Entry]
  /\ Reachable(f, new)
  /\ \A s \in Slots(new) \ Live(f) : f[s] = Empty
  /\ {f[s] : s \in Live(f)} = {ents[s] : s \in NamedBelow(ents, n)}
  /\ Cardinality(Live(f)) = Cardinality(NamedBelow(ents, n))

(* Entering one more entry of the old table into the new one.              *)
LEMMA MoveOneKeeps ==
  ASSUME NEW cap \in Nat, NEW new \in Nat \ {0}, NEW ents \in [Slots(cap) -> Entry],
         UniqueNames(ents), Cardinality(Live(ents)) < new,
         NEW n \in 1 .. cap, NEW f, MovedUpTo(f, ents, new, n - 1)
  PROVE  MovedUpTo(MoveOne(f, new, ents[n - 1]), ents, new, n)
<1> DEFINE e == ents[n - 1]
           g == MoveOne(f, new, e)
<1>1. n - 1 \in Slots(cap) /\ e \in Entry /\ Live(ents) \subseteq Slots(cap)
  BY DEF Slots, Live
<1>2. f \in [Slots(new) -> Entry] /\ Live(f) \subseteq Slots(new)
  BY DEF MovedUpTo, Live
<1>3. CASE e.key = NoKey
  <2>1. n - 1 \notin Live(ents)
    BY <1>3 DEF Live
  <2>2. NamedBelow(ents, n) = NamedBelow(ents, n - 1)
    BY <1>1, <2>1 DEF NamedBelow, Slots
  <2>3. g = f
    BY <1>3 DEF MoveOne
  <2> HIDE DEF g
  <2> QED
    BY <2>2, <2>3 DEF MovedUpTo, g
<1>4. CASE e.key # NoKey
  <2> DEFINE k == e.key
             a == find_entry(f, new, k)
  <2>1. k \in Key /\ e.value \in Value /\ e = [key |-> k, value |-> e.value]
    BY <1>1, <1>4, Entries DEF Entry
  <2>2. n - 1 \in Live(ents)
    BY <1>1, <1>4 DEF Live
  <2>3. /\ NamedBelow(ents, n) = NamedBelow(ents, n - 1) \cup {n - 1}
        /\ n - 1 \notin NamedBelow(ents, n - 1)
    BY <1>1, <2>2 DEF NamedBelow, Slots
  <2>4. IsFiniteSet(Live(ents)) /\ IsFiniteSet(NamedBelow(ents, n - 1)) /\ IsFiniteSet(Live(f))
    <3>1. IsFiniteSet(Slots(cap)) /\ IsFiniteSet(Slots(new))
      BY FS_Interval DEF Slots
    <3> QED
      BY <1>1, <1>2, <3>1, FS_Subset DEF NamedBelow
  <2>5. Cardinality(NamedBelow(ents, n)) = Cardinality(NamedBelow(ents, n - 1)) + 1
    BY <2>3, <2>4, FS_AddElement
  <2>6. Cardinality(Live(f)) < new
    <3>1. Cardinality(NamedBelow(ents, n - 1)) <= Cardinality(Live(ents))
      BY <2>4, FS_Subset DEF NamedBelow
    <3>2. Cardinality(Live(ents)) \in Nat /\ Cardinality(NamedBelow(ents, n - 1)) \in Nat
      BY <2>4, FS_CardinalityType
    <3> QED
      BY <3>1, <3>2 DEF MovedUpTo
  <2>7. Good(f, new)
    BY <1>2, <2>6, RoomLeft DEF MovedUpTo, Good
  <2>8. ~Stored(f, k)
    <3> SUFFICES ASSUME NEW s \in Live(f), f[s].key = k PROVE FALSE
      BY DEF Stored
    <3>1. PICK t \in NamedBelow(ents, n - 1) : f[s] = ents[t]
      BY DEF MovedUpTo
    <3>2. t = n - 1
      BY <2>2, <3>1 DEF UniqueNames, NamedBelow
    <3> QED
      BY <2>3, <3>2
  <2>9. g = [f EXCEPT ![a] = e]
    BY <1>4 DEF MoveOne
  <2>10. a \in Slots(new)
    BY <2>1, <2>7, Found
  <2>11. /\ g \in [Slots(new) -> Entry] /\ Reachable(g, new)
         /\ Live(g) = Live(f) \cup {a} /\ a \notin Live(f)
    <3> DEFINE v == e.value
    <3>1. k \in Key /\ v \in Value /\ g = [f EXCEPT ![a] = [key |-> k, value |-> v]]
      BY <2>1, <2>9
    <3> HIDE DEF g, e, k, v
    <3>2. LET x == find_entry(f, new, k)
              y == [f EXCEPT ![x] = [key |-> k, value |-> v]]
          IN  /\ y \in [Slots(new) -> Entry]
              /\ Reachable(y, new)
              /\ Live(y) = Live(f) \cup {x}
              /\ Stored(f, k) <=> x \in Live(f)
      BY <2>7, <3>1, PutKeepsReachable
    <3> QED
      BY <2>8, <3>1, <3>2
  <2>12. Cardinality(Live(g)) = Cardinality(Live(f)) + 1
    BY <2>4, <2>11, FS_AddElement
  <2>13. g[a] = e /\ \A s \in Slots(new) \ {a} : g[s] = f[s]
    BY <1>2, <2>9, <2>10
  <2> HIDE DEF e, g, a
  <2>14. \A s \in Slots(new) \ Live(g) : g[s] = Empty
    BY <2>11, <2>13 DEF MovedUpTo
  <2>15. {g[s] : s \in Live(g)} = {ents[s] : s \in NamedBelow(ents, n)}
    <3>1. {g[s] : s \in Live(g)} = {f[s] : s \in Live(f)} \cup {e}
      BY <1>2, <2>10, <2>11, <2>13
    <3>2. {ents[s] : s \in NamedBelow(ents, n)} = {ents[s] : s \in NamedBelow(ents, n - 1)} \cup {e}
      BY <2>3 DEF e
    <3> QED
      BY <3>1, <3>2 DEF MovedUpTo
  <2> QED
    BY <2>5, <2>11, <2>12, <2>14, <2>15 DEF MovedUpTo, g, e
<1> QED
  BY <1>3, <1>4

Items(ents) == {ents[s] : s \in Live(ents)}

(* r has the names and values of ents, and no tombstones.                  *)
IsRehash(r, ents, new) ==
  /\ Good(r, new)
  /\ \A s \in Slots(new) \ Live(r) : r[s] = Empty
  /\ Items(r) = Items(ents)
  /\ Cardinality(Live(r)) = Cardinality(Live(ents))

(* The table after adjust_capacity: the same names, without tombstones.    *)
LEMMA RehashKeeps ==
  ASSUME NEW cap \in Nat, NEW new \in Nat \ {0}, NEW ents \in [Slots(cap) -> Entry],
         UniqueNames(ents), Cardinality(Live(ents)) < new
  PROVE  IsRehash(Rehash(ents, cap, new), ents, new)
<1>0. PICK mv : Rehash(ents, cap, new) = mv[cap] /\ IsMoved(mv, ents, new, cap)
  BY RehashIs
<1>1. /\ Rehash(ents, cap, new) = mv[cap]
      /\ mv[0] = [s \in Slots(new) |-> Empty]
      /\ \A n \in 1 .. cap : mv[n] = MoveOne(mv[n - 1], new, ents[n - 1])
  BY <1>0 DEF IsMoved
<1>2. MovedUpTo(mv[0], ents, new, 0)
  <2>1. Live(mv[0]) = {}
    BY <1>1 DEF Live, Empty
  <2>2. NamedBelow(ents, 0) = {}
    BY DEF NamedBelow, Live, Slots
  <2> QED
    BY <1>1, <2>1, <2>2, Entries DEF MovedUpTo, Reachable
<1> DEFINE T == {n \in 0 .. cap : ~MovedUpTo(mv[n], ents, new, n)}
<1>3. T = {}
  <2> SUFFICES ASSUME T # {} PROVE FALSE
    OBVIOUS
  <2>1. PICK m \in T : \A n \in T : m <= n
    <3>1. T \in SUBSET Nat
      OBVIOUS
    <3> HIDE DEF T
    <3> QED
      BY <3>1, LeastNat
  <2>2. m \in 1 .. cap /\ m - 1 \in 0 .. cap /\ m - 1 \notin T
    BY <1>2, <2>1
  <2>3. MovedUpTo(mv[m - 1], ents, new, m - 1)
    BY <2>2
  <2>4. MovedUpTo(MoveOne(mv[m - 1], new, ents[m - 1]), ents, new, m)
    BY <2>2, <2>3, MoveOneKeeps
  <2> QED
    BY <1>1, <2>1, <2>2, <2>4
<1>4. MovedUpTo(mv[cap], ents, new, cap)
  BY <1>3
<1>5. NamedBelow(ents, cap) = Live(ents)
  BY DEF NamedBelow, Live, Slots
<1>6. Good(mv[cap], new)
  <2>1. Live(mv[cap]) \subseteq Slots(new)
    BY <1>4 DEF MovedUpTo, Live
  <2> QED
    BY <1>4, <1>5, <2>1, RoomLeft DEF MovedUpTo, Good
<1>7. /\ \A s \in Slots(new) \ Live(mv[cap]) : mv[cap][s] = Empty
      /\ {mv[cap][s] : s \in Live(mv[cap])} = {ents[s] : s \in Live(ents)}
      /\ Cardinality(Live(mv[cap])) = Cardinality(Live(ents))
  BY <1>4, <1>5 DEF MovedUpTo
<1>8. Items(mv[cap]) = Items(ents)
  BY <1>7 DEF Items
<1>9. IsRehash(mv[cap], ents, new)
  BY <1>6, <1>7, <1>8 DEF IsRehash
<1> QED
  BY <1>1, <1>9
----------------------------------------------------------------------------
(* The entries that are not empty: table->used counts them.                *)
Full(ents) == {s \in DOMAIN ents : ents[s] # Empty}

(* One table by itself: its entries, its capacity and its two counters.    *)
Sound(ents, cap, n, u) ==
  /\ Good(ents, cap)
  /\ u = Cardinality(Full(ents))
  /\ n = Cardinality(Live(ents))
  /\ u < cap

(* The inductive invariant. The table has no entries before the first put. *)
TInv ==
  /\ \/ capacity = 0 /\ count = 0 /\ used = 0 /\ entries \in [Slots(0) -> Entry]
     \/ capacity >= 3 /\ Sound(entries, capacity, count, used)
  /\ it \in Nat \cup {-1}

(* The entries of a table are finitely many, the live ones are not empty.  *)
LEMMA Counters ==
  ASSUME NEW cap \in Nat, NEW ents \in [Slots(cap) -> Entry]
  PROVE  /\ Live(ents) \subseteq Full(ents) /\ Full(ents) \subseteq Slots(cap)
         /\ IsFiniteSet(Live(ents)) /\ IsFiniteSet(Full(ents))
         /\ Cardinality(Live(ents)) \in Nat /\ Cardinality(Full(ents)) \in Nat
         /\ Cardinality(Live(ents)) <= Cardinality(Full(ents))
<1>1. Live(ents) \subseteq Full(ents) /\ Full(ents) \subseteq Slots(cap)
  BY DEF Live, Full, Empty
<1>2. IsFiniteSet(Slots(cap))
  BY FS_Interval DEF Slots
<1>3. IsFiniteSet(Full(ents)) /\ IsFiniteSet(Live(ents))
  BY <1>1, <1>2, FS_Subset
<1> QED
  BY <1>1, <1>3, FS_CardinalityType, FS_Subset

(* table_put's last part: with an empty entry to spare, the entry that     *)
(* find_entry gave takes the name, and the counters follow.                *)
LEMMA PutKeepsSound ==
  ASSUME NEW cap, NEW ents, NEW n, NEW u, Sound(ents, cap, n, u), u + 1 < cap,
         NEW k \in Key, NEW v \in Value
  PROVE  LET e == find_entry(ents, cap, k)
             isNewKey == ents[e].key = NoKey
         IN  Sound([ents EXCEPT ![e] = [key |-> k, value |-> v]], cap,
                   IF isNewKey THEN n + 1 ELSE n,
                   IF isNewKey /\ ents[e].value = NoValue THEN u + 1 ELSE u)
<1> DEFINE e == find_entry(ents, cap, k)
           new == [ents EXCEPT ![e] = [key |-> k, value |-> v]]
           n1 == IF ents[e].key = NoKey THEN n + 1 ELSE n
           u1 == IF ents[e].key = NoKey /\ ents[e].value = NoValue THEN u + 1 ELSE u
<1>1. Good(ents, cap) /\ cap \in Nat \ {0} /\ ents \in [Slots(cap) -> Entry]
      /\ u = Cardinality(Full(ents)) /\ n = Cardinality(Live(ents))
  BY DEF Sound, Good
<1>2. /\ new \in [Slots(cap) -> Entry] /\ Reachable(new, cap)
      /\ Live(new) = Live(ents) \cup {e}
  BY <1>1, PutKeepsReachable, ZenonT(40)
<1>3. e \in Slots(cap) /\ ents[e] \in Entry
  BY <1>1, Found
<1>4. /\ IsFiniteSet(Live(ents)) /\ IsFiniteSet(Full(ents)) /\ n \in Nat /\ u \in Nat
      /\ Full(ents) \subseteq Slots(cap)
  BY <1>1, Counters
<1>5. n1 = Cardinality(Live(new))
  <2>1. ents[e].key = NoKey <=> e \notin Live(ents)
    BY <1>1, <1>3 DEF Live
  <2> HIDE DEF e, new
  <2>2. CASE e \in Live(ents)
    BY <1>1, <1>2, <2>1, <2>2, FS_AddElement
  <2>3. CASE e \notin Live(ents)
    BY <1>1, <1>2, <1>4, <2>1, <2>3, FS_AddElement
  <2> QED
    BY <2>2, <2>3
<1>6. Full(new) = Full(ents) \cup {e}
  <2>1. new[e] # Empty /\ \A s \in Slots(cap) \ {e} : new[s] = ents[s]
    BY <1>1, <1>3, TableAssumption DEF Empty
  <2> HIDE DEF e, new
  <2> QED
    BY <1>1, <1>2, <1>3, <2>1 DEF Full
<1>7. u1 = Cardinality(Full(new))
  <2>1. (ents[e].key = NoKey /\ ents[e].value = NoValue) <=> ents[e] = Empty
    BY <1>3, TableAssumption DEF Entry, Empty
  <2>2. ents[e] = Empty <=> e \notin Full(ents)
    BY <1>1, <1>3 DEF Full
  <2> HIDE DEF e, new
  <2>3. CASE e \in Full(ents)
    <3>1. Full(new) = Full(ents) /\ u1 = u
      BY <1>6, <2>1, <2>2, <2>3
    <3> QED
      BY <1>1, <3>1
  <2>4. CASE e \notin Full(ents)
    BY <1>1, <1>4, <1>6, <2>1, <2>2, <2>4, FS_AddElement
  <2> QED
    BY <2>3, <2>4
<1>8. u1 < cap
  BY <1>1, <1>4
<1>9. HasRoom(new, cap)
  <2>1. Full(new) \subseteq Slots(cap) /\ \A s \in Slots(cap) \ Full(new) : new[s] = Empty
    BY <1>2 DEF Full
  <2> HIDE DEF new, u1
  <2> QED
    BY <1>1, <1>7, <1>8, <2>1, RoomLeft
<1> HIDE DEF e, new, n1, u1
<1>10. Sound(new, cap, n1, u1)
  BY <1>1, <1>2, <1>5, <1>7, <1>8, <1>9 DEF Sound, Good
<1> QED
  BY <1>10 DEF e, new, n1, u1

----------------------------------------------------------------------------
(* The table that table_put puts into, after adjust_capacity if it grew.   *)
Grows == MustGrow(capacity, count, used)
PutCap == IF Grows THEN NewCapacity(capacity) ELSE capacity
PutEnts == IF Grows THEN Rehash(entries, capacity, PutCap) ELSE entries
PutUsed == IF Grows THEN Cardinality(Live(entries)) ELSE used
PutCount == IF Grows THEN PutUsed ELSE count

(* It holds what the table held and has two empty entries or more.         *)
LEMMA PutHasRoom ==
  ASSUME TInv
  PROVE  /\ Sound(PutEnts, PutCap, PutCount, PutUsed)
         /\ PutUsed + 1 < PutCap /\ PutCap >= 3
         /\ Items(PutEnts) = Items(entries)
<1>1. /\ capacity \in Nat /\ entries \in [Slots(capacity) -> Entry]
      /\ used \in Nat /\ (capacity = 0 => used = 0 /\ Live(entries) = {})
      /\ (capacity > 0 => capacity >= 3 /\ used < capacity)
      /\ Cardinality(Live(entries)) \in Nat /\ Cardinality(Live(entries)) <= used
  <2>1. CASE capacity = 0
    <3>1. entries \in [Slots(0) -> Entry] /\ used = 0 /\ Slots(0) = {}
      BY <2>1 DEF TInv, Slots
    <3>2. Live(entries) = {}
      BY <3>1 DEF Live
    <3> QED
      BY <2>1, <3>1, <3>2, FS_EmptySet
  <2>2. CASE capacity # 0
    <3>1. capacity >= 3 /\ capacity \in Nat /\ entries \in [Slots(capacity) -> Entry]
          /\ used = Cardinality(Full(entries)) /\ used < capacity
      BY <2>2 DEF TInv, Sound, Good
    <3> QED
      BY <3>1, Counters
  <2> QED
    BY <2>1, <2>2
<1>2. CASE ~Grows
  <2>1. used < capacity \div 2
    BY <1>1, <1>2 DEF Grows, MustGrow
  <2>2. capacity > 0 /\ used + 1 < capacity
    BY <1>1, <2>1
  <2>3. PutCap = capacity /\ PutEnts = entries /\ PutUsed = used /\ PutCount = count
    BY <1>2 DEF PutCap, PutEnts, PutUsed, PutCount
  <2> QED
    BY <1>1, <2>2, <2>3 DEF TInv
<1>3. CASE Grows
  <2> DEFINE new == PutCap
             r == PutEnts
  <2>1. new = NewCapacity(capacity) /\ r = Rehash(entries, capacity, new)
        /\ PutUsed = Cardinality(Live(entries)) /\ PutCount = PutUsed
    BY <1>3 DEF PutCap, PutEnts, PutUsed, PutCount
  <2>2. new \in Nat /\ new >= 3 /\ (capacity > 0 => new >= 2 * capacity - 1)
    BY <1>1, <2>1, TableAssumption DEF NewCapacity
  <2> HIDE DEF new, r
  <2>3. PutUsed + 1 < new
    BY <1>1, <2>1, <2>2
  <2>4. UniqueNames(entries)
    <3>1. CASE capacity = 0
      BY <1>1, <3>1 DEF UniqueNames
    <3>2. CASE capacity # 0
      <4>1. Good(entries, capacity)
        BY <3>2 DEF TInv, Sound
      <4> QED
        BY <4>1, StoredOnce DEF UniqueNames
    <3> QED
      BY <3>1, <3>2
  <2>5. /\ Good(r, new) /\ \A s \in Slots(new) \ Live(r) : r[s] = Empty
        /\ Items(r) = Items(entries)
        /\ Cardinality(Live(r)) = PutUsed
    <3>1. Cardinality(Live(entries)) < new /\ new \in Nat \ {0}
      BY <1>1, <2>1, <2>2, <2>3
    <3>2. IsRehash(Rehash(entries, capacity, new), entries, new)
      BY <1>1, <2>4, <3>1, RehashKeeps
    <3> QED
      BY <2>1, <3>2 DEF IsRehash
  <2>6. Full(r) = Live(r)
    BY <2>5 DEF Full, Live, Empty, Good
  <2> QED
    BY <1>1, <2>1, <2>2, <2>3, <2>5, <2>6 DEF Sound, new, r
<1> QED
  BY <1>2, <1>3

(* table_put in terms of these.                                            *)
LEMMA PutIs ==
  ASSUME NEW k \in Key, NEW v \in Value, table_put(k, v)
  PROVE  LET e == find_entry(PutEnts, PutCap, k)
             isNewKey == PutEnts[e].key = NoKey
         IN  /\ entries' = [PutEnts EXCEPT ![e] = [key |-> k, value |-> v]]
             /\ capacity' = PutCap
             /\ count' = IF isNewKey THEN PutCount + 1 ELSE PutCount
             /\ used' = IF isNewKey /\ PutEnts[e].value = NoValue THEN PutUsed + 1 ELSE PutUsed
             /\ ret' = <<isNewKey>> /\ it' = -1
  BY DEF table_put, Grows, PutCap, PutEnts, PutUsed, PutCount

(* What find_entry finds in a table without the name has no name.          *)
LEMMA LookUp ==
  ASSUME TInv, NEW k \in Key
  PROVE  LET e == find_entry(entries, capacity, k)
         IN  /\ (count # 0 /\ entries[e].key # NoKey) <=> Stored(entries, k)
             /\ Stored(entries, k) => e \in Live(entries) /\ entries[e].key = k
<1> DEFINE e == find_entry(entries, capacity, k)
<1>1. CASE capacity = 0
  <2>1. entries \in [Slots(0) -> Entry] /\ count = 0 /\ Slots(0) = {}
    BY <1>1 DEF TInv, Slots
  <2>2. Live(entries) = {}
    BY <2>1 DEF Live
  <2> QED
    BY <2>1, <2>2 DEF Stored
<1>2. CASE capacity # 0
  <2>1. Good(entries, capacity) /\ count = Cardinality(Live(entries))
    BY <1>2 DEF TInv, Sound
  <2>2. entries \in [Slots(capacity) -> Entry] /\ k # NoKey /\ capacity \in Nat
    BY <2>1, TableAssumption DEF Good
  <2>3. e \in Slots(capacity)
        /\ IF Stored(entries, k) THEN entries[e].key = k ELSE entries[e].key = NoKey
    BY <2>1, Found
  <2>4. Stored(entries, k) => count # 0
    <3>1. IsFiniteSet(Live(entries))
      BY <2>2, Counters
    <3> QED
      BY <2>1, <3>1, FS_EmptySet DEF Stored
  <2> HIDE DEF e
  <2>5. Stored(entries, k) => e \in Live(entries)
    BY <2>2, <2>3 DEF Live
  <2> QED
    BY <2>2, <2>3, <2>4, <2>5 DEF e
<1> QED
  BY <1>1, <1>2

(* table_delete keeps the table sound; used does not change.               *)
LEMMA DeleteKeepsSound ==
  ASSUME NEW cap, NEW ents, NEW n, NEW u, Sound(ents, cap, n, u), NEW e \in Live(ents)
  PROVE  Sound([ents EXCEPT ![e] = Deleted(e)], cap, n - 1, u)
<1> DEFINE new == [ents EXCEPT ![e] = Deleted(e)]
<1>1. Good(ents, cap) /\ cap \in Nat \ {0} /\ ents \in [Slots(cap) -> Entry]
      /\ u = Cardinality(Full(ents)) /\ n = Cardinality(Live(ents)) /\ u < cap
  BY DEF Sound, Good
<1>2. /\ new \in [Slots(cap) -> Entry]
      /\ Reachable(new, cap)
      /\ Live(new) = Live(ents) \ {e}
      /\ \A s \in Slots(cap) : new[s] = Empty <=> ents[s] = Empty
  BY <1>1, DeleteKeepsReachable
<1> HIDE DEF new
<1>3. IsFiniteSet(Live(ents)) /\ n \in Nat
  BY <1>1, Counters
<1>4. Cardinality(Live(new)) = n - 1
  BY <1>1, <1>2, <1>3, FS_RemoveElement
<1>5. Full(new) = Full(ents) /\ HasRoom(new, cap)
  BY <1>1, <1>2 DEF Full, HasRoom, Good
<1>6. Sound(new, cap, n - 1, u)
  BY <1>1, <1>2, <1>4, <1>5 DEF Sound, Good
<1> QED
  BY <1>6 DEF new

(* table_init makes a table without entries.                               *)
LEMMA TableInitInv == TableInit => TInv
<1> SUFFICES ASSUME TableInit PROVE TInv
  OBVIOUS
<1>1. capacity = 0 /\ count = 0 /\ used = 0 /\ it = -1 /\ entries = [s \in Slots(0) |-> Empty]
  BY DEF TableInit
<1>2. entries \in [Slots(0) -> Entry]
  BY <1>1, Entries
<1> QED
  BY <1>1, <1>2 DEF TInv

(* The iterator of table_iterate: the first live entry from it on.         *)
LEMMA IterateIs ==
  ASSUME TInv, it # -1
  PROVE  LET rest == {s \in Live(entries) : s >= it}
             s == Minimum(rest)
         IN  rest # {} => s \in rest /\ s \in Nat /\ \A r \in rest : s <= r
<1> DEFINE rest == {s \in Live(entries) : s >= it}
<1>1. Live(entries) \in SUBSET Nat
  <2>1. \E c \in Nat : entries \in [Slots(c) -> Entry]
    BY DEF TInv, Sound, Good
  <2> QED
    BY <2>1 DEF Live, Slots
<1>2. rest \in SUBSET Nat
  BY <1>1
<1> HIDE DEF rest
<1>3. rest # {} => Minimum(rest) \in rest /\ \A y \in rest : Minimum(rest) <= y
  BY <1>2, MinimumIs
<1> QED
  BY <1>2, <1>3 DEF rest

(* Every call keeps the invariant.                                         *)
LEMMA TableNextInv == TInv /\ [TableNext]_vars => TInv'
<1> SUFFICES ASSUME TInv, [TableNext]_vars PROVE TInv'
  OBVIOUS
<1>1. CASE UNCHANGED vars
  BY <1>1 DEF vars, TInv
<1>2. ASSUME NEW k \in Key, table_try_get(k) PROVE TInv'
  BY <1>2 DEF table_try_get, TInv
<1>3. ASSUME NEW k \in Key, table_delete(k) PROVE TInv'
  <2> DEFINE e == find_entry(entries, capacity, k)
  <2>1. /\ (count # 0 /\ entries[e].key # NoKey) <=> Stored(entries, k)
        /\ Stored(entries, k) => e \in Live(entries)
    BY LookUp
  <2>2. capacity' = capacity /\ used' = used /\ it' = it
    BY <1>3 DEF table_delete
  <2>3. CASE ~Stored(entries, k)
    <3>1. entries' = entries /\ count' = count
      BY <1>3, <2>1, <2>3 DEF table_delete
    <3> QED
      BY <2>2, <3>1 DEF TInv
  <2>4. CASE Stored(entries, k)
    <3>1. entries' = [entries EXCEPT ![e] = Deleted(e)] /\ count' = count - 1
      <4> DEFINE found == count # 0 /\ entries[e].key # NoKey
      <4>1. /\ entries' = IF found THEN [entries EXCEPT ![e] = Deleted(e)] ELSE entries
            /\ count' = IF found THEN count - 1 ELSE count
        BY <1>3 DEF table_delete
      <4>2. found
        BY <2>1, <2>4
      <4> HIDE DEF found, e
      <4> QED
        BY <4>1, <4>2
    <3>2. capacity # 0
      <4> SUFFICES ASSUME capacity = 0 PROVE FALSE
        OBVIOUS
      <4>1. count = 0
        BY DEF TInv
      <4> QED
        BY <2>1, <2>4, <4>1
    <3>3. capacity >= 3 /\ Sound(entries, capacity, count, used)
      BY <3>2 DEF TInv
    <3> HIDE DEF e
    <3>4. Sound([entries EXCEPT ![e] = Deleted(e)], capacity, count - 1, used)
      BY <2>1, <2>4, <3>3, DeleteKeepsSound
    <3> QED
      BY <2>2, <3>1, <3>3, <3>4 DEF TInv
  <2> QED
    BY <2>3, <2>4
<1>4. ASSUME NEW k \in Key, NEW v \in Value, table_put(k, v) PROVE TInv'
  <2>1. /\ Sound(PutEnts, PutCap, PutCount, PutUsed)
        /\ PutUsed + 1 < PutCap /\ PutCap >= 3
    BY PutHasRoom
  <2> DEFINE e == find_entry(PutEnts, PutCap, k)
             isNewKey == PutEnts[e].key = NoKey
  <2>2. /\ entries' = [PutEnts EXCEPT ![e] = [key |-> k, value |-> v]]
        /\ capacity' = PutCap
        /\ count' = IF isNewKey THEN PutCount + 1 ELSE PutCount
        /\ used' = IF isNewKey /\ PutEnts[e].value = NoValue THEN PutUsed + 1 ELSE PutUsed
        /\ it' = -1
    BY <1>4, PutIs
  <2>3. Sound([PutEnts EXCEPT ![e] = [key |-> k, value |-> v]], PutCap,
              IF isNewKey THEN PutCount + 1 ELSE PutCount,
              IF isNewKey /\ PutEnts[e].value = NoValue THEN PutUsed + 1 ELSE PutUsed)
    BY <2>1, PutKeepsSound
  <2> HIDE DEF e, isNewKey
  <2>4. Sound(entries', capacity', count', used')
    BY <2>2, <2>3
  <2> QED
    BY <2>1, <2>2, <2>4 DEF TInv
<1>5. CASE WalkStart
  BY <1>5 DEF WalkStart, TInv
<1>6. CASE table_iterate
  <2>1. it # -1 /\ UNCHANGED <<entries, capacity, count, used>>
    BY <1>6 DEF table_iterate
  <2> DEFINE rest == {s \in Live(entries) : s >= it}
             s == Minimum(rest)
  <2>2. rest # {} => s \in Nat
    BY <2>1, IterateIs
  <2>3. it' = -1 \/ (rest # {} /\ it' = s + 1)
    BY <1>6 DEF table_iterate, IteratorAfter
  <2> HIDE DEF rest, s
  <2>4. it' \in Nat \cup {-1}
    BY <2>2, <2>3
  <2> QED
    BY <2>1, <2>4 DEF TInv
<1> QED
  BY <1>1, <1>2, <1>3, <1>4, <1>5, <1>6 DEF TableNext

(* The table's invariant: every name is reachable from its home place, the *)
(* counters are right and an empty entry is left, after any sequence of    *)
(* table_put, table_delete and table_iterate.                              *)
THEOREM TableTInv == TableSpec => []TInv
<1> QED
  BY TableInitInv, TableNextInv, PTL DEF TableSpec

(* find_entry's loop, which has no bound, ends in every reachable table.   *)
THEOREM TableProbeEnds == TableSpec => []ProbeEnds
<1>1. TInv => ProbeEnds
  <2> SUFFICES ASSUME TInv, capacity > 0, NEW k \in Key
               PROVE  Stops(entries, capacity, k) # {}
    BY DEF ProbeEnds
  <2>1. Good(entries, capacity)
    BY DEF TInv, Sound
  <2> QED
    BY <2>1, StopsSome
<1> QED
  BY <1>1, TableTInv, PTL

(* table_get and table_delete find the one entry that has the name.        *)
THEOREM TableFoundWhereStored == TableSpec => []FoundWhereStored
<1>1. TInv => FoundWhereStored
  <2> SUFFICES ASSUME TInv, NEW s \in Live(entries)
               PROVE  find_entry(entries, capacity, entries[s].key) = s
    BY DEF FoundWhereStored
  <2>1. capacity # 0
    <3> SUFFICES ASSUME capacity = 0 PROVE FALSE
      OBVIOUS
    <3>1. entries \in [Slots(0) -> Entry] /\ Slots(0) = {}
      BY DEF TInv, Slots, Sound, Good
    <3> QED
      BY <3>1 DEF Live
  <2>2. Good(entries, capacity)
    BY <2>1 DEF TInv, Sound
  <2>3. entries[s].key \in Key
    BY <2>2, Entries DEF Good, Live
  <2> DEFINE k == entries[s].key
             e == find_entry(entries, capacity, k)
  <2>4. k # NoKey /\ Stored(entries, k) /\ capacity \in Nat
        /\ entries \in [Slots(capacity) -> Entry]
    BY <2>2, <2>3, TableAssumption DEF Stored, Good
  <2>5. e \in Slots(capacity) /\ entries[e].key = k
    BY <2>2, <2>3, <2>4, Found
  <2>6. e \in Live(entries)
    BY <2>4, <2>5 DEF Live
  <2> HIDE DEF e
  <2>7. e = s
    BY <2>2, <2>5, <2>6, StoredOnce
  <2> QED
    BY <2>7 DEF e
<1> QED
  BY <1>1, TableTInv, PTL
----------------------------------------------------------------------------
(* The refinement mapping, as operators on the entries.                    *)
NamesOf(ents) == {ents[s].key : s \in Live(ents)}

MapOf(ents) ==
  [k \in NamesOf(ents) |-> (CHOOSE e \in Items(ents) : e.key = k).value]

TodoOf(ents, i) ==
  IF i = -1 THEN {} ELSE {ents[s].key : s \in {r \in Live(ents) : r >= i}}

(* The contents depend on the entries only.                                *)
LEMMA ContentsIs == Contents = MapOf(entries)
  BY DEF Contents, MapOf, Items, NamesOf

(* The entries of a reachable table have different names.                  *)
LEMMA NamesDiffer ==
  ASSUME TInv
  PROVE  /\ UniqueNames(entries) /\ Live(entries) \in SUBSET Nat
         /\ \A s \in Live(entries) : entries[s].key \in Key
<1>1. CASE capacity = 0
  <2>1. entries \in [Slots(0) -> Entry] /\ Slots(0) = {}
    BY <1>1 DEF TInv, Slots
  <2>2. Live(entries) = {}
    BY <2>1 DEF Live
  <2> QED
    BY <2>2 DEF UniqueNames
<1>2. CASE capacity # 0
  <2>1. Good(entries, capacity)
    BY <1>2 DEF TInv, Sound
  <2>2. UniqueNames(entries)
    BY <2>1, StoredOnce DEF UniqueNames
  <2> QED
    BY <2>1, <2>2, Entries DEF Good, Live, Slots
<1> QED
  BY <1>1, <1>2

(* The map has a name for every live entry, with the entry's value.        *)
LEMMA MapIs ==
  ASSUME NEW ents, UniqueNames(ents)
  PROVE  /\ DOMAIN MapOf(ents) = NamesOf(ents)
         /\ \A s \in Live(ents) : MapOf(ents)[ents[s].key] = ents[s].value
         /\ \A k : k \in DOMAIN MapOf(ents) <=> Stored(ents, k)
<1>1. ASSUME NEW s \in Live(ents) PROVE MapOf(ents)[ents[s].key] = ents[s].value
  <2> DEFINE k == ents[s].key
             c == CHOOSE e \in Items(ents) : e.key = k
  <2>1. c \in Items(ents) /\ c.key = k
    BY DEF Items
  <2>2. PICK t \in Live(ents) : c = ents[t]
    BY <2>1 DEF Items
  <2>3. t = s
    BY <2>1, <2>2 DEF UniqueNames
  <2>4. MapOf(ents)[k] = c.value
    BY DEF MapOf, NamesOf
  <2> QED
    BY <2>2, <2>3, <2>4
<1> QED
  BY <1>1 DEF MapOf, Stored, NamesOf

(* The contents do not depend on where in the array the entries are.       *)
LEMMA MapOfItems ==
  ASSUME NEW e1, NEW e2, Items(e1) = Items(e2)
  PROVE  MapOf(e1) = MapOf(e2)
<1>1. NamesOf(e1) = NamesOf(e2)
  <2>1. \A e : e \in Items(e1) <=> e \in Items(e2)
    OBVIOUS
  <2> QED
    BY <2>1 DEF Items, NamesOf
<1> QED
  BY <1>1 DEF MapOf

(* The map is a function given by its domain and its values.               *)
LEMMA MapShape ==
  ASSUME NEW ents
  PROVE  MapOf(ents) = [j \in DOMAIN MapOf(ents) |-> MapOf(ents)[j]]
  BY DEF MapOf

WithEntry(ents, e, k, v) == [ents EXCEPT ![e] = [key |-> k, value |-> v]]
WithName(f, k, v) == [j \in DOMAIN f \cup {k} |-> IF j = k THEN v ELSE f[j]]

(* table_put changes the map at the one name.                              *)
LEMMA MapAfterPut ==
  ASSUME NEW cap, NEW ents, Good(ents, cap), NEW k \in Key, NEW v \in Value,
         NEW new, new = WithEntry(ents, find_entry(ents, cap, k), k, v), Good(new, cap)
  PROVE  MapOf(new) = WithName(MapOf(ents), k, v)
<1> DEFINE e == find_entry(ents, cap, k)
           D == DOMAIN MapOf(ents) \cup {k}
<1> USE DEF WithEntry
<1>1. UniqueNames(ents) /\ UniqueNames(new)
  BY StoredOnce DEF UniqueNames
<1>2. /\ e \in Slots(cap)
      /\ IF Stored(ents, k) THEN ents[e].key = k ELSE ents[e].key = NoKey
  BY Found
<1>3. Live(new) = Live(ents) \cup {e}
  <2>1. LET x == find_entry(ents, cap, k)
            y == [ents EXCEPT ![x] = [key |-> k, value |-> v]]
        IN  Live(y) = Live(ents) \cup {x}
    BY PutKeepsReachable
  <2> QED
    BY <2>1
<1>4. /\ new[e] = [key |-> k, value |-> v] /\ new[e].key = k /\ new[e].value = v
      /\ \A s \in Slots(cap) \ {e} : new[s] = ents[s]
      /\ Live(ents) \subseteq Slots(cap)
  BY <1>2 DEF Good, Live
<1> HIDE DEF e
<1>5. \A s \in Live(ents) : ents[s].key = k => s = e
  <2>1. \A s \in Live(ents) : ents[s].key = k => Stored(ents, k) /\ k # NoKey
    BY DEF Stored, Live
  <2>2. Stored(ents, k) /\ k # NoKey => e \in Live(ents) /\ ents[e].key = k
    BY <1>2 DEF Live, Good
  <2> QED
    BY <1>1, <2>1, <2>2 DEF UniqueNames
<1>6. \A s \in Live(ents) \ {e} : s \in Live(new) /\ new[s] = ents[s] /\ ents[s].key # k
  BY <1>3, <1>4, <1>5
<1>7. e \in Live(new) /\ new[e].key = k /\ new[e].value = v
  BY <1>3, <1>4
<1>8. e \in Live(ents) => ents[e].key = k
  BY <1>2 DEF Live
<1>9. DOMAIN MapOf(new) = D
  <2>1. DOMAIN MapOf(new) = NamesOf(new) /\ DOMAIN MapOf(ents) = NamesOf(ents)
    BY <1>1, MapIs
  <2>2. \A j \in NamesOf(new) : j = k \/ j \in NamesOf(ents)
    BY <1>3, <1>6, <1>7 DEF NamesOf
  <2>3. \A j \in NamesOf(ents) : j = k \/ j \in NamesOf(new)
    BY <1>6, <1>8 DEF NamesOf
  <2>4. k \in NamesOf(new)
    BY <1>7 DEF NamesOf
  <2> QED
    BY <2>1, <2>2, <2>3, <2>4
<1>10. \A j \in D : MapOf(new)[j] = IF j = k THEN v ELSE MapOf(ents)[j]
  <2> SUFFICES ASSUME NEW j \in D
               PROVE  MapOf(new)[j] = IF j = k THEN v ELSE MapOf(ents)[j]
    OBVIOUS
  <2>1. CASE j = k
    <3>1. MapOf(new)[new[e].key] = new[e].value
      BY <1>1, <1>7, MapIs
    <3> QED
      BY <1>7, <2>1, <3>1
  <2>2. CASE j # k
    <3>1. PICK s \in Live(ents) : ents[s].key = j
      BY <1>1, <2>2, MapIs DEF Stored
    <3>2. s # e
      BY <1>8, <2>2, <3>1
    <3>3. MapOf(ents)[ents[s].key] = ents[s].value
      BY <1>1, MapIs
    <3>4. MapOf(new)[new[s].key] = new[s].value
      <4>1. s \in Live(new)
        BY <1>6, <3>2
      <4> QED
        BY <1>1, <4>1, MapIs
    <3> QED
      BY <1>6, <2>2, <3>1, <3>2, <3>3, <3>4
  <2> QED
    BY <2>1, <2>2
<1> HIDE DEF D
<1>11. MapOf(new) = [j \in D |-> IF j = k THEN v ELSE MapOf(ents)[j]]
  BY <1>9, <1>10, MapShape
<1> QED
  BY <1>11 DEF D, WithName

(* table_delete takes the name out of the map.                             *)
LEMMA MapAfterDelete ==
  ASSUME NEW cap, NEW ents, Good(ents, cap), NEW e \in Live(ents),
         NEW new, new = [ents EXCEPT ![e] = Deleted(e)]
  PROVE  MapOf(new) = [j \in DOMAIN MapOf(ents) \ {ents[e].key} |-> MapOf(ents)[j]]
<1> DEFINE k == ents[e].key
           D == DOMAIN MapOf(ents) \ {k}
<1>1. UniqueNames(ents)
  BY StoredOnce DEF UniqueNames
<1>2. Live(new) = Live(ents) \ {e}
  BY DeleteKeepsReachable
<1>3. \A s \in Live(new) : new[s] = ents[s] /\ s \in Live(ents)
  BY <1>2 DEF Good, Live
<1>4. UniqueNames(new)
  BY <1>1, <1>3 DEF UniqueNames
<1>5. \A s \in Live(new) : ents[s].key # k
  BY <1>1, <1>2 DEF UniqueNames
<1>6. DOMAIN MapOf(new) = D
  <2>1. DOMAIN MapOf(new) = NamesOf(new) /\ DOMAIN MapOf(ents) = NamesOf(ents)
    BY <1>1, <1>4, MapIs
  <2>2. \A j \in NamesOf(new) : j \in NamesOf(ents) \ {k}
    <3> SUFFICES ASSUME NEW s \in Live(new) PROVE new[s].key \in NamesOf(ents) \ {k}
      BY DEF NamesOf
    <3>1. new[s] = ents[s] /\ s \in Live(ents) /\ ents[s].key # k
      BY <1>3, <1>5
    <3> QED
      BY <3>1 DEF NamesOf
  <2>3. \A j \in NamesOf(ents) \ {k} : j \in NamesOf(new)
    BY <1>2, <1>3 DEF NamesOf
  <2> QED
    BY <2>1, <2>2, <2>3
<1>7. \A j \in D : MapOf(new)[j] = MapOf(ents)[j]
  <2> SUFFICES ASSUME NEW j \in D PROVE MapOf(new)[j] = MapOf(ents)[j]
    OBVIOUS
  <2>1. PICK s \in Live(ents) : ents[s].key = j /\ s # e
    BY <1>1, MapIs DEF Stored
  <2>2. s \in Live(new)
    BY <1>2, <2>1
  <2>3. MapOf(ents)[ents[s].key] = ents[s].value /\ MapOf(new)[new[s].key] = new[s].value
    BY <1>1, <1>4, <2>1, <2>2, MapIs
  <2> QED
    BY <1>3, <2>1, <2>2, <2>3
<1> HIDE DEF D
<1>8. MapOf(new) = [j \in D |-> MapOf(ents)[j]]
  BY <1>6, <1>7, MapShape
<1> QED
  BY <1>8 DEF D
----------------------------------------------------------------------------
(* The walk's names: those of the live entries from the iterator on.       *)
Todo == TodoOf(entries, it)

mapVars == <<Contents, it # -1, Todo, ret>>

(* The empty table is the empty map.                                       *)
LEMMA RefinesInit == TableInit => M!Init
<1> SUFFICES ASSUME TableInit PROVE M!Init
  OBVIOUS
<1>1. it = -1 /\ ret = <<>> /\ Live(entries) = {}
  BY DEF TableInit, Live, Slots
<1>2. Contents = <<>>
  BY <1>1 DEF Contents
<1> QED
  BY <1>1, <1>2 DEF M!Init

(* table_try_get and table_get return what the map has.                    *)
LEMMA RefinesGet ==
  ASSUME TInv, NEW k \in Key, table_try_get(k)
  PROVE  M!Get(k)
<1> DEFINE e == find_entry(entries, capacity, k)
<1>1. /\ (count # 0 /\ entries[e].key # NoKey) <=> Stored(entries, k)
      /\ Stored(entries, k) => e \in Live(entries) /\ entries[e].key = k
  BY LookUp
<1>2. /\ ret' = IF count = 0 \/ entries[e].key = NoKey THEN <<FALSE, NoValue>>
                ELSE <<TRUE, entries[e].value>>
      /\ UNCHANGED <<entries, it>>
  BY DEF table_try_get
<1> HIDE DEF e
<1>3. UniqueNames(entries)
  BY NamesDiffer
<1>4. k \in DOMAIN Contents <=> Stored(entries, k)
  BY <1>3, MapIs, ContentsIs
<1>5. Stored(entries, k) => Contents[k] = entries[e].value
  <2>1. e \in Live(entries) => MapOf(entries)[entries[e].key] = entries[e].value
    BY <1>3, MapIs
  <2> QED
    BY <1>1, <2>1, ContentsIs
<1>6. UNCHANGED <<Contents, it # -1, Todo>>
  BY <1>2 DEF Contents, Todo, TodoOf, Live
<1>7. ret' = IF k \in DOMAIN Contents THEN <<TRUE, Contents[k]>> ELSE <<FALSE, NoValue>>
  BY <1>1, <1>2, <1>4, <1>5
<1> QED
  BY <1>6, <1>7 DEF M!Get, Todo, TodoOf

(* table_put, with or without growth, changes the map at the one name.     *)
LEMMA RefinesPut ==
  ASSUME TInv, TInv', NEW k \in Key, NEW v \in Value, table_put(k, v)
  PROVE  M!Put(k, v)
<1> DEFINE e == find_entry(PutEnts, PutCap, k)
           D == DOMAIN Contents \cup {k}
<1>1. Good(PutEnts, PutCap) /\ PutCap >= 3 /\ Items(PutEnts) = Items(entries)
  BY PutHasRoom DEF Sound
<1>2. /\ entries' = [PutEnts EXCEPT ![e] = [key |-> k, value |-> v]]
      /\ capacity' = PutCap
      /\ ret' = <<PutEnts[e].key = NoKey>> /\ it' = -1
  BY PutIs
<1>3. Good(entries', PutCap)
  BY <1>1, <1>2 DEF TInv, Sound
<1>4. MapOf(PutEnts) = Contents
  BY <1>1, MapOfItems, ContentsIs
<1>5. MapOf(entries') = WithName(MapOf(PutEnts), k, v)
  <2>1. entries' = WithEntry(PutEnts, find_entry(PutEnts, PutCap, k), k, v)
    BY <1>2 DEF WithEntry
  <2> QED
    BY <1>1, <1>3, <2>1, MapAfterPut
<1>6. Contents' = [j \in D |-> IF j = k THEN v ELSE Contents[j]]
  <2>1. Contents' = MapOf(entries')
    BY DEF Contents, MapOf, Items, NamesOf
  <2> QED
    BY <1>4, <1>5, <2>1 DEF WithName
<1>7. PutEnts[e].key = NoKey <=> k \notin DOMAIN Contents
  <2>1. IF Stored(PutEnts, k) THEN PutEnts[e].key = k ELSE PutEnts[e].key = NoKey
    BY <1>1, Found
  <2>2. UniqueNames(PutEnts)
    BY <1>1, StoredOnce DEF UniqueNames
  <2>3. k \in DOMAIN Contents <=> Stored(PutEnts, k)
    BY <1>4, <2>2, MapIs
  <2> QED
    BY <2>1, <2>3, TableAssumption
<1>8. ret' = <<k \notin DOMAIN Contents>>
  BY <1>2, <1>7
<1> QED
  BY <1>2, <1>6, <1>8 DEF M!Put

(* table_delete, also during a walk, takes the name out of the map.        *)
LEMMA RefinesDelete ==
  ASSUME TInv, NEW k \in Key, table_delete(k)
  PROVE  M!Delete(k)
<1> DEFINE e == find_entry(entries, capacity, k)
           found == count # 0 /\ entries[e].key # NoKey
<1>1. /\ found <=> Stored(entries, k)
      /\ Stored(entries, k) => e \in Live(entries) /\ entries[e].key = k
  BY LookUp
<1>2. /\ ret' = <<found>>
      /\ entries' = IF found THEN [entries EXCEPT ![e] = Deleted(e)] ELSE entries
      /\ it' = it
  BY DEF table_delete
<1> HIDE DEF e, found
<1>3. UniqueNames(entries) /\ Live(entries) \in SUBSET Nat
  BY NamesDiffer
<1>4. k \in DOMAIN Contents <=> Stored(entries, k)
  BY <1>3, MapIs, ContentsIs
<1>5. Contents' = MapOf(entries')
  BY DEF Contents, MapOf, Items, NamesOf
<1>6. ret' = <<k \in DOMAIN Contents>>
  <2>1. found = (k \in DOMAIN Contents)
    BY <1>1, <1>4 DEF found
  <2> QED
    BY <1>2, <2>1
<1>7. CASE ~found
  <2>1. entries' = entries
    BY <1>2, <1>7
  <2>2. \A s \in Live(entries) : entries[s].key # k
    BY <1>1, <1>7 DEF Stored
  <2>3. Contents' = [j \in DOMAIN Contents \ {k} |-> Contents[j]]
    <3>1. Contents' = Contents /\ k \notin DOMAIN Contents
      BY <1>1, <1>4, <1>5, <1>7, <2>1, ContentsIs
    <3>2. DOMAIN Contents \ {k} = DOMAIN Contents
      BY <3>1
    <3> QED
      BY <3>1, <3>2, MapShape, ContentsIs
  <2>4. Todo' = Todo \ {k}
    <3>1. Todo' = Todo
      BY <1>2, <2>1 DEF Todo
    <3>2. k \notin Todo
      BY <2>2 DEF Todo, TodoOf
    <3> QED
      BY <3>1, <3>2
  <2> QED
    BY <1>2, <1>6, <2>3, <2>4 DEF M!Delete, Todo, TodoOf
<1>8. CASE found
  <2>1. /\ entries' = [entries EXCEPT ![e] = Deleted(e)]
        /\ e \in Live(entries) /\ entries[e].key = k
    BY <1>1, <1>2, <1>8
  <2>2. Good(entries, capacity)
    <3>1. capacity # 0
      <4> SUFFICES ASSUME capacity = 0 PROVE FALSE
        OBVIOUS
      <4>1. count = 0
        BY DEF TInv, Sound, Good
      <4> QED
        BY <1>8, <4>1 DEF found
    <3> QED
      BY <3>1 DEF TInv, Sound
  <2>3. MapOf(entries') = [j \in DOMAIN MapOf(entries) \ {entries[e].key} |-> MapOf(entries)[j]]
    BY <2>1, <2>2, MapAfterDelete
  <2>4. Contents' = [j \in DOMAIN Contents \ {k} |-> Contents[j]]
    BY <1>5, <2>1, <2>3, ContentsIs
  <2>5. Live(entries') = Live(entries) \ {e}
    BY <2>1, <2>2, DeleteKeepsReachable
  <2>6. \A s \in Live(entries) \ {e} : entries'[s] = entries[s] /\ entries[s].key # k
    BY <1>3, <2>1, <2>2 DEF UniqueNames, Good, Live
  <2>7. Todo' = Todo \ {k}
    <3>1. CASE it = -1
      BY <1>2, <3>1 DEF Todo, TodoOf
    <3>2. CASE it # -1
      <4>1. Todo' = {entries'[s].key : s \in {r \in Live(entries') : r >= it}}
        BY <1>2, <3>2 DEF Todo, TodoOf
      <4>2. Todo = {entries[s].key : s \in {r \in Live(entries) : r >= it}}
        BY <3>2 DEF Todo, TodoOf
      <4>3. \A j \in Todo' : j \in Todo /\ j # k
        BY <2>5, <2>6, <4>1, <4>2
      <4>4. \A j \in Todo : j # k => j \in Todo'
        BY <2>1, <2>5, <2>6, <4>1, <4>2
      <4> QED
        BY <4>3, <4>4
    <3> QED
      BY <3>1, <3>2
  <2> QED
    BY <1>2, <1>6, <2>4, <2>7 DEF M!Delete, Todo, TodoOf
<1> QED
  BY <1>7, <1>8

(* A walk starts with every name.                                          *)
LEMMA RefinesWalkStart ==
  ASSUME TInv, WalkStart
  PROVE  M!WalkStart
<1>1. it = -1 /\ it' = 0 /\ UNCHANGED <<entries, ret>>
  BY DEF WalkStart
<1>2. Live(entries) \in SUBSET Nat /\ UniqueNames(entries)
  BY NamesDiffer
<1>3. {r \in Live(entries) : r >= 0} = Live(entries)
  BY <1>2
<1>4. Todo' = DOMAIN Contents
  <2>1. Todo' = NamesOf(entries)
    BY <1>1, <1>3 DEF Todo, TodoOf, NamesOf
  <2> QED
    BY <1>2, <2>1, MapIs, ContentsIs
<1>5. Contents' = Contents
  BY <1>1 DEF Contents
<1> QED
  BY <1>1, <1>4, <1>5 DEF M!WalkStart, Todo, TodoOf

(* table_iterate returns a name that is left, or ends when there is none.  *)
LEMMA RefinesIterate ==
  ASSUME TInv, table_iterate
  PROVE  M!WalkNext \/ M!WalkEnd
<1> DEFINE rest == {s \in Live(entries) : s >= it}
           s == Minimum(rest)
<1>1. it # -1 /\ UNCHANGED <<entries, capacity, count, used>>
  BY DEF table_iterate
<1>2. rest # {} => s \in rest /\ s \in Nat /\ \A r \in rest : s <= r
  BY <1>1, IterateIs
<1>3. IF rest = {} THEN it' = -1 /\ ret' = <<NoKey>>
      ELSE it' = s + 1 /\ ret' = <<entries[s].key, entries[s].value>>
  BY DEF table_iterate, IteratorAfter
<1>4. Todo = {entries[r].key : r \in rest}
  BY <1>1 DEF Todo, TodoOf
<1>5. UniqueNames(entries) /\ Live(entries) \in SUBSET Nat
  BY NamesDiffer
<1>6. Contents' = Contents
  BY <1>1 DEF Contents
<1>7. it \in Nat
  BY <1>1 DEF TInv
<1>8. CASE rest = {}
  <2>1. Todo = {} /\ Todo' = {}
    BY <1>3, <1>4, <1>8 DEF Todo, TodoOf
  <2> HIDE DEF rest, s
  <2> QED
    BY <1>1, <1>3, <1>6, <1>8, <2>1 DEF M!WalkEnd, Todo, TodoOf
<1>9. CASE rest # {}
  <2> DEFINE k == entries[s].key
  <2>1. s \in Live(entries) /\ s \in Nat /\ s >= it /\ \A r \in rest : s <= r
    BY <1>2, <1>9
  <2>2. it' = s + 1 /\ ret' = <<k, entries[s].value>>
    BY <1>3, <1>9
  <2>3. {r \in Live(entries) : r >= s + 1} = rest \ {s}
    BY <1>5, <1>7, <2>1
  <2>4. Todo' = {entries[r].key : r \in {x \in Live(entries) : x >= s + 1}}
    <3>1. s + 1 # -1
      BY <2>1
    <3> HIDE DEF s, rest
    <3> QED
      BY <1>1, <2>2, <3>1 DEF Todo, TodoOf
  <2>5. k \in Todo /\ Contents[k] = entries[s].value
    <3>1. MapOf(entries)[entries[s].key] = entries[s].value
      BY <1>5, <2>1, MapIs
    <3>2. s \in rest
      BY <1>2, <1>9
    <3> HIDE DEF s, rest
    <3> QED
      BY <1>4, <3>1, <3>2, ContentsIs
  <2>6. Todo' = Todo \ {k}
    <3>1. \A r \in rest : r # s => entries[r].key # k
      BY <1>5, <2>1 DEF UniqueNames
    <3> HIDE DEF s, rest
    <3>2. Todo' = {entries[r].key : r \in rest \ {s}}
      BY <2>3, <2>4
    <3> QED
      BY <1>4, <3>1, <3>2
  <2> HIDE DEF s, rest, k
  <2>7. M!WalkNext
    <3>1. \E j \in Todo : ret' = <<j, Contents[j]>> /\ Todo' = Todo \ {j}
      BY <2>2, <2>5, <2>6
    <3>2. it # -1 /\ it' # -1
      BY <1>1, <2>1, <2>2
    <3> QED
      BY <1>6, <3>1, <3>2 DEF M!WalkNext, Todo, TodoOf
  <2> QED
    BY <2>7
<1> QED
  BY <1>8, <1>9

(* Every operation on the table is one on the map, or a stutter.           *)
LEMMA RefinesNext == TInv /\ TInv' /\ [TableNext]_vars => [M!Next]_mapVars
<1> SUFFICES ASSUME TInv, TInv', [TableNext]_vars PROVE [M!Next]_mapVars
  OBVIOUS
<1>1. CASE UNCHANGED vars
  BY <1>1 DEF vars, mapVars, Contents, Todo, TodoOf
<1>2. ASSUME NEW k \in Key, table_try_get(k) PROVE M!Next
  BY <1>2, RefinesGet DEF M!Next
<1>3. ASSUME NEW k \in Key, table_delete(k) PROVE M!Next
  BY <1>3, RefinesDelete DEF M!Next
<1>4. ASSUME NEW k \in Key, NEW v \in Value, table_put(k, v) PROVE M!Next
  BY <1>4, RefinesPut DEF M!Next
<1>5. CASE WalkStart
  BY <1>5, RefinesWalkStart DEF M!Next
<1>6. CASE table_iterate
  BY <1>6, RefinesIterate DEF M!Next
<1> QED
  BY <1>1, <1>2, <1>3, <1>4, <1>5, <1>6 DEF TableNext

(* Every behaviour of the hash table is one of the map of table.h: what    *)
(* table_get, table_put and table_delete return, and what a walk visits    *)
(* while entries are deleted.                                              *)
THEOREM TableImplementsMap == TableSpec => ImplementsMap
<1> QED
  BY RefinesInit, RefinesNext, TableTInv, PTL
     DEF TableSpec, ImplementsMap, M!Spec, mapVars, Todo, TodoOf
=============================================================================
