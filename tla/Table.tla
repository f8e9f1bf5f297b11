------------------------------- MODULE Table -------------------------------
(***************************************************************************)
(* The hash table of src/src/util/table.c: open addressing with linear     *)
(* probing, tombstones, and growth that drops the tombstones. Every name   *)
(* table of the tool chain is one of these: macros, hide sets, labels,     *)
(* symbols, scopes.                                                        *)
(*                                                                         *)
(* Keys are interned names, so key equality is pointer equality.           *)
(***************************************************************************)
EXTENDS Integers, FiniteSets

CONSTANTS
  Key,           \* the names
  Value,         \* what is stored
  Hash,          \* key->hash of each name
  MIN_CAPACITY,  \* the first capacity, 15 in the code
  NoKey,         \* a NULL key
  NoValue,       \* a NULL value
  Tombstone,     \* the value of a deleted entry: the address of the entry
  MaxCapacity    \* bound: the capacity above which nothing is put

ASSUME TableAssumption ==
  /\ Hash \in [Key -> Nat]
  /\ MIN_CAPACITY \in Nat \ {0, 1, 2}
  /\ MaxCapacity \in Nat
  /\ NoKey \notin Key
  /\ Tombstone # NoValue
  /\ Tombstone \notin Value

VARIABLES
  entries,   \* table->entries, a function on 0 .. capacity - 1
  capacity,
  count,     \* live entries
  used,      \* entries that are not empty, tombstones included
  it,        \* the iterator of a walk, -1 when there is none
  ret        \* what the last call returned

vars == <<entries, capacity, count, used, it, ret>>

Empty == [key |-> NoKey, value |-> NoValue]

Slots(cap) == 0 .. cap - 1

(* The d-th place at which find_entry looks for a key.                     *)
Probe(cap, k, d) == (Hash[k] + d) % cap

Minimum(S) == CHOOSE x \in S : \A y \in S : x <= y

(* find_entry stops at the first entry that is empty or has the key.       *)
Stops(ents, cap, k) ==
  {d \in Slots(cap) : ents[Probe(cap, k, d)] = Empty \/ ents[Probe(cap, k, d)].key = k}

(* find_entry: the place of the key, or else the first tombstone on the    *)
(* way, or else the empty entry.                                           *)
find_entry(ents, cap, k) ==
  LET stop == Minimum(Stops(ents, cap, k))
      tombstones == {d \in 0 .. stop - 1 : ents[Probe(cap, k, d)].key = NoKey}
  IN  IF ents[Probe(cap, k, stop)].key # k /\ tombstones # {}
      THEN Probe(cap, k, Minimum(tombstones))
      ELSE Probe(cap, k, stop)

Live(ents) == {s \in DOMAIN ents : ents[s].key # NoKey}

(* Mutant: the entries are copied to the places they had.                  *)
RehashInPlace(ents, cap, new) ==
  [s \in Slots(new) |-> IF s \in Slots(cap) THEN ents[s] ELSE Empty]

(* adjust_capacity: the loop over the old entries.                         *)
Rehash(ents, cap, new) ==
  LET moved[n \in 0 .. cap] ==
        IF n = 0 THEN [s \in Slots(new) |-> Empty]
        ELSE LET before == moved[n - 1]
                 e == ents[n - 1]
             IN  IF e.key = NoKey THEN before
                 ELSE [before EXCEPT ![find_entry(before, new, e.key)] = e]
  IN  moved[cap]

(* table_put: the capacity for one more entry.                             *)
NewCapacity(cap) == IF 2 * cap - 1 < MIN_CAPACITY THEN MIN_CAPACITY ELSE 2 * cap - 1

(* Mutant: the table grows when no empty entry is left.                    *)
MustGrowFull(cap, n, u) == u >= cap

MustGrow(cap, n, u) == u >= cap \div 2

----------------------------------------------------------------------------
TableInit ==
  /\ entries = [s \in Slots(0) |-> Empty]
  /\ capacity = 0
  /\ count = 0
  /\ used = 0
  /\ it = -1
  /\ ret = <<>>

(* table_get and table_try_get; without entries nothing is looked up.      *)
table_try_get(k) ==
  /\ LET e == entries[find_entry(entries, capacity, k)]
     IN  ret' = IF count = 0 \/ e.key = NoKey THEN <<FALSE, NoValue>>
                ELSE <<TRUE, e.value>>
  /\ UNCHANGED <<entries, capacity, count, used, it>>

(* table_put with adjust_capacity. Nobody goes on with an iterator after a *)
(* put into the table.                                                     *)
table_put(k, v) ==
  LET grow == MustGrow(capacity, count, used)
      cap == IF grow THEN NewCapacity(capacity) ELSE capacity
      ents == IF grow THEN Rehash(entries, capacity, cap) ELSE entries
      u == IF grow THEN Cardinality(Live(entries)) ELSE used
      n == IF grow THEN u ELSE count
      e == find_entry(ents, cap, k)
      isNewKey == ents[e].key = NoKey
  IN  /\ cap <= MaxCapacity
      /\ entries' = [ents EXCEPT ![e] = [key |-> k, value |-> v]]
      /\ capacity' = cap
      /\ count' = IF isNewKey THEN n + 1 ELSE n
      /\ used' = IF isNewKey /\ ents[e].value = NoValue THEN u + 1 ELSE u
      /\ ret' = <<isNewKey>>
      /\ it' = -1

(* entry->key = NULL; entry->value = entry; *)
Deleted(e) == [key |-> NoKey, value |-> Tombstone]

table_delete(k) ==
  /\ LET e == find_entry(entries, capacity, k)
         found == count # 0 /\ entries[e].key # NoKey
     IN  /\ ret' = <<found>>
         /\ entries' = IF found THEN [entries EXCEPT ![e] = Deleted(e)] ELSE entries
         /\ count' = IF found THEN count - 1 ELSE count
  /\ UNCHANGED <<capacity, used, it>>

(* for (int it = 0; (it = table_iterate(table, it, ...)) != -1; )          *)
WalkStart ==
  /\ it = -1
  /\ it' = 0
  /\ UNCHANGED <<entries, capacity, count, used, ret>>

(* Mutant: the iterator skips an entry.                                    *)
IteratorAfterSkipping(s) == s + 2

(* table_iterate: return iterator + 1;                                     *)
IteratorAfter(s) == s + 1

table_iterate ==
  /\ it # -1
  /\ LET rest == {s \in Live(entries) : s >= it}
         s == Minimum(rest)
     IN  IF rest = {}
         THEN it' = -1 /\ ret' = <<NoKey>>
         ELSE it' = IteratorAfter(s) /\ ret' = <<entries[s].key, entries[s].value>>
  /\ UNCHANGED <<entries, capacity, count, used>>

TableNext ==
  \/ \E k \in Key : \/ table_try_get(k)
                    \/ table_delete(k)
                    \/ \E v \in Value : table_put(k, v)
  \/ WalkStart
  \/ table_iterate

TableSpec == TableInit /\ [][TableNext]_vars

----------------------------------------------------------------------------
(* The loop of find_entry (table.c:68), which has no bound of its own,     *)
(* ends for every name, in the table or not, whenever it is entered.       *)
ProbeEnds == capacity > 0 => \A k \in Key : Stops(entries, capacity, k) # {}

(* A name is in at most one entry, and find_entry finds that one: neither  *)
(* a reused tombstone nor a moved entry hides it or doubles it.            *)
FoundWhereStored ==
  \A s \in Live(entries) : find_entry(entries, capacity, entries[s].key) = s

(* The refinement mapping: the map that the entries stand for.             *)
Contents ==
  [k \in {entries[s].key : s \in Live(entries)} |->
     (CHOOSE e \in {entries[s] : s \in Live(entries)} : e.key = k).value]

M == INSTANCE Map WITH
       map <- Contents,
       walk <- it # -1,
       todo <- IF it = -1 THEN {} ELSE {entries[s].key : s \in {r \in Live(entries) : r >= it}},
       NoKey <- NoKey, NoValue <- NoValue

(* The table implements the map of table.h: what every call returns is     *)
(* what the map returns, and a walk returns every entry once, while        *)
(* entries are deleted during the walk (macro.c:114-116, ld.c:240-244,     *)
(* parser.c:939-943 do).                                                   *)
ImplementsMap == M!Spec
=============================================================================
