-------------------------------- MODULE Map --------------------------------
(***************************************************************************)
(* What src/src/util/table.h promises: a finite map from interned names to *)
(* values that can be walked over, and from which the caller may delete    *)
(* entries during the walk.                                                *)
(***************************************************************************)
CONSTANTS
  Key,     \* the names
  Value,   \* what is stored
  NoKey,   \* what a walk returns at its end
  NoValue  \* what a failing lookup returns

VARIABLES
  map,    \* the entries
  walk,   \* whether a walk (a for loop around table_iterate) is under way
  todo,   \* the keys that the walk still has to return
  ret     \* what the last call returned

Init == map = <<>> /\ walk = FALSE /\ todo = {} /\ ret = <<>>

(* table_get and table_try_get *)
Get(k) ==
  /\ ret' = IF k \in DOMAIN map THEN <<TRUE, map[k]>> ELSE <<FALSE, NoValue>>
  /\ UNCHANGED <<map, walk, todo>>

(* table_put. It may move the entries, so the caller's walk is over.       *)
Put(k, v) ==
  /\ map' = [j \in DOMAIN map \cup {k} |-> IF j = k THEN v ELSE map[j]]
  /\ ret' = <<k \notin DOMAIN map>>
  /\ walk' = FALSE
  /\ todo' = {}

(* table_delete *)
Delete(k) ==
  /\ map' = [j \in DOMAIN map \ {k} |-> map[j]]
  /\ ret' = <<k \in DOMAIN map>>
  /\ todo' = todo \ {k}
  /\ UNCHANGED walk

(* table_iterate, the first call and the following ones.                   *)
WalkStart == walk = FALSE /\ walk' = TRUE /\ todo' = DOMAIN map /\ UNCHANGED <<map, ret>>

WalkNext ==
  /\ walk
  /\ \E k \in todo : ret' = <<k, map[k]>> /\ todo' = todo \ {k}
  /\ UNCHANGED <<map, walk>>

WalkEnd ==
  /\ walk
  /\ todo = {}
  /\ walk' = FALSE
  /\ ret' = <<NoKey>>
  /\ UNCHANGED <<map, todo>>

Next ==
  \/ \E k \in Key : Get(k) \/ Delete(k) \/ \E v \in Value : Put(k, v)
  \/ WalkStart \/ WalkNext \/ WalkEnd

Spec == Init /\ [][Next]_<<map, walk, todo, ret>>
=============================================================================
