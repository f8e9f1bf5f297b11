----------------------------- MODULE LinearScan -----------------------------
(***************************************************************************)
(* The linear scan of the register allocator:                              *)
(* linear_scan_register_allocation() of src/src/cc/regalloc.c with the     *)
(* helpers it calls (insert_active, remove_active, split_at_interval,      *)
(* expire_old_intervals).                                                  *)
(*                                                                         *)
(* The scan walks over the live intervals sorted by sort_live_interval and *)
(* keeps, for each register class, an array `active' of the intervals that *)
(* hold a register, ordered by their end, and the set of registers in use. *)
(* One action is one iteration of the loop.                                *)
(***************************************************************************)
EXTENDS Integers, Sequences, FiniteSets

CONSTANTS
  PhysMax,    \* ra->phys_max and ra->fphys_max: registers of each class
  Intervals,  \* the live intervals the scan can be given
  MaxLen      \* bound: how many intervals the scan is given

(***************************************************************************)
(* The Info structures of the scan: ireg_info and freg_info.               *)
(***************************************************************************)
Class == {"ireg", "freg"}

(* enum LiveIntervalState. *)
LiveIntervalState == {"LI_NORMAL", "LI_SPILL", "LI_CONST"}

(* codegen.c hands over PHYSICAL_REG_MAX and PHYSICAL_FREG_MAX.            *)
ASSUME PhysMaxAssumption == PhysMax \in [Class -> Nat \ {0}]

(* A live interval: its class is the class of its virtual register.        *)
IsInterval(x) ==
  /\ x.start \in Int
  /\ x.end \in Int
  /\ x.cls \in Class
  /\ x.state \in LiveIntervalState

ASSUME IntervalsAssumption == \A x \in Intervals : IsInterval(x)

ASSUME MaxLenAssumption == MaxLen \in Nat

VARIABLES
  iv,       \* sorted_intervals, as check_live_interval left them
  i,        \* the loop index: iv[i] is the next interval
  state,    \* li->state of every interval
  phys,     \* li->phys of every interval
  active,   \* info->active of each class, an array of indices into iv
  count,    \* info->active_count
  using,    \* info->using_bits, as a set of register numbers
  used      \* info->used_bits

scanVars == <<iv, i, state, phys, active, count, using, used>>

N == Len(iv)
Regs(c) == 0 .. PhysMax[c] - 1

(* sort_live_interval: by start, of equal starts the longer one first.     *)
SortedBefore(x, y) ==
  \/ x.start < y.start
  \/ x.start = y.start /\ x.end >= y.end

Sorted(s) == \A a, b \in 1 .. Len(s) : a < b => SortedBefore(s[a], s[b])

(* The state in which linear_scan_register_allocation starts on the sorted *)
(* intervals s. What the ALLOCA'd arrays hold is never read: 0.            *)
ScanStart(s) ==
  /\ i = 1
  /\ state = [a \in 1 .. Len(s) |-> s[a].state]
  /\ phys = [a \in 1 .. Len(s) |-> -1]
  /\ active = [c \in Class |-> [k \in Regs(c) |-> 0]]
  /\ count = [c \in Class |-> 0]
  /\ using = [c \in Class |-> {}]
  /\ used = [c \in Class |-> {}]

----------------------------------------------------------------------------
(***************************************************************************)
(* The helpers on the active array. A for loop that stops at the first     *)
(* index with a property is the least such index.                          *)
(***************************************************************************)
IsLeast(j, S) == j \in S /\ \A k \in S : j <= k

Least(S) == CHOOSE j \in S : IsLeast(j, S)

(* Mutant: the new interval is put at the end of active, unsorted.         *)
InsertPlaceLast(act, n, li) == n

(* insert_active: the place of li behind every interval that ends no later *)
InsertPlace(act, n, li) ==
  Least({n} \cup {k \in 0 .. n - 1 : iv[li].end < iv[act[k]].end})

(* insert_active: memmove by one, then the store.                          *)
insert_active(act, n, li) ==
  LET j == InsertPlace(act, n, li)
  IN  [k \in DOMAIN act |-> IF k = j THEN li
                            ELSE IF k \in j + 1 .. n THEN act[k - 1]
                            ELSE act[k]]

(* remove_active with start = 0, as expire_old_intervals calls it.         *)
remove_active(act, n, m) ==
  [k \in DOMAIN act |-> IF k \in 0 .. n - m - 1 THEN act[k + m] ELSE act[k]]

(* Mutant: an interval expires one instruction before its end.             *)
ExpireCountEarly(act, n, start) ==
  Least({n} \cup {k \in 0 .. n - 1 : iv[act[k]].end > start + 1})

(* expire_old_intervals: how many intervals at the head end by `start'.    *)
ExpireCount(act, n, start) ==
  Least({n} \cup {k \in 0 .. n - 1 : iv[act[k]].end > start})

(* expire_old_intervals for class c when the scan reaches iv[a].           *)
ExpiredCount(c, a) == count[c] - ExpireCount(active[c], count[c], iv[a].start)

ExpiredActive(c, a) ==
  remove_active(active[c], count[c], ExpireCount(active[c], count[c], iv[a].start))

(* Mutant: the registers of the expired intervals stay in use.             *)
ExpiredUsingKept(c, a) == using[c]

ExpiredUsing(c, a) ==
  using[c] \ {phys[active[c][k]] :
                k \in 0 .. ExpireCount(active[c], count[c], iv[a].start) - 1}

----------------------------------------------------------------------------
(***************************************************************************)
(* The loop body.                                                          *)
(***************************************************************************)

(* A constant, or an interval that was spilled in an earlier round.        *)
Skip ==
  /\ i <= N
  /\ state[i] # "LI_NORMAL"
  /\ i' = i + 1
  /\ UNCHANGED <<iv, state, phys, active, count, using, used>>

(* A register is free: the first one that is not in use.                   *)
Assign ==
  /\ i <= N
  /\ state[i] = "LI_NORMAL"
  /\ LET c == iv[i].cls
         free == Regs(c) \ ExpiredUsing(c, i)
         regno == Least(free)
     IN  /\ ExpiredCount(c, i) < PhysMax[c]
         /\ free # {}        \* assert(regno >= 0)
         /\ phys' = [phys EXCEPT ![i] = regno]
         /\ active' = [d \in Class |->
                         IF d = c
                         THEN insert_active(ExpiredActive(d, i), ExpiredCount(d, i), i)
                         ELSE ExpiredActive(d, i)]
         /\ count' = [d \in Class |->
                        IF d = c THEN ExpiredCount(d, i) + 1 ELSE ExpiredCount(d, i)]
         /\ using' = [d \in Class |->
                        IF d = c THEN ExpiredUsing(d, i) \cup {regno}
                        ELSE ExpiredUsing(d, i)]
         /\ used' = [used EXCEPT ![c] = @ \cup ExpiredUsing(c, i) \cup {regno}]
  /\ i' = i + 1
  /\ UNCHANGED <<iv, state>>

(* split_at_interval: every register is taken. Of the active intervals and *)
(* the new one, the one that ends last goes to the stack. Both classes     *)
(* mark it with ra->phys_max, the number of integer registers.             *)
split_at_interval(c, act, n) ==
  LET spill == act[n - 1]
  IN  IF iv[spill].end > iv[i].end
      THEN /\ phys' = [phys EXCEPT ![i] = phys[spill], ![spill] = PhysMax["ireg"]]
           /\ state' = [state EXCEPT ![spill] = "LI_SPILL"]
           /\ active' = [d \in Class |-> IF d = c THEN insert_active(act, n - 1, i)
                                         ELSE ExpiredActive(d, i)]
      ELSE /\ phys' = [phys EXCEPT ![i] = PhysMax["ireg"]]
           /\ state' = [state EXCEPT ![i] = "LI_SPILL"]
           /\ active' = [d \in Class |-> ExpiredActive(d, i)]

Split ==
  /\ i <= N
  /\ state[i] = "LI_NORMAL"
  /\ LET c == iv[i].cls
     IN  /\ ExpiredCount(c, i) >= PhysMax[c]
         /\ split_at_interval(c, ExpiredActive(c, i), ExpiredCount(c, i))
         /\ used' = [used EXCEPT ![c] = @ \cup ExpiredUsing(c, i)]
  /\ count' = [d \in Class |-> ExpiredCount(d, i)]
  /\ using' = [d \in Class |-> ExpiredUsing(d, i)]
  /\ i' = i + 1
  /\ UNCHANGED iv

ScanNext == Skip \/ Assign \/ Split

(* The scan on its own, on any sorted sequence of intervals.               *)
ScanInit ==
  \E n \in 0 .. MaxLen :
    /\ iv \in [1 .. n -> Intervals]
    /\ Sorted(iv)
    /\ ScanStart(iv)

ScanSpec == ScanInit /\ [][ScanNext]_scanVars

----------------------------------------------------------------------------
(***************************************************************************)
(* Properties.                                                             *)
(***************************************************************************)
ScanTypes ==
  /\ i \in 1 .. N + 1
  /\ state \in [1 .. N -> LiveIntervalState]
  /\ phys \in [1 .. N -> Int]
  /\ DOMAIN active = Class
  /\ \A c \in Class : active[c] \in [Regs(c) -> 0 .. N]
  /\ count \in [Class -> Nat]
  /\ \A c \in Class : count[c] \in 0 .. PhysMax[c]
  /\ using \in [Class -> SUBSET Nat]
  /\ \A c \in Class : using[c] \subseteq Regs(c)
  /\ used \in [Class -> SUBSET Nat]

TypeOK == iv \in Seq(Intervals) /\ ScanTypes

(* Interval a went through the loop and still holds a register.            *)
InRegister(a) == a < i /\ state[a] = "LI_NORMAL"

(* Two intervals of the same class that are live at the same time never    *)
(* hold the same physical register: linear_scan_register_allocation        *)
(* (regalloc.c:172-203) hands a register out again only after              *)
(* expire_old_intervals or split_at_interval took it back. An interval     *)
(* that ends at the instruction where another one starts may share with it *)
NoClash ==
  \A a, b \in 1 .. N :
    /\ a < b
    /\ InRegister(a) /\ InRegister(b)
    /\ iv[a].cls = iv[b].cls
    /\ iv[a].end > iv[b].start
    => phys[a] # phys[b]

(* Every register that an interval was given exists and is reported in     *)
(* used_bits (regalloc.c:202-207), from which the function prologue        *)
(* decides which callee-saved registers to push.                           *)
UsedCoversAssigned ==
  \A a \in 1 .. N : InRegister(a) =>
    phys[a] \in Regs(iv[a].cls) \cap used[iv[a].cls]

(* assert(regno >= 0) at regalloc.c:195: when fewer than phys_max          *)
(* intervals are active, using_bits has a free register.                   *)
RegisterFree ==
  i <= N /\ state[i] = "LI_NORMAL" =>
    LET c == iv[i].cls
    IN  ExpiredCount(c, i) < PhysMax[c] => Regs(c) \ ExpiredUsing(c, i) # {}

(* The intervals of class c that need a register where iv[b] starts.       *)
Pressure(c, b) ==
  {a \in 1 .. b : /\ iv[a].cls = c
                  /\ iv[a].state = "LI_NORMAL"
                  /\ a = b \/ iv[a].end > iv[b].start}

(* The scan sends an interval to the stack only when at some point where   *)
(* it is live more intervals of its class are live than there are          *)
(* registers: no register is lost to an interval that has ended            *)
(* (regalloc.c:83-98), which needs `active' ordered by end.                *)
SpillNecessary ==
  \A a \in 1 .. N :
    iv[a].state = "LI_NORMAL" /\ state[a] = "LI_SPILL" =>
      \E b \in a .. i - 1 :
        /\ a \in Pressure(iv[a].cls, b)
        /\ Cardinality(Pressure(iv[a].cls, b)) > PhysMax[iv[a].cls]
============================================================================
