---------------------------- MODULE DriverProofs ----------------------------
(***************************************************************************)
(* Proofs about the compiler driver, for every command line, every length  *)
(* of the text, every capacity of the pipes and every choice of faults.    *)
(*                                                                         *)
(* None of the driver's properties is inductive by itself.  DInv says, for *)
(* every place the driver can be at, which children may be in which state, *)
(* who holds which end of which pipe, how much text is where, and what is  *)
(* on disk already.  It has one conjunct per place.                        *)
(***************************************************************************)
EXTENDS Driver, TLAPS

Status == {"none", "run", "dying", "zombie", "reaped"}

Fd == {"ccR", "ccW", "asR", "asW"}

Place == {"source", "fork_as", "fork_cc1", "fork_cpp", "wait", "compiled", "close_as",
          "wait_as", "next", "fork_asm", "wait_asm", "fork_ld", "wait_ld", "finish",
          "exited", "died"}

TypeOK ==
  /\ sources \in Seq(SourceType)
  /\ out_type \in OutType
  /\ pc \in Place
  /\ src \in 1 .. Len(sources) + 1
  /\ res \in BOOLEAN
  /\ running \in Nat
  /\ live \subseteq {"cpp", "cc1"}
  /\ proc \in [Child -> Status]
  /\ code \in [Child -> BOOLEAN]
  /\ fds \in [Child \cup {"xcc"} -> SUBSET Fd]
  /\ buf \in [{"cc", "as"} -> Nat]
  /\ wrote \in [{"cpp", "cc1"} -> Nat]
  /\ got \in [{"cc1", "as"} -> Nat]
  /\ out \in [1 .. Len(sources) -> {"none", "whole", "partial"}]
  /\ ld_cmd \in Seq(Nat)
  /\ exe \in BOOLEAN

----------------------------------------------------------------------------
(* A child that is not there: never started, or waited for.                *)
Gone(p) == proc[p] \in {"none", "reaped"}

(* A child that nobody has told to stop.                                   *)
Undisturbed(p) == proc[p] \in {"run", "zombie"}

AllGone == \A p \in Child : Gone(p)
AllClosed == \A p \in Child \cup {"xcc"} : fds[p] = {}

(* The first n sources went through.                                       *)
BuiltUpTo(n) == \A k \in 1 .. n : Built(k) => out[k] = "whole"

(* The linker's command line holds the first n sources.                    *)
LinkedUpTo(n) == out_type = "Executable" => ld_cmd = [k \in 1 .. n |-> k]

(* Between two sources, and whenever only one child is about.              *)
AtRest ==
  /\ ~res
  /\ running = 0 /\ live = {}
  /\ AllClosed

Between == AtRest /\ AllGone /\ BuiltUpTo(src - 1) /\ LinkedUpTo(src - 1)

AtSource == Between

AtForkAs == Between /\ src <= Len(sources) /\ sources[src] = "Clanguage" /\ UsesAs

AtForkAsm == Between /\ src <= Len(sources) /\ sources[src] = "Assembly"

AtForkLd == Between /\ src = Len(sources) + 1 /\ out_type = "Executable"

AtWaitAsm ==
  /\ AtRest
  /\ \A p \in {"cpp", "cc1"} : Gone(p)
  /\ Undisturbed("as")
  /\ src <= Len(sources) /\ sources[src] = "Assembly"
  /\ BuiltUpTo(src - 1) /\ LinkedUpTo(src - 1)
  /\ proc["as"] = "zombie" /\ ~code["as"] => out[src] = "whole"

AtWaitLd ==
  /\ AtRest
  /\ \A p \in {"cpp", "cc1", "as"} : Gone(p)
  /\ Undisturbed("ld")
  /\ src = Len(sources) + 1 /\ out_type = "Executable"
  /\ BuiltUpTo(Len(sources)) /\ LinkedUpTo(Len(sources))
  /\ proc["ld"] = "zombie" /\ ~code["ld"] => exe

----------------------------------------------------------------------------
(* While a pipeline is being built, runs and is taken down.                *)
InPipe(n) ==
  /\ src <= Len(sources) /\ sources[src] = "Clanguage"
  /\ BuiltUpTo(src - 1)
  /\ LinkedUpTo(n)

(* As long as the driver holds a write end, the assembler sees no end of   *)
(* its input: it can only have been lost, and then it failed.              *)
AsHeldBack ==
  IF UsesAs
  THEN /\ {"asR", "asW"} \subseteq fds["xcc"]
       /\ fds["as"] \subseteq {"asR"}
       /\ proc["as"] \in {"run", "zombie", "reaped"}
       /\ proc["as"] # "run" => code["as"] /\ fds["as"] = {}
       /\ got["as"] + buf["as"] = wrote["cc1"]
  ELSE /\ \A p \in Child \cup {"xcc"} : fds[p] \cap {"asR", "asW"} = {}
       /\ Gone("as") /\ fds["as"] = {}

(* cpp ends well only with all its text written.                           *)
CppWhole ==
  proc["cpp"] \in {"zombie", "reaped"} =>
    /\ fds["cpp"] = {}
    /\ ~code["cpp"] => /\ wrote["cpp"] = Units
                       /\ ~UsesCc1 => out[src] = "whole"

Cc1Whole ==
  proc["cc1"] \in {"zombie", "reaped"} =>
    /\ fds["cc1"] = {}
    /\ ~code["cc1"] => /\ wrote["cc1"] = Units
                       /\ ~UsesAs => out[src] = "whole"

AtForkCc1 ==
  /\ InPipe(src - 1) /\ UsesCc1
  /\ ~res
  /\ Gone("cpp") /\ Gone("cc1") /\ fds["cpp"] = {} /\ fds["cc1"] = {}
  /\ fds["xcc"] \subseteq {"asR", "asW"}
  /\ IF UsesAs
     THEN /\ {"asR", "asW"} \subseteq fds["xcc"]
          /\ fds["as"] \subseteq {"asR"}
          /\ Undisturbed("as")
          /\ proc["as"] # "run" => code["as"] /\ fds["as"] = {}
          /\ got["as"] = 0 /\ buf["as"] = 0
     ELSE Gone("as") /\ fds["as"] = {} /\ fds["xcc"] = {}

AtForkCpp ==
  /\ InPipe(src - 1)
  /\ ~res
  /\ Gone("cpp") /\ fds["cpp"] = {}
  /\ AsHeldBack
  /\ proc["as"] # "reaped" \/ ~UsesAs
  /\ IF UsesCc1
     THEN /\ running = 1 /\ live = {"cc1"}
          /\ Undisturbed("cc1")
          /\ proc["cc1"] = "zombie" => code["cc1"] /\ fds["cc1"] = {}
          /\ fds["cc1"] \subseteq {"ccR", "asR", "asW"}
          /\ {"ccR", "ccW"} \subseteq fds["xcc"]
          /\ got["cc1"] = 0 /\ buf["cc"] = 0
     ELSE AtRest /\ AllGone

AtWait ==
  /\ InPipe(src - 1)
  /\ AsHeldBack
  /\ CppWhole
  /\ IF UsesCc1
     THEN /\ Undisturbed("cc1") /\ "cc1" \in live
          /\ Cc1Whole
          /\ fds["cc1"] \subseteq {"ccR", "asR", "asW"}
          /\ got["cc1"] + buf["cc"] = wrote["cpp"]
          /\ IF "cpp" \in live
             THEN /\ Undisturbed("cpp")
                  /\ {"ccR", "ccW"} \subseteq fds["xcc"]
                  /\ proc["cc1"] = "zombie" => code["cc1"]
                  /\ IF res THEN running = 1 /\ UsesAs /\ proc["as"] = "reaped"
                            ELSE running = 2 /\ (UsesAs => proc["as"] # "reaped")
             ELSE /\ ~res /\ running = 1
                  /\ proc["cpp"] = "reaped" /\ ~code["cpp"]
                  /\ fds["xcc"] \subseteq {"asR", "asW"}
                  /\ UsesAs => proc["as"] # "reaped"
                  /\ proc["cc1"] = "zombie" /\ ~code["cc1"] => got["cc1"] = Units
     ELSE /\ ~res /\ running = 1 /\ live = {"cpp"}
          /\ Undisturbed("cpp") /\ Gone("cc1")
          /\ AllClosed

(* cpp and cc1 went through and have been waited for.                      *)
PipeWhole ==
  /\ running = 0 /\ live = {}
  /\ Gone("cpp") /\ Gone("cc1") /\ fds["cpp"] = {} /\ fds["cc1"] = {}
  /\ fds["xcc"] \subseteq {"asR", "asW"}
  /\ UsesAs => got["cc1"] = Units /\ wrote["cc1"] = Units
  /\ ~UsesAs => out[src] = "whole"

(* What is left of a failed pipeline writes no output any more.            *)
NothingWrites == /\ proc["as"] # "run"
                 /\ UsesAs \/ proc["cc1"] # "run"

AtCompiled ==
  /\ InPipe(src - 1)
  /\ IF res THEN (IF UsesAs THEN "asW" \in fds["xcc"] ELSE NothingWrites)
            ELSE AsHeldBack /\ PipeWhole /\ (UsesAs => proc["as"] # "reaped")

AtCloseAs ==
  /\ UsesAs
  /\ InPipe(src)
  /\ IF res THEN NothingWrites ELSE AsHeldBack /\ PipeWhole /\ proc["as"] # "reaped"

AtWaitAs ==
  /\ UsesAs
  /\ InPipe(src)
  /\ IF res THEN NothingWrites
     ELSE /\ PipeWhole
          /\ Undisturbed("as")
          /\ fds["xcc"] = {} /\ fds["as"] \subseteq {"asR"}
          /\ proc["as"] = "zombie" => fds["as"] = {}
          /\ got["as"] + buf["as"] = Units
          /\ proc["as"] = "zombie" /\ ~code["as"] => out[src] = "whole"

AtNext ==
  /\ src <= Len(sources)
  /\ IF res THEN NothingWrites
            ELSE AtRest /\ AllGone /\ BuiltUpTo(src) /\ LinkedUpTo(src)

AtEnd ==
  /\ IF res THEN NothingWrites
     ELSE /\ AllGone
          /\ BuiltUpTo(Len(sources))
          /\ out_type = "Executable" => exe
  /\ proc["ld"] # "none" =>
       /\ AllGone
       /\ BuiltUpTo(Len(sources)) /\ ld_cmd = [k \in 1 .. Len(sources) |-> k]

----------------------------------------------------------------------------
DInv ==
  /\ TypeOK
  /\ NoTruncatedOutput
  /\ fds["ld"] = {}
  /\ pc \notin {"wait_ld", "finish", "exited"} => proc["ld"] = "none"
  /\ pc = "source" => AtSource
  /\ pc = "fork_as" => AtForkAs
  /\ pc = "fork_cc1" => AtForkCc1
  /\ pc = "fork_cpp" => AtForkCpp
  /\ pc = "wait" => AtWait
  /\ pc = "compiled" => AtCompiled
  /\ pc = "close_as" => AtCloseAs
  /\ pc = "wait_as" => AtWaitAs
  /\ pc = "next" => AtNext
  /\ pc = "fork_asm" => AtForkAsm
  /\ pc = "wait_asm" => AtWaitAsm
  /\ pc = "fork_ld" => AtForkLd
  /\ pc = "wait_ld" => AtWaitLd
  /\ pc \in {"finish", "exited"} => AtEnd
----------------------------------------------------------------------------
(* Appending the next source keeps the linker's command line in order.     *)
LEMMA AppendNext ==
  ASSUME NEW n \in Nat
  PROVE  Append([k \in 1 .. n |-> k], n + 1) = [k \in 1 .. n + 1 |-> k]
<1>1. [k \in 1 .. n |-> k] \in Seq(Nat) /\ Len([k \in 1 .. n |-> k]) = n
  OBVIOUS
<1> DEFINE a == Append([k \in 1 .. n |-> k], n + 1)
<1>2. a \in Seq(Nat) /\ Len(a) = n + 1
  BY <1>1
<1>3. \A k \in 1 .. n + 1 : a[k] = k
  BY <1>1
<1>4. a = [k \in 1 .. Len(a) |-> a[k]]
  BY <1>2
<1> QED
  BY <1>2, <1>3, <1>4

(* main picks the next source only when all before it went through.        *)
LEMMA NextSourceDInv == DInv /\ NextSource => DInv'
<1> SUFFICES ASSUME DInv, NextSource
             PROVE  DInv'
  OBVIOUS
<1> USE DEF DInv, NextSource
<1>1. TypeOK'
  <2>1. src \in Nat /\ ld_cmd \in Seq(Nat) /\ Append(ld_cmd, src) \in Seq(Nat)
    BY DEF TypeOK
  <2>2. ld_cmd' \in Seq(Nat)
    BY <2>1
  <2>3. src' \in 1 .. Len(sources)' + 1 /\ pc' \in Place /\ res' \in BOOLEAN
    <3>1. src \in Nat /\ Len(sources) \in Nat /\ sources' = sources
      BY DEF TypeOK, inputVars
    <3>2. src' \in 1 .. Len(sources) + 1
      BY <3>1 DEF TypeOK
    <3> QED
      BY <3>1, <3>2 DEF TypeOK, Place
  <2> QED
    BY <2>2, <2>3 DEF TypeOK, inputVars, fileVars
<1>2. NoTruncatedOutput'
  BY DEF NoTruncatedOutput, inputVars, fileVars
<1>3. Between /\ proc["ld"] = "none" /\ fds["ld"] = {} /\ TypeOK
  BY DEF AtSource
<1>4. (AtRest /\ AllGone)' \/ res'
  BY <1>3 DEF Between, AtRest, AllGone, AllClosed, Gone, TypeOK
<1>5. BuiltUpTo(src - 1)' /\ src \in Nat
  <2>1. BuiltUpTo(src - 1) /\ src \in Nat
    BY <1>3 DEF Between, TypeOK
  <2>2. CASE src' = src
    BY <2>1, <2>2 DEF BuiltUpTo, Built, inputVars, fileVars
  <2>3. CASE src' = src + 1 /\ sources[src] = "ObjectFile"
    BY <2>1, <2>3 DEF BuiltUpTo, Built, inputVars, fileVars
  <2> QED
    BY <1>3, <2>1, <2>2, <2>3 DEF TypeOK, SourceType
<1>6. LinkedUpTo(src - 1)'
  <2>1. src - 1 \in Nat /\ (src - 1) + 1 = src /\ (src + 1) - 1 = src
    BY <1>3 DEF TypeOK
  <2>2. Append([k \in 1 .. src - 1 |-> k], src) = [k \in 1 .. src |-> k]
    BY <2>1, AppendNext
  <2> QED
    BY <1>3, <2>1, <2>2 DEF Between, LinkedUpTo, inputVars
<1> HIDE DEF DInv
<1>7. CASE pc' = "source"
  BY <1>1, <1>2, <1>3, <1>4, <1>5, <1>6, <1>7 DEF DInv, AtSource, Between, AtRest
<1>8. CASE pc' # "source"
  <2>1. pc' \in {"fork_as", "fork_cc1", "fork_cpp", "fork_asm", "finish"}
    BY <1>3, <1>8 DEF TypeOK, SourceType
  <2>2. CASE pc' = "finish"
    BY <1>1, <1>2, <1>3, <2>2 DEF DInv, AtEnd, NothingWrites, Between, AllGone, Gone, Child
  <2>3. CASE pc' \in {"fork_as", "fork_cc1", "fork_cpp", "fork_asm"}
    BY <1>1, <1>2, <1>3, <1>4, <1>5, <1>6, <2>3, ZenonT(40)
       DEF DInv, TypeOK, AtForkAs, AtForkAsm, AtForkCc1, AtForkCpp, Between, AtRest, AllClosed,
           AllGone, Gone, InPipe, AsHeldBack, UsesAs, UsesCc1, inputVars, Child
  <2> QED
    BY <2>1, <2>2, <2>3
<1> QED
  BY <1>7, <1>8

(* The assembler of a pipeline is started with an empty pipe.              *)
LEMMA ForkAsDInv == DInv /\ ForkAs => DInv'
<1> SUFFICES ASSUME DInv, ForkAs
             PROVE  DInv'
  OBVIOUS
<1> USE DEF DInv, ForkAs
<1>1. TypeOK'
  BY DEF TypeOK, Place, inputVars, fileVars, Status, Fd, Child
<1>2. NoTruncatedOutput'
  BY DEF NoTruncatedOutput, inputVars, fileVars
<1>3. AtForkAs
  OBVIOUS
<1>4. AtForkCc1'
  BY <1>3 DEF AtForkAs, AtForkCc1, TypeOK, Between, AtRest, AllClosed, AllGone, Gone, BuiltUpTo, LinkedUpTo, Built, inputVars, fileVars, InPipe, UsesAs, UsesCc1, OutType, Child, Undisturbed, Status, Fd
<1> QED
  BY <1>1, <1>2, <1>4 DEF TypeOK, Child, Fd, inputVars, fileVars

(* cc1 is started between the empty pipes to and from it.                  *)
LEMMA ForkCc1DInv == DInv /\ ForkCc1 => DInv'
<1> SUFFICES ASSUME DInv, ForkCc1
             PROVE  DInv'
  OBVIOUS
<1> USE DEF DInv, ForkCc1
<1>1. TypeOK'
  BY DEF TypeOK, Place, inputVars, fileVars, Status, Fd, Child
<1>2. NoTruncatedOutput'
  BY DEF NoTruncatedOutput, inputVars, fileVars
<1>3. AtForkCc1 /\ TypeOK
  OBVIOUS
<1>4. AtForkCpp'
  <2>1. InPipe(src - 1)'
    BY <1>3 DEF AtForkCc1, InPipe, BuiltUpTo, LinkedUpTo, Built, inputVars, fileVars
  <2>2. AsHeldBack' /\ (proc["as"] # "reaped" \/ ~UsesAs)'
    <3>1. CASE UsesAs
      <4>1. /\ proc'["as"] = proc["as"] /\ fds'["as"] = fds["as"] /\ fds["xcc"] \subseteq fds'["xcc"]
            /\ got'["as"] = 0 /\ buf'["as"] = 0 /\ wrote'["cc1"] = 0 /\ UsesAs'
            /\ code' = code
        BY <1>3, <3>1 DEF AtForkCc1, UsesAs, TypeOK, Child, inputVars
      <4>2. /\ {"asR", "asW"} \subseteq fds["xcc"] /\ fds["as"] \subseteq {"asR"}
            /\ proc["as"] \in {"run", "zombie"}
            /\ proc["as"] # "run" => code["as"] /\ fds["as"] = {}
        BY <1>3, <3>1 DEF AtForkCc1, Undisturbed
      <4> HIDE DEF DInv, ForkCc1
      <4> QED
        BY <4>1, <4>2 DEF AsHeldBack
    <3>2. CASE ~UsesAs
      <4>1. \A p \in Child \cup {"xcc"} : fds[p] = {}
        BY <1>3, <3>2 DEF AtForkCc1, Child
      <4>2. \A p \in Child \cup {"xcc"} : fds'[p] \subseteq {"ccR", "ccW"}
        BY <1>3, <4>1 DEF TypeOK, Child
      <4>3. proc'["as"] = proc["as"] /\ fds'["as"] = {} /\ ~UsesAs'
        BY <1>3, <3>2, <4>1 DEF TypeOK, Child, UsesAs, inputVars
      <4> QED
        BY <1>3, <3>2, <4>2, <4>3 DEF AtForkCc1, AsHeldBack, Gone
    <3> QED
      BY <3>1, <3>2
  <2>3. UsesCc1'
    BY <1>3 DEF AtForkCc1, UsesCc1, inputVars
  <2> QED
    BY <1>3, <2>1, <2>2, <2>3
       DEF AtForkCc1, AtForkCpp, Gone, Undisturbed, UsesAs, TypeOK, Child, inputVars
<1> QED
  BY <1>1, <1>2, <1>4 DEF TypeOK, Child, Fd, inputVars, fileVars

(* cpp is started last, and the driver begins to wait.                     *)
LEMMA ForkCppDInv == DInv /\ ForkCpp => DInv'
<1> SUFFICES ASSUME DInv, ForkCpp
             PROVE  DInv'
  OBVIOUS
<1> USE DEF DInv, ForkCpp
<1>1. TypeOK'
  BY DEF TypeOK, Place, inputVars, fileVars, Status, Fd, Child
<1>2. NoTruncatedOutput'
  BY DEF NoTruncatedOutput, inputVars, fileVars
<1>3. AtForkCpp /\ TypeOK
  OBVIOUS
<1>4. AtWait'
  <2>1. InPipe(src - 1)'
    BY <1>3 DEF AtForkCpp, InPipe, BuiltUpTo, LinkedUpTo, Built, inputVars, fileVars
  <2>2. AsHeldBack' /\ (UsesAs => proc["as"] # "reaped")'
    BY <1>3 DEF AtForkCpp, AsHeldBack, Gone, UsesAs, TypeOK, Child, Fd, inputVars
  <2>3. CppWhole'
    BY <1>3 DEF CppWhole, TypeOK, Child
  <2>4. CASE UsesCc1
    BY <1>3, <2>1, <2>2, <2>3, <2>4
       DEF AtForkCpp, AtWait, Cc1Whole, Undisturbed, UsesCc1, TypeOK, Child, inputVars
  <2>5. CASE ~UsesCc1
    <3>1. AtRest /\ AllGone /\ ~UsesCc1'
      BY <1>3, <2>5 DEF AtForkCpp, UsesCc1, inputVars
    <3>2. running' = 1 /\ live' = {"cpp"} /\ AllClosed'
      BY <1>3, <3>1 DEF AtRest, AllClosed, TypeOK, Child
    <3> QED
      BY <1>3, <2>1, <2>2, <2>3, <3>1, <3>2
         DEF AtRest, AllGone, AtWait, Gone, Undisturbed, TypeOK, Child
  <2> QED
    BY <2>4, <2>5
<1> QED
  BY <1>1, <1>2, <1>4 DEF TypeOK, Child, Fd, inputVars, fileVars

(* The driver leaves at once when a process cannot be started.             *)
LEMMA ForkFailsDInv == DInv /\ ForkFails => DInv'
<1> SUFFICES ASSUME DInv, ForkFails
             PROVE  DInv'
  OBVIOUS
<1> USE DEF DInv, ForkFails
<1>1. TypeOK'
  BY DEF TypeOK, Place, inputVars, fileVars, Fd, Child
<1> QED
  BY <1>1 DEF NoTruncatedOutput, TypeOK, Child

(* After compile: the object is noted, and as is killed on a failure.      *)
LEMMA CompiledDInv == DInv /\ Compiled => DInv'
<1> SUFFICES ASSUME DInv, Compiled
             PROVE  DInv'
  OBVIOUS
<1> USE DEF DInv, Compiled
<1>1. TypeOK /\ AtCompiled /\ src \in Nat /\ InPipe(src - 1)
  BY DEF TypeOK, AtCompiled
<1>2. TypeOK'
  <2>1. ld_cmd' \in Seq(Nat)
    BY <1>1 DEF TypeOK
  <2>2. proc' \in [Child -> Status]
    BY <1>1 DEF TypeOK, Killed, Child, Status
  <2> QED
    BY <1>1, <2>1, <2>2 DEF TypeOK, Place, inputVars
<1>3. NoTruncatedOutput'
  BY <1>1 DEF NoTruncatedOutput, TypeOK, inputVars
<1>4. InPipe(src)'
  <2>1. src - 1 \in Nat /\ (src - 1) + 1 = src
    BY <1>1 DEF TypeOK
  <2>2. Append([k \in 1 .. src - 1 |-> k], src) = [k \in 1 .. src |-> k]
    BY <2>1, AppendNext
  <2>3. BuiltUpTo(src - 1)'
    BY <1>1, <2>1 DEF InPipe, BuiltUpTo, Built, TypeOK, inputVars
  <2> QED
    BY <1>1, <2>2, <2>3 DEF InPipe, LinkedUpTo, inputVars
<1>5. CASE pc' = "close_as"
  <2>1. UsesAs /\ UsesAs'
    BY <1>5 DEF UsesAs, inputVars
  <2>2. AtCloseAs'
    BY <1>1, <1>4, <2>1 DEF AtCompiled, AtCloseAs, NothingWrites, AsHeldBack, PipeWhole, Gone, Killed,
       TypeOK, Child, UsesAs, UsesCc1, inputVars, OutType
  <2> QED
    BY <1>1, <1>2, <1>3, <1>5, <2>2 DEF TypeOK, Killed, Child
<1>6. CASE pc' = "next"
  <2>1. ~UsesAs /\ ~UsesAs'
    BY <1>6 DEF UsesAs, inputVars
  <2>2. AtNext'
    <3>1. src' <= Len(sources')
      BY <1>1 DEF InPipe, inputVars
    <3>2. CASE res'
      BY <1>1, <2>1, <3>1, <3>2 DEF AtCompiled, AtNext, NothingWrites, UsesAs, inputVars
    <3>3. CASE ~res'
      <4>1. AtRest' /\ AllGone'
        BY <1>1, <2>1, <3>3 DEF AtCompiled, AtRest, AllGone, AllClosed, AsHeldBack, PipeWhole, Gone,
           TypeOK, Child, inputVars
      <4>2. out[src] = "whole" /\ BuiltUpTo(src - 1) /\ out' = out
        BY <1>1, <2>1, <3>3 DEF AtCompiled, PipeWhole, InPipe
      <4>3. BuiltUpTo(src)'
        BY <1>1, <4>2 DEF BuiltUpTo, Built, inputVars
      <4> QED
        BY <1>4, <3>1, <3>3, <4>1, <4>3 DEF AtNext, InPipe
    <3> QED
      BY <3>2, <3>3
  <2> QED
    BY <1>1, <1>2, <1>3, <1>6, <2>1, <2>2 DEF TypeOK
<1> QED
  BY <1>5, <1>6

(* The driver closes the assembler's pipe only when as may read all of it. *)
LEMMA CloseAsDInv == DInv /\ CloseAs => DInv'
<1> SUFFICES ASSUME DInv, CloseAs
             PROVE  DInv'
  OBVIOUS
<1> USE DEF DInv, CloseAs
<1>1. TypeOK'
  BY DEF TypeOK, Place, inputVars, fileVars, Fd, Child
<1>2. NoTruncatedOutput'
  BY DEF NoTruncatedOutput, inputVars, fileVars
<1>3. AtCloseAs /\ TypeOK
  OBVIOUS
<1>4. AtWaitAs'
  <2>1. InPipe(src)' /\ UsesAs'
    BY <1>3 DEF AtCloseAs, InPipe, BuiltUpTo, LinkedUpTo, Built, UsesAs, inputVars, fileVars
  <2>2. CASE res
    BY <1>3, <2>1, <2>2 DEF AtCloseAs, AtWaitAs, NothingWrites, UsesAs, inputVars
  <2>3. CASE ~res
    <3>1. AsHeldBack /\ PipeWhole /\ proc["as"] # "reaped" /\ UsesAs
      BY <1>3, <2>3 DEF AtCloseAs
    <3>2. PipeWhole'
      BY <1>3, <3>1 DEF PipeWhole, Gone, UsesAs, TypeOK, Child, inputVars, fileVars
    <3>3. fds'["xcc"] = {} /\ fds'["as"] = fds["as"]
      BY <1>3, <3>1 DEF PipeWhole, TypeOK, Child
    <3> QED
      BY <1>3, <2>1, <2>3, <3>1, <3>2, <3>3
         DEF AtWaitAs, AsHeldBack, PipeWhole, Undisturbed, inputVars
  <2> QED
    BY <2>2, <2>3
<1> QED
  BY <1>1, <1>2, <1>4 DEF TypeOK, Child, inputVars, fileVars

(* Whatever child the last wait of a pipeline takes, a failure is seen.    *)
LEMMA WaitAsDInv == ASSUME NEW p \in Child PROVE DInv /\ WaitAs(p) => DInv'
<1> SUFFICES ASSUME DInv, WaitAs(p)
             PROVE  DInv'
  OBVIOUS
<1> USE DEF DInv, WaitAs, Reap
<1>1. TypeOK'
  BY DEF TypeOK, Place, inputVars, fileVars, Child, Status
<1>2. NoTruncatedOutput'
  BY DEF NoTruncatedOutput, inputVars, fileVars
<1>3. AtWaitAs /\ TypeOK /\ src <= Len(sources)
  BY DEF AtWaitAs, InPipe
<1>4. AtNext'
  <2>1. CASE res
    BY <1>3, <2>1 DEF AtWaitAs, AtNext, NothingWrites, UsesAs, TypeOK, Child, inputVars
  <2>2. CASE ~res
    <3>1. p = "as"
      BY <1>3, <2>2 DEF AtWaitAs, PipeWhole, Gone, Child
    <3>2. CASE code["as"]
      BY <1>3, <3>1, <3>2 DEF AtWaitAs, AtNext, NothingWrites, UsesAs, TypeOK, Child, inputVars
    <3>3. CASE ~code["as"]
      <4>1. AtRest' /\ AllGone'
        BY <1>3, <2>2, <3>1, <3>3
           DEF AtWaitAs, PipeWhole, AtRest, AllClosed, AllGone, Gone, TypeOK, Child
      <4>2. BuiltUpTo(src - 1) /\ out[src] = "whole" /\ LinkedUpTo(src)
        BY <1>3, <2>2, <3>1, <3>3 DEF AtWaitAs, InPipe
      <4>3. BuiltUpTo(src)' /\ LinkedUpTo(src)'
        BY <1>3, <4>2 DEF BuiltUpTo, LinkedUpTo, Built, TypeOK, inputVars, fileVars
      <4> QED
        BY <1>3, <4>1, <4>3 DEF AtNext, AtRest, inputVars
    <3> QED
      BY <1>3, <3>2, <3>3 DEF TypeOK
  <2> QED
    BY <2>1, <2>2
<1> QED
  BY <1>1, <1>2, <1>4 DEF TypeOK, Child, inputVars, fileVars

(* An assembly source: as runs alone.                                      *)
LEMMA AsmDInv == DInv /\ (ForkAsm \/ WaitAsm) => DInv'
<1> SUFFICES ASSUME DInv, ForkAsm \/ WaitAsm
             PROVE  DInv'
  OBVIOUS
<1> USE DEF DInv
<1>1. TypeOK /\ src \in Nat
  BY DEF TypeOK
<1>2. NoTruncatedOutput'
  BY DEF NoTruncatedOutput, ForkAsm, WaitAsm, inputVars, fileVars
<1>3. CASE ForkAsm
  <2> USE DEF ForkAsm
  <2>1. TypeOK'
    BY <1>1, <1>3 DEF TypeOK, Place, inputVars, fileVars, Child, Status
  <2>2. AtWaitAsm'
    BY <1>1, <1>3 DEF AtForkAsm, AtWaitAsm, Between, AtRest, AllClosed, AllGone, Gone, Undisturbed, BuiltUpTo, LinkedUpTo, Built,
       TypeOK, Child, inputVars, fileVars
  <2> QED
    BY <1>2, <1>3, <2>1, <2>2 DEF TypeOK, Child, inputVars, fileVars
<1>4. CASE WaitAsm
  <2> USE DEF WaitAsm, Reap
  <2>1. AtWaitAsm
    BY <1>4
  <2>2. TypeOK'
    <3>1. ld_cmd' \in Seq(Nat)
      BY <1>1, <1>4 DEF TypeOK
    <3>2. res' \in BOOLEAN /\ proc' \in [Child -> Status]
      BY <1>1, <1>4 DEF TypeOK, Child, Status
    <3>3. /\ pc' \in Place
          /\ UNCHANGED <<sources, out_type, src, running, live, code, fds, buf, wrote, got, out, exe>>
      BY <1>4 DEF Place, inputVars, fileVars
    <3> QED
      BY <1>1, <3>1, <3>2, <3>3 DEF TypeOK
  <2>3. LinkedUpTo(src)'
    <3>1. src - 1 \in Nat /\ (src - 1) + 1 = src
      BY <1>1 DEF TypeOK
    <3>2. Append([k \in 1 .. src - 1 |-> k], src) = [k \in 1 .. src |-> k]
      BY <3>1, AppendNext
    <3> QED
      BY <1>4, <2>1, <3>2 DEF AtWaitAsm, LinkedUpTo, inputVars
  <2>4. AtNext'
    <3>1. CASE code["as"]
      BY <1>1, <1>4, <2>1, <3>1 DEF AtWaitAsm, AtNext, NothingWrites, Gone, TypeOK, Child, inputVars
    <3>2. CASE ~code["as"]
      <4>1. AtRest' /\ AllGone'
        BY <1>1, <1>4, <2>1, <3>2 DEF AtWaitAsm, AtRest, AllClosed, AllGone, Gone, TypeOK, Child
      <4>2. BuiltUpTo(src)'
        BY <1>1, <1>4, <2>1, <3>2 DEF AtWaitAsm, BuiltUpTo, Built, inputVars, fileVars
      <4> QED
        BY <1>4, <2>1, <2>3, <4>1, <4>2 DEF AtNext, AtWaitAsm, AtRest, inputVars
    <3> QED
      BY <1>1, <3>1, <3>2 DEF TypeOK
  <2> QED
    BY <1>2, <1>4, <2>2, <2>4 DEF TypeOK, Child, inputVars, fileVars
<1> QED
  BY <1>3, <1>4

(* The loop of main goes on, or ends.                                      *)
LEMMA EndSourceDInv == DInv /\ (EndSource \/ EndSources) => DInv'
<1> SUFFICES ASSUME DInv, EndSource \/ EndSources
             PROVE  DInv'
  OBVIOUS
<1> USE DEF DInv
<1>1. TypeOK /\ src \in Nat /\ Len(sources) \in Nat /\ (src + 1) - 1 = src
  BY DEF TypeOK
<1>2. NoTruncatedOutput'
  BY DEF NoTruncatedOutput, EndSource, EndSources, inputVars, fileVars
<1>3. CASE EndSource
  <2> USE DEF EndSource
  <2>1. AtNext
    BY <1>3
  <2>2. TypeOK'
    <3>1. src' \in 1 .. Len(sources) + 1
      BY <1>1, <1>3, <2>1 DEF AtNext, TypeOK
    <3> QED
      BY <1>3, <3>1 DEF TypeOK, Place, inputVars, fileVars
  <2>3. CASE res
    BY <1>1, <1>2, <1>3, <2>1, <2>2, <2>3
       DEF AtNext, AtEnd, NothingWrites, UsesAs, inputVars
  <2>4. CASE ~res
    <3>1. Between'
      BY <1>1, <1>3, <2>1, <2>4
         DEF AtNext, Between, AtRest, AllGone, AllClosed, Gone, BuiltUpTo, LinkedUpTo, Built, inputVars, fileVars
    <3> QED
      BY <1>2, <1>3, <2>2, <2>4, <3>1 DEF AtSource
  <2> QED
    BY <2>3, <2>4
<1>4. CASE EndSources
  <2> USE DEF EndSources
  <2>1. Between /\ src = Len(sources) + 1
    BY <1>1, <1>4 DEF AtSource, TypeOK
  <2>2. TypeOK'
    BY <1>4 DEF TypeOK, Place, inputVars, fileVars
  <2>3. Between' /\ src' = Len(sources') + 1
    BY <1>1, <1>4, <2>1
       DEF Between, AtRest, AllGone, AllClosed, Gone, BuiltUpTo, LinkedUpTo, Built, inputVars, fileVars
  <2>4. CASE pc' = "fork_ld"
    BY <1>2, <1>4, <2>2, <2>3, <2>4 DEF AtForkLd, inputVars
  <2>5. CASE pc' = "finish"
    <3>1. BuiltUpTo(Len(sources))'
      BY <1>1, <2>3 DEF Between
    <3>2. AtEnd'
      BY <1>4, <2>3, <2>5, <3>1 DEF AtEnd, Between, AtRest, inputVars
    <3> QED
      BY <1>2, <1>4, <2>2, <2>5, <3>2
  <2> QED
    BY <1>4, <2>4, <2>5
<1> QED
  BY <1>3, <1>4

(* The linker is started, waited for, and main returns.                    *)
LEMMA LdDInv == DInv /\ (ForkLd \/ WaitLd \/ Finish) => DInv'
<1> SUFFICES ASSUME DInv, ForkLd \/ WaitLd \/ Finish
             PROVE  DInv'
  OBVIOUS
<1> USE DEF DInv
<1>1. TypeOK /\ src \in Nat /\ Len(sources) \in Nat
  BY DEF TypeOK
<1>2. NoTruncatedOutput'
  BY DEF NoTruncatedOutput, ForkLd, WaitLd, Finish, inputVars, fileVars
<1>3. TypeOK'
  <2>1. res' \in BOOLEAN /\ pc' \in Place
    BY <1>1 DEF ForkLd, WaitLd, Finish, Reap, TypeOK, Place
  <2>2. proc' \in [Child -> Status] /\ fds' \in [Child \cup {"xcc"} -> SUBSET Fd]
    BY <1>1 DEF ForkLd, WaitLd, Finish, TypeOK, Child, Status, Fd
  <2> QED
    BY <1>1, <2>1, <2>2 DEF ForkLd, WaitLd, Finish, TypeOK, inputVars, fileVars
<1>4. CASE ForkLd
  <2>1. AtWaitLd'
    BY <1>1, <1>4 DEF ForkLd, AtForkLd, AtWaitLd, Between, AtRest, AllClosed, AllGone, Gone, Undisturbed, BuiltUpTo, LinkedUpTo, Built,
       TypeOK, Child, inputVars, fileVars
  <2> QED
    BY <1>2, <1>3, <1>4, <2>1 DEF ForkLd
<1>5. CASE WaitLd
  <2>1. AllGone'
    BY <1>1, <1>5 DEF WaitLd, Reap, AtWaitLd, AllGone, Gone, TypeOK, Child
  <2>2. BuiltUpTo(Len(sources))' /\ ld_cmd' = [k \in 1 .. Len(sources') |-> k]
    BY <1>1, <1>5 DEF WaitLd, AtWaitLd, BuiltUpTo, LinkedUpTo, Built, inputVars, fileVars
  <2>3. AtEnd'
    BY <1>1, <1>5, <2>1, <2>2 DEF WaitLd, Reap, AtWaitLd, AtEnd, NothingWrites, AllGone, Gone, Child, inputVars, fileVars
  <2> QED
    BY <1>2, <1>3, <1>5, <2>3 DEF WaitLd
<1>6. CASE Finish
  <2>1. AtEnd'
    BY <1>1, <1>6 DEF Finish, AtEnd, NothingWrites, AllGone, Gone, BuiltUpTo, Built, UsesAs, inputVars, fileVars
  <2> QED
    BY <1>1, <1>2, <1>3, <1>6, <2>1 DEF Finish, TypeOK, Child
<1> QED
  BY <1>4, <1>5, <1>6

(* The loop in compile, for each child that waitpid(0) may return.         *)
LEMMA WaitChildDInv == ASSUME NEW p \in Child PROVE DInv /\ WaitChild(p) => DInv'
<1> SUFFICES ASSUME DInv, WaitChild(p)
             PROVE  DInv'
  OBVIOUS
<1> DEFINE abort == \/ p = "cpp" /\ "cc1" \in live /\ code[p]
                    \/ p = "cc1" /\ "cpp" \in live
<1>1. /\ TypeOK /\ AtWait /\ fds["ld"] = {} /\ NoTruncatedOutput
      /\ proc["ld"] = "none" /\ pc = "wait" /\ proc[p] = "zombie"
  BY DEF DInv, WaitChild, Reap
<1>2. /\ res' = (res \/ code[p])
      /\ running' = running - 1 /\ live' = live \ {p}
      /\ pc' = IF abort \/ running = 1 THEN "compiled" ELSE "wait"
      /\ proc' = [Killed(IF abort THEN live \ {p} ELSE {}) EXCEPT ![p] = "reaped"]
      /\ fds' = IF p = "cpp" /\ "cc1" \in live /\ ~abort
                THEN [fds EXCEPT !["xcc"] = @ \ {"ccR", "ccW"}]
                ELSE fds
      /\ UNCHANGED <<sources, out_type, src, code, buf, wrote, got, out, exe, ld_cmd>>
  BY DEF WaitChild, Reap, WaitLoopEnds, inputVars, fileVars
<1> HIDE DEF abort
<1>3. /\ proc' \in [Child -> Status]
      /\ proc'[p] = "reaped"
      /\ \A q \in Child \ {p} :
           proc'[q] = IF abort /\ q \in live /\ proc[q] = "run" THEN "dying" ELSE proc[q]
  BY <1>1, <1>2 DEF TypeOK, Killed, Child, Status
<1>4. running \in {1, 2} /\ running' \in Nat
  BY <1>1, <1>2 DEF AtWait
<1>5. TypeOK'
  <2>1. fds' \in [Child \cup {"xcc"} -> SUBSET Fd]
    BY <1>1, <1>2 DEF TypeOK, Child, Fd
  <2>2. res' \in BOOLEAN /\ pc' \in Place /\ live' \subseteq {"cpp", "cc1"}
    BY <1>1, <1>2 DEF TypeOK, Place
  <2> QED
    BY <1>1, <1>2, <1>3, <1>4, <2>1, <2>2 DEF TypeOK
<1>6. NoTruncatedOutput'
  BY <1>1, <1>2 DEF NoTruncatedOutput
<1>7. fds'["ld"] = {} /\ proc'["ld"] = "none"
  BY <1>1, <1>2, <1>3 DEF Child, TypeOK, AtWait
<1>8. InPipe(src - 1)'
  BY <1>1, <1>2 DEF AtWait, InPipe, BuiltUpTo, LinkedUpTo, Built
<1>9. UsesAs' = UsesAs /\ UsesCc1' = UsesCc1 /\ (UsesAs => UsesCc1)
  BY <1>1, <1>2 DEF UsesAs, UsesCc1
<1>10. CASE pc' = "compiled"
  <2>1. CASE res' /\ UsesAs
    <3>1. "asW" \in fds'["xcc"]
      BY <1>1, <1>2, <2>1 DEF AtWait, AsHeldBack, TypeOK, Child
    <3> QED
      BY <1>5, <1>6, <1>7, <1>8, <1>9, <1>10, <2>1, <3>1 DEF DInv, AtCompiled
  <2>2. CASE res' /\ ~UsesAs
    <3>1. Gone("as") /\ p # "as"
      BY <1>1, <2>2 DEF AtWait, AsHeldBack, Gone
    <3>2. proc'["cc1"] # "run"
      BY <1>1, <1>2, <1>3, <1>4, <1>10, <2>2, <3>1 DEF AtWait, Gone, Undisturbed, Child, abort
    <3>3. NothingWrites'
      BY <1>1, <1>3, <3>1, <3>2 DEF NothingWrites, Gone, Child
    <3> QED
      BY <1>5, <1>6, <1>7, <1>8, <1>9, <1>10, <2>2, <3>3 DEF DInv, AtCompiled
  <2>3. CASE ~res'
    <3>1. p # "as" /\ ~abort /\ running = 1 /\ ~res /\ ~code[p]
      BY <1>1, <1>2, <1>10, <2>3 DEF AtWait, AsHeldBack, Gone, abort, TypeOK
    <3>2. p = IF UsesCc1 THEN "cc1" ELSE "cpp"
      BY <1>1, <1>2, <3>1 DEF AtWait, Gone, Child
    <3>3. proc'["as"] = proc["as"] /\ fds' = fds
      BY <1>1, <1>2, <1>3, <3>1, <3>2 DEF Child, AtWait
    <3>4. AsHeldBack' /\ (UsesAs => proc["as"] # "reaped")'
      BY <1>1, <1>2, <1>9, <3>1, <3>2, <3>3 DEF AtWait, AsHeldBack, Gone
    <3>5. PipeWhole'
      <4>1. CASE UsesCc1
        BY <1>1, <1>2, <1>3, <1>4, <1>9, <3>1, <3>2, <3>3, <4>1
           DEF AtWait, Cc1Whole, CppWhole, PipeWhole, Gone, Child, TypeOK
      <4>2. CASE ~UsesCc1
        BY <1>1, <1>2, <1>3, <1>4, <1>9, <3>1, <3>2, <3>3, <4>2
           DEF AtWait, CppWhole, PipeWhole, Gone, Child, AllClosed
      <4> QED
        BY <4>1, <4>2
    <3> QED
      BY <1>5, <1>6, <1>7, <1>8, <1>9, <1>10, <2>3, <3>4, <3>5 DEF DInv, AtCompiled
  <2> QED
    BY <2>1, <2>2, <2>3
<1>11. CASE pc' = "wait"
  <2>1. ~abort /\ running = 2 /\ running' = 1 /\ UsesCc1
    BY <1>1, <1>2, <1>4, <1>11 DEF AtWait
  <2>2. /\ "cpp" \in live /\ "cc1" \in live /\ p # "cc1" /\ ~res
        /\ p = "cpp" => ~code[p]
    BY <1>1, <2>1 DEF AtWait, abort
  <2>3. \A q \in Child \ {p} : proc'[q] = proc[q]
    BY <1>3, <2>1
  <2>4. CASE p = "cpp"
    <3>1. AsHeldBack' /\ (UsesAs => proc["as"] # "reaped")'
      BY <1>1, <1>2, <1>9, <2>2, <2>3, <2>4, ZenonT(40) DEF AtWait, AsHeldBack, Gone, Child, TypeOK
    <3>2. fds'["xcc"] \subseteq {"asR", "asW"} /\ \A q \in Child : fds'[q] = fds[q]
      BY <1>1, <1>2, <2>1, <2>2, <2>4 DEF TypeOK, Child, Fd
    <3>3. CppWhole' /\ Cc1Whole'
      BY <1>1, <1>2, <1>3, <1>9, <2>1, <2>3, <2>4, <3>2 DEF AtWait, CppWhole, Cc1Whole, Child
    <3>4. AtWait'
      BY <1>1, <1>2, <1>3, <1>8, <1>9, <2>1, <2>2, <2>3, <2>4, <3>1, <3>2, <3>3
         DEF AtWait, Undisturbed, Child, TypeOK
    <3> QED
      BY <1>5, <1>6, <1>7, <1>11, <3>4 DEF DInv
  <2>5. CASE p = "as"
    <3>1. UsesAs /\ code["as"]
      BY <1>1, <2>5 DEF AtWait, AsHeldBack, Gone
    <3>2. AsHeldBack'
      BY <1>1, <1>2, <1>3, <1>9, <2>5, <3>1 DEF AtWait, AsHeldBack, Child, TypeOK
    <3>3. CppWhole' /\ Cc1Whole'
      BY <1>1, <1>2, <1>9, <2>1, <2>3, <2>5 DEF AtWait, CppWhole, Cc1Whole, Child
    <3>4. AtWait'
      BY <1>1, <1>2, <1>3, <1>8, <1>9, <2>1, <2>2, <2>3, <2>5, <3>1, <3>2, <3>3
         DEF AtWait, Undisturbed, Child, TypeOK
    <3> QED
      BY <1>5, <1>6, <1>7, <1>11, <3>4 DEF DInv
  <2> QED
    BY <1>1, <2>2, <2>4, <2>5 DEF Child
<1> QED
  BY <1>2, <1>10, <1>11

----------------------------------------------------------------------------
(* The children.  While the driver holds a write end nobody sees the end   *)
(* of that pipe.                                                           *)
LEMMA HeldBack ==
  ASSUME TypeOK
  PROVE  /\ "ccW" \in fds["xcc"] => ~CcEof
         /\ "asW" \in fds["xcc"] => ~AsEof
  BY DEF TypeOK, CcEof, AsEof, Holders

(* The driver has seen a failure and is on its way out.                    *)
Failing == res /\ pc \in {"compiled", "close_as", "wait_as", "next", "finish", "exited"}

(* Where the driver can be while a child is still there.                   *)
LEMMA Places ==
  ASSUME DInv, pc # "died", ~Failing
  PROVE  /\ ~Gone("cpp") => pc = "wait"
         /\ ~Gone("cc1") => pc \in {"fork_cpp", "wait"}
         /\ ~Gone("as") => pc \in {"fork_cc1", "fork_cpp", "wait", "compiled", "close_as",
                                   "wait_as", "wait_asm"}
         /\ ~Gone("ld") => pc = "wait_ld"
         /\ \A p \in Child : proc[p] # "dying"
<1> USE DEF Child
<1>1. pc \in Place /\ TypeOK
  BY DEF DInv, TypeOK
<1>2. CASE pc \in {"source", "fork_as", "fork_asm", "fork_ld"}
  BY <1>1, <1>2 DEF DInv, AtSource, AtForkAs, AtForkAsm, AtForkLd, Between, AllGone, Gone
<1>3. CASE pc \in {"wait_asm", "wait_ld"}
  BY <1>1, <1>3 DEF DInv, AtWaitAsm, AtWaitLd, Gone, Undisturbed
<1>4. CASE pc \in {"fork_cc1", "fork_cpp"}
  BY <1>1, <1>4 DEF DInv, AtForkCc1, AtForkCpp, AsHeldBack, AllGone, Gone, Undisturbed, AtRest
<1>5. CASE pc = "wait"
  BY <1>1, <1>5 DEF DInv, AtWait, AsHeldBack, Gone, Undisturbed
<1>6. CASE pc \in {"compiled", "close_as", "wait_as"}
  BY <1>1, <1>6 DEF DInv, Failing, AtCompiled, AtCloseAs, AtWaitAs, PipeWhole, AsHeldBack, Gone, Undisturbed
<1>7. CASE pc \in {"next", "finish", "exited"}
  BY <1>1, <1>7 DEF DInv, Failing, AtNext, AtEnd, AllGone, Gone
<1> QED
  BY <1>1, <1>2, <1>3, <1>4, <1>5, <1>6, <1>7 DEF Place

(* What a child of a failing or dead driver may do.                        *)
Harmless(p) ==
  /\ ~Gone(p) /\ p # "ld"
  /\ TypeOK'
  /\ UNCHANGED <<inputVars, driverVars>>
  /\ proc' \in {proc, [proc EXCEPT ![p] = "zombie"]}
  /\ \A q \in {"xcc", "ld"} : fds'[q] = fds[q]
  /\ pc # "died" => \A k \in DOMAIN sources : out'[k] \in {out[k], "whole"}

(* Such a step disturbs nothing.                                           *)
LEMMA LateStep ==
  ASSUME DInv, Failing \/ pc = "died", NEW p \in Child, Harmless(p)
  PROVE  DInv'
<1>1. TypeOK /\ TypeOK' /\ UNCHANGED <<sources, out_type, pc, src, res, running, live, ld_cmd>>
  BY DEF DInv, Harmless, inputVars, driverVars
<1>2. /\ fds'["ld"] = {} /\ proc'["ld"] = proc["ld"] /\ fds'["xcc"] = fds["xcc"]
      /\ proc["as"] # "run" => proc'["as"] # "run"
      /\ proc["cc1"] # "run" => proc'["cc1"] # "run"
  BY <1>1 DEF DInv, Harmless, TypeOK, Child
<1>3. CASE pc = "died"
  BY <1>1, <1>2, <1>3 DEF DInv, NoTruncatedOutput
<1>4. CASE Failing
  <2>1. NoTruncatedOutput'
    BY <1>1, <1>4 DEF DInv, Failing, NoTruncatedOutput, Harmless
  <2>2. NothingWrites => NothingWrites'
    BY <1>1, <1>2 DEF NothingWrites, UsesAs
  <2>3. ASSUME NEW n, InPipe(n) PROVE InPipe(n)'
    <3>1. \A k \in 1 .. src - 1 : k \in DOMAIN sources
      BY <1>1, <2>3, SMTT(40) DEF InPipe, TypeOK
    <3>2. BuiltUpTo(src - 1)'
      BY <1>1, <1>4, <2>3, <3>1 DEF Failing, InPipe, BuiltUpTo, Built, Harmless
    <3> QED
      BY <1>1, <2>3, <3>2 DEF InPipe, LinkedUpTo
  <2>4. CASE pc = "compiled"
    BY <1>1, <1>2, <1>4, <2>1, <2>2, <2>3, <2>4 DEF DInv, Failing, AtCompiled, UsesAs
  <2>5. CASE pc \in {"close_as", "wait_as"}
    BY <1>1, <1>2, <1>4, <2>1, <2>2, <2>3, <2>5 DEF DInv, Failing, AtCloseAs, AtWaitAs, UsesAs
  <2>6. CASE pc = "next"
    BY <1>1, <1>2, <1>4, <2>1, <2>2, <2>6 DEF DInv, Failing, AtNext
  <2>7. CASE pc \in {"finish", "exited"}
    <3>1. proc["ld"] = "none"
      BY <2>7 DEF DInv, AtEnd, AllGone, Harmless
    <3> QED
      BY <1>1, <1>2, <1>4, <2>1, <2>2, <2>7, <3>1 DEF DInv, Failing, AtEnd
  <2> QED
    BY <1>4, <2>4, <2>5, <2>6, <2>7 DEF Failing
<1> QED
  BY <1>3, <1>4

(* What leaving changes.                                                   *)
LEMMA ExitOf ==
  ASSUME TypeOK, NEW p \in Child, NEW failure \in BOOLEAN, Exit(p, failure)
  PROVE  /\ proc' \in [Child -> Status]
         /\ code' \in [Child -> BOOLEAN]
         /\ fds' \in [Child \cup {"xcc"} -> SUBSET Fd]
         /\ proc'[p] = "zombie" /\ code'[p] = failure /\ fds'[p] = {}
         /\ proc' = [proc EXCEPT ![p] = "zombie"]
         /\ \A q \in Child \ {p} : proc'[q] = proc[q] /\ code'[q] = code[q]
         /\ \A q \in (Child \cup {"xcc"}) \ {p} : fds'[q] = fds[q]
  BY DEF TypeOK, Exit, Status

(* Every step of cpp.                                                      *)
LEMMA CppDInv == DInv /\ (CppWrite \/ CppExit \/ StageFails("cpp")) => DInv'
<1> SUFFICES ASSUME DInv, CppWrite \/ CppExit \/ StageFails("cpp")
             PROVE  DInv'
  OBVIOUS
<1>1. /\ TypeOK /\ ~Gone("cpp") /\ proc["cpp"] = "run"
      /\ UNCHANGED <<sources, out_type, pc, src, res, running, live, ld_cmd, got, exe>>
  BY DEF DInv, CppWrite, CppExit, StageFails, Running, Gone, inputVars, driverVars, fileVars
<1>2. /\ proc' \in [Child -> Status] /\ code' \in [Child -> BOOLEAN]
      /\ fds' \in [Child \cup {"xcc"} -> SUBSET Fd]
      /\ proc' \in {proc, [proc EXCEPT !["cpp"] = "zombie"]}
      /\ proc'["cpp"] \in {"run", "zombie"}
      /\ proc'["cpp"] = "zombie" => fds'["cpp"] = {} /\ (code'["cpp"] \/ CppExit)
      /\ fds'["cpp"] \in {fds["cpp"], {}}
      /\ \A q \in {"ld", "cc1", "as"} : proc'[q] = proc[q] /\ code'[q] = code[q]
      /\ \A q \in {"xcc", "ld", "cc1", "as"} : fds'[q] = fds[q]
  <2>1. CASE CppWrite
    BY <1>1, <2>1 DEF CppWrite, TypeOK, Child
  <2>2. CASE CppExit \/ StageFails("cpp")
    <3>1. \E failure \in BOOLEAN : Exit("cpp", failure) /\ (failure \/ CppExit)
      BY <2>2 DEF CppExit, StageFails
    <3> QED
      BY <1>1, <3>1, ExitOf DEF Child
  <2> QED
    BY <2>1, <2>2
<1>3. /\ buf' \in [{"cc", "as"} -> Nat] /\ wrote' \in [{"cpp", "cc1"} -> Nat]
      /\ buf'["as"] = buf["as"] /\ wrote'["cc1"] = wrote["cc1"]
      /\ UsesCc1 => buf'["cc"] + wrote["cpp"] = buf["cc"] + wrote'["cpp"]
      /\ CppExit => wrote'["cpp"] = Units
  <2>1. CppExit => UNCHANGED <<buf, wrote>> /\ wrote["cpp"] = Units
    BY DEF CppExit
  <2>2. CASE CppWrite
    <3>1. wrote' = [wrote EXCEPT !["cpp"] = @ + 1]
          /\ buf' = IF UsesCc1 THEN [buf EXCEPT !["cc"] = @ + 1] ELSE buf
      BY <2>2 DEF CppWrite
    <3>2. /\ wrote["cpp"] \in Nat /\ wrote'["cpp"] = wrote["cpp"] + 1
          /\ wrote' \in [{"cpp", "cc1"} -> Nat] /\ wrote'["cc1"] = wrote["cc1"]
      BY <1>1, <3>1 DEF TypeOK
    <3>3. ~CppExit
      BY <2>1, <3>2
    <3>4. /\ buf' \in [{"cc", "as"} -> Nat] /\ buf'["as"] = buf["as"]
          /\ buf["cc"] \in Nat
          /\ UsesCc1 => buf'["cc"] = buf["cc"] + 1
      BY <1>1, <3>1 DEF TypeOK
    <3> QED
      BY <3>2, <3>3, <3>4
  <2>3. CASE UNCHANGED <<buf, wrote>>
    BY <1>1, <2>1, <2>3 DEF TypeOK
  <2> QED
    BY <2>2, <2>3 DEF CppExit, StageFails
<1>4. /\ out' \in [1 .. Len(sources) -> {"none", "whole", "partial"}]
      /\ \A k \in DOMAIN sources : out'[k] \in {out[k], "whole"}
      /\ UsesCc1 => out' = out
      /\ CppExit /\ ~UsesCc1 => \A k \in DOMAIN sources : k = src => out'[k] = "whole"
  <2>1. DOMAIN sources = 1 .. Len(sources)
    BY <1>1 DEF TypeOK
  <2>2. \/ out' = out /\ ~(CppExit /\ ~UsesCc1)
        \/ ~UsesCc1 /\ out' = [out EXCEPT ![src] = "whole"]
    BY <1>1 DEF CppWrite, CppExit, StageFails, fileVars
  <2> QED
    BY <1>1, <2>1, <2>2 DEF TypeOK
<1>5. TypeOK'
  BY <1>1, <1>2, <1>3, <1>4 DEF TypeOK
<1>6. CASE Failing \/ pc = "died"
  <2>1. Harmless("cpp")
    BY <1>1, <1>5, <1>2, <1>4 DEF Harmless, inputVars, driverVars
  <2> QED
    BY <1>6, <2>1, LateStep DEF Child
<1>7. CASE ~Failing /\ pc # "died"
  <2>1. pc = "wait" /\ AtWait
    BY <1>1, <1>7, Places DEF DInv
  <2>2. NoTruncatedOutput'
    BY <1>1, <1>4, <2>1 DEF DInv, NoTruncatedOutput
  <2>3. src \in DOMAIN sources /\ \A k \in 1 .. src - 1 : k \in DOMAIN sources
    BY <1>1, <2>1 DEF AtWait, InPipe, TypeOK
  <2>4. InPipe(src - 1)'
    BY <1>1, <1>4, <2>1, <2>3 DEF AtWait, InPipe, BuiltUpTo, LinkedUpTo, Built
  <2>5. UsesAs' = UsesAs /\ UsesCc1' = UsesCc1 /\ (UsesAs => UsesCc1)
    BY <1>1 DEF UsesAs, UsesCc1
  <2>6. "cpp" \in live
    BY <1>1, <2>1 DEF AtWait
  <2>7. AsHeldBack'
    BY <1>1, <1>2, <1>3, <2>1, <2>5 DEF AtWait, AsHeldBack, Gone, Child
  <2>8. CppWhole'
    BY <1>1, <1>2, <1>3, <1>4, <2>3, <2>5 DEF CppWhole
  <2>9. UsesCc1 => Cc1Whole'
    BY <1>1, <1>2, <1>3, <1>4, <2>1, <2>5 DEF AtWait, Cc1Whole
  <2>10. AtWait'
    <3>1. CASE UsesCc1
      <4>1. got["cc1"] + buf'["cc"] = wrote'["cpp"]
        <5>1. /\ got["cc1"] \in Nat /\ buf["cc"] \in Nat /\ wrote["cpp"] \in Nat
              /\ buf'["cc"] \in Nat /\ wrote'["cpp"] \in Nat
          BY <1>1, <1>3 DEF TypeOK
        <5>2. got["cc1"] + buf["cc"] = wrote["cpp"]
          BY <2>1, <3>1 DEF AtWait
        <5> QED
          BY <1>3, <3>1, <5>1, <5>2
      <4> QED
        BY <1>1, <1>2, <2>1, <2>4, <2>5, <2>6, <2>7, <2>8, <2>9, <3>1, <4>1 DEF AtWait, Undisturbed
    <3>2. CASE ~UsesCc1
      BY <1>1, <1>2, <2>1, <2>4, <2>5, <2>6, <2>7, <2>8, <3>2
         DEF AtWait, Undisturbed, Gone, AllClosed, Child
    <3> QED
      BY <3>1, <3>2
  <2> QED
    BY <1>1, <1>5, <1>2, <2>1, <2>2, <2>10 DEF DInv
<1> QED
  BY <1>6, <1>7

(* Every step of cc1.                                                      *)
LEMMA Cc1DInv == DInv /\ (Cc1Read \/ Cc1Write \/ Cc1Exit \/ StageFails("cc1")) => DInv'
<1> SUFFICES ASSUME DInv, Cc1Read \/ Cc1Write \/ Cc1Exit \/ StageFails("cc1")
             PROVE  DInv'
  OBVIOUS
<1>1. /\ TypeOK /\ ~Gone("cc1") /\ proc["cc1"] = "run"
      /\ UNCHANGED <<sources, out_type, pc, src, res, running, live, ld_cmd, exe>>
  BY DEF DInv, Cc1Read, Cc1Write, Cc1Exit, StageFails, Running, Gone, inputVars, driverVars, fileVars
<1>2. /\ proc' \in [Child -> Status] /\ code' \in [Child -> BOOLEAN]
      /\ fds' \in [Child \cup {"xcc"} -> SUBSET Fd]
      /\ proc' \in {proc, [proc EXCEPT !["cc1"] = "zombie"]}
      /\ proc'["cc1"] \in {"run", "zombie"}
      /\ proc'["cc1"] = "zombie" => fds'["cc1"] = {} /\ (code'["cc1"] \/ Cc1Exit)
      /\ fds'["cc1"] \in {fds["cc1"], {}}
      /\ \A q \in {"ld", "cpp", "as"} : proc'[q] = proc[q] /\ code'[q] = code[q]
      /\ \A q \in {"xcc", "ld", "cpp", "as"} : fds'[q] = fds[q]
  <2>1. CASE Cc1Read \/ Cc1Write
    BY <1>1, <2>1 DEF Cc1Read, Cc1Write, TypeOK, Child
  <2>2. CASE Cc1Exit \/ StageFails("cc1")
    <3>1. \E failure \in BOOLEAN : Exit("cc1", failure) /\ (failure \/ Cc1Exit)
      BY <2>2 DEF Cc1Exit, StageFails
    <3> QED
      BY <1>1, <3>1, ExitOf DEF Child
  <2> QED
    BY <2>1, <2>2
<1>3. /\ Cc1Exit => /\ UNCHANGED <<buf, wrote, got>> /\ wrote["cc1"] = Units
                    /\ buf["cc"] = 0 /\ CcEof
      /\ ~CcEof => wrote' = wrote /\ ~Cc1Exit
      /\ CcEof => buf["cc"] = 0
  <2>1. Cc1Read \/ StageFails("cc1") => wrote' = wrote
    BY DEF Cc1Read, StageFails
  <2> QED
    BY <2>1 DEF Cc1Exit, Cc1Write, CcEof
<1>4. /\ buf' \in [{"cc", "as"} -> Nat] /\ wrote' \in [{"cpp", "cc1"} -> Nat]
      /\ got' \in [{"cc1", "as"} -> Nat]
      /\ got'["as"] = got["as"] /\ wrote'["cpp"] = wrote["cpp"]
      /\ got'["cc1"] + buf'["cc"] = got["cc1"] + buf["cc"]
      /\ UsesAs => buf'["as"] + wrote["cc1"] = buf["as"] + wrote'["cc1"]
      /\ buf["cc"] = 0 => got'["cc1"] = got["cc1"] /\ buf'["cc"] = 0
  <2>1. CASE Cc1Read
    <3>1. buf["cc"] > 0 /\ buf' = [buf EXCEPT !["cc"] = @ - 1]
          /\ got' = [got EXCEPT !["cc1"] = @ + 1] /\ wrote' = wrote
      BY <2>1 DEF Cc1Read
    <3>2. /\ buf["cc"] \in Nat /\ got["cc1"] \in Nat /\ buf["cc"] - 1 \in Nat
          /\ buf["as"] \in Nat /\ wrote["cc1"] \in Nat
      BY <1>1, <3>1 DEF TypeOK
    <3>3. /\ buf' \in [{"cc", "as"} -> Nat] /\ got' \in [{"cc1", "as"} -> Nat]
          /\ buf'["cc"] = buf["cc"] - 1 /\ buf'["as"] = buf["as"]
          /\ got'["cc1"] = got["cc1"] + 1 /\ got'["as"] = got["as"]
      BY <1>1, <3>1, <3>2 DEF TypeOK
    <3>4. wrote' \in [{"cpp", "cc1"} -> Nat]
      BY <1>1, <3>1 DEF TypeOK
    <3> QED
      BY <3>1, <3>2, <3>3, <3>4
  <2>2. CASE Cc1Write
    <3>1. wrote' = [wrote EXCEPT !["cc1"] = @ + 1] /\ got' = got
          /\ buf' = IF UsesAs THEN [buf EXCEPT !["as"] = @ + 1] ELSE buf
      BY <2>2 DEF Cc1Write
    <3>2. wrote["cc1"] \in Nat /\ buf["as"] \in Nat /\ got["cc1"] \in Nat /\ buf["cc"] \in Nat
      BY <1>1 DEF TypeOK
    <3>3. /\ wrote' \in [{"cpp", "cc1"} -> Nat] /\ got' \in [{"cc1", "as"} -> Nat]
          /\ wrote'["cc1"] = wrote["cc1"] + 1 /\ wrote'["cpp"] = wrote["cpp"]
      BY <1>1, <3>1, <3>2 DEF TypeOK
    <3>4. /\ buf' \in [{"cc", "as"} -> Nat] /\ buf'["cc"] = buf["cc"]
          /\ UsesAs => buf'["as"] = buf["as"] + 1
      BY <1>1, <3>1, <3>2 DEF TypeOK
    <3> QED
      BY <3>1, <3>2, <3>3, <3>4
  <2>3. CASE UNCHANGED <<buf, wrote, got>>
    BY <1>1, <2>3 DEF TypeOK
  <2> QED
    BY <2>1, <2>2, <2>3 DEF Cc1Exit, StageFails
<1>5. /\ out' \in [1 .. Len(sources) -> {"none", "whole", "partial"}]
      /\ UsesAs \/ ~Cc1Exit => out' = out
      /\ \A k \in DOMAIN sources : k # src => out'[k] = out[k]
      /\ Cc1Exit /\ ~UsesAs =>
           \A k \in DOMAIN sources : k = src => out'[k] = IF got["cc1"] = Units THEN "whole" ELSE "partial"
  <2>1. DOMAIN sources = 1 .. Len(sources)
    BY <1>1 DEF TypeOK
  <2>2. \/ out' = out /\ ~(Cc1Exit /\ ~UsesAs)
        \/ Cc1Exit /\ ~UsesAs /\ out' = [out EXCEPT ![src] = IF got["cc1"] = Units THEN "whole" ELSE "partial"]
    BY DEF Cc1Read, Cc1Write, Cc1Exit, StageFails, fileVars
  <2>3. out \in [DOMAIN sources -> {"none", "whole", "partial"}]
    BY <1>1, <2>1 DEF TypeOK
  <2> QED
    BY <2>1, <2>2, <2>3
<1>6. TypeOK'
  BY <1>1, <1>2, <1>4, <1>5 DEF TypeOK
<1>7. UsesAs' = UsesAs /\ UsesCc1' = UsesCc1 /\ (UsesAs => UsesCc1)
  BY <1>1 DEF UsesAs, UsesCc1
<1>8. CASE Failing \/ pc = "died"
  <2>1. Failing => UsesAs \/ proc["cc1"] # "run"
    BY DEF Failing, DInv, AtCompiled, AtCloseAs, AtWaitAs, AtNext, AtEnd, NothingWrites
  <2>2. Harmless("cc1")
    BY <1>1, <1>2, <1>5, <1>6, <1>8, <2>1 DEF Harmless, inputVars, driverVars
  <2> QED
    BY <1>8, <2>2, LateStep DEF Child
<1>9. CASE pc = "fork_cpp"
  <2>1. AtForkCpp /\ ~CcEof
    BY <1>1, <1>9, HeldBack DEF DInv, AtForkCpp, AtRest, AllGone, Child
  <2>2. UsesCc1 /\ buf["cc"] = 0 /\ got["cc1"] = 0
    BY <1>1, <2>1 DEF AtForkCpp, AllGone, Child
  <2>3. NoTruncatedOutput' /\ InPipe(src - 1)'
    BY <1>1, <1>3, <1>5, <1>9, <2>1
       DEF DInv, NoTruncatedOutput, AtForkCpp, InPipe, BuiltUpTo, LinkedUpTo, Built
  <2>4. AsHeldBack'
    <3>1. UsesAs => got'["as"] + buf'["as"] = wrote'["cc1"]
      <4>1. /\ got["as"] \in Nat /\ buf["as"] \in Nat /\ wrote["cc1"] \in Nat
            /\ buf'["as"] \in Nat /\ wrote'["cc1"] \in Nat
        BY <1>1, <1>4 DEF TypeOK
      <4> QED
        BY <1>4, <2>1, <4>1 DEF AtForkCpp, AsHeldBack
    <3> QED
      BY <1>2, <1>7, <2>1, <3>1 DEF AtForkCpp, AsHeldBack, Gone, Child
  <2>5. AtForkCpp'
    BY <1>1, <1>2, <1>3, <1>4, <1>7, <2>1, <2>2, <2>3, <2>4 DEF AtForkCpp, Gone, Undisturbed
  <2> QED
    BY <1>1, <1>2, <1>6, <1>9, <2>3, <2>5 DEF DInv
<1>10. CASE pc = "wait"
  <2>1. AtWait
    BY <1>10 DEF DInv
  <2>2. UsesCc1 /\ "cc1" \in live
    BY <1>1, <2>1 DEF AtWait
  <2>3. Cc1Exit => "cpp" \notin live /\ got["cc1"] = Units
    <3>1. CcEof => "cpp" \notin live
      BY <1>1, <2>1, <2>2, HeldBack DEF AtWait
    <3>2. buf["cc"] = 0 /\ "cpp" \notin live => got["cc1"] = Units
      <4>1. got["cc1"] \in Nat /\ buf["cc"] \in Nat
        BY <1>1 DEF TypeOK
      <4> QED
        BY <2>1, <2>2, <4>1 DEF AtWait, CppWhole
    <3> QED
      BY <1>3, <3>1, <3>2
  <2>4. src \in DOMAIN sources /\ \A k \in 1 .. src - 1 : k \in DOMAIN sources /\ k # src
    BY <1>1, <2>1 DEF AtWait, InPipe, TypeOK
  <2>5. NoTruncatedOutput' /\ InPipe(src - 1)'
    <3>1. NoTruncatedOutput'
      BY <1>1, <1>5, <1>10, <2>3 DEF DInv, NoTruncatedOutput
    <3> QED
      BY <1>1, <1>5, <2>1, <2>4, <3>1 DEF AtWait, InPipe, BuiltUpTo, LinkedUpTo, Built
  <2>6. AsHeldBack'
    <3>1. UsesAs => got'["as"] + buf'["as"] = wrote'["cc1"]
      <4>1. /\ got["as"] \in Nat /\ buf["as"] \in Nat /\ wrote["cc1"] \in Nat
            /\ buf'["as"] \in Nat /\ wrote'["cc1"] \in Nat
        BY <1>1, <1>4 DEF TypeOK
      <4> QED
        BY <1>4, <2>1, <4>1 DEF AtWait, AsHeldBack
    <3> QED
      BY <1>2, <1>7, <2>1, <3>1 DEF AtWait, AsHeldBack, Gone, Child
  <2>7. CppWhole'
    BY <1>2, <1>4, <1>7, <2>1, <2>2 DEF AtWait, CppWhole
  <2>8. Cc1Whole'
    BY <1>1, <1>2, <1>3, <1>5, <1>7, <2>3, <2>4 DEF Cc1Whole
  <2>9. got'["cc1"] + buf'["cc"] = wrote'["cpp"]
    BY <1>4, <2>1, <2>2 DEF AtWait
  <2>10. fds'["cc1"] \subseteq {"ccR", "asR", "asW"} /\ Undisturbed("cc1")'
    BY <1>2, <2>1, <2>2 DEF AtWait, Undisturbed
  <2>11. AtWait'
    <3>1. CASE "cpp" \in live
      BY <1>1, <1>2, <1>7, <2>1, <2>2, <2>3, <2>5, <2>6, <2>7, <2>8, <2>9, <2>10, <3>1
         DEF AtWait, Undisturbed
    <3>2. CASE "cpp" \notin live
      <4>1. proc'["cc1"] = "zombie" /\ ~code'["cc1"] => got'["cc1"] = Units
        BY <1>2, <1>3, <2>3
      <4> QED
        BY <1>1, <1>2, <1>7, <2>1, <2>2, <2>5, <2>6, <2>7, <2>8, <2>9, <2>10, <3>2, <4>1 DEF AtWait
    <3> QED
      BY <3>1, <3>2
  <2> QED
    BY <1>1, <1>2, <1>6, <1>10, <2>1, <2>5, <2>11 DEF DInv
<1> QED
  BY <1>1, <1>8, <1>9, <1>10, Places

(* Every step of as.                                                       *)
LEMMA AsDInv == DInv /\ (AsRead \/ AsExit \/ AsDies) => DInv'
<1> SUFFICES ASSUME DInv, AsRead \/ AsExit \/ AsDies
             PROVE  DInv'
  OBVIOUS
<1> DEFINE Ended == IF InPipeline => got["cc1"] = Units /\ got["as"] = Units
                    THEN "whole" ELSE "partial"
<1>1. /\ TypeOK /\ ~Gone("as") /\ proc["as"] = "run"
      /\ UNCHANGED <<sources, out_type, pc, src, res, running, live, ld_cmd, wrote, exe>>
  BY DEF DInv, AsRead, AsExit, AsDies, Running, Gone, inputVars, driverVars, fileVars
<1>2. /\ proc' \in [Child -> Status] /\ code' \in [Child -> BOOLEAN]
      /\ fds' \in [Child \cup {"xcc"} -> SUBSET Fd]
      /\ proc' \in {proc, [proc EXCEPT !["as"] = "zombie"]}
      /\ proc'["as"] \in {"run", "zombie"}
      /\ proc'["as"] = "zombie" => fds'["as"] = {}
      /\ fds'["as"] \in {fds["as"], {}}
      /\ \A q \in {"ld", "cpp", "cc1"} : proc'[q] = proc[q] /\ code'[q] = code[q]
      /\ \A q \in {"xcc", "ld", "cpp", "cc1"} : fds'[q] = fds[q]
  <2>1. CASE AsRead
    BY <1>1, <2>1 DEF AsRead, TypeOK, Child
  <2>2. CASE AsExit \/ AsDies
    <3>1. \E failure \in BOOLEAN : Exit("as", failure)
      BY <2>2 DEF AsExit, AsDies
    <3> QED
      BY <1>1, <3>1, ExitOf DEF Child
  <2> QED
    BY <2>1, <2>2
<1>3. /\ buf' \in [{"cc", "as"} -> Nat] /\ got' \in [{"cc1", "as"} -> Nat]
      /\ buf'["cc"] = buf["cc"] /\ got'["cc1"] = got["cc1"]
      /\ got'["as"] + buf'["as"] = got["as"] + buf["as"]
      /\ buf["as"] = 0 => got'["as"] = got["as"] /\ buf'["as"] = 0
  <2>1. CASE AsRead
    <3>1. buf["as"] > 0 /\ buf' = [buf EXCEPT !["as"] = @ - 1]
          /\ got' = [got EXCEPT !["as"] = @ + 1]
      BY <2>1 DEF AsRead
    <3>2. /\ buf["as"] \in Nat /\ got["as"] \in Nat /\ buf["as"] - 1 \in Nat
      BY <1>1, <3>1 DEF TypeOK
    <3>3. /\ buf' \in [{"cc", "as"} -> Nat] /\ got' \in [{"cc1", "as"} -> Nat]
          /\ buf'["as"] = buf["as"] - 1 /\ buf'["cc"] = buf["cc"]
          /\ got'["as"] = got["as"] + 1 /\ got'["cc1"] = got["cc1"]
      BY <1>1, <3>1, <3>2 DEF TypeOK
    <3> QED
      BY <3>1, <3>2, <3>3
  <2>2. CASE UNCHANGED <<buf, got>>
    BY <1>1, <2>2 DEF TypeOK
  <2> QED
    BY <2>1, <2>2 DEF AsExit, AsDies
<1>4. \/ out' = out /\ (proc'["as"] = "zombie" => code'["as"])
      \/ /\ proc'["as"] = "zombie" /\ UNCHANGED <<buf, got>>
         /\ InPipeline => AsEof
         /\ out' = [out EXCEPT ![src] = Ended]
  <2>1. CASE AsRead
    BY <1>1, <2>1 DEF AsRead, fileVars
  <2>2. CASE AsExit /\ Exit("as", FALSE)
    BY <1>1, <2>2, ExitOf DEF AsExit, Child
  <2>3. CASE Exit("as", TRUE) /\ out' = out
    BY <1>1, <2>3, ExitOf DEF Child
  <2> QED
    BY <2>1, <2>2, <2>3 DEF AsExit, AsDies, fileVars
<1>5. out' \in [1 .. Len(sources) -> {"none", "whole", "partial"}] /\ DOMAIN sources = 1 .. Len(sources)
  BY <1>1, <1>4 DEF TypeOK
<1>6. TypeOK'
  BY <1>1, <1>2, <1>3, <1>5 DEF TypeOK
<1>7. UsesAs' = UsesAs /\ UsesCc1' = UsesCc1 /\ (UsesAs => UsesCc1)
  BY <1>1 DEF UsesAs, UsesCc1
<1>8. "asW" \in fds["xcc"] /\ InPipeline => out' = out /\ (proc'["as"] = "zombie" => code'["as"])
  BY <1>1, <1>4, HeldBack
<1>9. ASSUME out' = out PROVE NoTruncatedOutput' /\ \A n : InPipe(n) => InPipe(n)'
  BY <1>1, <1>9 DEF DInv, NoTruncatedOutput, InPipe, BuiltUpTo, LinkedUpTo, Built
<1>10. CASE Failing \/ pc = "died"
  <2>1. Failing => "asW" \in fds["xcc"] /\ InPipeline
    BY <1>1 DEF Failing, DInv, AtCompiled, AtCloseAs, AtWaitAs, AtNext, AtEnd, NothingWrites, InPipe, InPipeline
  <2>2. Harmless("as")
    BY <1>1, <1>2, <1>6, <1>8, <1>10, <2>1 DEF Harmless, inputVars, driverVars
  <2> QED
    BY <1>10, <2>2, LateStep DEF Child
<1>11. AsHeldBack /\ UsesAs /\ InPipeline =>
         /\ AsHeldBack' /\ out' = out
         /\ proc'["as"] # "reaped"
  <2> SUFFICES ASSUME AsHeldBack, UsesAs, InPipeline
               PROVE  AsHeldBack' /\ out' = out /\ proc'["as"] # "reaped"
    OBVIOUS
  <2>1. out' = out /\ (proc'["as"] = "zombie" => code'["as"])
    BY <1>8 DEF AsHeldBack
  <2>2. got'["as"] + buf'["as"] = wrote'["cc1"]
    BY <1>1, <1>3 DEF AsHeldBack
  <2> QED
    BY <1>1, <1>2, <1>7, <2>1, <2>2 DEF AsHeldBack
<1>12. CASE ~Failing /\ pc = "fork_cc1"
  <2>1. AtForkCc1 /\ UsesAs /\ InPipeline /\ "asW" \in fds["xcc"]
    BY <1>1, <1>12 DEF DInv, AtForkCc1, InPipe, InPipeline
  <2>2. AtForkCc1'
    BY <1>1, <1>2, <1>3, <1>7, <1>8, <1>9, <2>1 DEF AtForkCc1, Gone, Undisturbed
  <2> QED
    BY <1>1, <1>2, <1>6, <1>8, <1>9, <1>12, <2>1, <2>2 DEF DInv
<1>13. CASE ~Failing /\ pc = "fork_cpp"
  <2>1. AtForkCpp /\ AsHeldBack /\ UsesAs /\ InPipeline /\ UsesCc1
    BY <1>1, <1>7, <1>13 DEF DInv, AtForkCpp, AsHeldBack, InPipe, InPipeline
  <2>2. AtForkCpp'
    BY <1>1, <1>2, <1>3, <1>7, <1>9, <1>11, <2>1 DEF AtForkCpp, Gone, Undisturbed
  <2> QED
    BY <1>1, <1>2, <1>6, <1>9, <1>11, <1>13, <2>1, <2>2 DEF DInv
<1>14. CASE ~Failing /\ pc = "wait"
  <2>1. AtWait /\ AsHeldBack /\ UsesAs /\ InPipeline /\ UsesCc1
    BY <1>1, <1>7, <1>14 DEF DInv, AtWait, AsHeldBack, InPipe, InPipeline
  <2>2. CppWhole' /\ Cc1Whole'
    BY <1>1, <1>2, <1>7, <1>11, <2>1 DEF AtWait, CppWhole, Cc1Whole
  <2>3. AtWait'
    BY <1>1, <1>2, <1>3, <1>7, <1>9, <1>11, <2>1, <2>2 DEF AtWait, Undisturbed
  <2> QED
    BY <1>1, <1>2, <1>6, <1>9, <1>11, <1>14, <2>1, <2>3 DEF DInv
<1>15. CASE ~Failing /\ pc \in {"compiled", "close_as"}
  <2>1. ~res /\ AsHeldBack /\ UsesAs /\ InPipeline /\ PipeWhole
    BY <1>1, <1>7, <1>15 DEF DInv, AtCompiled, AtCloseAs, Failing, AsHeldBack, InPipe, InPipeline
  <2>2. PipeWhole'
    BY <1>1, <1>2, <1>3, <1>7, <1>11, <2>1 DEF PipeWhole, Gone
  <2>3. pc = "compiled" => AtCompiled'
    BY <1>1, <1>7, <1>9, <1>11, <2>1, <2>2 DEF DInv, AtCompiled
  <2>4. pc = "close_as" => AtCloseAs'
    BY <1>1, <1>7, <1>9, <1>11, <2>1, <2>2 DEF DInv, AtCloseAs
  <2> QED
    BY <1>1, <1>2, <1>6, <1>9, <1>11, <1>15, <2>1, <2>3, <2>4 DEF DInv
<1>16. CASE ~Failing /\ pc = "wait_as"
  <2>1. ~res /\ AtWaitAs /\ PipeWhole /\ UsesAs /\ InPipeline
    BY <1>1, <1>16 DEF DInv, AtWaitAs, Failing, InPipe, InPipeline
  <2>2. InPipeline => (AsEof => Ended = "whole")
    <3>1. got["as"] \in Nat /\ got["as"] + buf["as"] = Units
      BY <1>1, <2>1 DEF TypeOK, AtWaitAs
    <3> QED
      BY <2>1, <3>1 DEF AsEof, PipeWhole
  <2>3. \A k \in DOMAIN sources : out'[k] = out[k] \/ (k = src /\ out'[k] = "whole")
    BY <1>1, <1>4, <1>5, <2>1, <2>2 DEF TypeOK
  <2>4. src \in DOMAIN sources /\ \A k \in 1 .. src - 1 : k \in DOMAIN sources
    BY <1>1, <1>5, <2>1 DEF AtWaitAs, InPipe, TypeOK
  <2>5. proc'["as"] = "zombie" /\ ~code'["as"] => out'[src] = "whole"
    BY <1>1, <1>4, <1>5, <2>1, <2>2, <2>4 DEF TypeOK
  <2>6. NoTruncatedOutput' /\ InPipe(src)'
    BY <1>1, <2>1, <2>3, <2>4 DEF DInv, NoTruncatedOutput, AtWaitAs, InPipe, BuiltUpTo, LinkedUpTo, Built
  <2>7. PipeWhole'
    BY <1>1, <1>2, <1>3, <1>7, <2>1 DEF PipeWhole, Gone
  <2>8. AtWaitAs'
    BY <1>1, <1>2, <1>3, <1>7, <2>1, <2>5, <2>6, <2>7 DEF AtWaitAs, Undisturbed
  <2> QED
    BY <1>1, <1>2, <1>6, <1>16, <2>6, <2>8 DEF DInv
<1>17. CASE ~Failing /\ pc = "wait_asm"
  <2>1. AtWaitAsm /\ ~InPipeline
    BY <1>17 DEF DInv, AtWaitAsm, InPipeline
  <2>2. Ended = "whole"
    BY <2>1
  <2>3. \A k \in DOMAIN sources : out'[k] = out[k] \/ (k = src /\ out'[k] = "whole")
    BY <1>1, <1>4, <1>5, <2>1, <2>2 DEF TypeOK
  <2>4. src \in DOMAIN sources /\ \A k \in 1 .. src - 1 : k \in DOMAIN sources
    BY <1>1, <1>5, <2>1 DEF AtWaitAsm, TypeOK
  <2>5. proc'["as"] = "zombie" /\ ~code'["as"] => out'[src] = "whole"
    BY <1>1, <1>4, <1>5, <2>1, <2>2, <2>4 DEF TypeOK
  <2>6. NoTruncatedOutput' /\ BuiltUpTo(src - 1)' /\ LinkedUpTo(src - 1)'
    BY <1>1, <2>1, <2>3, <2>4 DEF DInv, NoTruncatedOutput, AtWaitAsm, BuiltUpTo, LinkedUpTo, Built
  <2>7. AtRest'
    BY <1>1, <1>2, <2>1 DEF AtWaitAsm, AtRest, AllClosed, Child
  <2>8. AtWaitAsm'
    BY <1>1, <1>2, <2>1, <2>5, <2>6, <2>7 DEF AtWaitAsm, Gone, Undisturbed
  <2> QED
    BY <1>1, <1>2, <1>6, <1>17, <2>6, <2>8 DEF DInv
<1> QED
  BY <1>1, <1>10, <1>12, <1>13, <1>14, <1>15, <1>16, <1>17, Places

(* The linker leaves.                                                      *)
LEMMA LdExitDInv == DInv /\ LdExit => DInv'
<1> SUFFICES ASSUME DInv, LdExit
             PROVE  DInv'
  OBVIOUS
<1> USE DEF Child
<1>1. TypeOK /\ ~Gone("ld") /\ proc["ld"] = "run" /\ UNCHANGED <<inputVars, driverVars, buf, wrote, got, out>>
  BY DEF DInv, LdExit, Running, Gone
<1>2. pc = "wait_ld"
  <2>1. pc # "died" /\ ~Failing
    BY <1>1 DEF DInv, Failing, AtEnd, AllGone
  <2> QED
    BY <1>1, <2>1, Places
<1>3. TypeOK' /\ fds'["ld"] = {}
  <2>1. \E failure \in BOOLEAN : Exit("ld", failure)
    BY DEF LdExit
  <2> QED
    BY <1>1, <2>1, ExitOf DEF LdExit, TypeOK, inputVars, driverVars
<1>4. NoTruncatedOutput'
  BY <1>1 DEF DInv, NoTruncatedOutput, inputVars, driverVars
<1>5. AtWaitLd'
  BY <1>1, <1>2 DEF DInv, LdExit, Exit, AtWaitLd, AtRest, AllClosed, Gone, Undisturbed, BuiltUpTo, LinkedUpTo, Built,
     TypeOK, inputVars, driverVars
<1> QED
  BY <1>1, <1>2, <1>3, <1>4, <1>5 DEF DInv, driverVars

(* A killed child only exists when the driver is failing or dead.          *)
LEMMA DieDInv == ASSUME NEW p \in {"cpp", "cc1", "as"} PROVE DInv /\ Die(p) => DInv'
<1> SUFFICES ASSUME DInv, Die(p)
             PROVE  DInv'
  OBVIOUS
<1> USE DEF Child
<1>1. TypeOK /\ ~Gone(p) /\ proc[p] = "dying" /\ UNCHANGED <<inputVars, driverVars, buf, wrote, got, fileVars>>
  BY DEF DInv, Die, Gone
<1>2. pc = "died" \/ Failing
  BY <1>1, Places
<1>3. TypeOK'
  BY <1>1 DEF Die, Exit, TypeOK, Status, inputVars, driverVars, fileVars
<1>4. Harmless(p)
  BY <1>1, <1>3 DEF Die, Exit, Harmless, TypeOK, fileVars
<1> QED
  BY <1>2, <1>4, LateStep

----------------------------------------------------------------------------
(* The first state: nothing started, nothing done.                         *)
LEMMA InitDInv == Init => DInv
<1> SUFFICES ASSUME Init PROVE DInv
  OBVIOUS
<1>1. sources \in Seq(SourceType) /\ out_type \in OutType
  BY DriverAssumption DEF Init
<1>2. Len(sources) \in Nat /\ DOMAIN sources = 1 .. Len(sources)
  BY <1>1
<1>3. src = 1 /\ 1 \in 1 .. Len(sources) + 1
  BY <1>2 DEF Init
<1>4. TypeOK
  <2>1. /\ proc \in [Child -> Status] /\ code \in [Child -> BOOLEAN]
        /\ fds \in [Child \cup {"xcc"} -> SUBSET Fd]
    BY DEF Init, Status
  <2>2. /\ buf \in [{"cc", "as"} -> Nat] /\ wrote \in [{"cpp", "cc1"} -> Nat]
        /\ got \in [{"cc1", "as"} -> Nat]
    BY DEF Init
  <2>3. out \in [1 .. Len(sources) -> {"none", "whole", "partial"}] /\ ld_cmd \in Seq(Nat)
    BY DEF Init
  <2> QED
    BY <1>1, <1>3, <2>1, <2>2, <2>3 DEF Init, TypeOK, Place
<1>5. NoTruncatedOutput
  BY <1>2 DEF Init, NoTruncatedOutput
<1>6. LinkedUpTo(src - 1) /\ BuiltUpTo(src - 1)
  <2>1. [k \in 1 .. 0 |-> k] = <<>>
    OBVIOUS
  <2> QED
    BY <2>1 DEF Init, LinkedUpTo, BuiltUpTo
<1>7. AtRest /\ AllGone
  BY DEF Init, AtRest, AllClosed, AllGone, Gone, Child
<1> QED
  BY <1>4, <1>5, <1>6, <1>7 DEF Init, DInv, AtSource, Between, AllGone, AllClosed, AtRest, Child

(* Every step of every process keeps DInv.                                 *)
LEMMA NextDInv == DInv /\ [Next]_vars => DInv'
<1> SUFFICES ASSUME DInv, [Next]_vars PROVE DInv'
  OBVIOUS
<1>1. CASE DriverStep
  BY <1>1, NextSourceDInv, ForkAsDInv, ForkCc1DInv, ForkCppDInv, ForkFailsDInv, WaitChildDInv,
     CompiledDInv, CloseAsDInv, WaitAsDInv, AsmDInv, EndSourceDInv, LdDInv
     DEF DriverStep
<1>2. CASE CppStep \/ Cc1Step \/ AsStep \/ LdStep \/ FaultStep
  BY <1>2, CppDInv, Cc1DInv, AsDInv, LdExitDInv, DieDInv
     DEF CppStep, Cc1Step, AsStep, LdStep, FaultStep
<1>3. CASE UNCHANGED vars
  <2> USE <1>3 DEF vars
  <2>1. TypeOK' /\ NoTruncatedOutput'
    BY DEF DInv, TypeOK, NoTruncatedOutput
  <2>2. \A n : /\ BuiltUpTo(n)' = BuiltUpTo(n) /\ LinkedUpTo(n)' = LinkedUpTo(n)
               /\ InPipe(n)' = InPipe(n)
    BY DEF BuiltUpTo, LinkedUpTo, InPipe, Built
  <2>3. (AtSource' = AtSource) /\ (AtForkAs' = AtForkAs) /\ (AtForkAsm' = AtForkAsm) /\ (AtForkLd' = AtForkLd)
        /\ (AtNext' = AtNext) /\ (AtWaitAsm' = AtWaitAsm) /\ (AtWaitLd' = AtWaitLd) /\ (AtEnd' = AtEnd)
    BY <2>2 DEF AtSource, AtForkAs, AtForkAsm, AtForkLd, AtNext, AtWaitAsm, AtWaitLd, AtEnd, Between, AtRest,
       AllGone, AllClosed, Gone, Undisturbed, NothingWrites, UsesAs
  <2>4. (AsHeldBack' = AsHeldBack) /\ (CppWhole' = CppWhole) /\ (Cc1Whole' = Cc1Whole) /\ (PipeWhole' = PipeWhole)
        /\ (NothingWrites' = NothingWrites) /\ (UsesAs' = UsesAs) /\ (UsesCc1' = UsesCc1)
    BY DEF AsHeldBack, CppWhole, Cc1Whole, PipeWhole, NothingWrites, Gone, UsesAs, UsesCc1
  <2>5. (AtForkCc1' = AtForkCc1) /\ (AtForkCpp' = AtForkCpp) /\ (AtWait' = AtWait)
        /\ (AtCompiled' = AtCompiled) /\ (AtCloseAs' = AtCloseAs) /\ (AtWaitAs' = AtWaitAs)
    BY <2>2, <2>4 DEF AtForkCc1, AtForkCpp, AtWait, AtCompiled, AtCloseAs, AtWaitAs, AtRest, AllGone,
       AllClosed, Gone, Undisturbed
  <2> QED
    BY <2>1, <2>3, <2>5 DEF DInv
<1> QED
  BY <1>1, <1>2, <1>3 DEF Next

(* DInv in words: at each place of main, compile_csource and compile the   *)
(* driver's children, descriptors, pipes and files are as the code meant   *)
(* them to be, whatever order the processes ran in and whichever failed.   *)
THEOREM DriverDInv == Spec => []DInv
<1> QED
  BY InitDInv, NextDInv, PTL DEF Spec

(* DInv implies the four safety properties of the driver.                  *)
LEMMA DInvSafe ==
  DInv => SuccessSound /\ LinkInputsComplete /\ NoTruncatedOutput /\ CleanBetweenSources
<1> SUFFICES ASSUME DInv
             PROVE  SuccessSound /\ LinkInputsComplete /\ NoTruncatedOutput /\ CleanBetweenSources
  OBVIOUS
<1>1. DOMAIN sources = 1 .. Len(sources)
  BY DEF DInv, TypeOK
<1>2. SuccessSound
  BY <1>1 DEF DInv, SuccessSound, AtEnd, BuiltUpTo
<1>3. LinkInputsComplete
  <2>1. CASE pc = "wait_ld"
    BY <1>1, <2>1 DEF DInv, LinkInputsComplete, AtWaitLd, BuiltUpTo, LinkedUpTo
  <2>2. CASE pc \in {"finish", "exited"}
    BY <1>1, <2>2 DEF DInv, LinkInputsComplete, AtEnd, BuiltUpTo
  <2> QED
    BY <2>1, <2>2 DEF DInv, LinkInputsComplete
<1>4. CleanBetweenSources
  BY DEF DInv, TypeOK, CleanBetweenSources, AtSource, Between, AtRest, AllGone, AllClosed, Gone
<1> QED
  BY <1>2, <1>3, <1>4 DEF DInv

(* xcc exits with 0 only if every stage of every source, and the link, went*)
(* through with the whole text.                                            *)
THEOREM DriverSuccessSound == Spec => []SuccessSound
<1> QED
  BY DriverDInv, DInvSafe, PTL

(* The linker starts with every object, in order and complete.             *)
THEOREM DriverLinkInputsComplete == Spec => []LinkInputsComplete
<1> QED
  BY DriverDInv, DInvSafe, PTL

(* No output is made of a part of a text while the driver lives.           *)
THEOREM DriverNoTruncatedOutput == Spec => []NoTruncatedOutput
<1> QED
  BY DriverDInv, DInvSafe, PTL

(* Nothing of a source's pipeline is left when the next source starts.     *)
THEOREM DriverCleanBetweenSources == Spec => []CleanBetweenSources
<1> QED
  BY DriverDInv, DInvSafe, PTL
=============================================================================
