------------------------------- MODULE Driver -------------------------------
(***************************************************************************)
(* The compiler driver: src/src/xcc/main.c.                                *)
(*                                                                         *)
(* For every C source the driver builds the pipeline cpp | cc1 | as out of *)
(* fork(), two pipes and inherited file descriptors, waits for its         *)
(* children, and starts the linker when all sources went through. The      *)
(* driver and its children run concurrently: every action is a step of one *)
(* process between two system calls that the others can notice.            *)
(*                                                                         *)
(* The text that flows through the pipes is counted in units: cpp writes   *)
(* Units of them, cc1 reads all of its input and then writes Units, as     *)
(* reads all of its input and then writes the object file.                 *)
(***************************************************************************)
EXTENDS Naturals, Sequences, FiniteSets

CONSTANTS
  SourceLists,  \* the command lines: sequences over SourceType
  OutTypes,     \* the output types to choose from, a subset of OutType
  Units,        \* bound: units of text that a stage writes
  PipeCap,      \* bound: units a pipe holds before a writer blocks
  MayFail       \* what may go wrong, a subset of Fault

SourceType == {"Clanguage", "Assembly", "ObjectFile", "Unknown"}

OutType == {"Preprocess", "AssemblyText", "Object", "Executable"}

(* cpp, cc1: exit with a failure at any time. as: finds an error in its    *)
(* input, which it reads to the end. as_early: as cannot be executed or is *)
(* killed. ld: the link fails. fork: fork(), pipe() or mkstemps() fails.   *)
Fault == {"cpp", "cc1", "as", "as_early", "ld", "fork"}

ASSUME DriverAssumption ==
  /\ SourceLists \subseteq Seq(SourceType)
  /\ OutTypes \subseteq OutType
  /\ Units \in Nat \ {0}
  /\ PipeCap \in Nat \ {0}
  /\ MayFail \subseteq Fault

Child == {"cpp", "cc1", "as", "ld"}

VARIABLES
  sources,   \* the command line
  out_type,  \* -E, -S, -c or none of them
  pc,        \* where the driver is
  src,       \* index of the source that is being compiled
  res,       \* the driver's result so far is a failure
  running,   \* compile: children still to wait for
  live,      \* compile: cpp_pid / cc_pid are not -1
  proc,      \* status of each child
  code,      \* exit status of each child: TRUE for a failure
  fds,       \* pipe ends each process holds open
  buf,       \* units in each pipe
  wrote,     \* units each child has written
  got,       \* units each child has read
  out,       \* per source: the output file of its last stage
  ld_cmd,    \* the objects for the linker, as source indices
  exe        \* the executable has been written

vars == <<sources, out_type, pc, src, res, running, live, proc, code, fds, buf,
          wrote, got, out, ld_cmd, exe>>

driverVars == <<pc, src, res, running, live, ld_cmd>>
fileVars == <<out, exe>>
inputVars == <<sources, out_type>>

(* A process that has left: its descriptors are closed by the kernel.      *)
Exit(p, failure) ==
  /\ proc' = [proc EXCEPT ![p] = "zombie"]
  /\ code' = [code EXCEPT ![p] = failure]
  /\ fds' = [fds EXCEPT ![p] = {}]

Holders(fd) == {p \in DOMAIN fds : fd \in fds[p]}

UsesAs == out_type \in {"Object", "Executable"}
UsesCc1 == out_type # "Preprocess"

Init ==
  /\ sources \in SourceLists
  /\ out_type \in OutTypes
  /\ pc = "source"
  /\ src = 1
  /\ res = FALSE
  /\ running = 0
  /\ live = {}
  /\ proc = [p \in Child |-> "none"]
  /\ code = [p \in Child |-> FALSE]
  /\ fds = [p \in Child \cup {"xcc"} |-> {}]
  /\ buf = [b \in {"cc", "as"} |-> 0]
  /\ wrote = [p \in {"cpp", "cc1"} |-> 0]
  /\ got = [p \in {"cc1", "as"} |-> 0]
  /\ out = [k \in 1 .. Len(sources) |-> "none"]
  /\ ld_cmd = <<>>
  /\ exe = FALSE

----------------------------------------------------------------------------
(***************************************************************************)
(* The driver.                                                             *)
(***************************************************************************)

(* main: the loop over the sources, by source type.                        *)
NextSource ==
  /\ pc = "source"
  /\ src <= Len(sources)
  /\ \/ /\ sources[src] = "Clanguage"
        /\ pc' = IF UsesAs THEN "fork_as" ELSE IF UsesCc1 THEN "fork_cc1" ELSE "fork_cpp"
        /\ UNCHANGED <<src, res, ld_cmd>>
     \/ /\ sources[src] = "Assembly"
        /\ pc' = "fork_asm"
        /\ UNCHANGED <<src, res, ld_cmd>>
     \/ /\ sources[src] = "ObjectFile"
        /\ src' = src + 1
        /\ ld_cmd' = IF out_type = "Executable" THEN Append(ld_cmd, src) ELSE ld_cmd
        /\ UNCHANGED <<pc, res>>
     \/ /\ sources[src] = "Unknown"
        /\ res' = TRUE
        /\ pc' = "finish"
        /\ UNCHANGED <<src, ld_cmd>>
  /\ UNCHANGED <<inputVars, running, live, proc, code, fds, buf, wrote, got, fileVars>>

(* compile_csource, pipe_exec: the assembler at the end of the pipe. The   *)
(* child keeps the read end as its standard input.                         *)
ForkAs ==
  /\ pc = "fork_as"
  /\ pc' = "fork_cc1"
  /\ proc' = [proc EXCEPT !["as"] = "run"]
  /\ fds' = [fds EXCEPT !["xcc"] = @ \cup {"asR", "asW"}, !["as"] = {"asR"}]
  /\ buf' = [buf EXCEPT !["as"] = 0]
  /\ got' = [got EXCEPT !["as"] = 0]
  /\ UNCHANGED <<inputVars, src, res, running, live, code, wrote, fileVars, ld_cmd>>

(* compile, pipe_exec: cc1 closes the descriptors of its own pipe only and *)
(* inherits those of the assembler's.                                      *)
ForkCc1 ==
  /\ pc = "fork_cc1"
  /\ pc' = "fork_cpp"
  /\ proc' = [proc EXCEPT !["cc1"] = "run"]
  /\ fds' = [fds EXCEPT !["cc1"] = fds["xcc"] \cup {"ccR"},
                        !["xcc"] = @ \cup {"ccR", "ccW"}]
  /\ buf' = [buf EXCEPT !["cc"] = 0]
  /\ wrote' = [wrote EXCEPT !["cc1"] = 0]
  /\ got' = [got EXCEPT !["cc1"] = 0]
  /\ running' = 1
  /\ live' = {"cc1"}
  /\ UNCHANGED <<inputVars, src, res, code, fileVars, ld_cmd>>

(* compile, exec_with_ofd: cpp inherits everything.                        *)
ForkCpp ==
  /\ pc = "fork_cpp"
  /\ pc' = "wait"
  /\ proc' = [proc EXCEPT !["cpp"] = "run"]
  /\ fds' = [fds EXCEPT !["cpp"] = fds["xcc"]]
  /\ wrote' = [wrote EXCEPT !["cpp"] = 0]
  /\ running' = running + 1
  /\ live' = live \cup {"cpp"}
  /\ UNCHANGED <<inputVars, src, res, code, buf, got, fileVars, ld_cmd>>

(* fork1, pipe_exec, compile_csource: error() leaves the driver at once.   *)
ForkFails ==
  /\ "fork" \in MayFail
  /\ pc \in {"fork_as", "fork_cc1", "fork_cpp", "fork_asm", "fork_ld"}
  /\ pc' = "died"
  /\ res' = TRUE
  /\ fds' = [fds EXCEPT !["xcc"] = {}]
  /\ UNCHANGED <<inputVars, src, running, live, proc, code, buf, wrote, got,
                 fileVars, ld_cmd>>

(* Mutant: the exit status of the child is dropped.                        *)
ReapBlindly(p) ==
  /\ proc[p] = "zombie"
  /\ res' = res

(* wait_child: waitpid(0, ...) returns any child that has left.            *)
Reap(p) ==
  /\ proc[p] = "zombie"
  /\ res' = (res \/ code[p])

(* kill(pid, SIGKILL): a child that has left already does not notice.      *)
Killed(ps) == [p \in Child |-> IF p \in ps /\ proc[p] = "run" THEN "dying" ELSE proc[p]]

(* while (running > 0): this child was the last one, or the loop is left.  *)
WaitLoopEnds(abort) == abort \/ running = 1

(* compile: the loop that waits for cpp and cc1. The loop is left early    *)
(* when cpp failed or when cc1 left before cpp, and the other is killed.   *)
WaitChild(p) ==
  /\ pc = "wait"
  /\ Reap(p)
  /\ running' = running - 1
  /\ live' = live \ {p}
  /\ LET abort == \/ p = "cpp" /\ "cc1" \in live /\ code[p]
                  \/ p = "cc1" /\ "cpp" \in live
     IN  /\ pc' = IF WaitLoopEnds(abort) THEN "compiled" ELSE "wait"
         /\ proc' = [Killed(IF abort THEN live \ {p} ELSE {}) EXCEPT ![p] = "reaped"]
         /\ fds' = IF p = "cpp" /\ "cc1" \in live /\ ~abort
                   THEN [fds EXCEPT !["xcc"] = @ \ {"ccR", "ccW"}]
                   ELSE fds
  /\ UNCHANGED <<inputVars, src, code, buf, wrote, got, fileVars, ld_cmd>>

(* Mutant: the assembler is not killed when the compilation failed.        *)
CompiledNoKill ==
  /\ pc = "compiled"
  /\ ld_cmd' = IF out_type = "Executable" THEN Append(ld_cmd, src) ELSE ld_cmd
  /\ out' = IF res /\ out_type = "Object" THEN [out EXCEPT ![src] = "none"] ELSE out
  /\ pc' = IF UsesAs THEN "close_as" ELSE "next"
  /\ UNCHANGED <<inputVars, src, res, running, live, proc, code, fds, buf, wrote, got, exe>>

(* compile_csource, after compile: the object goes to the linker; if the   *)
(* compilation failed the assembler is killed and the output removed (of   *)
(* an executable: the final output, the temporary object stays).           *)
Compiled ==
  /\ pc = "compiled"
  /\ ld_cmd' = IF out_type = "Executable" THEN Append(ld_cmd, src) ELSE ld_cmd
  /\ proc' = IF res /\ UsesAs THEN Killed({"as"}) ELSE proc
  /\ out' = IF res /\ out_type = "Object" THEN [out EXCEPT ![src] = "none"] ELSE out
  /\ pc' = IF UsesAs THEN "close_as" ELSE "next"
  /\ UNCHANGED <<inputVars, src, res, running, live, code, fds, buf, wrote, got, exe>>

(* Mutants: one end of the pipe stays open in the driver.                  *)
CloseAsLeak(fd) ==
  /\ pc = "close_as"
  /\ fds' = [fds EXCEPT !["xcc"] = @ \ ({"asR", "asW"} \ {fd})]
  /\ pc' = "wait_as"
  /\ UNCHANGED <<inputVars, src, res, running, live, proc, code, buf, wrote, got,
                 fileVars, ld_cmd>>
CloseAsLeakR == CloseAsLeak("asR")
CloseAsLeakW == CloseAsLeak("asW")

(* compile_csource: the driver's ends of the assembler's pipe.             *)
CloseAs ==
  /\ pc = "close_as"
  /\ fds' = [fds EXCEPT !["xcc"] = @ \ {"asR", "asW"}]
  /\ pc' = "wait_as"
  /\ UNCHANGED <<inputVars, src, res, running, live, proc, code, buf, wrote, got,
                 fileVars, ld_cmd>>

(* compile_csource: as_pid is -1 by now, so any child satisfies the wait.  *)
WaitAs(p) ==
  /\ pc = "wait_as"
  /\ Reap(p)
  /\ proc' = [proc EXCEPT ![p] = "reaped"]
  /\ pc' = "next"
  /\ UNCHANGED <<inputVars, src, running, live, code, fds, buf, wrote, got,
                 fileVars, ld_cmd>>

(* compile_asm: the assembler runs alone on its source file.               *)
ForkAsm ==
  /\ pc = "fork_asm"
  /\ pc' = "wait_asm"
  /\ proc' = [proc EXCEPT !["as"] = "run"]
  /\ UNCHANGED <<inputVars, src, res, running, live, code, fds, buf, wrote, got,
                 fileVars, ld_cmd>>

WaitAsm ==
  /\ pc = "wait_asm"
  /\ Reap("as")
  /\ proc' = [proc EXCEPT !["as"] = "reaped"]
  /\ ld_cmd' = IF out_type = "Executable" THEN Append(ld_cmd, src) ELSE ld_cmd
  /\ pc' = "next"
  /\ UNCHANGED <<inputVars, src, running, live, code, fds, buf, wrote, got, fileVars>>

(* Mutant: the loop goes on after a failure.                               *)
EndSourceAnyway ==
  /\ pc = "next"
  /\ pc' = "source" /\ src' = src + 1
  /\ UNCHANGED <<inputVars, res, running, live, proc, code, fds, buf, wrote, got,
                 fileVars, ld_cmd>>

(* main: the loop stops at the first failure.                              *)
EndSource ==
  /\ pc = "next"
  /\ IF res THEN pc' = "finish" /\ UNCHANGED src
            ELSE pc' = "source" /\ src' = src + 1
  /\ UNCHANGED <<inputVars, res, running, live, proc, code, fds, buf, wrote, got,
                 fileVars, ld_cmd>>

(* main: after the loop.                                                   *)
EndSources ==
  /\ pc = "source"
  /\ src > Len(sources)
  /\ pc' = IF out_type = "Executable" THEN "fork_ld" ELSE "finish"
  /\ UNCHANGED <<inputVars, src, res, running, live, proc, code, fds, buf, wrote, got,
                 fileVars, ld_cmd>>

ForkLd ==
  /\ pc = "fork_ld"
  /\ pc' = "wait_ld"
  /\ proc' = [proc EXCEPT !["ld"] = "run"]
  /\ UNCHANGED <<inputVars, src, res, running, live, code, fds, buf, wrote, got,
                 fileVars, ld_cmd>>

WaitLd ==
  /\ pc = "wait_ld"
  /\ Reap("ld")
  /\ proc' = [proc EXCEPT !["ld"] = "reaped"]
  /\ pc' = "finish"
  /\ UNCHANGED <<inputVars, src, running, live, code, fds, buf, wrote, got,
                 fileVars, ld_cmd>>

(* main returns: what is still open is closed.                             *)
Finish ==
  /\ pc = "finish"
  /\ pc' = "exited"
  /\ fds' = [fds EXCEPT !["xcc"] = {}]
  /\ UNCHANGED <<inputVars, src, res, running, live, proc, code, buf, wrote, got,
                 fileVars, ld_cmd>>

DriverStep ==
  \/ NextSource \/ ForkAs \/ ForkCc1 \/ ForkCpp \/ ForkFails
  \/ \E p \in Child : WaitChild(p) \/ WaitAs(p)
  \/ Compiled \/ CloseAs \/ ForkAsm \/ WaitAsm
  \/ EndSource \/ EndSources \/ ForkLd \/ WaitLd \/ Finish
----------------------------------------------------------------------------
(***************************************************************************)
(* The children. They are programs of their own: what the driver relies on *)
(* is when they read, write and leave. A writer of a pipe never gets       *)
(* SIGPIPE here, since it has inherited the pipe's read end itself.        *)
(***************************************************************************)
Running(p) == proc[p] = "run"

(* A reader sees the end of its input when the pipe is empty and nobody    *)
(* holds the write end any more.                                           *)
CcEof == buf["cc"] = 0 /\ Holders("ccW") = {}
AsEof == buf["as"] = 0 /\ Holders("asW") = {}

CppWrite ==
  /\ Running("cpp")
  /\ wrote["cpp"] < Units
  /\ UsesCc1 => buf["cc"] < PipeCap
  /\ wrote' = [wrote EXCEPT !["cpp"] = @ + 1]
  /\ buf' = IF UsesCc1 THEN [buf EXCEPT !["cc"] = @ + 1] ELSE buf
  /\ UNCHANGED <<inputVars, driverVars, proc, code, fds, got, fileVars>>

CppExit ==
  /\ Running("cpp")
  /\ wrote["cpp"] = Units
  /\ Exit("cpp", FALSE)
  /\ out' = IF UsesCc1 THEN out ELSE [out EXCEPT ![src] = "whole"]
  /\ UNCHANGED <<inputVars, driverVars, buf, wrote, got, exe>>

Cc1Read ==
  /\ Running("cc1")
  /\ buf["cc"] > 0
  /\ buf' = [buf EXCEPT !["cc"] = @ - 1]
  /\ got' = [got EXCEPT !["cc1"] = @ + 1]
  /\ UNCHANGED <<inputVars, driverVars, proc, code, fds, wrote, fileVars>>

Cc1Write ==
  /\ Running("cc1")
  /\ CcEof
  /\ wrote["cc1"] < Units
  /\ UsesAs => buf["as"] < PipeCap
  /\ wrote' = [wrote EXCEPT !["cc1"] = @ + 1]
  /\ buf' = IF UsesAs THEN [buf EXCEPT !["as"] = @ + 1] ELSE buf
  /\ UNCHANGED <<inputVars, driverVars, proc, code, fds, got, fileVars>>

Cc1Exit ==
  /\ Running("cc1")
  /\ CcEof
  /\ wrote["cc1"] = Units
  /\ Exit("cc1", FALSE)
  /\ out' = IF UsesAs THEN out
            ELSE [out EXCEPT ![src] = IF got["cc1"] = Units THEN "whole" ELSE "partial"]
  /\ UNCHANGED <<inputVars, driverVars, buf, wrote, got, exe>>

(* cpp and cc1 leave with an error wherever they are.                      *)
StageFails(p) ==
  /\ p \in {"cpp", "cc1"} \cap MayFail
  /\ Running(p)
  /\ Exit(p, TRUE)
  /\ UNCHANGED <<inputVars, driverVars, buf, wrote, got, fileVars>>

InPipeline == sources[src] = "Clanguage"

AsRead ==
  /\ Running("as")
  /\ InPipeline
  /\ buf["as"] > 0
  /\ buf' = [buf EXCEPT !["as"] = @ - 1]
  /\ got' = [got EXCEPT !["as"] = @ + 1]
  /\ UNCHANGED <<inputVars, driverVars, proc, code, fds, wrote, fileVars>>

(* The object is written after the last line of the input.                 *)
AsExit ==
  /\ Running("as")
  /\ InPipeline => AsEof
  /\ \/ /\ Exit("as", FALSE)
        /\ out' = [out EXCEPT ![src] =
             IF InPipeline => got["cc1"] = Units /\ got["as"] = Units
             THEN "whole" ELSE "partial"]
     \/ /\ "as" \in MayFail
        /\ Exit("as", TRUE)
        /\ UNCHANGED out
  /\ UNCHANGED <<inputVars, driverVars, buf, wrote, got, exe>>

(* execvp of the assembler fails, or something kills it.                   *)
AsDies ==
  /\ "as_early" \in MayFail
  /\ Running("as")
  /\ Exit("as", TRUE)
  /\ UNCHANGED <<inputVars, driverVars, buf, wrote, got, fileVars>>

LdExit ==
  /\ Running("ld")
  /\ \/ exe' = TRUE /\ Exit("ld", FALSE)
     \/ "ld" \in MayFail /\ Exit("ld", TRUE) /\ UNCHANGED exe
  /\ UNCHANGED <<inputVars, driverVars, buf, wrote, got, out>>

(* A process that was sent SIGKILL runs no more code; its descriptors are  *)
(* closed when the kernel has taken it down.                               *)
Die(p) ==
  /\ proc[p] = "dying"
  /\ Exit(p, TRUE)
  /\ UNCHANGED <<inputVars, driverVars, buf, wrote, got, fileVars>>

CppStep == CppWrite \/ CppExit \/ Die("cpp")
Cc1Step == Cc1Read \/ Cc1Write \/ Cc1Exit \/ Die("cc1")
AsStep == AsRead \/ AsExit \/ Die("as")
LdStep == LdExit
FaultStep == StageFails("cpp") \/ StageFails("cc1") \/ AsDies

Next == DriverStep \/ CppStep \/ Cc1Step \/ AsStep \/ LdStep \/ FaultStep

Spec == Init /\ [][Next]_vars

(* The operating system runs every process that can run; nothing says that *)
(* a process that waits will fail.                                         *)
FairSpec ==
  /\ Spec
  /\ WF_vars(DriverStep)
  /\ WF_vars(CppStep)
  /\ WF_vars(Cc1Step)
  /\ WF_vars(AsStep)
  /\ WF_vars(LdStep)

----------------------------------------------------------------------------
(***************************************************************************)
(* Properties.                                                             *)
(***************************************************************************)
(* The sources that a stage of their own turns into an output.             *)
Built(k) == sources[k] \in {"Clanguage", "Assembly"}

(* xcc exits with 0 only if every source went through all of its stages    *)
(* with its whole text and, for an executable, the linker succeeded: the   *)
(* exit statuses that wait_child and wait_process collect (main.c:99-130,  *)
(* 187-198, 550-556) miss no failure, in whatever order the children leave *)
SuccessSound ==
  pc = "exited" /\ ~res =>
    /\ \A k \in DOMAIN sources : Built(k) => out[k] = "whole"
    /\ out_type = "Executable" => exe

(* The linker is started on every object of the command line, in the order *)
(* of the sources, and each one is complete on disk by then                *)
(* (main.c:184-185, 233-234, 541-543, 550-552).                            *)
LinkInputsComplete ==
  proc["ld"] # "none" =>
    /\ ld_cmd = [k \in 1 .. Len(sources) |-> k]
    /\ \A k \in DOMAIN sources : Built(k) => out[k] = "whole"

(* The assembler never takes a truncated stream for a whole one: as long   *)
(* as the driver lives, its own copies of the write ends hold back the     *)
(* end-of-file until it has seen how cpp and cc1 ended, and it kills as    *)
(* before it lets go of them if they failed (main.c:107-115, 187-196).     *)
NoTruncatedOutput ==
  pc # "died" => \A k \in DOMAIN sources : out[k] # "partial"

(* Between two sources nothing of the first is left: no child to be taken  *)
(* for one of the next source by waitpid(0) or waitpid(-1), no descriptor  *)
(* of its pipes (main.c:99-130, 193-198).                                  *)
CleanBetweenSources ==
  pc = "source" =>
    /\ \A p \in Child : proc[p] \in {"none", "reaped"}
    /\ \A p \in DOMAIN fds : fds[p] = {}

(* Everything comes to an end, whichever stage fails: the driver leaves    *)
(* and so does every child (main.c:83-203).  The one exception: as is gone *)
(* before its input ended, and cc1 writes for ever into a pipe that is     *)
(* full and whose read end cc1 and the driver still hold (main.c:178).     *)
NobodyReads == proc["as"] \in {"zombie", "reaped"} /\ proc["cc1"] = "run" /\ buf["as"] = PipeCap
EveryoneLeaves ==
  \/ <>[](/\ pc \in {"exited", "died"}
          /\ \A p \in Child : proc[p] \in {"none", "zombie", "reaped"})
  \/ <>[]NobodyReads
============================================================================
