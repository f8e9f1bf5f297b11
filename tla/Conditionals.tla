---------------------------- MODULE Conditionals ----------------------------
(***************************************************************************)
(* What conditional inclusion promises, in the terms of the C language:    *)
(* the lines of a group are processed if the group is the first one of its *)
(* #if section whose condition holds, and the section itself stands in a   *)
(* group that is processed. Every file that is included has its sections   *)
(* to itself.                                                              *)
(***************************************************************************)
EXTENDS Naturals, Sequences

VARIABLES
  sections,   \* for each open file, its open #if sections, outermost first
  out,        \* what was printed
  status      \* run, done or error

vars == <<sections, out, status>>

(* A section is skipped as a whole, seeks a group whose condition holds,   *)
(* takes the present group, or is done with the one it took; it may have   *)
(* come to its #else.                                                      *)
Section == [state : {"skip", "seek", "take", "done"}, part : {"if", "else"}]

Top == sections[Len(sections)]
Put(s) == [sections EXCEPT ![Len(sections)] = s]

LiveIn(ss) == ss = <<>> \/ ss[Len(ss)].state = "take"
Live == LiveIn(Top)

Init ==
  /\ sections = <<<<>>>>
  /\ out = <<>>
  /\ status = "run"

If ==
  /\ \E c \in BOOLEAN :
       sections' = Put(Append(Top, [state |-> IF ~ Live THEN "skip" ELSE IF c THEN "take" ELSE "seek",
                                    part |-> "if"]))
  /\ UNCHANGED <<out, status>>

(* #else is an #elif whose condition holds, and the last one.              *)
NextGroup(c, part) ==
  LET s == Top[Len(Top)]
  IN  /\ Top # <<>>
      /\ s.part = "if"
      /\ sections' = Put([Top EXCEPT ![Len(Top)] =
            [state |-> CASE s.state = "take" -> "done"
                         [] s.state = "seek" /\ c -> "take"
                         [] OTHER -> s.state,
             part |-> part]])
      /\ UNCHANGED <<out, status>>

Elif == \E c \in BOOLEAN : NextGroup(c, "if")

Else == NextGroup(TRUE, "else")

Endif ==
  /\ Top # <<>>
  /\ sections' = Put(SubSeq(Top, 1, Len(Top) - 1))
  /\ UNCHANGED <<out, status>>

(* Something is printed.                                                   *)
Text ==
  /\ Live
  /\ out' # <<>>
  /\ out' = Append(out, out'[Len(out')])
  /\ UNCHANGED <<sections, status>>

Include ==
  /\ Live
  /\ sections' = Append(sections, <<>>)
  /\ UNCHANGED <<out, status>>

EndOfFile ==
  /\ Top = <<>>
  /\ IF Len(sections) = 1
     THEN status' = "done" /\ UNCHANGED sections
     ELSE sections' = SubSeq(sections, 1, Len(sections) - 1) /\ UNCHANGED status
  /\ UNCHANGED out

Error ==
  /\ status' = "error"
  /\ UNCHANGED <<sections, out>>

Next ==
  /\ status = "run"
  /\ If \/ Elif \/ Else \/ Endif \/ Text \/ Include \/ EndOfFile \/ Error

Spec == Init /\ [][Next]_vars
=============================================================================
