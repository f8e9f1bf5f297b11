------------------------- MODULE PreprocessorProofs -------------------------
(***************************************************************************)
(* Proofs about Preprocessor, for any files: it implements Conditionals,   *)
(* __FILE__ is right, and guarded files are read once.                     *)
(***************************************************************************)
EXTENDS Preprocessor, NatLemmas, SequenceTheorems, TLAPS

Level == [enable : BOOLEAN, satisfy : 0 .. 2]

Fields == {"file", "filename", "pos", "lineno", "condstack", "enable", "satisfy",
           "old_file_macro"}

(* A stream whose levels are nested: a group is enabled only if the group  *)
(* around its section is, and if a condition of its section held.          *)
Nested(s) ==
  /\ DOMAIN s = Fields
  /\ s.condstack \in Seq(Level)
  /\ s.enable \in BOOLEAN
  /\ s.satisfy \in 0 .. 2
  /\ Levels(s)[1].enable
  /\ \A d \in 1 .. Len(s.condstack) :
       Levels(s)[d + 1].enable => Levels(s)[d].enable /\ Levels(s)[d + 1].satisfy # 0

IsSeq(s) == \E S : s \in Seq(S)

(* The inductive invariant. The streams are the frames of a recursion: a   *)
(* frame has saved the __FILE__ of the one around it.                      *)
PInv ==
  /\ status \in {"run", "done", "error"}
  /\ IsSeq(streams) /\ Len(streams) > 0
  /\ IsSeq(out)
  /\ \A k \in 1 .. Len(streams) : Nested(streams[k])
  /\ \A k \in 2 .. Len(streams) : streams[k].old_file_macro = streams[k - 1].filename
  /\ status = "run" => fileMacro = Top.filename

----------------------------------------------------------------------------
(* What Append, EXCEPT and SubSeq do to a sequence of anything.            *)
LEMMA AppendSeq ==
  ASSUME NEW s, IsSeq(s), NEW e
  PROVE  /\ IsSeq(Append(s, e))
         /\ Len(Append(s, e)) = Len(s) + 1
         /\ \A k \in 1 .. Len(s) : Append(s, e)[k] = s[k]
         /\ Append(s, e)[Len(s) + 1] = e
<1>1. PICK S : s \in Seq(S)
  BY DEF IsSeq
<1>2. s \in Seq(S \cup {e}) /\ e \in S \cup {e}
  BY <1>1
<1>3. Append(s, e) \in Seq(S \cup {e})
  BY <1>2
<1> QED
  BY <1>2, <1>3 DEF IsSeq

(* Replacing the last element.                                             *)
LEMMA PutSeq ==
  ASSUME NEW s, IsSeq(s), Len(s) > 0, NEW e, NEW t, t = [s EXCEPT ![Len(s)] = e]
  PROVE  /\ IsSeq(t)
         /\ Len(t) = Len(s)
         /\ \A k \in 1 .. Len(s) - 1 : t[k] = s[k]
         /\ t[Len(s)] = e
<1>1. PICK S : s \in Seq(S)
  BY DEF IsSeq
<1>2. s \in Seq(S \cup {e}) /\ e \in S \cup {e}
  BY <1>1
<1>3. t \in Seq(S \cup {e}) /\ Len(t) = Len(s)
  BY <1>2
<1>4. IsSeq(t)
  BY <1>3 DEF IsSeq
<1>5. Len(s) \in Nat /\ DOMAIN s = 1 .. Len(s)
  BY <1>1
<1> QED
  BY <1>3, <1>4, <1>5

(* Overwriting the last element leaves all others.                         *)
LEMMA PutSeqValue ==
  \A s : \A e : IsSeq(s) /\ Len(s) > 0 =>
    /\ IsSeq([s EXCEPT ![Len(s)] = e])
    /\ Len([s EXCEPT ![Len(s)] = e]) = Len(s)
    /\ \A k \in 1 .. Len(s) - 1 : [s EXCEPT ![Len(s)] = e][k] = s[k]
    /\ [s EXCEPT ![Len(s)] = e][Len(s)] = e
BY PutSeq

(* Removing the last element.                                              *)
LEMMA PopSeq ==
  ASSUME NEW s, IsSeq(s), Len(s) > 0
  PROVE  /\ IsSeq(SubSeq(s, 1, Len(s) - 1))
         /\ Len(SubSeq(s, 1, Len(s) - 1)) = Len(s) - 1
         /\ \A k \in 1 .. Len(s) - 1 : SubSeq(s, 1, Len(s) - 1)[k] = s[k]
<1> DEFINE m == Len(s) - 1
<1>1. PICK S : s \in Seq(S)
  BY DEF IsSeq
<1>2. m \in Nat /\ Len(s) = m + 1
  BY <1>1
<1>3. \A k \in 1 .. m : s[k] \in S
  BY <1>1, <1>2
<1> HIDE DEF m
<1>4. /\ SubSeq(s, 1, m) \in Seq(S)
      /\ Len(SubSeq(s, 1, m)) = IF 1 <= m THEN m - 1 + 1 ELSE 0
      /\ \A k \in 1 .. m - 1 + 1 : SubSeq(s, 1, m)[k] = s[1 + k - 1]
  BY <1>2, <1>3, SubSeqProperties
<1>5. /\ IsSeq(SubSeq(s, 1, m))
      /\ Len(SubSeq(s, 1, m)) = m
      /\ \A k \in 1 .. m : SubSeq(s, 1, m)[k] = s[k]
  BY <1>2, <1>4 DEF IsSeq
<1> QED
  BY <1>5 DEF m

(* Sequences with the same elements are the same.                          *)
LEMMA SameSeq ==
  ASSUME NEW s, IsSeq(s), NEW t, IsSeq(t), Len(s) = Len(t),
         \A k \in 1 .. Len(s) : s[k] = t[k]
  PROVE  s = t
<1>1. PICK S : s \in Seq(S)
  BY DEF IsSeq
<1>2. PICK T : t \in Seq(T)
  BY DEF IsSeq
<1>3. s = [k \in 1 .. Len(s) |-> s[k]]
  BY <1>1
<1>4. t = [k \in 1 .. Len(t) |-> t[k]]
  BY <1>2
<1> QED
  BY <1>3, <1>4

(* The number of open files.                                               *)
LEMMA OpenLen ==
  ASSUME IsSeq(streams)
  PROVE  Len(OpenSections) = Len(streams) /\ Len(streams) \in Nat /\ IsSeq(OpenSections)
<1>1. PICK S : streams \in Seq(S)
  BY DEF IsSeq
<1>2. OpenSections \in Seq({SectionsOf(streams[k]) : k \in 1 .. Len(streams)})
  BY <1>1 DEF OpenSections
<1>3. IsSeq(OpenSections)
  BY <1>2 DEF IsSeq
<1>4. DOMAIN OpenSections = 1 .. Len(streams) /\ DOMAIN OpenSections = 1 .. Len(OpenSections) /\ Len(OpenSections) \in Nat
  BY <1>2 DEF OpenSections
<1> QED
  BY <1>1, <1>3, <1>4

(* The sections of a stream are a sequence, one for each saved level.      *)
LEMMA SectionsSeq ==
  ASSUME NEW s, Nested(s)
  PROVE  IsSeq(SectionsOf(s)) /\ Len(SectionsOf(s)) = Len(s.condstack)
<1>1. Len(s.condstack) \in Nat
  BY DEF Nested
<1>2. SectionsOf(s) \in Seq({SectionOf(Levels(s)[d], Levels(s)[d + 1]) : d \in 1 .. Len(s.condstack)})
  BY <1>1 DEF SectionsOf
<1>3. IsSeq(SectionsOf(s))
  BY <1>2 DEF IsSeq
<1>4. /\ DOMAIN SectionsOf(s) = 1 .. Len(s.condstack)
      /\ DOMAIN SectionsOf(s) = 1 .. Len(SectionsOf(s)) /\ Len(SectionsOf(s)) \in Nat
  BY <1>2 DEF SectionsOf
<1> QED
  BY <1>1, <1>3, <1>4

(* The levels, without Append.                                             *)
LEMMA LevelsAre ==
  ASSUME NEW s, s.condstack \in Seq(Level)
  PROVE  /\ \A d \in 1 .. Len(s.condstack) : Levels(s)[d] = s.condstack[d]
         /\ Levels(s)[Len(s.condstack) + 1] = [enable |-> s.enable, satisfy |-> s.satisfy]
<1>1. IsSeq(s.condstack)
  BY DEF IsSeq
<1> QED
  BY <1>1, AppendSeq DEF Levels

(* Lines are live for Conditionals exactly when `enable' is set.           *)
LEMMA LiveIsEnable ==
  ASSUME NEW s, Nested(s)
  PROVE  C!LiveIn(SectionsOf(s)) <=> s.enable
<1> DEFINE n == Len(s.condstack)
<1>1. n \in Nat /\ Len(SectionsOf(s)) = n
  BY SectionsSeq DEF Nested
<1>2. Levels(s)[n + 1] = [enable |-> s.enable, satisfy |-> s.satisfy]
  BY LevelsAre DEF Nested
<1>3. CASE n = 0
  <2>1. SectionsOf(s) = <<>>
    BY <1>1, <1>3, SectionsSeq DEF IsSeq
  <2>2. s.enable
    BY <1>2, <1>3 DEF Nested
  <2> QED
    BY <2>1, <2>2 DEF C!LiveIn
<1>4. CASE n > 0
  <2>1. SectionsOf(s) # <<>>
    BY <1>1, <1>4
  <2>2. SectionsOf(s)[n] = SectionOf(Levels(s)[n], Levels(s)[n + 1])
    BY <1>1, <1>4 DEF SectionsOf
  <2>3. s.enable => Levels(s)[n].enable
    BY <1>1, <1>2, <1>4 DEF Nested
  <2> QED
    BY <1>1, <1>2, <2>1, <2>2, <2>3 DEF C!LiveIn, SectionOf
<1> QED
  BY <1>1, <1>3, <1>4

----------------------------------------------------------------------------
(***************************************************************************)
(* What the steps do to the sections of a stream.                          *)
(***************************************************************************)
LEMMA SameSections ==
  ASSUME NEW s, NEW t, t.condstack = s.condstack, t.enable = s.enable, t.satisfy = s.satisfy
  PROVE  SectionsOf(t) = SectionsOf(s)
BY DEF SectionsOf, Levels

LevelOf(s) == [enable |-> s.enable, satisfy |-> s.satisfy]

(* #if and #ifdef push the level that they leave: one more open section.   *)
LEMMA PushSections ==
  ASSUME NEW s, Nested(s), NEW t, DOMAIN t = Fields,
         t.condstack = Append(s.condstack, LevelOf(s)),
         t.enable \in BOOLEAN, t.satisfy \in 0 .. 2, t.enable => s.enable /\ t.satisfy # 0
  PROVE  /\ Nested(t)
         /\ SectionsOf(t) = Append(SectionsOf(s), SectionOf(LevelOf(s), LevelOf(t)))
<1> DEFINE n == Len(s.condstack)
<1>1. LevelOf(s) \in Level
  BY DEF Nested, LevelOf, Level
<1>2. /\ n \in Nat
      /\ t.condstack \in Seq(Level)
      /\ Len(t.condstack) = n + 1
  BY <1>1 DEF Nested
<1>3. /\ \A d \in 1 .. n : t.condstack[d] = s.condstack[d]
      /\ t.condstack[n + 1] = LevelOf(s)
  BY <1>1, <1>2, AppendSeq DEF Nested, IsSeq
<1>4. /\ \A d \in 1 .. n + 1 : Levels(t)[d] = Levels(s)[d]
      /\ Levels(t)[n + 2] = LevelOf(t)
      /\ Levels(s)[n + 1] = LevelOf(s)
  <2>1. /\ \A d \in 1 .. n + 1 : Levels(t)[d] = t.condstack[d]
        /\ Levels(t)[n + 2] = LevelOf(t)
    <3>1. /\ \A d \in 1 .. Len(t.condstack) : Levels(t)[d] = t.condstack[d]
          /\ Levels(t)[Len(t.condstack) + 1] = [enable |-> t.enable, satisfy |-> t.satisfy]
      BY <1>2, LevelsAre
    <3>2. Len(t.condstack) = n + 1 /\ Len(t.condstack) + 1 = n + 2
      BY <1>2
    <3>3. LevelOf(t) = [enable |-> t.enable, satisfy |-> t.satisfy]
      BY DEF LevelOf
    <3> QED
      BY <3>1, <3>2, <3>3
  <2>2. /\ \A d \in 1 .. n : Levels(s)[d] = s.condstack[d]
        /\ Levels(s)[n + 1] = LevelOf(s)
    BY LevelsAre DEF LevelOf, Nested
  <2> QED
    BY <1>2, <1>3, <2>1, <2>2
<1>5. Nested(t)
  <2>1. Levels(t)[1].enable
    BY <1>2, <1>4 DEF Nested
  <2>2. ASSUME NEW d \in 1 .. n + 1
        PROVE  Levels(t)[d + 1].enable => Levels(t)[d].enable /\ Levels(t)[d + 1].satisfy # 0
    <3>1. CASE d = n + 1
      BY <1>2, <1>4, <3>1 DEF LevelOf
    <3>2. CASE d # n + 1
      BY <1>2, <1>4, <3>2 DEF Nested
    <3> QED
      BY <3>1, <3>2
  <2> QED
    BY <1>2, <2>1, <2>2 DEF Nested
<1> DEFINE a == Append(SectionsOf(s), SectionOf(LevelOf(s), LevelOf(t)))
<1>6. /\ IsSeq(a)
      /\ Len(a) = n + 1
      /\ \A d \in 1 .. n : a[d] = SectionsOf(s)[d]
      /\ a[n + 1] = SectionOf(LevelOf(s), LevelOf(t))
  BY SectionsSeq, AppendSeq
<1>7. IsSeq(SectionsOf(t)) /\ Len(SectionsOf(t)) = n + 1
  BY <1>2, <1>5, SectionsSeq
<1>8. ASSUME NEW d \in 1 .. n + 1
      PROVE  SectionsOf(t)[d] = a[d]
  <2>1. SectionsOf(t)[d] = SectionOf(Levels(t)[d], Levels(t)[d + 1])
    BY <1>2 DEF SectionsOf
  <2>2. CASE d = n + 1
    BY <1>2, <1>4, <1>6, <2>1, <2>2
  <2>3. CASE d # n + 1
    <3>1. d \in 1 .. n /\ d + 1 \in 1 .. n + 1
      BY <1>2, <2>3
    <3>2. SectionsOf(s)[d] = SectionOf(Levels(s)[d], Levels(s)[d + 1])
      BY <3>1 DEF SectionsOf
    <3> QED
      BY <1>4, <1>6, <2>1, <3>1, <3>2
  <2> QED
    BY <2>2, <2>3
<1> HIDE DEF a
<1>9. SectionsOf(t) = a
  BY <1>6, <1>7, <1>8, SameSeq
<1> QED
  BY <1>5, <1>9 DEF a

(* #elif and #else change the innermost section only.                      *)
LEMMA NextSections ==
  ASSUME NEW s, Nested(s), s.condstack # <<>>, NEW t, DOMAIN t = Fields,
         t.condstack = s.condstack, t.enable \in BOOLEAN, t.satisfy \in 0 .. 2,
         t.enable => s.condstack[Len(s.condstack)].enable /\ t.satisfy # 0
  PROVE  /\ Nested(t)
         /\ SectionsOf(t) =
              [SectionsOf(s) EXCEPT ![Len(s.condstack)] =
                 SectionOf(s.condstack[Len(s.condstack)], LevelOf(t))]
<1> DEFINE n == Len(s.condstack)
<1>1. n \in Nat /\ n > 0
  BY DEF Nested
<1>2. /\ \A d \in 1 .. n : Levels(t)[d] = s.condstack[d]
      /\ Levels(t)[n + 1] = LevelOf(t)
      /\ \A d \in 1 .. n : Levels(s)[d] = s.condstack[d]
      /\ Levels(s)[n + 1] = LevelOf(s)
  BY LevelsAre DEF LevelOf, Nested
<1>3. Nested(t)
  <2>1. Levels(t)[1].enable
    BY <1>1, <1>2 DEF Nested
  <2>2. ASSUME NEW d \in 1 .. n
        PROVE  Levels(t)[d + 1].enable => Levels(t)[d].enable /\ Levels(t)[d + 1].satisfy # 0
    <3>1. CASE d = n
      BY <1>1, <1>2, <3>1 DEF LevelOf
    <3>2. CASE d # n
      BY <1>1, <1>2, <3>2 DEF Nested
    <3> QED
      BY <3>1, <3>2
  <2> QED
    BY <2>1, <2>2 DEF Nested
<1> DEFINE a == [SectionsOf(s) EXCEPT ![n] = SectionOf(s.condstack[n], LevelOf(t))]
<1>4. IsSeq(SectionsOf(s)) /\ Len(SectionsOf(s)) = n
  BY SectionsSeq
<1>5. /\ IsSeq(a)
      /\ Len(a) = n
      /\ \A d \in 1 .. n - 1 : a[d] = SectionsOf(s)[d]
      /\ a[n] = SectionOf(s.condstack[n], LevelOf(t))
  BY <1>1, <1>4, PutSeq
<1>6. IsSeq(SectionsOf(t)) /\ Len(SectionsOf(t)) = n
  BY <1>3, SectionsSeq
<1>7. ASSUME NEW d \in 1 .. n
      PROVE  SectionsOf(t)[d] = a[d]
  <2>1. SectionsOf(t)[d] = SectionOf(Levels(t)[d], Levels(t)[d + 1])
    BY DEF SectionsOf
  <2>2. CASE d = n
    BY <1>1, <1>2, <1>5, <2>1, <2>2
  <2>3. CASE d # n
    <3>1. d \in 1 .. n - 1 /\ d + 1 \in 1 .. n
      BY <1>1, <2>3
    <3>2. SectionsOf(s)[d] = SectionOf(Levels(s)[d], Levels(s)[d + 1])
      BY <3>1 DEF SectionsOf
    <3> QED
      BY <1>2, <1>5, <2>1, <3>1, <3>2
  <2> QED
    BY <2>2, <2>3
<1> HIDE DEF a
<1>8. SectionsOf(t) = a
  BY <1>5, <1>6, <1>7, SameSeq
<1> QED
  BY <1>3, <1>8 DEF a

(* #endif restores the level that was pushed: the innermost section is     *)
(* gone.                                                                   *)
LEMMA PopSections ==
  ASSUME NEW s, Nested(s), s.condstack # <<>>, NEW t, DOMAIN t = Fields,
         t.condstack = SubSeq(s.condstack, 1, Len(s.condstack) - 1),
         t.enable = s.condstack[Len(s.condstack)].enable,
         t.satisfy = s.condstack[Len(s.condstack)].satisfy
  PROVE  /\ Nested(t)
         /\ SectionsOf(t) = SubSeq(SectionsOf(s), 1, Len(s.condstack) - 1)
<1> DEFINE n == Len(s.condstack)
<1>1. n \in Nat /\ n > 0 /\ s.condstack \in Seq(Level)
  BY DEF Nested
<1>2. /\ t.condstack \in Seq(Level)
      /\ Len(t.condstack) = n - 1
      /\ \A d \in 1 .. n - 1 : t.condstack[d] = s.condstack[d]
  BY <1>1, PopSeq DEF IsSeq
<1>3. s.condstack[n] \in Level /\ s.condstack[n] = LevelOf(t)
  <2>1. s.condstack[n] \in Level
    BY <1>1
  <2> QED
    BY <2>1 DEF Level, LevelOf
<1>4. \A d \in 1 .. n : Levels(t)[d] = Levels(s)[d]
  <2>1. /\ \A d \in 1 .. n - 1 : Levels(t)[d] = t.condstack[d]
        /\ Levels(t)[n] = LevelOf(t)
    <3>1. n = Len(t.condstack) + 1
      BY <1>1, <1>2
    <3>2. /\ \A d \in 1 .. Len(t.condstack) : Levels(t)[d] = t.condstack[d]
          /\ Levels(t)[Len(t.condstack) + 1] = LevelOf(t)
      BY <1>2, LevelsAre, Zenon DEF LevelOf
    <3> QED
      BY <1>2, <3>1, <3>2, Zenon
  <2>2. \A d \in 1 .. n : Levels(s)[d] = s.condstack[d]
    BY <1>1, LevelsAre
  <2> QED
    BY <1>1, <1>2, <1>3, <2>1, <2>2
<1>5. Nested(t)
  <2>1. Levels(t)[1].enable
    BY <1>1, <1>4 DEF Nested
  <2>2. ASSUME NEW d \in 1 .. n - 1
        PROVE  Levels(t)[d + 1].enable => Levels(t)[d].enable /\ Levels(t)[d + 1].satisfy # 0
    <3>1. d \in 1 .. n /\ d + 1 \in 1 .. n
      BY <1>1
    <3>2. Levels(s)[d + 1].enable => Levels(s)[d].enable /\ Levels(s)[d + 1].satisfy # 0
      BY <3>1 DEF Nested
    <3> QED
      BY <1>4, <3>1, <3>2
  <2>3. t.enable \in BOOLEAN /\ t.satisfy \in 0 .. 2
    BY <1>3 DEF Level
  <2> QED
    BY <1>2, <2>1, <2>2, <2>3 DEF Nested
<1> DEFINE a == SubSeq(SectionsOf(s), 1, n - 1)
<1>6. IsSeq(SectionsOf(s)) /\ Len(SectionsOf(s)) = n
  BY SectionsSeq
<1>7. /\ IsSeq(a)
      /\ Len(a) = n - 1
      /\ \A d \in 1 .. n - 1 : a[d] = SectionsOf(s)[d]
  BY <1>1, <1>6, PopSeq
<1>8. IsSeq(SectionsOf(t)) /\ Len(SectionsOf(t)) = n - 1
  BY <1>2, <1>5, SectionsSeq
<1>9. ASSUME NEW d \in 1 .. n - 1
      PROVE  SectionsOf(t)[d] = a[d]
  <2>1. SectionsOf(t)[d] = SectionOf(Levels(t)[d], Levels(t)[d + 1])
    BY <1>2 DEF SectionsOf
  <2>2. d \in 1 .. n /\ d + 1 \in 1 .. n
    BY <1>1
  <2>3. SectionsOf(s)[d] = SectionOf(Levels(s)[d], Levels(s)[d + 1])
    BY <2>2 DEF SectionsOf
  <2> QED
    BY <1>4, <1>7, <2>1, <2>2, <2>3
<1> HIDE DEF a
<1>10. SectionsOf(t) = a
  BY <1>7, <1>8, <1>9, SameSeq
<1> QED
  BY <1>5, <1>10 DEF a

----------------------------------------------------------------------------
(***************************************************************************)
(* The steps.                                                              *)
(***************************************************************************)

(* Reading lines changes neither the levels nor the names.                 *)
LEMMA ReadKeeps ==
  ASSUME NEW s, DOMAIN s = Fields, NEW p, NEW l
  PROVE  LET r == [s EXCEPT !.pos = p, !.lineno = l]
         IN  /\ DOMAIN r = Fields
             /\ r.condstack = s.condstack /\ r.enable = s.enable /\ r.satisfy = s.satisfy
             /\ r.filename = s.filename /\ r.old_file_macro = s.old_file_macro
BY DEF Fields

(* What leaves condstack, enable and satisfy alone leaves the sections.    *)
LEMMA SameNested ==
  ASSUME NEW s, Nested(s), NEW t, DOMAIN t = Fields,
         t.condstack = s.condstack, t.enable = s.enable, t.satisfy = s.satisfy
  PROVE  Nested(t) /\ SectionsOf(t) = SectionsOf(s)
<1>1. Levels(t) = Levels(s)
  BY DEF Levels
<1> QED
  BY <1>1, SameSections DEF Nested

(* What PInv says of the innermost stream.                                 *)
LEMMA TopFacts ==
  ASSUME PInv
  PROVE  /\ Len(streams) \in Nat \ {0}
         /\ Nested(Top)
         /\ Len(OpenSections) = Len(streams)
         /\ C!Top = SectionsOf(Top)
         /\ C!Live <=> Top.enable
<1>1. /\ Len(streams) \in Nat \ {0}
      /\ Len(OpenSections) = Len(streams)
  BY OpenLen DEF PInv
<1>2. Nested(Top)
  BY <1>1 DEF PInv, Top
<1>3. C!Top = SectionsOf(Top)
  <2>1. OpenSections[Len(streams)] = SectionsOf(Top)
    BY <1>1 DEF OpenSections, Top
  <2> QED
    BY <1>1, <2>1 DEF C!Top
<1>4. C!Live <=> Top.enable
  BY <1>2, <1>3, LiveIsEnable DEF C!Live
<1> QED
  BY <1>1, <1>2, <1>3, <1>4

(* A handler changes the stream that is being read, not those that         *)
(* included it.                                                            *)
LEMMA PutTop ==
  ASSUME PInv, NEW t
  PROVE  /\ IsSeq(Put(t))
         /\ Len(Put(t)) = Len(streams)
         /\ \A k \in 1 .. Len(streams) - 1 : Put(t)[k] = streams[k]
         /\ Put(t)[Len(streams)] = t
<1>1. IsSeq(streams) /\ Len(streams) > 0
  BY DEF PInv
<1> QED
  BY <1>1, PutSeqValue, Zenon DEF Put

(* A step that changes the innermost stream.                               *)
LEMMA PutStep ==
  ASSUME PInv, NEW t, Nested(t), t.old_file_macro = Top.old_file_macro,
         streams' = Put(t), status' = status, fileMacro' = t.filename, IsSeq(out')
  PROVE  PInv' /\ OpenSections' = C!Put(SectionsOf(t))
<1> DEFINE n == Len(streams)
<1>1. n \in Nat /\ n > 0 /\ IsSeq(streams) /\ Len(OpenSections) = n /\ IsSeq(OpenSections)
  BY TopFacts, OpenLen DEF PInv
<1>2. /\ IsSeq(streams')
      /\ Len(streams') = n
      /\ \A k \in 1 .. n - 1 : streams'[k] = streams[k]
      /\ streams'[n] = t
  BY PutTop
<1>3. \A k \in 1 .. n : Nested(streams'[k])
  BY <1>1, <1>2 DEF PInv
<1>4. \A k \in 2 .. n : streams'[k].old_file_macro = streams'[k - 1].filename
  <2> SUFFICES ASSUME NEW k \in 2 .. n
               PROVE  streams'[k].old_file_macro = streams'[k - 1].filename
    OBVIOUS
  <2>1. k - 1 \in 1 .. n - 1
    BY <1>1
  <2>2. streams[k].old_file_macro = streams[k - 1].filename
    BY DEF PInv
  <2>3. CASE k = n
    BY <1>2, <2>1, <2>2, <2>3 DEF Top
  <2>4. CASE k # n
    BY <1>1, <1>2, <2>1, <2>2, <2>4
  <2> QED
    BY <2>3, <2>4
<1>5. PInv'
  BY <1>1, <1>2, <1>3, <1>4 DEF PInv, Top
<1>6. OpenSections' = [k \in 1 .. n |-> SectionsOf(streams'[k])]
  BY <1>2 DEF OpenSections
<1> DEFINE a == [OpenSections EXCEPT ![n] = SectionsOf(t)]
<1>7. DOMAIN OpenSections = 1 .. n /\ \A k \in 1 .. n : OpenSections[k] = SectionsOf(streams[k])
  BY DEF OpenSections
<1>8. a = [k \in 1 .. n |-> IF k = n THEN SectionsOf(t) ELSE SectionsOf(streams[k])]
  BY <1>7
<1>9. \A k \in 1 .. n : SectionsOf(streams'[k]) = IF k = n THEN SectionsOf(t) ELSE SectionsOf(streams[k])
  BY <1>1, <1>2
<1>10. OpenSections' = a
  BY <1>6, <1>8, <1>9
<1> QED
  BY <1>1, <1>5, <1>10 DEF C!Put

(* A step that changes nothing that Conditionals sees.                     *)
LEMMA KeepStep ==
  ASSUME PInv, NEW t, DOMAIN t = Fields, t.condstack = Top.condstack, t.enable = Top.enable,
         t.satisfy = Top.satisfy, t.old_file_macro = Top.old_file_macro,
         streams' = Put(t), status' = status, fileMacro' = t.filename, IsSeq(out')
  PROVE  PInv' /\ OpenSections' = OpenSections
<1>1. Nested(t) /\ SectionsOf(t) = SectionsOf(Top)
  BY TopFacts, SameNested
<1>2. PInv' /\ OpenSections' = C!Put(SectionsOf(t))
  BY <1>1, PutStep
<1>3. C!Put(SectionsOf(Top)) = OpenSections
  <2>1. OpenSections[Len(OpenSections)] = SectionsOf(Top)
    BY TopFacts DEF C!Top
  <2> QED
    BY <2>1 DEF C!Put, OpenSections
<1> QED
  BY <1>1, <1>2, <1>3

(* An error of the preprocessor is one of Conditionals.                    *)
LEMMA FailStep ==
  ASSUME PInv, status = "run", Fails
  PROVE  PInv' /\ C!Next
<1>1. UNCHANGED OpenSections
  BY DEF Fails, OpenSections
<1>2. C!Error
  BY <1>1 DEF Fails, C!Error
<1>3. PInv'
  BY DEF PInv, Fails, Top
<1> QED
  BY <1>2, <1>3 DEF C!Next

(* Read, for the innermost stream.                                         *)
LEMMA ReadTop ==
  ASSUME PInv, NEW n
  PROVE  /\ DOMAIN Read(n) = Fields
         /\ Read(n).condstack = Top.condstack
         /\ Read(n).enable = Top.enable
         /\ Read(n).satisfy = Top.satisfy
         /\ Read(n).filename = Top.filename
         /\ Read(n).old_file_macro = Top.old_file_macro
<1>1. DOMAIN Top = Fields
  BY TopFacts DEF Nested
<1> HIDE DEF Top
<1> QED
  BY <1>1, ReadKeeps DEF Read

(* preprocess() on #if, #ifdef and #ifndef opens a section.                *)
LEMMA IfStep ==
  ASSUME PInv, If
  PROVE  PInv' /\ C!Next
<1> DEFINE c == Condition(Line)
           t == [Read(1) EXCEPT !.condstack = Append(@, LevelOf(Top)),
                                !.satisfy = IF c THEN 1 ELSE 0,
                                !.enable = Top.enable /\ c]
<1>0. Top.enable \in BOOLEAN
  BY TopFacts DEF Nested
<1>1. /\ DOMAIN t = Fields
      /\ t.condstack = Append(Top.condstack, LevelOf(Top))
      /\ c => t.enable = Top.enable /\ t.satisfy = 1
      /\ ~ c => t.enable = FALSE /\ t.satisfy = 0
      /\ t.filename = Top.filename /\ t.old_file_macro = Top.old_file_macro
  BY <1>0, ReadTop DEF Fields
<1>2. streams' = Put(t)
  BY DEF If, LevelOf
<1>3. status = "run" /\ status' = status /\ fileMacro' = fileMacro /\ out' = out
  BY DEF If, HasLine
<1> HIDE DEF c, t
<1>4. Nested(Top) /\ Top.enable \in BOOLEAN
  BY TopFacts DEF Nested
<1>5. t.enable \in BOOLEAN /\ t.satisfy \in 0 .. 2 /\ (t.enable => Top.enable /\ t.satisfy # 0)
  <2>1. CASE c
    BY <1>1, <1>4, <2>1
  <2>2. CASE ~ c
    <3>1. t.enable = FALSE /\ t.satisfy = 0
      BY <1>1, <2>2
    <3>2. t.enable \in BOOLEAN /\ ~ t.enable
      BY <3>1, Zenon
    <3> QED
      BY <3>1, <3>2
  <2> QED
    BY <2>1, <2>2
<1>6. /\ Nested(t)
      /\ SectionsOf(t) = Append(SectionsOf(Top), SectionOf(LevelOf(Top), LevelOf(t)))
  BY <1>1, <1>4, <1>5, PushSections
<1>7. PInv' /\ OpenSections' = C!Put(SectionsOf(t))
  BY <1>1, <1>2, <1>3, <1>6, PutStep DEF PInv
<1>8. \E b \in BOOLEAN :
        SectionOf(LevelOf(Top), LevelOf(t)) =
          [state |-> IF ~ C!Live THEN "skip" ELSE IF b THEN "take" ELSE "seek", part |-> "if"]
  <2>1. C!Live <=> Top.enable
    BY TopFacts
  <2>2. CASE c
    <3>1. SectionOf(LevelOf(Top), LevelOf(t)) =
            [state |-> IF ~ C!Live THEN "skip" ELSE "take", part |-> "if"]
      BY <1>1, <1>4, <2>1, <2>2 DEF SectionOf, LevelOf
    <3> QED
      BY <3>1
  <2>3. CASE ~ c
    <3>1. SectionOf(LevelOf(Top), LevelOf(t)) =
            [state |-> IF ~ C!Live THEN "skip" ELSE "seek", part |-> "if"]
      BY <1>1, <1>4, <2>1, <2>3 DEF SectionOf, LevelOf
    <3> QED
      BY <3>1
  <2> QED
    BY <2>2, <2>3
<1>9. C!If
  BY <1>3, <1>6, <1>7, <1>8, TopFacts DEF C!If
<1> QED
  BY <1>3, <1>7, <1>9 DEF C!Next

(* #else and #elif.                                                        *)
LEMMA NextGroupStep ==
  ASSUME PInv, Top.condstack # <<>>, Top.satisfy # 2, NEW t, DOMAIN t = Fields,
         t.condstack = Top.condstack, t.filename = Top.filename,
         t.old_file_macro = Top.old_file_macro,
         streams' = Put(t), status = "run", UNCHANGED <<status, fileMacro, out>>,
         NEW c \in BOOLEAN, NEW part \in {"if", "else"}, part = "else" => c,
         t.enable \in BOOLEAN,
         t.enable <=> (~ Top.enable /\ Top.satisfy = 0 /\ c /\ Saved.enable),
         t.satisfy = IF part = "else" THEN 2 ELSE IF Top.satisfy = 0 /\ c THEN 1 ELSE Top.satisfy
  PROVE  PInv' /\ C!NextGroup(c, part)
<1> DEFINE n == Len(Top.condstack)
<1>1. /\ Nested(Top) /\ n \in Nat /\ n > 0
      /\ Top.enable \in BOOLEAN /\ Top.satisfy \in 0 .. 2
      /\ Saved \in Level
  <2>1. Nested(Top)
    BY TopFacts
  <2>2. Top.condstack \in Seq(Level) /\ n \in Nat /\ n > 0
    BY <2>1 DEF Nested
  <2>3. Saved \in Level
    BY <2>2 DEF Saved
  <2> QED
    BY <2>1, <2>2, <2>3 DEF Nested
<1>2. Saved.enable \in BOOLEAN
  BY <1>1 DEF Level
<1>3. t.enable \in BOOLEAN /\ t.satisfy \in 0 .. 2 /\ (t.enable => Saved.enable /\ t.satisfy # 0)
  BY <1>1, <1>2
<1>4. /\ Nested(t)
      /\ SectionsOf(t) = [SectionsOf(Top) EXCEPT ![n] = SectionOf(Saved, LevelOf(t))]
  BY <1>1, <1>3, NextSections DEF Saved
<1>5. PInv' /\ OpenSections' = C!Put(SectionsOf(t))
  BY <1>4, PutStep DEF PInv
<1>6. C!Top = SectionsOf(Top) /\ Len(SectionsOf(Top)) = n /\ C!Top # <<>>
  BY <1>1, TopFacts, SectionsSeq
<1> DEFINE s == C!Top[n]
<1>7. s = SectionOf(Saved, LevelOf(Top)) /\ (Top.enable => Top.satisfy # 0)
  <2>1. s = SectionOf(Levels(Top)[n], Levels(Top)[n + 1])
    BY <1>1, <1>6 DEF SectionsOf
  <2>2. Levels(Top)[n] = Saved /\ Levels(Top)[n + 1] = LevelOf(Top)
    BY <1>1, LevelsAre DEF Nested, Saved, LevelOf
  <2>3. Levels(Top)[n + 1].enable => Levels(Top)[n + 1].satisfy # 0
    BY <1>1 DEF Nested
  <2> QED
    BY <2>1, <2>2, <2>3 DEF LevelOf
<1>8. s.part = "if"
  BY <1>7 DEF SectionOf, LevelOf
<1>9. SectionOf(Saved, LevelOf(t)) =
        [state |-> CASE s.state = "take" -> "done"
                     [] s.state = "seek" /\ c -> "take"
                     [] OTHER -> s.state,
         part |-> part]
  <2>1. s.state = IF ~ Saved.enable THEN "skip"
                  ELSE IF Top.enable THEN "take"
                  ELSE IF Top.satisfy = 0 THEN "seek" ELSE "done"
    BY <1>7 DEF SectionOf, LevelOf
  <2>2. SectionOf(Saved, LevelOf(t)) =
          [state |-> IF ~ Saved.enable THEN "skip"
                     ELSE IF t.enable THEN "take"
                     ELSE IF t.satisfy = 0 THEN "seek" ELSE "done",
           part |-> part]
    BY <1>1 DEF SectionOf, LevelOf
  <2> HIDE DEF s
  <2>3. CASE ~ Saved.enable
    BY <2>1, <2>2, <2>3
  <2>4. CASE Saved.enable /\ Top.enable
    <3>1. s.state = "take" /\ ~ t.enable /\ t.satisfy # 0
      BY <1>1, <1>7, <2>1, <2>4
    <3> QED
      BY <2>2, <2>4, <3>1
  <2>5. CASE Saved.enable /\ ~ Top.enable
    <3>1. CASE Top.satisfy = 0 /\ c
      <4>1. s.state = "seek" /\ t.enable
        BY <2>1, <2>5, <3>1
      <4> QED
        BY <2>2, <2>5, <3>1, <4>1
    <3>2. CASE Top.satisfy = 0 /\ ~ c
      <4>1. s.state = "seek" /\ ~ t.enable /\ t.satisfy = 0
        BY <2>1, <2>5, <3>2
      <4> QED
        BY <2>2, <2>5, <3>2, <4>1
    <3>3. CASE Top.satisfy # 0
      <4>1. s.state = "done" /\ ~ t.enable /\ t.satisfy # 0
        BY <1>1, <2>1, <2>5, <3>3
      <4> QED
        BY <2>2, <2>5, <3>3, <4>1
    <3> QED
      BY <3>1, <3>2, <3>3
  <2> QED
    BY <2>3, <2>4, <2>5
<1> QED
  BY <1>4, <1>5, <1>6, <1>8, <1>9 DEF C!NextGroup

(* preprocess() on #else begins the last group of the innermost section.   *)
LEMMA ElseStep ==
  ASSUME PInv, Else
  PROVE  PInv' /\ C!Next
<1>1. status = "run"
  BY DEF Else, HasLine
<1>2. CASE Top.condstack = <<>> \/ Top.satisfy = 2
  BY <1>1, <1>2, FailStep DEF Else
<1>3. CASE ~ (Top.condstack = <<>> \/ Top.satisfy = 2)
  <2> DEFINE t == [Read(1) EXCEPT !.enable = ElseEnable, !.satisfy = 2]
  <2>1. /\ DOMAIN t = Fields
        /\ t.condstack = Top.condstack
        /\ t.enable = ElseEnable
        /\ t.satisfy = 2
        /\ t.filename = Top.filename /\ t.old_file_macro = Top.old_file_macro
    BY ReadTop DEF Fields
  <2>2. streams' = Put(t) /\ UNCHANGED <<status, fileMacro, out>>
    BY <1>3 DEF Else
  <2> HIDE DEF t
  <2>3. /\ t.enable \in BOOLEAN
        /\ t.enable <=> (~ Top.enable /\ Top.satisfy = 0 /\ TRUE /\ Saved.enable)
    BY <2>1 DEF ElseEnable
  <2>4. PInv' /\ C!NextGroup(TRUE, "else")
    BY <1>1, <1>3, <2>1, <2>2, <2>3, NextGroupStep
  <2> QED
    BY <1>1, <2>4 DEF C!Else, C!Next
<1> QED
  BY <1>2, <1>3

(* preprocess() on #elif begins a group of the innermost section.          *)
LEMMA ElifStep ==
  ASSUME PInv, Elif
  PROVE  PInv' /\ C!Next
<1>1. status = "run"
  BY DEF Elif, HasLine
<1>2. CASE Top.condstack = <<>> \/ Top.satisfy = 2
  BY <1>1, <1>2, FailStep DEF Elif
<1>3. CASE ~ (Top.condstack = <<>> \/ Top.satisfy = 2)
  <2> DEFINE c == Top.satisfy = 0 /\ Line.b
             t == [Read(1) EXCEPT !.enable = ~ Top.enable /\ c /\ Saved.enable,
                                  !.satisfy = IF c THEN 1 ELSE @]
  <2>1. /\ DOMAIN t = Fields
        /\ t.condstack = Top.condstack
        /\ t.enable = (~ Top.enable /\ c /\ Saved.enable)
        /\ t.satisfy = IF c THEN 1 ELSE Top.satisfy
        /\ t.filename = Top.filename /\ t.old_file_macro = Top.old_file_macro
    BY ReadTop DEF Fields
  <2>2. streams' = Put(t) /\ UNCHANGED <<status, fileMacro, out>>
    BY <1>3 DEF Elif
  <2>3. c \in BOOLEAN /\ (c => Top.satisfy = 0)
    OBVIOUS
  <2> HIDE DEF c, t
  <2>4. /\ t.enable \in BOOLEAN
        /\ t.enable <=> (~ Top.enable /\ Top.satisfy = 0 /\ c /\ Saved.enable)
    BY <2>1, <2>3
  <2>5. t.satisfy = IF "if" = "else" THEN 2 ELSE IF Top.satisfy = 0 /\ c THEN 1 ELSE Top.satisfy
    BY <2>1, <2>3
  <2>6. PInv' /\ C!NextGroup(c, "if")
    BY <1>1, <1>3, <2>1, <2>2, <2>3, <2>4, <2>5, NextGroupStep
  <2> QED
    BY <1>1, <2>3, <2>6 DEF C!Elif, C!Next
<1> QED
  BY <1>2, <1>3

(* preprocess() on #endif closes the innermost section.                    *)
LEMMA EndifStep ==
  ASSUME PInv, Endif
  PROVE  PInv' /\ C!Next
<1>1. status = "run"
  BY DEF Endif, HasLine
<1>2. CASE Top.condstack = <<>>
  BY <1>1, <1>2, FailStep DEF Endif
<1>3. CASE Top.condstack # <<>>
  <2> DEFINE n == Len(Top.condstack)
             t == [Read(1) EXCEPT !.enable = Saved.enable, !.satisfy = Saved.satisfy,
                                  !.condstack = SubSeq(@, 1, Len(@) - 1)]
  <2>1. /\ DOMAIN t = Fields
        /\ t.condstack = SubSeq(Top.condstack, 1, n - 1)
        /\ t.enable = Top.condstack[n].enable
        /\ t.satisfy = Top.condstack[n].satisfy
        /\ t.filename = Top.filename /\ t.old_file_macro = Top.old_file_macro
    BY ReadTop DEF Fields, Saved
  <2>2. streams' = Put(t) /\ UNCHANGED <<status, fileMacro, out>>
    BY <1>3 DEF Endif
  <2> HIDE DEF t
  <2>3. Nested(t) /\ SectionsOf(t) = SubSeq(SectionsOf(Top), 1, n - 1)
    BY <1>3, <2>1, TopFacts, PopSections
  <2>4. PInv' /\ OpenSections' = C!Put(SectionsOf(t))
    BY <1>1, <2>1, <2>2, <2>3, PutStep DEF PInv
  <2>5. C!Top = SectionsOf(Top) /\ Len(SectionsOf(Top)) = n /\ SectionsOf(Top) # <<>>
    <3>1. Nested(Top) /\ n > 0
      BY <1>3, TopFacts DEF Nested
    <3> QED
      BY <3>1, TopFacts, SectionsSeq
  <2>6. C!Endif
    BY <2>2, <2>3, <2>4, <2>5 DEF C!Endif
  <2> QED
    BY <1>1, <2>4, <2>6 DEF C!Next
<1> QED
  BY <1>2, <1>3

(* The file that is included has no sections yet.                          *)
LEMMA IncludeStep ==
  ASSUME PInv, Include
  PROVE  PInv' /\ (C!Next \/ UNCHANGED C!vars)
<1>1. status = "run" /\ Top.enable
  BY DEF Include, Directive, HasLine
<1>2. CASE Candidates = {}
  BY <1>1, <1>2, FailStep DEF Include
<1>3. CASE Candidates # {} /\ registered_pragma_once(Found)
  <2>1. streams' = Put(Read(1)) /\ UNCHANGED <<status, fileMacro, out>>
    BY <1>3 DEF Include
  <2>2. PInv' /\ OpenSections' = OpenSections
    BY <1>1, <2>1, ReadTop, KeepStep DEF PInv
  <2> QED
    BY <2>1, <2>2 DEF C!vars
<1>4. CASE Candidates # {} /\ ~ registered_pragma_once(Found)
  <2> DEFINE p == Put(Read(1))
             new == NewStream(Found)
             n == Len(streams)
  <2>1. streams' = Append(p, new) /\ fileMacro' = Found /\ UNCHANGED <<status, out>>
    BY <1>4 DEF Include
  <2>2. n \in Nat /\ n > 0 /\ IsSeq(streams) /\ Nested(Top)
    BY TopFacts DEF PInv
  <2>3. /\ DOMAIN new = Fields
        /\ new.condstack = <<>> /\ new.enable /\ new.enable \in BOOLEAN /\ new.satisfy = 0
        /\ new.filename = Found /\ new.old_file_macro = fileMacro
    BY DEF NewStream, Fields
  <2>4. Nested(Read(1)) /\ SectionsOf(Read(1)) = SectionsOf(Top)
    BY <2>2, ReadTop, SameNested
  <2> HIDE DEF new, p
  <2>5. /\ IsSeq(p) /\ Len(p) = n
        /\ \A k \in 1 .. n - 1 : p[k] = streams[k]
        /\ p[n] = Read(1)
    BY <2>2, PutTop DEF p
  <2>6. /\ IsSeq(streams') /\ Len(streams') = n + 1
        /\ \A k \in 1 .. n : streams'[k] = p[k]
        /\ streams'[n + 1] = new
    <3>1. /\ IsSeq(Append(p, new)) /\ Len(Append(p, new)) = Len(p) + 1
          /\ \A k \in 1 .. Len(p) : Append(p, new)[k] = p[k]
          /\ Append(p, new)[Len(p) + 1] = new
      <4>1. IsSeq(p)
        BY <2>5
      <4> QED
        BY <4>1, AppendSeq
    <3> QED
      BY <2>1, <2>5, <3>1, Zenon
  <2>7. Nested(new) /\ SectionsOf(new) = <<>>
    <3>1. new.condstack \in Seq(Level) /\ Len(new.condstack) = 0
      BY <2>3
    <3>2. Levels(new)[1] = [enable |-> new.enable, satisfy |-> new.satisfy]
      BY <3>1, LevelsAre
    <3>3. Nested(new)
      BY <2>3, <3>1, <3>2 DEF Nested
    <3> QED
      BY <3>1, <3>3, SectionsSeq DEF IsSeq
  <2>8. PInv'
    <3>1. \A k \in 1 .. n + 1 : Nested(streams'[k])
      <4>1. \A k \in 1 .. n : Nested(p[k])
        BY <2>2, <2>4, <2>5 DEF PInv
      <4> QED
        BY <2>2, <2>6, <2>7, <4>1
    <3>2. ASSUME NEW k \in 2 .. n + 1
          PROVE  streams'[k].old_file_macro = streams'[k - 1].filename
      <4>1. k - 1 \in 1 .. n /\ streams'[k - 1] = p[k - 1]
        BY <2>2, <2>6
      <4>2. p[k - 1].filename = streams[k - 1].filename
        BY <2>2, <2>5, <4>1, ReadTop DEF Top
      <4>3. CASE k = n + 1
        <5>1. streams'[k].old_file_macro = fileMacro
          BY <2>3, <2>6, <4>3
        <5>2. fileMacro = streams[k - 1].filename
          BY <1>1, <2>2, <4>3 DEF PInv, Top
        <5> QED
          BY <4>1, <4>2, <5>1, <5>2
      <4>4. CASE k # n + 1
        <5>1. streams'[k] = p[k] /\ k \in 1 .. n
          BY <2>2, <2>6, <4>4
        <5>2. p[k].old_file_macro = streams[k].old_file_macro
          BY <2>2, <2>5, <5>1, ReadTop DEF Top
        <5>3. streams[k].old_file_macro = streams[k - 1].filename
          BY <2>2, <4>4 DEF PInv
        <5> QED
          BY <4>1, <4>2, <5>1, <5>2, <5>3
      <4> QED
        BY <4>3, <4>4
    <3>3. (status = "run" => fileMacro = Top.filename)'
      BY <2>1, <2>3, <2>6 DEF Top
    <3> QED
      BY <2>1, <2>2, <2>6, <3>1, <3>2, <3>3 DEF PInv
  <2>9. OpenSections' = Append(OpenSections, <<>>)
    <3>1. IsSeq(OpenSections) /\ Len(OpenSections) = n
      BY <2>2, OpenLen
    <3>2. /\ IsSeq(Append(OpenSections, <<>>)) /\ Len(Append(OpenSections, <<>>)) = n + 1
          /\ \A k \in 1 .. n : Append(OpenSections, <<>>)[k] = OpenSections[k]
          /\ Append(OpenSections, <<>>)[n + 1] = <<>>
      BY <3>1, AppendSeq
    <3>3. IsSeq(OpenSections') /\ Len(OpenSections') = n + 1
      <4>1. (IsSeq(streams) => Len(OpenSections) = Len(streams) /\ IsSeq(OpenSections))'
        BY OpenLen, PTL
      <4> QED
        BY <2>6, <4>1
    <3>4. ASSUME NEW k \in 1 .. n + 1
          PROVE  OpenSections'[k] = Append(OpenSections, <<>>)[k]
      <4>1. OpenSections'[k] = SectionsOf(streams'[k])
        BY <2>6 DEF OpenSections
      <4>2. CASE k = n + 1
        BY <2>6, <2>7, <3>2, <4>1, <4>2
      <4>3. CASE k # n + 1
        <5>1. k \in 1 .. n
          BY <2>2, <4>3
        <5>2. SectionsOf(p[k]) = SectionsOf(streams[k])
          BY <2>2, <2>4, <2>5, <5>1 DEF Top
        <5>3. OpenSections[k] = SectionsOf(streams[k])
          BY <5>1 DEF OpenSections
        <5> QED
          BY <2>6, <3>2, <4>1, <5>1, <5>2, <5>3
      <4> QED
        BY <4>2, <4>3
    <3> QED
      BY <3>2, <3>3, <3>4, SameSeq
  <2>10. C!Include
    BY <1>1, <2>1, <2>9, TopFacts DEF C!Include
  <2> QED
    BY <1>1, <2>8, <2>10 DEF C!Next
<1> QED
  BY <1>2, <1>3, <1>4

(* The other directives change nothing that Conditionals sees.             *)
LEMMA DirectiveStep ==
  ASSUME PInv, Disabled \/ Define \/ Undef \/ Pragma \/ LineDirective
  PROVE  PInv' /\ UNCHANGED C!vars
<1>1. UNCHANGED <<status, out>> /\ status = "run"
  BY DEF Disabled, Define, Undef, Pragma, LineDirective, Directive, HasLine
<1>2. CASE streams' = Put(Read(1)) /\ fileMacro' = fileMacro
  BY <1>1, <1>2, ReadTop, KeepStep DEF PInv, C!vars
<1>3. CASE LineDirective
  <2> DEFINE filename == <<Main[1], Line.n>>
             t == [Read(1) EXCEPT !.filename = filename, !.lineno = 0]
  <2>1. streams' = Put(t) /\ fileMacro' = filename
    BY <1>3 DEF LineDirective
  <2>2. /\ DOMAIN t = Fields
        /\ t.condstack = Top.condstack /\ t.enable = Top.enable /\ t.satisfy = Top.satisfy
        /\ t.filename = filename /\ t.old_file_macro = Top.old_file_macro
    BY ReadTop DEF Fields
  <2> HIDE DEF t
  <2> QED
    BY <1>1, <2>1, <2>2, KeepStep DEF PInv, C!vars
<1> QED
  BY <1>2, <1>3 DEF Disabled, Define, Undef, Pragma

(* A line of text is put out if its groups are taken, and else it is       *)
(* skipped.                                                                *)
LEMMA TextStep ==
  ASSUME PInv, Text
  PROVE  PInv' /\ (C!Next \/ UNCHANGED C!vars)
<1>1. status = "run" /\ UNCHANGED <<status, fileMacro>>
  BY DEF Text, HasLine
<1>2. CASE Top.enable
  <2>1. PICK n, x : streams' = Put(Read(n)) /\ out' = Append(out, x)
    BY <1>2 DEF Text
  <2>2. IsSeq(out') /\ Len(out') = Len(out) + 1 /\ out'[Len(out) + 1] = x
    BY <2>1, AppendSeq DEF PInv
  <2>3. PInv' /\ OpenSections' = OpenSections
    BY <1>1, <2>1, <2>2, ReadTop, KeepStep DEF PInv
  <2>4. out' # <<>> /\ out' = Append(out, out'[Len(out')])
    <3>1. Len(out) \in Nat
      BY DEF PInv, IsSeq
    <3> QED
      BY <2>1, <2>2, <3>1
  <2>5. C!Text
    BY <1>1, <1>2, <2>3, <2>4, TopFacts DEF C!Text
  <2> QED
    BY <1>1, <2>3, <2>5 DEF C!Next
<1>3. CASE ~ Top.enable
  <2>1. streams' = Put(Read(1)) /\ out' = out
    BY <1>3 DEF Text
  <2> QED
    BY <1>1, <2>1, ReadTop, KeepStep DEF PInv, C!vars
<1> QED
  BY <1>2, <1>3

(* Back in the including file, __FILE__ is what it was there.              *)
LEMMA EndOfFileStep ==
  ASSUME PInv, EndOfFile
  PROVE  PInv' /\ (C!Next \/ UNCHANGED C!vars)
<1>1. status = "run" /\ Nested(Top) /\ Len(streams) \in Nat /\ Len(streams) > 0
  BY TopFacts DEF EndOfFile
<1>2. CASE Top.condstack # <<>>
  BY <1>1, <1>2, FailStep DEF EndOfFile
<1>3. CASE Top.condstack = <<>> /\ Len(streams) = 1
  <2>1. streams' = streams /\ status' = "done" /\ out' = out
    BY <1>3 DEF EndOfFile
  <2>2. PInv'
    BY <2>1 DEF PInv
  <2>3. OpenSections' = OpenSections
    BY <2>1 DEF OpenSections
  <2>4. C!Top = <<>>
    BY <1>1, <1>3, TopFacts, SectionsSeq DEF IsSeq
  <2>5. C!EndOfFile
    BY <1>3, <2>1, <2>3, <2>4, TopFacts DEF C!EndOfFile
  <2> QED
    BY <1>1, <2>2, <2>5 DEF C!Next
<1>4. CASE Top.condstack = <<>> /\ Len(streams) # 1
  <2> DEFINE n == Len(streams)
  <2>1. /\ streams' = SubSeq(streams, 1, n - 1)
        /\ fileMacro' = Top.old_file_macro
        /\ status' = status /\ out' = out
    BY <1>4 DEF EndOfFile, Restored
  <2>2. n \in Nat /\ n > 1 /\ IsSeq(streams)
    <3>1. n \in Nat /\ n > 1
      BY <1>1, <1>4
    <3> QED
      BY <3>1 DEF PInv
  <2>3. /\ IsSeq(streams') /\ Len(streams') = n - 1
        /\ \A k \in 1 .. n - 1 : streams'[k] = streams[k]
    BY <2>1, <2>2, PopSeq
  <2>4. PInv'
    <3>1. \A k \in 1 .. n - 1 : Nested(streams'[k])
      BY <2>2, <2>3 DEF PInv
    <3>2. \A k \in 2 .. n - 1 : streams'[k].old_file_macro = streams'[k - 1].filename
      BY <2>2, <2>3 DEF PInv
    <3>3. fileMacro' = streams'[n - 1].filename
      BY <2>1, <2>2, <2>3 DEF PInv, Top
    <3> QED
      BY <1>1, <2>1, <2>2, <2>3, <3>1, <3>2, <3>3 DEF PInv, Top
  <2>5. IsSeq(OpenSections) /\ Len(OpenSections) = n
    BY <2>2, OpenLen
  <2>6. /\ IsSeq(SubSeq(OpenSections, 1, n - 1))
        /\ Len(SubSeq(OpenSections, 1, n - 1)) = n - 1
        /\ \A k \in 1 .. n - 1 : SubSeq(OpenSections, 1, n - 1)[k] = OpenSections[k]
    BY <2>2, <2>5, PopSeq
  <2>7. IsSeq(OpenSections') /\ Len(OpenSections') = n - 1
    <3>1. (IsSeq(streams) => Len(OpenSections) = Len(streams) /\ IsSeq(OpenSections))'
      BY OpenLen, PTL
    <3> QED
      BY <2>3, <3>1
  <2>8. \A k \in 1 .. n - 1 : OpenSections'[k] = OpenSections[k]
    BY <2>2, <2>3 DEF OpenSections
  <2>9. OpenSections' = SubSeq(OpenSections, 1, n - 1)
    BY <2>6, <2>7, <2>8, SameSeq
  <2>10. C!Top = <<>>
    BY <1>1, <1>4, TopFacts, SectionsSeq DEF IsSeq
  <2>11. C!EndOfFile
    BY <2>1, <2>2, <2>5, <2>9, <2>10 DEF C!EndOfFile
  <2> QED
    BY <1>1, <2>4, <2>11 DEF C!Next
<1> QED
  BY <1>2, <1>3, <1>4
----------------------------------------------------------------------------
(***************************************************************************)
(* Guarded files. A file registers itself, by #pragma once or by defining  *)
(* the macro of its guard, in one activation of preprocess(); from then on *)
(* this is the only one that can print lines of it.                        *)
(***************************************************************************)
ByPragma(p) == fs[p][1].k = "ONCE"

Registered(p) == IF ByPragma(p) THEN p \in once ELSE macros[fs[p][1].n] # "none"

(* The stream s is in p just before the line that registers it.            *)
Entering(p, s) ==
  s.file = p /\ IF ByPragma(p) THEN s.pos = 0 ELSE s.enable /\ s.pos = 1

(* It is behind that line, where it can print.                             *)
Prints(p, s) ==
  s.file = p /\ IF ByPragma(p) THEN s.pos > 0
                ELSE s.enable /\ s.pos \in 2 .. Len(fs[p]) - 1

(* At most one stream prints lines of p, and those in order.               *)
OneReader(p) ==
  /\ \A k \in 1 .. Len(streams) :
       /\ streams[k].file = p => streams[k].filename = p
       /\ Entering(p, streams[k]) => ~ Registered(p)
       /\ Prints(p, streams[k]) => Registered(p)
       /\ \A l \in 1 .. Len(streams) : Prints(p, streams[k]) /\ Prints(p, streams[l]) => l = k
  /\ \A a \in 1 .. Len(out) : out[a][1] = p =>
       /\ Registered(p)
       /\ out[a][2] \in Nat
       /\ \A k \in 1 .. Len(streams) : Prints(p, streams[k]) => out[a][2] <= streams[k].pos
       /\ \A b \in 1 .. Len(out) : out[b][1] = p /\ out[b][2] = out[a][2] => b = a

(* Where the streams are in their files: all but the innermost one behind  *)
(* an #include.                                                            *)
InFiles ==
  /\ fs \in FileSystems
  /\ macros \in [Name -> {"none", "object", "function"}]
  /\ \A k \in 1 .. Len(streams) :
       /\ streams[k].file \in DOMAIN fs
       /\ streams[k].pos \in 0 .. Len(fs[streams[k].file])
       /\ streams[k].pos = 0 => streams[k].enable
  /\ \A k \in 1 .. Len(streams) - 1 :
       streams[k].pos > 0 /\ fs[streams[k].file][streams[k].pos].k = "INCLUDE"

GInv == PInv /\ InFiles /\ \A p \in DOMAIN fs : Guarded(p) => OneReader(p)

(* The lines of a guarded file.                                            *)
LEMMA GuardedLines ==
  ASSUME InFiles, NEW p \in DOMAIN fs, Guarded(p)
  PROVE  /\ Len(fs[p]) \in Nat \ {0}
         /\ \A a \in 1 .. Len(fs[p]) : fs[p][a].k # "LINE"
         /\ ~ ByPragma(p) =>
              /\ Len(fs[p]) > 2
              /\ fs[p][1].k = "IFNDEF" /\ fs[p][1].n \in Name
              /\ fs[p][2].k = "DEFINE" /\ fs[p][2].n = fs[p][1].n
              /\ fs[p][Len(fs[p])].k = "ENDIF"
              /\ \A a \in 3 .. Len(fs[p]) - 1 :
                   fs[p][a].k \notin CondKind \cup {"ELSE", "ELIF", "ENDIF"}
              /\ \A q \in DOMAIN fs : \A a \in DOMAIN fs[q] :
                   fs[q][a].k = "UNDEF" => fs[q][a].n # fs[p][1].n
<1>1. Len(fs[p]) \in Nat /\ DOMAIN fs[p] = 1 .. Len(fs[p])
  BY PreprocessorAssumption DEF InFiles
<1>2. \A a \in 1 .. Len(fs[p]) : fs[p][a].k # "LINE"
  BY <1>1 DEF Guarded
<1>3. CASE ByPragma(p)
  BY <1>1, <1>2, <1>3 DEF Guarded, ByPragma
<1>4. CASE ~ ByPragma(p)
  <2>1. /\ Len(fs[p]) > 2
        /\ fs[p][1].k = "IFNDEF"
        /\ fs[p][2].k = "DEFINE" /\ fs[p][2].n = fs[p][1].n
        /\ fs[p][Len(fs[p])].k = "ENDIF"
        /\ \A a \in 3 .. Len(fs[p]) - 1 :
             fs[p][a].k \notin CondKind \cup {"ELSE", "ELIF", "ENDIF"}
        /\ \A q \in DOMAIN fs : \A a \in DOMAIN fs[q] :
             fs[q][a].k = "UNDEF" => fs[q][a].n # fs[p][1].n
    BY <1>4 DEF Guarded, ByPragma
  <2>2. 1 \in DOMAIN fs[p]
    BY <1>1, <2>1
  <2>3. fs[p][1].n \in Name
    BY <2>1, <2>2, PreprocessorAssumption DEF InFiles
  <2> QED
    BY <1>1, <1>2, <1>4, <2>1, <2>3
<1> QED
  BY <1>3, <1>4

(* The line at hand.                                                       *)
LEMMA LineFacts ==
  ASSUME PInv, InFiles, HasLine
  PROVE  /\ Len(streams) \in Nat \ {0} /\ Top = streams[Len(streams)]
         /\ status = "run"
         /\ Top.file \in DOMAIN fs /\ Top.pos \in Nat
         /\ Top.pos = 0 => Top.enable
         /\ Top.enable \in BOOLEAN
         /\ Len(fs[Top.file]) \in Nat
         /\ DOMAIN fs[Top.file] = 1 .. Len(fs[Top.file])
         /\ Top.pos + 1 \in 1 .. Len(fs[Top.file])
         /\ Line = fs[Top.file][Top.pos + 1]
         /\ Line.k \in Kind
         /\ Line.k \in {"IFDEF", "IFNDEF", "DEFINE", "UNDEF"} => Line.n \in Name
<1>1. Len(streams) \in Nat \ {0} /\ Top = streams[Len(streams)] /\ Top.enable \in BOOLEAN
  BY TopFacts DEF Top, Nested
<1>2. /\ Top.file \in DOMAIN fs /\ Top.pos \in 0 .. Len(fs[Top.file])
      /\ Top.pos = 0 => Top.enable
  <2>1. Len(streams) \in 1 .. Len(streams)
    BY <1>1
  <2> QED
    BY <1>1, <2>1 DEF InFiles
<1>3. Len(fs[Top.file]) \in Nat /\ DOMAIN fs[Top.file] = 1 .. Len(fs[Top.file])
  BY <1>2, PreprocessorAssumption DEF InFiles
<1>4. status = "run" /\ Top.pos < Len(fs[Top.file]) /\ Line = fs[Top.file][Top.pos + 1]
  BY DEF HasLine, Line, Lines
<1>5. Top.pos + 1 \in DOMAIN fs[Top.file]
  BY <1>2, <1>3, <1>4
<1>6. /\ Line.k \in Kind
      /\ Line.k \in {"IFDEF", "IFNDEF", "DEFINE", "UNDEF"} => Line.n \in Name
  BY <1>2, <1>4, <1>5, PreprocessorAssumption DEF InFiles
<1> QED
  BY <1>1, <1>2, <1>3, <1>4, <1>5, <1>6

(* What a step does to the innermost stream, which becomes t, as far as it *)
(* matters to p.                                                           *)
Advances(p, t) ==
  /\ t.file = Top.file /\ t.pos \in Nat /\ t.pos > Top.pos
  /\ t.file = p => t.filename = p
  /\ Registered(p) => Registered(p)'
  /\ Prints(p, t) => Prints(p, Top) \/ (Entering(p, Top) /\ Registered(p)')
  /\ Entering(p, t) => ~ Registered(p)'

(* What it prints.                                                         *)
PrintsBehind(p, t) ==
  \/ out' = out
  \/ \E x : /\ out' = Append(out, x)
            /\ x[1] = p => Prints(p, Top) /\ x[2] \in Nat /\ x[2] > Top.pos /\ x[2] <= t.pos

(* The streams after the step: an #include opens another one.              *)
Streams(p, t) ==
  /\ Len(streams') \in Len(streams) .. Len(streams) + 1
  /\ \A k \in 1 .. Len(streams) - 1 : streams'[k] = streams[k]
  /\ streams'[Len(streams)] = t
  /\ Len(streams') > Len(streams) =>
       LET u == streams'[Len(streams) + 1]
       IN  /\ u.file = p => u.filename = p
           /\ Entering(p, u) => ~ Registered(p)'
           /\ ~ Prints(p, u)

(* Such a step leaves one reader.                                          *)
LEMMA OneReaderStep ==
  ASSUME GInv, HasLine, NEW p \in DOMAIN fs, Guarded(p), fs' = fs,
         NEW t, Advances(p, t), PrintsBehind(p, t), Streams(p, t)
  PROVE  OneReader(p)'
<1> DEFINE n == Len(streams)
<1>1. n \in Nat \ {0} /\ Top = streams[n] /\ n \in 1 .. n
  BY LineFacts DEF GInv
<1>2. OneReader(p) /\ InFiles /\ PInv /\ Top.pos \in Nat
  BY LineFacts DEF GInv
<1>3. \A k \in 1 .. n - 1 : ~ Entering(p, streams[k])
  <2> SUFFICES ASSUME NEW k \in 1 .. n - 1, Entering(p, streams[k]) PROVE FALSE
    OBVIOUS
  <2>1. streams[k].pos > 0 /\ fs[streams[k].file][streams[k].pos].k = "INCLUDE"
    BY <1>2 DEF InFiles
  <2>2. streams[k].file = p /\ (IF ByPragma(p) THEN streams[k].pos = 0 ELSE streams[k].pos = 1)
    BY DEF Entering
  <2>3. streams[k].pos = 1 /\ ~ ByPragma(p)
    BY <2>1, <2>2
  <2>4. fs[p][1].k = "IFNDEF"
    BY <1>2, <2>3, GuardedLines
  <2> QED
    BY <2>1, <2>2, <2>3, <2>4
<1>4. \A k \in 1 .. Len(streams') :
        \/ k \in 1 .. n - 1 /\ streams'[k] = streams[k]
        \/ k = n /\ streams'[k] = t
        \/ k = n + 1 /\ Len(streams') > n
  BY <1>1 DEF Streams
<1>5. ASSUME NEW k \in 1 .. Len(streams')
      PROVE  /\ streams'[k].file = p => streams'[k].filename = p
             /\ Entering(p, streams'[k]) => ~ Registered(p)'
             /\ Prints(p, streams'[k]) =>
                  /\ k \in 1 .. n
                  /\ Prints(p, streams[k]) \/ (k = n /\ Entering(p, Top))
                  /\ streams[k].pos <= streams'[k].pos
                  /\ Registered(p)'
  <2>1. CASE k \in 1 .. n - 1 /\ streams'[k] = streams[k]
    <3>1. k \in 1 .. n /\ streams[k].pos \in Int
      BY <1>1, <1>2, <2>1 DEF InFiles
    <3> QED
      BY <1>1, <1>2, <1>3, <2>1, <3>1 DEF Advances, OneReader
  <2>2. CASE k = n /\ streams'[k] = t
    BY <1>1, <1>2, <2>2 DEF Advances, OneReader
  <2>3. CASE k = n + 1 /\ Len(streams') > n
    BY <2>3 DEF Streams
  <2> QED
    BY <1>4, <2>1, <2>2, <2>3
<1>6. ASSUME NEW k \in 1 .. Len(streams'), NEW l \in 1 .. Len(streams'),
             Prints(p, streams'[k]), Prints(p, streams'[l])
      PROVE  l = k
  <2>1. CASE Entering(p, Top)
    <3>1. \A m \in 1 .. n : ~ Prints(p, streams[m])
      BY <1>1, <1>2, <2>1 DEF OneReader
    <3> QED
      BY <1>5, <1>6, <3>1
  <2>2. CASE ~ Entering(p, Top)
    BY <1>2, <1>5, <1>6, <2>2 DEF OneReader
  <2> QED
    BY <2>1, <2>2
<1>7. ASSUME NEW a \in 1 .. Len(out), out[a][1] = p
      PROVE  /\ Registered(p)' /\ out[a][2] \in Nat
             /\ \A k \in 1 .. Len(streams') : Prints(p, streams'[k]) => out[a][2] <= streams'[k].pos
             /\ Prints(p, Top) => out[a][2] <= Top.pos
             /\ \A b \in 1 .. Len(out) : out[b][1] = p /\ out[b][2] = out[a][2] => b = a
  <2>1. /\ Registered(p) /\ out[a][2] \in Nat
        /\ \A k \in 1 .. n : Prints(p, streams[k]) => out[a][2] <= streams[k].pos
        /\ \A b \in 1 .. Len(out) : out[b][1] = p /\ out[b][2] = out[a][2] => b = a
    BY <1>2, <1>7 DEF OneReader
  <2>2. ~ Entering(p, Top)
    BY <1>1, <1>2, <2>1 DEF OneReader
  <2>3. ASSUME NEW k \in 1 .. Len(streams'), Prints(p, streams'[k])
        PROVE  out[a][2] <= streams'[k].pos
    <3>1. k \in 1 .. n /\ Prints(p, streams[k]) /\ streams[k].pos <= streams'[k].pos
      BY <1>5, <2>2, <2>3
    <3>2. streams[k].pos \in Int /\ out[a][2] <= streams[k].pos
      BY <1>2, <2>1, <3>1 DEF InFiles
    <3>3. streams'[k].pos \in Int
      <4>1. CASE k \in 1 .. n - 1
        BY <3>2, <4>1 DEF Streams
      <4>2. CASE k = n
        BY <4>2 DEF Streams, Advances
      <4> QED
        BY <1>1, <3>1, <4>1, <4>2
    <3> QED
      BY <2>1, <3>1, <3>2, <3>3
  <2> QED
    BY <1>1, <2>1, <2>3 DEF Advances
<1>8. ASSUME NEW a \in 1 .. Len(out'), out'[a][1] = p
      PROVE  /\ Registered(p)' /\ out'[a][2] \in Nat
             /\ \A k \in 1 .. Len(streams') : Prints(p, streams'[k]) => out'[a][2] <= streams'[k].pos
             /\ \A b \in 1 .. Len(out') : out'[b][1] = p /\ out'[b][2] = out'[a][2] => b = a
  <2>1. CASE out' = out
    BY <1>7, <1>8, <2>1
  <2>2. CASE out' # out
    <3>1. PICK x : /\ out' = Append(out, x)
                   /\ x[1] = p => Prints(p, Top) /\ x[2] \in Nat /\ x[2] > Top.pos /\ x[2] <= t.pos
      BY <2>2 DEF PrintsBehind
    <3>2. /\ Len(out) \in Nat /\ Len(out') = Len(out) + 1
          /\ \A b \in 1 .. Len(out) : out'[b] = out[b]
          /\ out'[Len(out) + 1] = x
      BY <1>2, <3>1, AppendSeq DEF PInv, IsSeq
    <3>3. CASE a = Len(out) + 1
      <4>1. Prints(p, Top) /\ x[2] \in Nat /\ x[2] > Top.pos /\ x[2] <= t.pos /\ out'[a] = x
        BY <1>8, <3>1, <3>2, <3>3
      <4>2. Registered(p)'
        BY <1>1, <1>2, <4>1 DEF OneReader, Advances
      <4>3. ASSUME NEW k \in 1 .. Len(streams'), Prints(p, streams'[k])
            PROVE  out'[a][2] <= streams'[k].pos
        <5>1. k \in 1 .. n /\ (Prints(p, streams[k]) \/ (k = n /\ Entering(p, Top)))
          BY <1>5, <4>3
        <5>2. k = n
          BY <1>1, <1>2, <4>1, <5>1 DEF OneReader
        <5> QED
          BY <4>1, <5>2 DEF Streams
      <4>4. ASSUME NEW b \in 1 .. Len(out'), out'[b][1] = p, out'[b][2] = out'[a][2]
            PROVE  b = a
        <5>1. CASE b \in 1 .. Len(out)
          BY <1>2, <1>7, <3>2, <4>1, <4>4, <5>1
        <5> QED
          BY <3>2, <3>3, <5>1
      <4> QED
        BY <4>1, <4>2, <4>3, <4>4
    <3>4. CASE a \in 1 .. Len(out)
      <4>1. ASSUME NEW b \in 1 .. Len(out'), out'[b][1] = p, out'[b][2] = out'[a][2]
            PROVE  b = a
        <5>1. CASE b \in 1 .. Len(out)
          BY <1>7, <1>8, <3>2, <3>4, <4>1, <5>1
        <5>2. CASE b = Len(out) + 1
          BY <1>2, <1>7, <1>8, <3>1, <3>2, <3>4, <4>1, <5>2
        <5> QED
          BY <3>2, <5>1, <5>2
      <4> QED
        BY <1>7, <1>8, <3>2, <3>4, <4>1
    <3> QED
      BY <3>2, <3>3, <3>4
  <2> QED
    BY <2>1, <2>2
<1>9. /\ \A k : Prints(p, streams[k])' <=> Prints(p, streams'[k])
      /\ \A k : Entering(p, streams[k])' <=> Entering(p, streams'[k])
  BY DEF Prints, Entering, ByPragma
<1>10. \A k \in 1 .. Len(streams') :
         /\ (streams[k].file = p => streams[k].filename = p)'
         /\ (Entering(p, streams[k]) => ~ Registered(p))'
         /\ (Prints(p, streams[k]) => Registered(p))'
         /\ \A l \in 1 .. Len(streams') :
              (Prints(p, streams[k]) /\ Prints(p, streams[l]) => l = k)'
  BY <1>5, <1>6, <1>9
<1> QED
  BY <1>8, <1>9, <1>10 DEF OneReader

(* The streams stay in their files.                                        *)
LEMMA InFilesStep ==
  ASSUME GInv, HasLine, fs' = fs, macros' \in [Name -> {"none", "object", "function"}],
         NEW t, t.file = Top.file, t.pos \in Top.pos + 1 .. Len(Lines), streams' = Put(t)
  PROVE  InFiles'
<1> DEFINE n == Len(streams)
<1>1. n \in Nat \ {0} /\ InFiles /\ PInv /\ Top.file \in DOMAIN fs /\ Top.pos \in Nat
  BY LineFacts DEF GInv
<1>2. /\ Len(streams') = n
      /\ \A k \in 1 .. n - 1 : streams'[k] = streams[k]
      /\ streams'[n] = t
  BY <1>1, PutSeqValue DEF PInv, Put
<1>3. ASSUME NEW k \in 1 .. n
      PROVE  /\ streams'[k].file \in DOMAIN fs
             /\ streams'[k].pos \in 0 .. Len(fs[streams'[k].file])
             /\ streams'[k].pos = 0 => streams'[k].enable
  <2>1. CASE k = n
    <3>1. t.pos \in 0 .. Len(Lines) /\ t.pos # 0
      BY <1>1
    <3> QED
      BY <1>1, <1>2, <2>1, <3>1 DEF Lines
  <2>2. CASE k # n
    BY <1>1, <1>2, <2>2 DEF InFiles
  <2> QED
    BY <2>1, <2>2
<1>4. \A k \in 1 .. n - 1 :
        streams'[k].pos > 0 /\ fs[streams'[k].file][streams'[k].pos].k = "INCLUDE"
  BY <1>1, <1>2 DEF InFiles
<1> QED
  BY <1>1, <1>2, <1>3, <1>4 DEF InFiles

(* The file and the place in it after Read.                                *)
LEMMA ReadAt ==
  ASSUME PInv, NEW n
  PROVE  Read(n).file = Top.file /\ Read(n).pos = Top.pos + n
<1>1. DOMAIN Top = Fields
  BY TopFacts DEF Nested
<1> HIDE DEF Top
<1> QED
  BY <1>1 DEF Read, Fields

(* Where in a guarded file the lines of each kind are.                     *)
LEMMA LineOfGuarded ==
  ASSUME GInv, HasLine, NEW p \in DOMAIN fs, Guarded(p), Top.file = p
  PROVE  /\ Line.k # "LINE"
         /\ ByPragma(p) /\ Top.pos = 0 => Line.k = "ONCE"
         /\ ~ ByPragma(p) =>
              /\ Top.pos = 0 => Line.k = "IFNDEF" /\ Line.n = fs[p][1].n
              /\ Top.pos = 1 => Line.k = "DEFINE" /\ Line.n = fs[p][1].n
              /\ Top.pos + 1 = Len(fs[p]) => Line.k = "ENDIF"
              /\ Top.pos > 1 /\ Top.pos + 1 < Len(fs[p]) =>
                   Line.k \notin CondKind \cup {"ELSE", "ELIF", "ENDIF"}
<1>1. /\ Top.pos \in Nat /\ Top.pos + 1 \in 1 .. Len(fs[p]) /\ Line = fs[p][Top.pos + 1]
      /\ InFiles
  BY LineFacts DEF GInv
<1>2. Line.k # "LINE" /\ Len(fs[p]) \in Nat
  BY <1>1, GuardedLines
<1>3. CASE ByPragma(p)
  <2>1. Top.pos = 0 => Line = fs[p][1]
    BY <1>1
  <2> QED
    BY <1>2, <1>3, <2>1 DEF ByPragma
<1>4. CASE ~ ByPragma(p)
  <2>1. /\ Len(fs[p]) > 2
        /\ fs[p][1].k = "IFNDEF"
        /\ fs[p][2].k = "DEFINE" /\ fs[p][2].n = fs[p][1].n
        /\ fs[p][Len(fs[p])].k = "ENDIF"
        /\ \A a \in 3 .. Len(fs[p]) - 1 :
             fs[p][a].k \notin CondKind \cup {"ELSE", "ELIF", "ENDIF"}
    BY <1>1, <1>4, GuardedLines
  <2>2. /\ Top.pos = 0 => Line = fs[p][1]
        /\ Top.pos = 1 => Line = fs[p][2]
        /\ Top.pos + 1 = Len(fs[p]) => Line = fs[p][Len(fs[p])]
    BY <1>1
  <2>3. Top.pos > 1 /\ Top.pos + 1 < Len(fs[p]) => Top.pos + 1 \in 3 .. Len(fs[p]) - 1
    BY <1>1, <1>2
  <2> QED
    BY <1>1, <1>2, <1>4, <2>1, <2>2, <2>3
<1> QED
  BY <1>3, <1>4

(* The text in a guarded file is behind the line that registers it.        *)
LEMMA TextPrints ==
  ASSUME GInv, HasLine, Line.k = "TEXT", Top.enable, NEW p \in DOMAIN fs, Guarded(p),
         Top.file = p
  PROVE  Prints(p, Top)
<1>1. Top.pos \in Nat /\ Top.pos + 1 \in 1 .. Len(fs[p]) /\ Len(fs[p]) \in Nat
  BY LineFacts DEF GInv
<1>2. ByPragma(p) => Top.pos # 0
  BY LineOfGuarded
<1>3. ~ ByPragma(p) => Top.pos # 0 /\ Top.pos # 1 /\ Top.pos + 1 # Len(fs[p])
  BY LineOfGuarded
<1>4. ~ ByPragma(p) => Top.pos \in 2 .. Len(fs[p]) - 1
  BY <1>1, <1>3
<1> QED
  BY <1>1, <1>2, <1>4 DEF Prints

(* How the innermost stream goes on, whatever the line is.                 *)
GoesOn(t) ==
  /\ t.file = Top.file
  /\ t.pos \in Nat /\ t.pos > Top.pos
  /\ Line.k # "LINE" => t.filename = Top.filename
  /\ Line.k # "TEXT" => t.pos = Top.pos + 1
  /\ Line.k \notin CondKind \cup {"ELSE", "ELIF", "ENDIF"} => t.enable = Top.enable
  /\ Line.k = "IFNDEF" /\ t.enable => macros'[Line.n] = "none"
  /\ Line.k = "DEFINE" /\ Top.enable => macros'[Line.n] # "none"
  /\ Line.k = "ONCE" /\ Top.enable => Top.filename \in once'

(* It does so as a guarded file needs it.                                  *)
LEMMA AdvanceStep ==
  ASSUME GInv, HasLine, fs' = fs, NEW p \in DOMAIN fs, Guarded(p), NEW t, GoesOn(t),
         Registered(p) => Registered(p)'
  PROVE  Advances(p, t)
<1>1. /\ Len(streams) \in Nat \ {0} /\ Top = streams[Len(streams)]
      /\ Top.pos \in Nat /\ Top.pos + 1 \in 1 .. Len(fs[Top.file]) /\ Len(fs[Top.file]) \in Nat
      /\ Top.pos = 0 => Top.enable
  BY LineFacts DEF GInv
<1>2. Top.file = p => Top.filename = p
  <2>1. Len(streams) \in 1 .. Len(streams)
    BY <1>1
  <2> QED
    BY <1>1, <2>1 DEF GInv, OneReader
<1>3. t.file = p => t.filename = p
  BY <1>2, LineOfGuarded DEF GoesOn
<1>4. /\ ByPragma(p)' <=> ByPragma(p)
      /\ ByPragma(p) => (Registered(p)' <=> p \in once')
      /\ ~ ByPragma(p) => (Registered(p)' <=> macros'[fs[p][1].n] # "none")
  BY DEF ByPragma, Registered
<1>5. ASSUME Prints(p, t) PROVE Prints(p, Top) \/ (Entering(p, Top) /\ Registered(p)')
  <2>1. t.file = p /\ Top.file = p
    BY <1>5 DEF Prints, GoesOn
  <2>2. CASE ByPragma(p) /\ Top.pos = 0
    <3>1. Line.k = "ONCE"
      BY <2>1, <2>2, LineOfGuarded
    <3>2. p \in once'
      BY <1>1, <1>2, <2>1, <2>2, <3>1 DEF GoesOn
    <3> QED
      BY <1>4, <2>1, <2>2, <3>2 DEF Entering
  <2>3. CASE ByPragma(p) /\ Top.pos # 0
    BY <1>1, <2>1, <2>3 DEF Prints
  <2>4. CASE ~ ByPragma(p)
    <3>1. t.enable /\ t.pos \in 2 .. Len(fs[p]) - 1
      BY <1>5, <2>4 DEF Prints
    <3>2. CASE Line.k = "TEXT"
      <4>1. t.enable = Top.enable
        BY <3>2 DEF GoesOn, CondKind
      <4> QED
        BY <2>1, <3>1, <3>2, <4>1, TextPrints
    <3>3. CASE Line.k # "TEXT"
      <4>1. t.pos = Top.pos + 1 /\ Top.pos \in 1 .. Len(fs[p]) - 2
        BY <1>1, <3>1, <3>3, <2>1 DEF GoesOn
      <4>2. CASE Top.pos = 1
        <5>1. Line.k = "DEFINE" /\ Line.n = fs[p][1].n
          BY <2>1, <2>4, <4>2, LineOfGuarded
        <5>2. Top.enable
          BY <3>1, <5>1 DEF GoesOn, CondKind
        <5>3. macros'[fs[p][1].n] # "none"
          BY <5>1, <5>2 DEF GoesOn
        <5> QED
          BY <1>4, <2>1, <2>4, <4>2, <5>2, <5>3 DEF Entering
      <4>3. CASE Top.pos # 1
        <5>1. Top.pos > 1 /\ Top.pos + 1 < Len(fs[p]) /\ Top.pos \in 2 .. Len(fs[p]) - 1
          BY <1>1, <2>1, <4>1, <4>3
        <5>2. Line.k \notin CondKind \cup {"ELSE", "ELIF", "ENDIF"}
          BY <2>1, <2>4, <5>1, LineOfGuarded
        <5>3. Top.enable
          BY <3>1, <5>2 DEF GoesOn
        <5> QED
          BY <2>1, <2>4, <5>1, <5>3 DEF Prints
      <4> QED
        BY <4>2, <4>3
    <3> QED
      BY <3>2, <3>3
  <2> QED
    BY <2>2, <2>3, <2>4
<1>6. ASSUME Entering(p, t) PROVE ~ Registered(p)'
  <2>1. t.file = p /\ Top.file = p /\ t.pos > Top.pos
    BY <1>6 DEF Entering, GoesOn
  <2>2. ~ ByPragma(p) /\ t.enable /\ t.pos = 1
    BY <1>1, <1>6, <2>1 DEF Entering
  <2>3. Top.pos = 0
    BY <1>1, <2>1, <2>2
  <2>4. Line.k = "IFNDEF" /\ Line.n = fs[p][1].n
    BY <2>1, <2>2, <2>3, LineOfGuarded
  <2> QED
    BY <1>4, <2>2, <2>4 DEF GoesOn
<1> QED
  BY <1>3, <1>5, <1>6 DEF Advances, GoesOn

(* Steps that leave the same streams open.                                 *)
LEMMA StayStep ==
  ASSUME GInv, PInv', HasLine, fs' = fs, macros' \in [Name -> {"none", "object", "function"}],
         NEW t, GoesOn(t), t.pos \in Top.pos + 1 .. Len(Lines), streams' = Put(t),
         \A p \in DOMAIN fs : Guarded(p) => /\ Registered(p) => Registered(p)'
                                            /\ PrintsBehind(p, t)
  PROVE  GInv'
<1>1. InFiles'
  BY InFilesStep DEF GoesOn
<1>2. ASSUME NEW p \in DOMAIN fs, Guarded(p)
      PROVE  OneReader(p)'
  <2>1. Advances(p, t)
    BY <1>2, AdvanceStep
  <2>2. Streams(p, t)
    <3>1. IsSeq(streams) /\ Len(streams) \in Nat \ {0}
      BY LineFacts DEF GInv, PInv
    <3>2. /\ Len(streams') = Len(streams)
          /\ \A k \in 1 .. Len(streams) - 1 : streams'[k] = streams[k]
          /\ streams'[Len(streams)] = t
      BY <3>1, PutSeqValue DEF Put
    <3> QED
      BY <3>1, <3>2 DEF Streams
  <2> QED
    BY <1>2, <2>1, <2>2, OneReaderStep
<1>3. \A p : Guarded(p)' <=> Guarded(p)
  BY DEF Guarded
<1> QED
  BY <1>1, <1>2, <1>3 DEF GInv

(* The macro of a guard and what is in the table of #pragma once stay.     *)
LEMMA StaysRegistered ==
  ASSUME GInv, fs' = fs, once \subseteq once', NEW p \in DOMAIN fs, Guarded(p),
         \A n \in Name : macros[n] # "none" /\ n = fs[p][1].n => macros'[n] # "none"
  PROVE  Registered(p) => Registered(p)'
<1>1. ~ ByPragma(p) => fs[p][1].n \in Name
  BY GuardedLines DEF GInv
<1>2. CASE ByPragma(p)
  BY <1>2 DEF Registered, ByPragma
<1>3. CASE ~ ByPragma(p)
  <2>1. macros[fs[p][1].n] # "none" => macros'[fs[p][1].n] # "none"
    BY <1>1, <1>3
  <2> QED
    BY <1>3, <2>1 DEF Registered, ByPragma
<1> QED
  BY <1>2, <1>3

(* Nothing changes.                                                        *)
LEMMA StutterGInv ==
  ASSUME GInv, PInv', UNCHANGED <<fs, streams, macros, once, out>>
  PROVE  GInv'
  BY DEF GInv, InFiles, Guarded, OneReader, Prints, Entering, Registered, ByPragma

(* #if, #else, #elif, #endif.                                              *)
LEMMA ConditionalGInv ==
  ASSUME GInv, PInv', If \/ Else \/ Elif \/ Endif
  PROVE  GInv'
<1>1. CASE Fails
  BY <1>1, StutterGInv DEF Fails
<1>2. CASE ~ Fails
  <2>1. /\ HasLine /\ Line.k \in CondKind \cup {"ELSE", "ELIF", "ENDIF"}
        /\ UNCHANGED <<fs, macros, once, out>>
    BY <1>2 DEF If, Else, Elif, Endif
  <2>2. DOMAIN Read(1) = Fields /\ Read(1).filename = Top.filename
        /\ Read(1).file = Top.file /\ Read(1).pos = Top.pos + 1
    BY ReadTop, ReadAt DEF GInv
  <2>3. \E t : /\ streams' = Put(t)
               /\ t.file = Top.file /\ t.pos = Top.pos + 1 /\ t.filename = Top.filename
               /\ Line.k = "IFNDEF" /\ t.enable => macros[Line.n] = "none"
    <3>1. CASE If
      <4> DEFINE t == [Read(1) EXCEPT
                         !.condstack = Append(@, [enable |-> Top.enable, satisfy |-> Top.satisfy]),
                         !.satisfy = IF Condition(Line) THEN 1 ELSE 0,
                         !.enable = Top.enable /\ Condition(Line)]
      <4>1. streams' = Put(t)
        BY <3>1 DEF If
      <4>2. /\ t.file = Top.file /\ t.pos = Top.pos + 1 /\ t.filename = Top.filename
            /\ t.enable = (Top.enable /\ Condition(Line))
        BY <2>2 DEF Fields
      <4>3. Line.k = "IFNDEF" /\ Condition(Line) => macros[Line.n] = "none"
        BY DEF Condition
      <4> HIDE DEF t
      <4> QED
        BY <4>1, <4>2, <4>3
    <3>2. CASE Else
      <4> DEFINE t == [Read(1) EXCEPT !.enable = ElseEnable, !.satisfy = 2]
      <4>1. streams' = Put(t) /\ Line.k = "ELSE"
        BY <1>2, <3>2 DEF Else
      <4>2. t.file = Top.file /\ t.pos = Top.pos + 1 /\ t.filename = Top.filename
        BY <2>2 DEF Fields
      <4> HIDE DEF t
      <4> QED
        BY <4>1, <4>2
    <3>3. CASE Elif
      <4> DEFINE c == Top.satisfy = 0 /\ Line.b
                 t == [Read(1) EXCEPT !.enable = ~ Top.enable /\ c /\ Saved.enable,
                                      !.satisfy = IF c THEN 1 ELSE @]
      <4>1. streams' = Put(t) /\ Line.k = "ELIF"
        BY <1>2, <3>3 DEF Elif
      <4>2. t.file = Top.file /\ t.pos = Top.pos + 1 /\ t.filename = Top.filename
        BY <2>2 DEF Fields
      <4> HIDE DEF t
      <4> QED
        BY <4>1, <4>2
    <3>4. CASE Endif
      <4> DEFINE t == [Read(1) EXCEPT !.enable = Saved.enable, !.satisfy = Saved.satisfy,
                                      !.condstack = SubSeq(@, 1, Len(@) - 1)]
      <4>1. streams' = Put(t) /\ Line.k = "ENDIF"
        BY <1>2, <3>4 DEF Endif
      <4>2. t.file = Top.file /\ t.pos = Top.pos + 1 /\ t.filename = Top.filename
        BY <2>2 DEF Fields
      <4> HIDE DEF t
      <4> QED
        BY <4>1, <4>2
    <3> QED
      BY <3>1, <3>2, <3>3, <3>4
  <2>4. PICK t : /\ streams' = Put(t)
                 /\ t.file = Top.file /\ t.pos = Top.pos + 1 /\ t.filename = Top.filename
                 /\ Line.k = "IFNDEF" /\ t.enable => macros[Line.n] = "none"
    BY <2>3
  <2>5. Top.pos \in Nat /\ t.pos \in Nat /\ t.pos > Top.pos /\ t.pos \in Top.pos + 1 .. Len(Lines)
    BY <2>1, <2>4, LineFacts DEF GInv, Lines
  <2>6. GoesOn(t)
    BY <2>1, <2>4, <2>5 DEF GoesOn, CondKind
  <2>7. \A p \in DOMAIN fs : Guarded(p) => /\ Registered(p) => Registered(p)'
                                           /\ PrintsBehind(p, t)
    BY <2>1, StaysRegistered DEF PrintsBehind
  <2>8. fs' = fs /\ macros' \in [Name -> {"none", "object", "function"}]
    BY <2>1 DEF GInv, InFiles
  <2> QED
    BY <2>1, <2>4, <2>5, <2>6, <2>7, <2>8, StayStep
<1> QED
  BY <1>1, <1>2

(* Directives that leave enable alone and print nothing.                   *)
LEMMA DirectiveGInv ==
  ASSUME GInv, PInv', Disabled \/ Define \/ Undef \/ Pragma \/ LineDirective
  PROVE  GInv'
<1>1. /\ HasLine /\ fs' = fs /\ out' = out
      /\ Line.k \notin CondKind \cup {"ELSE", "ELIF", "ENDIF", "TEXT"}
  BY DEF Disabled, Define, Undef, Pragma, LineDirective, Directive, CondKind
<1>2. \E t : /\ streams' = Put(t)
             /\ t.file = Top.file /\ t.pos = Top.pos + 1 /\ t.enable = Top.enable
             /\ Line.k # "LINE" => t.filename = Top.filename
  <2>1. /\ DOMAIN Read(1) = Fields /\ Read(1).filename = Top.filename
        /\ Read(1).enable = Top.enable
        /\ Read(1).file = Top.file /\ Read(1).pos = Top.pos + 1
    BY ReadTop, ReadAt DEF GInv
  <2>2. CASE streams' = Put(Read(1))
    BY <2>1, <2>2
  <2>3. CASE LineDirective
    <3> DEFINE t == [Read(1) EXCEPT !.filename = <<Main[1], Line.n>>, !.lineno = 0]
    <3>1. streams' = Put(t) /\ Line.k = "LINE"
      BY <2>3 DEF LineDirective, Directive
    <3>2. t.file = Top.file /\ t.pos = Top.pos + 1 /\ t.enable = Top.enable
      BY <2>1 DEF Fields
    <3> HIDE DEF t
    <3> QED
      BY <3>1, <3>2
  <2> QED
    BY <2>2, <2>3 DEF Disabled, Define, Undef, Pragma
<1>3. PICK t : /\ streams' = Put(t)
               /\ t.file = Top.file /\ t.pos = Top.pos + 1 /\ t.enable = Top.enable
               /\ Line.k # "LINE" => t.filename = Top.filename
  BY <1>2
<1>4. Top.pos \in Nat /\ t.pos \in Nat /\ t.pos > Top.pos /\ t.pos \in Top.pos + 1 .. Len(Lines)
  BY <1>1, <1>3, LineFacts DEF GInv, Lines
<1>5. /\ macros \in [Name -> {"none", "object", "function"}]
      /\ Line.k \in {"DEFINE", "UNDEF"} => Line.n \in Name
  BY <1>1, LineFacts DEF GInv, InFiles
<1>6. /\ macros' \in [Name -> {"none", "object", "function"}]
      /\ Line.k = "DEFINE" /\ Top.enable => macros'[Line.n] # "none"
      /\ \A n \in Name : macros[n] # "none" /\ ~ (Line.k = "UNDEF" /\ Line.n = n) => macros'[n] # "none"
  <2>1. CASE Define
    BY <1>5, <2>1 DEF Define, Directive
  <2>2. CASE Undef
    BY <1>5, <2>2 DEF Undef, Directive
  <2>3. CASE macros' = macros /\ (Line.k = "DEFINE" => ~ Top.enable)
    BY <1>5, <2>3
  <2> QED
    BY <2>1, <2>2, <2>3 DEF Disabled, Pragma, LineDirective, Directive
<1>7. /\ once \subseteq once'
      /\ Line.k = "ONCE" /\ Top.enable => Top.filename \in once'
  BY DEF Disabled, Define, Undef, Pragma, LineDirective, Directive
<1>8. GoesOn(t)
  BY <1>1, <1>3, <1>4, <1>6, <1>7 DEF GoesOn, CondKind
<1>9. ASSUME NEW p \in DOMAIN fs, Guarded(p), Registered(p)
      PROVE  Registered(p)'
  <2>1. CASE ByPragma(p)
    BY <1>1, <1>7, <1>9, <2>1 DEF Registered, ByPragma
  <2>2. CASE ~ ByPragma(p)
    <3>1. \A q \in DOMAIN fs : \A a \in DOMAIN fs[q] : fs[q][a].k = "UNDEF" => fs[q][a].n # fs[p][1].n
      BY <1>9, <2>2, GuardedLines DEF GInv
    <3>2. Line.k = "UNDEF" => Line.n # fs[p][1].n
      BY <1>1, <3>1, LineFacts DEF GInv
    <3>3. fs[p][1].n \in Name
      BY <1>9, <2>2, GuardedLines DEF GInv
    <3> QED
      BY <1>1, <1>6, <1>9, <2>2, <3>2, <3>3 DEF Registered, ByPragma
  <2> QED
    BY <2>1, <2>2
<1>10. \A p \in DOMAIN fs : Guarded(p) => /\ Registered(p) => Registered(p)'
                                          /\ PrintsBehind(p, t)
  BY <1>1, <1>9 DEF PrintsBehind
<1> QED
  BY <1>1, <1>3, <1>4, <1>6, <1>8, <1>10, StayStep

(* match2 stops in the file.                                               *)
LEMMA LastReadIs ==
  ASSUME GInv, HasLine
  PROVE  LastRead(Top.pos + 1) \in Top.pos + 1 .. Len(Lines)
<1> DEFINE n == Len(Lines)
           first == Top.pos + 1
           T == {k \in first .. n : ~ EndsInFunction(k) \/ k = n}
<1>1. n \in Nat /\ first \in Nat /\ first <= n
  BY LineFacts DEF GInv, Lines
<1> HIDE DEF n, first
<1>2. T \in SUBSET Nat /\ n \in T
  BY <1>1
<1>3. PICK k \in T : \A j \in T : k <= j
  <2> HIDE DEF T
  <2> QED
    BY <1>2, LeastNat
<1>4. k \in first .. n /\ (\A j \in first .. k - 1 : EndsInFunction(j)) /\ (~ EndsInFunction(k) \/ k = n)
  BY <1>1, <1>3
<1>5. LastRead(first) \in first .. n
  BY <1>4 DEF LastRead, n
<1> QED
  BY <1>5 DEF first, n

(* A line of text is behind all the lines of the file printed before.      *)
LEMMA TextGInv ==
  ASSUME GInv, PInv', Text
  PROVE  GInv'
<1>1. HasLine /\ Line.k = "TEXT" /\ UNCHANGED <<fs, macros, once>>
  BY DEF Text
<1>2. Top.pos \in Nat /\ Top.pos + 1 \in 1 .. Len(Lines) /\ Len(Lines) \in Nat
  BY <1>1, LineFacts DEF GInv, Lines
<1>3. \E m \in Nat \ {0} :
        /\ Top.pos + m <= Len(Lines)
        /\ streams' = Put(Read(m))
        /\ out' = out \/ (Top.enable /\ \E x : /\ out' = Append(out, x)
                                              /\ x[1] = Top.file /\ x[2] = Top.pos + 1)
  <2>1. CASE Top.enable
    <3>1. LastRead(Top.pos + 1) \in Top.pos + 1 .. Len(Lines)
      BY <1>1, LastReadIs
    <3>2. PICK m : m = LastRead(Top.pos + 1) - (Top.pos + 1) + 1
      OBVIOUS
    <3>3. m \in Nat \ {0} /\ Top.pos + m <= Len(Lines)
      BY <1>2, <3>1, <3>2
    <3>4. streams' = Put(Read(m)) /\ out' = Append(out, <<Top.file, Top.pos + 1, LastRead(Top.pos + 1)>>)
      BY <2>1, <3>2 DEF Text
    <3>5. PICK x : x = <<Top.file, Top.pos + 1, LastRead(Top.pos + 1)>>
      OBVIOUS
    <3>6. x[1] = Top.file /\ x[2] = Top.pos + 1
      BY <3>5
    <3> QED
      BY <2>1, <3>3, <3>4, <3>5, <3>6
  <2>2. CASE ~ Top.enable
    <3>1. streams' = Put(Read(1)) /\ out' = out
      BY <2>2 DEF Text
    <3> QED
      BY <1>2, <3>1
  <2> QED
    BY <2>1, <2>2
<1>4. PICK m \in Nat \ {0} :
        /\ Top.pos + m <= Len(Lines)
        /\ streams' = Put(Read(m))
        /\ out' = out \/ (Top.enable /\ \E x : /\ out' = Append(out, x)
                                              /\ x[1] = Top.file /\ x[2] = Top.pos + 1)
  BY <1>3
<1>5. PICK t : t = Read(m)
  OBVIOUS
<1>6. /\ t.file = Top.file /\ t.pos = Top.pos + m /\ t.filename = Top.filename
      /\ t.enable = Top.enable
  BY <1>5, ReadTop, ReadAt DEF GInv
<1>7. /\ t.pos \in Nat /\ t.pos > Top.pos /\ t.pos \in Top.pos + 1 .. Len(Lines)
      /\ Top.pos + 1 <= t.pos
  BY <1>2, <1>4, <1>6
<1>8. GoesOn(t)
  BY <1>1, <1>6, <1>7 DEF GoesOn, CondKind
<1>9. ASSUME NEW p \in DOMAIN fs, Guarded(p)
      PROVE  PrintsBehind(p, t)
  <2>1. CASE out' = out
    BY <2>1 DEF PrintsBehind
  <2>2. CASE out' # out
    <3>1. PICK x : Top.enable /\ out' = Append(out, x) /\ x[1] = Top.file /\ x[2] = Top.pos + 1
      BY <1>4, <2>2
    <3>2. x[1] = p => Prints(p, Top)
      BY <1>1, <1>9, <3>1, TextPrints
    <3>3. x[2] \in Nat /\ x[2] > Top.pos /\ x[2] <= t.pos
      BY <1>2, <1>7, <3>1
    <3> QED
      BY <3>1, <3>2, <3>3 DEF PrintsBehind
  <2> QED
    BY <2>1, <2>2
<1>10. \A p \in DOMAIN fs : Guarded(p) => /\ Registered(p) => Registered(p)'
                                          /\ PrintsBehind(p, t)
  BY <1>1, <1>9, StaysRegistered
<1>11. macros' \in [Name -> {"none", "object", "function"}]
  BY <1>1 DEF GInv, InFiles
<1> QED
  BY <1>1, <1>4, <1>5, <1>7, <1>8, <1>10, <1>11, StayStep

(* What handle_include finds is registered or is there.                    *)
LEMMA FoundIs ==
  ASSUME GInv, HasLine, Candidates # {}
  PROVE  Found \in once \/ Found \in DOMAIN fs
<1> DEFINE S == {SysDirs[d] : d \in DOMAIN SysDirs} \cup {Top.filename[1]}
<1>1. SysDirs \in Seq(S) /\ <<>> \in Seq(S) /\ <<Top.filename[1]>> \in Seq(S)
  BY PreprocessorAssumption
<1> HIDE DEF S
<1>2. SearchDirs \in Seq(S)
  BY <1>1, ConcatProperties DEF SearchDirs
<1>3. DOMAIN SearchDirs \in SUBSET Nat
  BY <1>2
<1>4. Candidates \in SUBSET Nat
  BY <1>3 DEF Candidates
<1>5. PICK d \in Candidates : \A e \in Candidates : d <= e
  BY <1>4, LeastNat
<1>6. PICK c : c = CHOOSE x \in Candidates : \A e \in Candidates : x <= e
  OBVIOUS
<1>7. c \in Candidates
  BY <1>5, <1>6
<1>8. Found = <<SearchDirs[c], Line.n>>
  BY <1>6 DEF Found
<1>9. <<SearchDirs[c], Line.n>> \in once \/ <<SearchDirs[c], Line.n>> \in DOMAIN fs
  BY <1>7 DEF Candidates
<1> QED
  BY <1>8, <1>9

(* A registered file is not opened again.                                  *)
LEMMA IncludeGInv ==
  ASSUME GInv, PInv', Include
  PROVE  GInv'
<1>1. HasLine /\ Line.k = "INCLUDE" /\ UNCHANGED <<macros, fs, once, out>>
  BY DEF Include, Directive, Fails
<1> DEFINE n == Len(streams)
<1>2. PICK t : t = Read(1)
  OBVIOUS
<1>3. /\ t.file = Top.file /\ t.pos = Top.pos + 1 /\ t.filename = Top.filename
      /\ t.enable = Top.enable
  BY <1>2, ReadTop, ReadAt DEF GInv
<1>4. /\ n \in Nat \ {0} /\ IsSeq(streams) /\ Top.pos \in Nat
      /\ t.pos \in Nat /\ t.pos > Top.pos /\ t.pos \in Top.pos + 1 .. Len(Lines)
      /\ t.pos \in 0 .. Len(fs[t.file]) /\ t.file \in DOMAIN fs /\ t.pos # 0
      /\ fs[t.file][t.pos] = Line
  BY <1>1, <1>3, LineFacts DEF GInv, PInv, Lines
<1>5. GoesOn(t)
  BY <1>1, <1>3, <1>4 DEF GoesOn, CondKind
<1>6. \A p \in DOMAIN fs : Guarded(p) => /\ Registered(p) => Registered(p)'
                                         /\ PrintsBehind(p, t)
  BY <1>1, StaysRegistered DEF PrintsBehind
<1>7. macros' \in [Name -> {"none", "object", "function"}]
  BY <1>1 DEF GInv, InFiles
<1>8. CASE streams' = Put(t)
  BY <1>1, <1>4, <1>5, <1>6, <1>7, <1>8, StayStep
<1>9. CASE streams' = streams
  BY <1>1, <1>9, StutterGInv
<1>10. CASE Candidates # {} /\ ~ registered_pragma_once(Found) /\ streams' = Append(Put(t), NewStream(Found))
  <2>1. PICK u : u = NewStream(Found)
    OBVIOUS
  <2>2. u.file = Found /\ u.filename = Found /\ u.pos = 0 /\ u.enable
    BY <2>1 DEF NewStream
  <2>3. Found \notin once /\ Found \in DOMAIN fs
    BY <1>1, <1>10, FoundIs DEF registered_pragma_once
  <2>4. /\ IsSeq(Put(t)) /\ Len(Put(t)) = n
        /\ \A k \in 1 .. n - 1 : Put(t)[k] = streams[k]
        /\ Put(t)[n] = t
    <3>1. PInv
      BY DEF GInv
    <3> QED
      BY <3>1, PutTop
  <2>5. /\ Len(streams') = n + 1
        /\ \A k \in 1 .. n : streams'[k] = Put(t)[k]
        /\ streams'[n + 1] = u
    BY <1>10, <2>1, <2>4, AppendSeq
  <2>6. /\ \A k \in 1 .. n - 1 : streams'[k] = streams[k]
        /\ streams'[n] = t
    BY <1>4, <2>4, <2>5
  <2>7. InFiles'
    <3>1. ASSUME NEW k \in 1 .. n + 1
          PROVE  /\ streams'[k].file \in DOMAIN fs
                 /\ streams'[k].pos \in 0 .. Len(fs[streams'[k].file])
                 /\ streams'[k].pos = 0 => streams'[k].enable
      <4>1. CASE k = n + 1
        <5>1. Len(fs[Found]) \in Nat
          BY <2>3, PreprocessorAssumption DEF GInv, InFiles
        <5> QED
          BY <2>2, <2>3, <2>5, <4>1, <5>1
      <4>2. CASE k = n
        BY <1>4, <2>6, <4>2
      <4>3. CASE k # n /\ k # n + 1
        <5>1. k \in 1 .. n - 1 /\ k \in 1 .. n
          BY <1>4, <4>3
        <5> QED
          BY <2>6, <5>1 DEF GInv, InFiles
      <4> QED
        BY <4>1, <4>2, <4>3
    <3>2. ASSUME NEW k \in 1 .. n
          PROVE  streams'[k].pos > 0 /\ fs[streams'[k].file][streams'[k].pos].k = "INCLUDE"
      <4>1. CASE k = n
        BY <1>1, <1>4, <2>6, <4>1
      <4>2. CASE k # n
        <5>1. k \in 1 .. n - 1
          BY <1>4, <4>2
        <5> QED
          BY <2>6, <5>1 DEF GInv, InFiles
      <4> QED
        BY <4>1, <4>2
    <3>3. (n + 1) - 1 = n /\ fs' = fs
      BY <1>1, <1>4
    <3> QED
      BY <1>1, <1>7, <2>5, <3>1, <3>2, <3>3 DEF GInv, InFiles
  <2>8. ASSUME NEW p \in DOMAIN fs, Guarded(p)
        PROVE  OneReader(p)'
    <3>1. Advances(p, t)
      BY <1>1, <1>5, <1>6, <2>8, AdvanceStep
    <3>2. ~ Prints(p, u)
      BY <2>2 DEF Prints
    <3>3. Entering(p, u) => ~ Registered(p)'
      BY <1>1, <2>2, <2>3 DEF Entering, Registered, ByPragma
    <3>4. Streams(p, t)
      <4>1. Len(streams') \in n .. n + 1
        BY <1>4, <2>5
      <4> QED
        BY <2>2, <2>5, <2>6, <3>2, <3>3, <4>1 DEF Streams
    <3> QED
      BY <1>1, <1>6, <2>8, <3>1, <3>4, OneReaderStep
  <2>9. \A p : Guarded(p)' <=> Guarded(p)
    BY <1>1 DEF Guarded
  <2> QED
    BY <1>1, <2>7, <2>8, <2>9 DEF GInv
<1> QED
  BY <1>2, <1>8, <1>9, <1>10 DEF Include, Fails

(* Going back closes a stream and opens none.                              *)
LEMMA EndOfFileGInv ==
  ASSUME GInv, PInv', EndOfFile
  PROVE  GInv'
<1>1. UNCHANGED <<fs, macros, once, out>>
  BY DEF EndOfFile, Fails
<1>2. CASE streams' = streams
  BY <1>1, <1>2, StutterGInv
<1>3. CASE streams' # streams
  <2> DEFINE n == Len(streams)
  <2>1. streams' = SubSeq(streams, 1, n - 1)
    BY <1>3 DEF EndOfFile, Fails
  <2>2. IsSeq(streams) /\ n \in Nat \ {0}
    BY TopFacts DEF GInv, PInv
  <2>3. Len(streams') = n - 1 /\ \A k \in 1 .. n - 1 : streams'[k] = streams[k] /\ k \in 1 .. n
    BY <2>1, <2>2, PopSeq
  <2>4. InFiles'
    <3>1. \A k \in 1 .. n - 2 : k \in 1 .. n - 1
      BY <2>2
    <3>2. (n - 1) - 1 = n - 2
      BY <2>2
    <3> QED
      BY <1>1, <2>3, <3>1, <3>2 DEF GInv, InFiles
  <2>5. ASSUME NEW p \in DOMAIN fs, OneReader(p)
        PROVE  OneReader(p)'
    <3>1. \A k \in 1 .. n - 1 : /\ Prints(p, streams[k])' <=> Prints(p, streams[k])
                                /\ Entering(p, streams[k])' <=> Entering(p, streams[k])
      BY <1>1, <2>3 DEF Prints, Entering, ByPragma
    <3>2. Registered(p)' <=> Registered(p)
      BY <1>1 DEF Registered, ByPragma
    <3> QED
      BY <1>1, <2>3, <2>5, <3>1, <3>2 DEF OneReader
  <2>6. \A p : Guarded(p)' <=> Guarded(p)
    BY <1>1 DEF Guarded
  <2> QED
    BY <1>1, <2>4, <2>5, <2>6 DEF GInv
<1> QED
  BY <1>2, <1>3
----------------------------------------------------------------------------
(***************************************************************************)
(* The theorems.                                                           *)
(***************************************************************************)
LEMMA InitFacts ==
  ASSUME PpInit
  PROVE  PInv /\ C!Init
<1> DEFINE s == [file |-> Main, filename |-> Main, pos |-> 0, lineno |-> 0,
                 condstack |-> <<>>, enable |-> TRUE, satisfy |-> 0, old_file_macro |-> NoFile]
<1>1. streams = <<s>>
  BY DEF PpInit
<1>2. /\ DOMAIN s = Fields
      /\ s.condstack = <<>> /\ s.enable /\ s.enable \in BOOLEAN /\ s.satisfy = 0 /\ s.filename = Main
  BY DEF Fields
<1> HIDE DEF s
<1>3. IsSeq(streams) /\ Len(streams) = 1 /\ streams[1] = s
  <2>1. streams \in Seq({s})
    BY <1>1
  <2> QED
    BY <1>1, <2>1 DEF IsSeq
<1>4. Nested(s) /\ SectionsOf(s) = <<>>
  <2>1. s.condstack \in Seq(Level) /\ Len(s.condstack) = 0
    BY <1>2
  <2>2. Levels(s)[1] = [enable |-> s.enable, satisfy |-> s.satisfy]
    BY <2>1, LevelsAre
  <2>3. Nested(s)
    BY <1>2, <2>1, <2>2 DEF Nested
  <2> QED
    BY <2>1, <2>3, SectionsSeq DEF IsSeq
<1>5. IsSeq(out) /\ out = <<>> /\ status = "run" /\ fileMacro = Main
  <2>1. out = <<>> /\ status = "run" /\ fileMacro = Main
    BY DEF PpInit
  <2>2. out \in Seq({})
    BY <2>1
  <2> QED
    BY <2>1, <2>2 DEF IsSeq
<1>6. PInv
  BY <1>2, <1>3, <1>4, <1>5 DEF PInv, Top
<1>7. OpenSections = <<<<>>>>
  <2>1. IsSeq(OpenSections) /\ Len(OpenSections) = 1 /\ OpenSections[1] = <<>>
    BY <1>3, <1>4, OpenLen DEF OpenSections
  <2> QED
    BY <2>1, SameSeq DEF IsSeq
<1> QED
  BY <1>5, <1>6, <1>7 DEF C!Init

(* Every step of preprocess keeps the invariant and is one of              *)
(* Conditionals, or a stutter.                                             *)
LEMMA NextFacts ==
  ASSUME PInv, [PpNext]_vars
  PROVE  PInv' /\ [C!Next]_(C!vars)
<1>1. CASE If
  BY <1>1, IfStep
<1>2. CASE Else
  BY <1>2, ElseStep
<1>3. CASE Elif
  BY <1>3, ElifStep
<1>4. CASE Endif
  BY <1>4, EndifStep
<1>5. CASE Include
  BY <1>5, IncludeStep
<1>6. CASE Disabled \/ Define \/ Undef \/ Pragma \/ LineDirective
  BY <1>6, DirectiveStep
<1>7. CASE ErrorDirective
  BY <1>7, FailStep DEF ErrorDirective, Directive, HasLine
<1>8. CASE Text
  BY <1>8, TextStep
<1>9. CASE EndOfFile
  BY <1>9, EndOfFileStep
<1>10. CASE UNCHANGED vars
  <2>1. PInv'
    BY <1>10 DEF vars, PInv, Top
  <2>2. UNCHANGED C!vars
    BY <1>10 DEF vars, C!vars, OpenSections
  <2> QED
    BY <2>1, <2>2
<1> QED
  BY <1>1, <1>2, <1>3, <1>4, <1>5, <1>6, <1>7, <1>8, <1>9, <1>10 DEF PpNext

(* For any files, the preprocessor prints the lines that conditional       *)
(* inclusion says: preprocess() implements Conditionals, every step being  *)
(* a step of it or none.                                                   *)
THEOREM ImplementsTheorem == PpSpec => ImplementsConditionals
<1>1. PpInit => PInv /\ C!Init
  BY InitFacts
<1>2. PInv /\ [PpNext]_vars => PInv' /\ [C!Next]_(C!vars)
  BY NextFacts
<1> QED
  BY <1>1, <1>2, PTL DEF PpSpec, ImplementsConditionals, C!Spec

(* For any files, __FILE__ is the name of the file that is being read      *)
(* whenever a line is.                                                     *)
THEOREM FileMacroTheorem == PpSpec => []FileMacroRight
<1>1. PpInit => PInv
  BY InitFacts
<1>2. PInv /\ [PpNext]_vars => PInv'
  BY NextFacts
<1>3. PInv => FileMacroRight
  BY DEF PInv, FileMacroRight
<1> QED
  BY <1>1, <1>2, <1>3, PTL DEF PpSpec

(* For any files, however they include one another and themselves, each    *)
(* line of a guarded file is printed once.                                 *)
THEOREM GuardedOnceTheorem == PpSpec => []GuardedOnce
<1>1. PpInit => GInv
  <2> SUFFICES ASSUME PpInit PROVE GInv
    OBVIOUS
  <2>1. PInv
    BY InitFacts
  <2>2. PICK s : s = [file |-> Main, filename |-> Main, pos |-> 0, lineno |-> 0,
                      condstack |-> <<>>, enable |-> TRUE, satisfy |-> 0,
                      old_file_macro |-> NoFile]
    OBVIOUS
  <2>3. s.file = Main /\ s.filename = Main /\ s.pos = 0 /\ s.enable
    BY <2>2
  <2>4. streams = <<s>> /\ out = <<>> /\ once = {} /\ fs \in FileSystems
    BY <2>2 DEF PpInit
  <2>5. Len(streams) = 1 /\ streams[1] = s /\ Len(out) = 0
    BY <2>4
  <2>6. Main \in DOMAIN fs /\ Len(fs[Main]) \in Nat
    BY <2>4, PreprocessorAssumption
  <2>7. macros \in [Name -> {"none", "object", "function"}]
    BY DEF PpInit
  <2>8. InFiles
    BY <2>3, <2>4, <2>5, <2>6, <2>7 DEF InFiles
  <2>9. ASSUME NEW p \in DOMAIN fs PROVE OneReader(p)
    <3>1. ~ Prints(p, s) /\ (Entering(p, s) => ~ Registered(p))
      BY <2>3, <2>4 DEF Prints, Entering, Registered
    <3> QED
      BY <2>3, <2>5, <3>1 DEF OneReader
  <2> QED
    BY <2>1, <2>8, <2>9 DEF GInv
<1>2. GInv /\ [PpNext]_vars => GInv'
  <2> SUFFICES ASSUME GInv, [PpNext]_vars PROVE GInv'
    OBVIOUS
  <2>1. PInv'
    BY NextFacts DEF GInv
  <2>2. CASE If \/ Else \/ Elif \/ Endif
    BY <2>1, <2>2, ConditionalGInv
  <2>3. CASE Disabled \/ Define \/ Undef \/ Pragma \/ LineDirective
    BY <2>1, <2>3, DirectiveGInv
  <2>4. CASE Include
    BY <2>1, <2>4, IncludeGInv
  <2>5. CASE Text
    BY <2>1, <2>5, TextGInv
  <2>6. CASE EndOfFile
    BY <2>1, <2>6, EndOfFileGInv
  <2>7. CASE ErrorDirective \/ UNCHANGED vars
    BY <2>1, <2>7, StutterGInv DEF ErrorDirective, Fails, vars
  <2> QED
    BY <2>2, <2>3, <2>4, <2>5, <2>6, <2>7 DEF PpNext
<1>3. GInv => GuardedOnce
  <2> SUFFICES ASSUME GInv, NEW a \in DOMAIN out, NEW b \in DOMAIN out, a # b,
                      out[a][1] \in DOMAIN fs, Guarded(out[a][1])
               PROVE  out[a] # out[b]
    BY DEF GuardedOnce
  <2>1. a \in 1 .. Len(out) /\ b \in 1 .. Len(out)
    BY DEF GInv, PInv, IsSeq
  <2>2. PICK p : p = out[a][1]
    OBVIOUS
  <2>3. OneReader(p)
    BY <2>2 DEF GInv
  <2>4. ~ (out[b][1] = p /\ out[b][2] = out[a][2])
    BY <2>1, <2>2, <2>3 DEF OneReader
  <2> QED
    BY <2>2, <2>4
<1> QED
  BY <1>1, <1>2, <1>3, PTL DEF PpSpec
=============================================================================
