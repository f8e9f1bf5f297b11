SPECIFICATION Spec
CONSTANTS
  Programs <- MCPrograms
  Memories <- MCMemories
  Answers <- MCAnswers
  MinRegSizes <- MCMinRegSizes
INVARIANTS
  ConstraintsDiagnosed
  ExpressionMeansAsC
  FieldsApart
  InitializedAsC
CHECK_DEADLOCK FALSE
