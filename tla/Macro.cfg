SPECIFICATION Spec
CONSTANT Sources <- MCSources
INVARIANTS ExpandsAsC IfValueRight
