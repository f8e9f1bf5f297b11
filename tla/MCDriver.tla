------------------------------ MODULE MCDriver ------------------------------
(***************************************************************************)
(* Models of Driver for TLC.                                               *)
(***************************************************************************)
EXTENDS Driver

(* One to two sources of every kind: a second C source is compiled with    *)
(* the descriptors and children that the first one left behind.            *)
MCSourceLists ==
  {<<"Clanguage">>, <<"Assembly">>, <<"Unknown">>,
   <<"Clanguage", "Clanguage">>, <<"ObjectFile", "Clanguage">>,
   <<"Assembly", "Clanguage">>, <<"Clanguage", "Assembly">>}

MCAllOutTypes == OutType

MCAllFaults == Fault
============================================================================
