------------------------------ MODULE Results ------------------------------
(***************************************************************************)
(* The functions of the compilers that are modelled as operators return    *)
(* several results in one record.                                          *)
(***************************************************************************)
EXTENDS Integers, Sequences

\* F of a result v that is used more than once.  TLC computes v when it meets
\* v = v, and binds what it computed.
With(v, F(_)) == IF v = v THEN F(v) ELSE F(v)

\* The same, but v is computed only if F comes to need it.
Where(v, F(_)) == F(v)

\* The result of op on x and the elements of s one after the other; each is
\* computed before op begins on the next.  FoldLeft for long sequences: half of
\* s after the other, for a depth TLC's stack has room for.
Stepwise(op(_, _), x, s) ==
  LET RECURSIVE part(_, _, _)
      part(y, i, j) ==
        CASE i > j -> y
          [] i = j -> op(y, s[i])
          [] i < j -> With(part(y, i, (i + j) \div 2), LAMBDA z : part(z, (i + j) \div 2 + 1, j))
  IN  part(x, 1, Len(s))
=============================================================================
