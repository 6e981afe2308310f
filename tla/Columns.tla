------------------------------- MODULE Columns -------------------------------
(***************************************************************************)
(* NULL in a column, and reading the first of several that is not.         *)
(***************************************************************************)
EXTENDS Integers, FiniteSetsExt

CONSTANT Null

When(condition, value) == IF condition THEN value ELSE Null

FirstStated(s) ==
  LET stated == {i \in DOMAIN s : s[i] # Null} IN
  IF stated = {} THEN Null ELSE s[Min(stated)]

=============================================================================
