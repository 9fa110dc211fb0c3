----------------------------- MODULE Collections -----------------------------
(***************************************************************************)
(* What several modules compute over collections, in a form that theorems  *)
(* can be proved about.                                                    *)
(*                                                                         *)
(* The sum of natural numbers over a finite set is counted instead of      *)
(* recursed: f[x] units for every x of S.  It is what a SELECT SUM(...) or *)
(* a Python sum(...) over rows returns, and in this form its laws follow   *)
(* from those of Cardinality (WalletProofs).  The elements of a list that  *)
(* are in a set are what a comprehension [x for x in s if ...] or a loop   *)
(* that skips the others returns (its laws are in PriceProofs).            *)
(***************************************************************************)
EXTENDS Integers, Sequences, FiniteSets

Units(f, S) == UNION {{x} \X (1..f[x]) : x \in S}

Total(f, S) == Cardinality(Units(f, S))

Only(s, S) ==
  LET f[n \in 0..Len(s)] ==
        IF n = 0 THEN <<>> ELSE IF s[n] \in S THEN Append(f[n - 1], s[n]) ELSE f[n - 1]
  IN  f[Len(s)]
=============================================================================
