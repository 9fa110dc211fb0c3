--------------------------- MODULE PrepaidAccount ---------------------------
(***************************************************************************)
(* What the wallet promises the owner of a key, without requests, bills,   *)
(* expiry, call records or restarts: money paid in is either free, held    *)
(* for work in progress, or spent; it moves between the three only as      *)
(* below, and nothing else ever creates or destroys it.  Wallet implements *)
(* it (the refinement is stated in WalletRefinement).                      *)
(***************************************************************************)
EXTENDS Integers

CONSTANT Keys

VARIABLES
  paidIn,   \* all money ever granted to a key
  free,     \* what a new request may hold
  held,     \* set aside for open requests
  spent     \* charged and not given back

pvars == <<paidIn, free, held, spent>>

Init ==
  /\ paidIn = [k \in Keys |-> 0]
  /\ free = [k \in Keys |-> 0]
  /\ held = [k \in Keys |-> 0]
  /\ spent = [k \in Keys |-> 0]

\* Money comes in and is free.
PayIn(k) ==
  LET n == paidIn'[k] - paidIn[k]
  IN /\ n \in Nat \ {0}
     /\ paidIn' = [paidIn EXCEPT ![k] = @ + n]
     /\ free' = [free EXCEPT ![k] = @ + n]
     /\ UNCHANGED <<held, spent>>

\* A request sets aside part of what is free.
Authorise(k) ==
  \E n \in 1..free[k] :
    /\ free' = [free EXCEPT ![k] = @ - n]
    /\ held' = [held EXCEPT ![k] = @ + n]
    /\ UNCHANGED <<paidIn, spent>>

\* A request ends: of the n it held, m are spent and the rest is free again.
Capture(k) ==
  \E n \in 0..held[k] : \E m \in 0..n :
    /\ held' = [held EXCEPT ![k] = @ - n]
    /\ spent' = [spent EXCEPT ![k] = @ + m]
    /\ free' = [free EXCEPT ![k] = @ + (n - m)]
    /\ UNCHANGED paidIn

\* A charge is undone.
Refund(k) ==
  \E n \in 0..spent[k] :
    /\ spent' = [spent EXCEPT ![k] = @ - n]
    /\ free' = [free EXCEPT ![k] = @ + n]
    /\ UNCHANGED <<paidIn, held>>

\* Any number of holds, of any keys, are given back together.
Release ==
  /\ held' \in [Keys -> Nat]
  /\ \A k \in Keys : held'[k] <= held[k]
  /\ free' = [k \in Keys |-> free[k] + (held[k] - held'[k])]
  /\ UNCHANGED <<paidIn, spent>>

Next == Release \/ \E k \in Keys : PayIn(k) \/ Authorise(k) \/ Capture(k) \/ Refund(k)

Spec == Init /\ [][Next]_pvars

----------------------------------------------------------------------------
\* Money is conserved and no part of an account is ever negative.
Conserved ==
  /\ paidIn \in [Keys -> Nat] /\ free \in [Keys -> Nat]
  /\ held \in [Keys -> Nat] /\ spent \in [Keys -> Nat]
  /\ \A k \in Keys : paidIn[k] = free[k] + held[k] + spent[k]
=============================================================================
