-------------------------- MODULE WalletRefinement --------------------------
(***************************************************************************)
(* The wallet of Wallet implements the account of PrepaidAccount: what is  *)
(* held is the sum over the open bills, what is spent the sum over the     *)
(* settled ones, and what is free the balance less the holds.              *)
(***************************************************************************)
EXTENDS Wallet

ChargesIn(b, k) == {r \in Requests : b[r].state = "settled" /\ b[r].key = k}
SpentIn(b, k) == Total([r \in Requests |-> b[r].charged], ChargesIn(b, k))
Spent(k) == SpentIn(bill, k)

Account == INSTANCE PrepaidAccount WITH
  paidIn <- [k \in Keys |-> credit[k] + Spent(k)],
  free   <- [k \in Keys |-> Available(k)],
  held   <- [k \in Keys |-> Held(k)],
  spent  <- [k \in Keys |-> Spent(k)]

\* Every transaction of the wallet, the recovery at startup included, is a
\* step of the abstract account or does not show there: money enters only by
\* a grant and leaves only by a charge against the request's own hold.
ImplementsAccount == Account!Spec
=============================================================================
