---------------------------- MODULE WalletProofs ----------------------------
(***************************************************************************)
(* Theorems about Wallet for any keys, requests, prices and budgets.       *)
(*                                                                         *)
(* Solvent alone is not inductive: that a settlement lowers the balance by *)
(* no more than it lowers the holds needs the key of every open bill to be *)
(* a key, and ExactCharge needs Solvent.  IInv is the strengthening.       *)
(* The second half is about the ledger: it agrees with the bills, a closed *)
(* bill stays closed, and an idempotency key credits once.  The last part  *)
(* shows that it implements the account of PrepaidAccount: there an open   *)
(* bill must have been charged nothing, which is a part of                 *)
(* BillMatchesLedger: else the reversal of a hold would create money.      *)
(***************************************************************************)
EXTENDS WalletRefinement, FiniteSetTheorems, TLAPS

\* Every bill that exists belongs to a key.
KeyOfBill == \A r \in Requests : bill[r].state # "none" => bill[r].key \in Keys

IInv == TypeOK /\ KeyOfBill /\ Solvent /\ ExactCharge

----------------------------------------------------------------------------
(* The laws of Total (Collections) that the proofs need.                   *)

\* n units of one x are n in number.
LEMMA UnitsOfOne ==
  ASSUME NEW x, NEW n \in Nat
  PROVE  IsFiniteSet({x} \X (1..n)) /\ Cardinality({x} \X (1..n)) = n
<1>1. IsFiniteSet({x}) /\ Cardinality({x}) = 1
  BY FS_Singleton
<1>2. IsFiniteSet(1..n) /\ Cardinality(1..n) = n
  BY FS_Interval
<1>3. Cardinality({x} \X (1..n)) = 1 * n
  BY <1>1, <1>2, FS_Product
<1>. QED  BY <1>1, <1>2, <1>3, FS_Product, SMTT(30)

\* The units of a finite set are finitely many, so a total is a natural number.
LEMMA TotalType ==
  ASSUME NEW f, NEW S, IsFiniteSet(S), \A x \in S : f[x] \in Nat
  PROVE  IsFiniteSet(Units(f, S)) /\ Total(f, S) \in Nat
<1>. DEFINE parts == {{x} \X (1..f[x]) : x \in S}
            g == [x \in S |-> {x} \X (1..f[x])]
<1>1. g \in Surjection(S, parts)
  BY DEF Surjection
<1>2. IsFiniteSet(parts)
  BY <1>1, FS_Surjection
<1>3. ASSUME NEW x \in S PROVE IsFiniteSet({x} \X (1..f[x]))
  <2>1. f[x] \in Nat
    OBVIOUS
  <2>. QED  BY <2>1, UnitsOfOne
<1>4. IsFiniteSet(UNION parts)
  BY <1>2, <1>3, FS_UNION
<1>. QED  BY <1>4, FS_CardinalityType DEF Units, Total

\* A total depends on f only where it is summed.
LEMMA TotalSame ==
  ASSUME NEW f, NEW g, NEW S, \A x \in S : f[x] = g[x]
  PROVE  Total(f, S) = Total(g, S)
BY DEF Total, Units

\* One more summand adds its value.
LEMMA TotalAdd ==
  ASSUME NEW f, NEW S, IsFiniteSet(S), \A x \in S : f[x] \in Nat,
         NEW y, y \notin S, f[y] \in Nat
  PROVE  Total(f, S \cup {y}) = Total(f, S) + f[y]
<1>1. Units(f, S \cup {y}) = Units(f, S) \cup ({y} \X (1..f[y]))
  BY DEF Units
<1>2. Units(f, S) \cap ({y} \X (1..f[y])) = {}
  BY DEF Units
<1>3. IsFiniteSet(Units(f, S)) /\ Total(f, S) \in Nat
  BY TotalType
<1>4. IsFiniteSet({y} \X (1..f[y])) /\ Cardinality({y} \X (1..f[y])) = f[y]
  BY UnitsOfOne
<1>5. Cardinality(Units(f, S) \cup ({y} \X (1..f[y])))
        = Cardinality(Units(f, S)) + f[y] - Cardinality({})
  BY <1>2, <1>3, <1>4, FS_Union
<1>6. Cardinality({}) = 0
  BY FS_EmptySet
<1>. DEFINE before == Cardinality(Units(f, S))
            after == Cardinality(Units(f, S \cup {y}))
<1>7. before \in Nat /\ after = before + f[y] - 0
  BY <1>1, <1>3, <1>5, <1>6 DEF Total
<1>8. after = before + f[y]
  <2>. HIDE DEF before, after
  <2>. QED  BY <1>7
<1>. QED  BY <1>8 DEF Total

\* Taking a summand out subtracts its value, which the total therefore covers.
LEMMA TotalRemove ==
  ASSUME NEW f, NEW S, IsFiniteSet(S), \A x \in S : f[x] \in Nat, NEW y \in S
  PROVE  /\ Total(f, S \ {y}) = Total(f, S) - f[y]
         /\ f[y] <= Total(f, S)
<1>1. IsFiniteSet(S \ {y})
  BY FS_RemoveElement
<1>2. Total(f, S \ {y}) \in Nat /\ Total(f, S) \in Nat
  BY <1>1, TotalType
<1>3. (S \ {y}) \cup {y} = S
  OBVIOUS
<1>4. Total(f, (S \ {y}) \cup {y}) = Total(f, S \ {y}) + f[y]
  BY <1>1, TotalAdd
<1>5. Total(f, S) = Total(f, S \ {y}) + f[y]
  BY <1>3, <1>4
<1>6. f[y] \in Nat
  OBVIOUS
<1>. QED  BY <1>2, <1>5, <1>6

\* Leaving summands out never increases a total.
LEMMA TotalSubset ==
  ASSUME NEW f, NEW S, IsFiniteSet(S), \A x \in S : f[x] \in Nat, NEW T \in SUBSET S
  PROVE  Total(f, T) <= Total(f, S)
<1>1. Units(f, T) \subseteq Units(f, S)
  BY DEF Units
<1>2. IsFiniteSet(Units(f, S))
  BY TotalType
<1>. QED  BY <1>1, <1>2, FS_Subset DEF Total

----------------------------------------------------------------------------
(* Lemmas about holds: b and c are the bills before and after a step.      *)

\* A key's holds are finitely many and their sum is a natural number.
LEMMA HeldType ==
  ASSUME NEW b \in [Requests -> Bills], NEW k \in Keys
  PROVE  /\ IsFiniteSet(HoldsIn(b, k))
         /\ \A r \in HoldsIn(b, k) : [q \in Requests |-> b[q].reserved][r] \in Nat
         /\ HeldIn(b, k) \in Nat
<1>1. IsFiniteSet(HoldsIn(b, k))
  BY RequestsAssumption, FS_Subset DEF HoldsIn
<1>2. \A r \in HoldsIn(b, k) : [q \in Requests |-> b[q].reserved][r] \in Nat
  BY DEF HoldsIn, Bills
<1>. QED  BY <1>1, <1>2, TotalType DEF HeldIn

\* A step that only closes bills, or leaves them as they are, never raises
\* what a key holds.
LEMMA HeldShrinks ==
  ASSUME NEW b \in [Requests -> Bills], NEW c \in [Requests -> Bills], NEW k \in Keys,
         \A r \in Requests : IsHeld(c[r]) =>
           IsHeld(b[r]) /\ c[r].key = b[r].key /\ c[r].reserved = b[r].reserved
  PROVE  HeldIn(c, k) <= HeldIn(b, k)
<1>. DEFINE f == [q \in Requests |-> b[q].reserved]
            g == [q \in Requests |-> c[q].reserved]
<1>1. HoldsIn(c, k) \in SUBSET HoldsIn(b, k)
  BY DEF HoldsIn
<1>2. \A r \in HoldsIn(c, k) : g[r] = f[r]
  BY DEF HoldsIn
<1>3. Total(g, HoldsIn(c, k)) = Total(f, HoldsIn(c, k))
  BY <1>2, TotalSame, ZenonT(60)
<1>4. Total(f, HoldsIn(c, k)) <= Total(f, HoldsIn(b, k))
  BY <1>1, HeldType, TotalSubset
<1>. QED  BY <1>3, <1>4 DEF HeldIn

\* Closing one bill returns exactly its hold to its key, and nothing to others.
LEMMA HeldCloses ==
  ASSUME NEW b \in [Requests -> Bills], NEW r \in Requests, IsHeld(b[r]),
         NEW x \in Bills, ~IsHeld(x), NEW k \in Keys
  PROVE  /\ b[r].key = k => /\ HeldIn([b EXCEPT ![r] = x], k) = HeldIn(b, k) - b[r].reserved
                            /\ b[r].reserved <= HeldIn(b, k)
         /\ b[r].key # k => HeldIn([b EXCEPT ![r] = x], k) = HeldIn(b, k)
<1>. DEFINE c == [b EXCEPT ![r] = x]
            f == [q \in Requests |-> b[q].reserved]
            g == [q \in Requests |-> c[q].reserved]
<1>1. c \in [Requests -> Bills]
  OBVIOUS
<1>2. HoldsIn(c, k) = HoldsIn(b, k) \ {r}
  BY DEF HoldsIn
<1>3. ASSUME NEW q \in HoldsIn(c, k) PROVE g[q] = f[q]
  <2>1. q \in Requests /\ q # r
    BY <1>2 DEF HoldsIn
  <2>. QED  BY <2>1
<1>4. Total(g, HoldsIn(c, k)) = Total(f, HoldsIn(b, k) \ {r})
  <2>. HIDE DEF c, f, g
  <2>1. Total(g, HoldsIn(c, k)) = Total(f, HoldsIn(c, k))
    BY <1>3, TotalSame
  <2>. QED  BY <1>2, <2>1
<1>5. CASE b[r].key = k
  <2>1. r \in HoldsIn(b, k)
    BY <1>5 DEF HoldsIn
  <2>2. /\ Total(f, HoldsIn(b, k) \ {r}) = Total(f, HoldsIn(b, k)) - f[r]
        /\ f[r] <= Total(f, HoldsIn(b, k))
    BY <2>1, HeldType, TotalRemove
  <2>3. f[r] = b[r].reserved
    OBVIOUS
  <2>. QED  BY <1>4, <1>5, <2>2, <2>3 DEF HeldIn
<1>6. CASE b[r].key # k
  <2>1. HoldsIn(b, k) \ {r} = HoldsIn(b, k)
    BY <1>6 DEF HoldsIn
  <2>. QED  BY <1>4, <1>6, <2>1 DEF HeldIn
<1>. QED  BY <1>5, <1>6

\* Opening a bill adds exactly its hold to its key, and nothing to others.
LEMMA HeldOpens ==
  ASSUME NEW b \in [Requests -> Bills], NEW r \in Requests, ~IsHeld(b[r]),
         NEW x \in Bills, IsHeld(x), NEW k \in Keys
  PROVE  HeldIn([b EXCEPT ![r] = x], k)
           = HeldIn(b, k) + (IF x.key = k THEN x.reserved ELSE 0)
<1>. DEFINE c == [b EXCEPT ![r] = x]
<1>1. c \in [Requests -> Bills] /\ c[r] = x
  OBVIOUS
<1>2. [c EXCEPT ![r] = b[r]] = b
  OBVIOUS
<1>3. b[r] \in Bills
  OBVIOUS
<1>4. /\ c[r].key = k => /\ HeldIn([c EXCEPT ![r] = b[r]], k) = HeldIn(c, k) - c[r].reserved
                         /\ c[r].reserved <= HeldIn(c, k)
      /\ c[r].key # k => HeldIn([c EXCEPT ![r] = b[r]], k) = HeldIn(c, k)
  <2>. HIDE DEF c
  <2>. QED  BY <1>1, <1>3, HeldCloses, ZenonT(60)
<1>5. HeldIn(c, k) \in Nat /\ HeldIn(b, k) \in Nat
  BY <1>1, HeldType
<1>6. x.reserved \in Nat
  BY DEF Bills
<1>. HIDE DEF c
<1>. QED  BY <1>1, <1>2, <1>4, <1>5, <1>6 DEF c

----------------------------------------------------------------------------
(* Type correctness, action by action                                      *)

\* The bills of TypeOK, after expire_reservations().
LEMMA ExpireType ==
  ASSUME bill \in [Requests -> Bills]
  PROVE  [r \in Requests |-> Expire(bill[r])] \in [Requests -> Bills]
<1>1. ASSUME NEW b \in Bills PROVE Expire(b) \in Bills
  BY DEF Expire, IsHeld, Bills, BillStates
<1>. QED  BY <1>1

\* A ledger row may be appended whenever the balance it records is an integer.
LEMMA CreditKeyType ==
  ASSUME TypeOK, NEW k \in Keys, NEW n \in Int, credit[k] + n >= 0,
         NEW kind \in {"grant", "usage", "reversal"},
         NEW ref \in GrantIds \cup Requests \cup Keys \cup {NoRef},
         CreditKey(k, n, kind, ref)
  PROVE  credit' \in [Keys -> Nat] /\ ledger' \in Seq(Entries)
<1>1. credit[k] \in Nat /\ credit[k] + n \in Nat
  BY DEF TypeOK
<1>2. credit' = [credit EXCEPT ![k] = credit[k] + n]
  BY DEF CreditKey
<1>3. credit' \in [Keys -> Nat]
  BY <1>1, <1>2 DEF TypeOK
<1>4. [key |-> k, kind |-> kind, ref |-> ref, amount |-> n, balance |-> credit[k] + n] \in Entries
  BY <1>1 DEF Entries
<1>5. ledger' \in Seq(Entries)
  BY <1>4 DEF CreditKey, TypeOK
<1>. QED  BY <1>3, <1>5

\* What settle() charges is covered by the hold and by the balance.
LEMMA ChargeBounds ==
  ASSUME TypeOK, NEW b \in Bills, b.key \in Keys, NEW quote \in Quotes
  PROVE  /\ Charge(b, quote) \in Nat
         /\ Charge(b, quote) <= credit[b.key]
         /\ Charge(b, quote) <= b.reserved
         /\ quote - Charge(b, quote) \in Nat
<1>1. quote \in Nat /\ b.reserved \in Nat /\ credit[b.key] \in Nat
  BY MoneyAssumption DEF Bills, TypeOK
<1>. QED  BY <1>1 DEF Charge, Least

LEMMA TypeInit == Init => TypeOK
BY NamesAssumption DEF Init, TypeOK, NoBill, Bills, BillStates, KeyStates, CallStates

\* Every transaction keeps the rows well formed and every balance a natural
\* number.
LEMMA TypeStep ==
  ASSUME TypeOK, KeyOfBill, [Next]_vars
  PROVE  TypeOK'
<1>0. bill \in [Requests -> Bills] /\ credit \in [Keys -> Nat]
  BY DEF TypeOK
<1>1. CASE UNCHANGED vars
  BY <1>1 DEF TypeOK, vars
<1>2. ASSUME NEW k \in Keys, NEW n \in Amounts \cup {0}, CreateKey(k, n)
      PROVE TypeOK'
  <2>1. n \in Nat
    BY MoneyAssumption
  <2>2. credit' \in [Keys -> Nat] /\ ledger' \in Seq(Entries)
    <3>1. CASE n > 0
      <4>1. CreditKey(k, n, "grant", k)
        BY <1>2, <3>1 DEF CreateKey
      <4>2. credit[k] + n >= 0 /\ n \in Int
        BY <1>0, <2>1
      <4>. QED  BY <4>1, <4>2, CreditKeyType
    <3>2. CASE ~(n > 0)
      BY <1>2, <3>2 DEF CreateKey, TypeOK
    <3>. QED  BY <3>1, <3>2
  <2>. QED  BY <1>2, <2>2 DEF CreateKey, TypeOK, KeyStates
<1>3. ASSUME NEW k \in Keys, DeleteKey(k) PROVE TypeOK'
  BY <1>3 DEF DeleteKey, TypeOK, KeyStates
<1>4. ASSUME NEW k \in Keys, RotateKey(k) PROVE TypeOK'
  BY <1>4 DEF RotateKey, TypeOK, KeyStates
<1>5. ASSUME NEW k \in Keys, NEW n \in Amounts, NEW g \in GrantIds \cup {NoRef}, Grant(k, n, g)
      PROVE TypeOK'
  <2>1. n \in Int /\ credit[k] + n >= 0
    BY <1>0, MoneyAssumption
  <2>2. credit' \in [Keys -> Nat] /\ ledger' \in Seq(Entries)
    BY <1>5, <2>1, CreditKeyType DEF Grant
  <2>. QED  BY <1>5, <2>2 DEF Grant, TypeOK
<1>6. ASSUME NEW r \in Requests, NEW k \in Keys, ReserveBegin(r, k) PROVE TypeOK'
  BY <1>0, <1>6, ExpireType DEF ReserveBegin, TypeOK
<1>7. ASSUME NEW r \in Requests, NEW cap \in Budgets, ReserveHold(r, cap) PROVE TypeOK'
  <2>. DEFINE k == reserving[r]
              budget == Least(Available(k), cap)
              new == [NoBill EXCEPT !.state = "reserved", !.key = k, !.reserved = budget]
  <2>1. k \in Keys
    BY <1>7 DEF ReserveHold, TypeOK
  <2>2. Available(k) \in Int /\ cap \in Nat
    BY <1>0, <2>1, HeldType, MoneyAssumption DEF Available, Held
  <2>3. budget \in Nat
    BY <1>7, <2>2 DEF ReserveHold, Least
  <2>4. new \in Bills
    <3>. HIDE DEF budget
    <3>. QED  BY <2>1, <2>3 DEF NoBill, Bills, BillStates
  <2>5. bill' = [bill EXCEPT ![r] = new]
    BY <1>7 DEF ReserveHold
  <2>. HIDE DEF new
  <2>. QED  BY <1>7, <2>4, <2>5 DEF ReserveHold, TypeOK
<1>8. ASSUME NEW r \in Requests, NEW cap \in Budgets, ReserveReturn(r, cap) PROVE TypeOK'
  BY <1>8 DEF ReserveReturn, TypeOK
<1>9. ASSUME NEW r \in Requests, SettleExpired(r) PROVE TypeOK'
  BY <1>9, ZenonT(60) DEF SettleExpired, TypeOK, Bills, BillStates
<1>10. ASSUME NEW r \in Requests, NEW outcome \in Outcomes, NEW dispatched \in BOOLEAN,
              SettleUnmetered(r, outcome, dispatched)
       PROVE TypeOK'
  <2>1. PICK s \in {"pending", "released"} : bill' = [bill EXCEPT ![r].state = s]
    BY <1>10, Zenon DEF SettleUnmetered
  <2>2. bill' \in [Requests -> Bills]
    BY <1>0, <2>1 DEF Bills, BillStates
  <2>. QED  BY <1>10, <2>2 DEF SettleUnmetered, TypeOK
<1>11. ASSUME NEW r \in Requests, NEW quote \in Quotes, SettleQuoted(r, quote) PROVE TypeOK'
  <2>. DEFINE b == bill[r]
              charged == Charge(b, quote)
              new == [b EXCEPT !.state = "settled", !.actual = quote,
                               !.charged = charged, !.absorbed = quote - charged]
  <2>1. b \in Bills /\ b.key \in Keys
    BY <1>0, <1>11 DEF SettleQuoted, KeyOfBill, IsHeld, OpenStates
  <2>2. charged \in Nat /\ charged <= credit[b.key] /\ quote - charged \in Nat
    BY <2>1, ChargeBounds
  <2>3. CreditKey(b.key, -charged, "usage", r)
    BY <1>11 DEF SettleQuoted
  <2>4. -charged \in Int /\ credit[b.key] + (-charged) >= 0
    <3>. HIDE DEF charged
    <3>. QED  BY <1>0, <2>1, <2>2
  <2>5. credit' \in [Keys -> Nat] /\ ledger' \in Seq(Entries)
    BY <2>1, <2>3, <2>4, CreditKeyType
  <2>6. new \in Bills
    <3>. HIDE DEF charged
    <3>. QED  BY <2>1, <2>2, MoneyAssumption DEF Bills, BillStates
  <2>7. bill' = [bill EXCEPT ![r] = new]
    BY <1>11 DEF SettleQuoted
  <2>. HIDE DEF new
  <2>. QED  BY <1>11, <2>5, <2>6, <2>7 DEF SettleQuoted, TypeOK
<1>12. ASSUME NEW r \in Requests, Reverse(r) PROVE TypeOK'
  <2>1. bill[r] \in Bills /\ bill[r].key \in Keys
    BY <1>0, <1>12 DEF Reverse, Reversible, KeyOfBill
  <2>2. bill[r].charged \in Int /\ credit[bill[r].key] + bill[r].charged >= 0
    BY <1>0, <2>1 DEF Bills
  <2>3. credit' \in [Keys -> Nat] /\ ledger' \in Seq(Entries)
    BY <1>12, <2>1, <2>2, CreditKeyType DEF Reverse
  <2>4. bill' \in [Requests -> Bills]
    BY <1>0, <1>12, <2>1 DEF Reverse, Bills, BillStates
  <2>. QED  BY <1>12, <2>3, <2>4 DEF Reverse, TypeOK
<1>13. ASSUME NEW r \in Requests, TimePasses(r) PROVE TypeOK'
  BY <1>13 DEF TimePasses, TypeOK, Bills
<1>14. ASSUME NEW r \in Requests, BeginCall(r) PROVE TypeOK'
  BY <1>14 DEF BeginCall, TypeOK, CallStates
<1>15. ASSUME NEW r \in Requests, NEW status \in Outcomes, FinalizeCall(r, status) PROVE TypeOK'
  BY <1>15 DEF FinalizeCall, TypeOK, CallStates
<1>16. CASE Restart
  BY <1>0, <1>16, ExpireType DEF Restart, TypeOK
<1>17. CASE RecoverCalls
  BY <1>17 DEF RecoverCalls, TypeOK, CallStates, Outcomes
<1>18. CASE ReleaseFailed
  BY <1>18, ZenonT(60) DEF ReleaseFailed, TypeOK, Bills, BillStates
<1>19. CASE PendFinished
  BY <1>19, ZenonT(60) DEF PendFinished, TypeOK, Bills, BillStates
<1>20. CASE ExpireReservations
  BY <1>0, <1>20, ExpireType DEF ExpireReservations, TypeOK
<1>. QED
  BY <1>1, <1>2, <1>3, <1>4, <1>5, <1>6, <1>7, <1>8, <1>9, <1>10, <1>11, <1>12,
     <1>13, <1>14, <1>15, <1>16, <1>17, <1>18, <1>19, <1>20
     DEF Next, Admin, Hold, Close, Calls, Startup

----------------------------------------------------------------------------
(* Solvency                                                                *)

\* What a step may do to bills without taking money from anyone: no bill is
\* opened, and an open bill that stays open keeps its key and its hold.
OnlyCloses(b, c) ==
  \A r \in Requests : IsHeld(c[r]) =>
    IsHeld(b[r]) /\ c[r].key = b[r].key /\ c[r].reserved = b[r].reserved

\* A bill that such a step changes does not become settled and keeps its key.
NoneSettles(b, c) ==
  \A r \in Requests :
    c[r] # b[r] => c[r].state # "settled" /\ c[r].key = b[r].key /\ b[r].state # "none"

\* Such a step on bills keeps the three facts, if no balance goes down.
LEMMA ClosingKeepsInv ==
  ASSUME IInv, TypeOK', OnlyCloses(bill, bill'), NoneSettles(bill, bill'),
         \A k \in Keys : credit[k] <= credit'[k]
  PROVE  IInv'
<1>1. KeyOfBill'
  BY DEF IInv, KeyOfBill, NoneSettles
<1>2. ExactCharge'
  BY DEF IInv, ExactCharge, NoneSettles
<1>3. ASSUME NEW k \in Keys PROVE HeldIn(bill', k) <= credit'[k]
  <2>1. /\ bill \in [Requests -> Bills] /\ bill' \in [Requests -> Bills]
        /\ credit[k] \in Nat /\ credit'[k] \in Nat
    BY DEF IInv, TypeOK
  <2>2. HeldIn(bill', k) <= HeldIn(bill, k)
    BY <2>1, HeldShrinks DEF OnlyCloses
  <2>3. HeldIn(bill, k) \in Nat /\ HeldIn(bill', k) \in Nat
    BY <2>1, HeldType
  <2>4. HeldIn(bill, k) <= credit[k]
    BY DEF IInv, Solvent, Held
  <2>. QED  BY <2>1, <2>2, <2>3, <2>4
<1>4. Solvent'
  BY <1>3 DEF Solvent, Held
<1>. QED  BY <1>1, <1>2, <1>4 DEF IInv

\* Balances only change by CreditKey, so they do not go down when n >= 0.
LEMMA CreditRaises ==
  ASSUME TypeOK, NEW k \in Keys, NEW n \in Nat, NEW kind, NEW ref, CreditKey(k, n, kind, ref)
  PROVE  \A q \in Keys : credit[q] <= credit'[q]
BY DEF CreditKey, TypeOK

LEMMA InvStep ==
  ASSUME IInv, [Next]_vars
  PROVE  IInv'
<1>0. /\ TypeOK /\ KeyOfBill /\ Solvent /\ ExactCharge /\ TypeOK'
      /\ bill \in [Requests -> Bills] /\ bill' \in [Requests -> Bills]
      /\ credit \in [Keys -> Nat] /\ credit' \in [Keys -> Nat]
  BY TypeStep DEF IInv, TypeOK
<1>1. ASSUME bill' = bill, \A k \in Keys : credit[k] <= credit'[k] PROVE IInv'
  BY <1>0, <1>1, ClosingKeepsInv DEF OnlyCloses, NoneSettles
<1>2. ASSUME bill' = [r \in Requests |-> Expire(bill[r])], credit' = credit PROVE IInv'
  <2>1. OnlyCloses(bill, bill')
    BY <1>2 DEF OnlyCloses, Expire, IsHeld
  <2>2. \A k \in Keys : credit[k] <= credit'[k]
    BY <1>0, <1>2
  <2>3. NoneSettles(bill, bill')
    BY <1>0, <1>2 DEF NoneSettles, Expire, IsHeld, OpenStates, Bills
  <2>. QED  BY <1>0, <2>1, <2>2, <2>3, ClosingKeepsInv
\* A bill moves to another state and nothing else of it changes.
<1>3. ASSUME NEW r \in Requests, NEW s \in BillStates \ {"settled"},
             bill' = [bill EXCEPT ![r].state = s],
             IsHeld(bill[r]) \/ (s = "reversed" /\ bill[r].state # "none"),
             \A k \in Keys : credit[k] <= credit'[k]
      PROVE IInv'
  <2>1. OnlyCloses(bill, bill')
    BY <1>0, <1>3 DEF OnlyCloses, IsHeld, OpenStates, Bills
  <2>2. NoneSettles(bill, bill')
    BY <1>0, <1>3 DEF NoneSettles, IsHeld, OpenStates, Bills
  <2>. QED  BY <1>0, <1>3, <2>1, <2>2, ClosingKeepsInv
<1>4. ASSUME NEW k \in Keys, NEW n \in Amounts \cup {0}, CreateKey(k, n) PROVE IInv'
  <2>1. n \in Nat
    BY MoneyAssumption
  <2>2. \A q \in Keys : credit[q] <= credit'[q]
    <3>1. CASE n > 0
      BY <1>0, <1>4, <2>1, <3>1, CreditRaises DEF CreateKey
    <3>2. CASE ~(n > 0)
      BY <1>0, <1>4, <3>2 DEF CreateKey
    <3>. QED  BY <3>1, <3>2
  <2>. QED  BY <1>1, <1>4, <2>2 DEF CreateKey
<1>5. ASSUME NEW k \in Keys, NEW n \in Amounts, NEW g \in GrantIds \cup {NoRef}, Grant(k, n, g)
      PROVE IInv'
  <2>1. \A q \in Keys : credit[q] <= credit'[q]
    BY <1>0, <1>5, MoneyAssumption, CreditRaises DEF Grant
  <2>. QED  BY <1>1, <1>5, <2>1 DEF Grant
<1>6. ASSUME NEW r \in Requests, NEW cap \in Budgets, ReserveHold(r, cap) PROVE IInv'
  <2>. DEFINE k == reserving[r]
              budget == Least(Available(k), cap)
              new == [NoBill EXCEPT !.state = "reserved", !.key = k, !.reserved = budget]
  <2>1. k \in Keys /\ bill[r].state = "none"
    BY <1>0, <1>6 DEF ReserveHold, TypeOK
  <2>2. HeldIn(bill, k) \in Nat /\ credit[k] \in Nat /\ cap \in Nat
    BY <1>0, <2>1, HeldType, MoneyAssumption
  <2>3. budget \in Nat /\ budget <= credit[k] - HeldIn(bill, k)
    BY <1>6, <2>2 DEF ReserveHold, Least, Available, Held
  <2>4. bill' = [bill EXCEPT ![r] = new] /\ credit' = credit
    BY <1>6 DEF ReserveHold
  <2>5. new \in Bills /\ new.state = "reserved" /\ new.key = k /\ new.reserved = budget
    <3>. HIDE DEF budget
    <3>. QED  BY <2>1, <2>3 DEF NoBill, Bills, BillStates
  <2>6. IsHeld(new) /\ ~IsHeld(bill[r])
    BY <2>1, <2>5 DEF IsHeld, OpenStates
  <2>. HIDE DEF new
  <2>7. ASSUME NEW q \in Keys PROVE HeldIn(bill', q) <= credit'[q]
    <3>1. HeldIn(bill', q) = HeldIn(bill, q) + (IF new.key = q THEN new.reserved ELSE 0)
      <4>1. HeldIn([bill EXCEPT ![r] = new], q)
              = HeldIn(bill, q) + (IF new.key = q THEN new.reserved ELSE 0)
        BY <1>0, <2>5, <2>6, HeldOpens
      <4>. QED  BY <2>4, <4>1
    <3>2. HeldIn(bill, q) \in Nat /\ credit[q] \in Nat /\ HeldIn(bill, q) <= credit[q]
      BY <1>0, HeldType DEF Solvent, Held
    <3>. HIDE DEF budget
    <3>3. CASE new.key = q
      BY <2>2, <2>3, <2>4, <2>5, <3>1, <3>2, <3>3
    <3>4. CASE new.key # q
      BY <2>4, <3>1, <3>2, <3>4
    <3>. QED  BY <3>3, <3>4
  <2>8. Solvent'
    BY <2>7 DEF Solvent, Held
  <2>9. KeyOfBill'
    BY <1>0, <2>1, <2>4, <2>5 DEF KeyOfBill
  <2>10. ExactCharge'
    BY <1>0, <2>4, <2>5 DEF ExactCharge
  <2>. QED  BY <1>0, <2>8, <2>9, <2>10 DEF IInv
<1>7. ASSUME NEW r \in Requests, NEW quote \in Quotes, SettleQuoted(r, quote) PROVE IInv'
  <2>. DEFINE b == bill[r]
              charged == Charge(b, quote)
              new == [b EXCEPT !.state = "settled", !.actual = quote,
                               !.charged = charged, !.absorbed = quote - charged]
  <2>1. b \in Bills /\ IsHeld(b) /\ b.key \in Keys
    BY <1>0, <1>7 DEF SettleQuoted, KeyOfBill, IsHeld, OpenStates
  <2>2. charged \in Nat /\ charged <= b.reserved /\ quote - charged \in Nat
    BY <1>0, <2>1, ChargeBounds
  <2>3. bill' = [bill EXCEPT ![r] = new]
    BY <1>7 DEF SettleQuoted
  <2>4. credit' = [credit EXCEPT ![b.key] = @ + (-charged)]
    BY <1>7 DEF SettleQuoted, CreditKey
  <2>5. /\ new \in Bills /\ ~IsHeld(new) /\ new.key = b.key /\ new.reserved = b.reserved
        /\ new.state = "settled" /\ new.actual = quote /\ new.charged = charged
        /\ new.absorbed = quote - charged
    <3>. HIDE DEF charged
    <3>. QED  BY <2>1, <2>2, MoneyAssumption DEF Bills, BillStates, IsHeld, OpenStates
  <2>6. b.reserved <= HeldIn(bill, b.key) /\ HeldIn(bill, b.key) <= credit[b.key]
    BY <1>0, <2>1, <2>5, HeldCloses DEF Solvent, Held
  <2>7. charged = Least(quote, b.reserved)
    <3>1. quote \in Nat /\ b.reserved \in Nat /\ credit[b.key] \in Nat /\ HeldIn(bill, b.key) \in Nat
      BY <1>0, <2>1, HeldType, MoneyAssumption DEF Bills
    <3>. QED  BY <2>6, <3>1 DEF Charge, Least
  <2>. HIDE DEF new, charged
  <2>8. ASSUME NEW q \in Keys PROVE HeldIn(bill', q) <= credit'[q]
    <3>1. /\ b.key = q => HeldIn(bill', q) = HeldIn(bill, q) - b.reserved
          /\ b.key # q => HeldIn(bill', q) = HeldIn(bill, q)
      <4>. DEFINE c == [bill EXCEPT ![r] = new]
      <4>1. /\ bill[r].key = q => HeldIn(c, q) = HeldIn(bill, q) - bill[r].reserved
            /\ bill[r].key # q => HeldIn(c, q) = HeldIn(bill, q)
        <5>1. new \in Bills /\ ~IsHeld(new)
          BY <2>5
        <5>2. bill \in [Requests -> Bills] /\ IsHeld(bill[r])
          BY <1>0, <2>1
        <5>. QED  BY <5>1, <5>2, HeldCloses
      <4>2. bill' = c
        BY <2>3
      <4>. QED  BY <4>1, <4>2
    <3>2. HeldIn(bill, q) \in Nat /\ credit[q] \in Nat /\ HeldIn(bill, q) <= credit[q]
      BY <1>0, HeldType DEF Solvent, Held
    <3>3. b.reserved \in Nat
      BY <2>1 DEF Bills
    <3>4. CASE b.key = q
      <4>1. credit'[q] = credit[q] + (-charged)
        BY <1>0, <2>1, <2>4, <3>4
      <4>2. HeldIn(bill', q) = HeldIn(bill, q) - b.reserved
        BY <3>1, <3>4
      <4>. HIDE DEF b
      <4>. QED  BY <2>2, <3>2, <3>3, <4>1, <4>2
    <3>5. CASE b.key # q
      BY <1>0, <2>4, <3>1, <3>2, <3>5
    <3>. QED  BY <3>4, <3>5
  <2>9. Solvent'
    BY <2>8 DEF Solvent, Held
  <2>10. KeyOfBill'
    BY <1>0, <2>1, <2>3, <2>5 DEF KeyOfBill
  <2>11. ExactCharge'
    BY <1>0, <2>3, <2>5, <2>7 DEF ExactCharge
  <2>. QED  BY <1>0, <2>9, <2>10, <2>11 DEF IInv
<1>8. ASSUME NEW r \in Requests, Reverse(r) PROVE IInv'
  <2>1. bill[r].key \in Keys /\ bill[r].charged \in Nat /\ bill[r].state # "none"
    BY <1>0, <1>8 DEF Reverse, Reversible, KeyOfBill, Bills
  <2>2. \A k \in Keys : credit[k] <= credit'[k]
    BY <1>0, <1>8, <2>1, CreditRaises DEF Reverse
  <2>3. bill' = [bill EXCEPT ![r].state = "reversed"]
    BY <1>8 DEF Reverse
  <2>. QED  BY <1>3, <2>1, <2>2, <2>3 DEF BillStates
<1>9. ASSUME NEW r \in Requests, NEW outcome \in Outcomes, NEW dispatched \in BOOLEAN,
             SettleUnmetered(r, outcome, dispatched)
      PROVE IInv'
  <2>1. PICK s \in {"pending", "released"} : bill' = [bill EXCEPT ![r].state = s]
    BY <1>9, Zenon DEF SettleUnmetered
  <2>2. IsHeld(bill[r]) /\ \A k \in Keys : credit[k] <= credit'[k]
    BY <1>0, <1>9 DEF SettleUnmetered
  <2>3. s \in BillStates \ {"settled"}
    BY DEF BillStates
  <2>. QED  BY <1>3, <2>1, <2>2, <2>3
<1>10. ASSUME NEW r \in Requests, SettleExpired(r) PROVE IInv'
  <2>1. bill' = [bill EXCEPT ![r].state = "released"] /\ IsHeld(bill[r])
    BY <1>10 DEF SettleExpired
  <2>2. \A k \in Keys : credit[k] <= credit'[k]
    BY <1>0, <1>10 DEF SettleExpired
  <2>3. "released" \in BillStates \ {"settled"}
    BY DEF BillStates
  <2>. QED  BY <1>3, <2>1, <2>2, <2>3
<1>11. ASSUME NEW r \in Requests, TimePasses(r) PROVE IInv'
  <2>1. /\ bill' = [bill EXCEPT ![r].expired = TRUE] /\ credit' = credit
        /\ IsHeld(bill[r])
    BY <1>11 DEF TimePasses
  <2>2. OnlyCloses(bill, bill')
    BY <1>0, <2>1 DEF OnlyCloses, IsHeld, Bills
  <2>3. NoneSettles(bill, bill')
    BY <1>0, <2>1 DEF NoneSettles, IsHeld, OpenStates, Bills
  <2>. QED  BY <1>0, <2>1, <2>2, <2>3, ClosingKeepsInv
<1>12. ASSUME ReleaseFailed \/ PendFinished PROVE IInv'
  <2>1. credit' = credit
    BY <1>12 DEF ReleaseFailed, PendFinished
  <2>2. \A r \in Requests :
          \/ bill'[r] = bill[r]
          \/ /\ bill[r].state = "reserved" /\ bill'[r].state \in {"released", "pending"}
             /\ bill'[r].key = bill[r].key /\ bill'[r].reserved = bill[r].reserved
    BY <1>0, <1>12 DEF ReleaseFailed, PendFinished, Bills
  <2>3. OnlyCloses(bill, bill') /\ NoneSettles(bill, bill')
    BY <2>2 DEF OnlyCloses, NoneSettles, IsHeld, OpenStates
  <2>. QED  BY <1>0, <2>1, <2>3, ClosingKeepsInv
<1>13. CASE UNCHANGED vars
  BY <1>0, <1>1, <1>13 DEF vars
<1>14. ASSUME NEW k \in Keys, DeleteKey(k) \/ RotateKey(k) PROVE IInv'
  BY <1>0, <1>1, <1>14 DEF DeleteKey, RotateKey
<1>15. ASSUME NEW r \in Requests, NEW k \in Keys, ReserveBegin(r, k) PROVE IInv'
  BY <1>2, <1>15 DEF ReserveBegin
<1>16. ASSUME NEW r \in Requests, NEW cap \in Budgets, ReserveReturn(r, cap) PROVE IInv'
  BY <1>0, <1>1, <1>16 DEF ReserveReturn
<1>17. ASSUME NEW r \in Requests, BeginCall(r) PROVE IInv'
  BY <1>0, <1>1, <1>17 DEF BeginCall
<1>18. ASSUME NEW r \in Requests, NEW status \in Outcomes, FinalizeCall(r, status) PROVE IInv'
  BY <1>0, <1>1, <1>18 DEF FinalizeCall
<1>19. CASE Restart \/ ExpireReservations
  BY <1>2, <1>19 DEF Restart, ExpireReservations
<1>20. CASE RecoverCalls
  BY <1>0, <1>1, <1>20 DEF RecoverCalls
<1>. QED
  BY <1>4, <1>5, <1>6, <1>7, <1>8, <1>9, <1>10, <1>11, <1>12, <1>13, <1>14, <1>15,
     <1>16, <1>17, <1>18, <1>19, <1>20
     DEF Next, Admin, Hold, Close, Calls, Startup

----------------------------------------------------------------------------
(* The theorems                                                            *)

\* The inductive invariant holds in every reachable state.
LEMMA Inductive == Spec => []IInv
<1>1. Init => IInv
  <2>. SUFFICES ASSUME Init PROVE IInv
    OBVIOUS
  <2>1. TypeOK
    BY TypeInit
  <2>2. KeyOfBill /\ ExactCharge
    BY DEF Init, KeyOfBill, ExactCharge, NoBill
  <2>3. ASSUME NEW k \in Keys PROVE HeldIn(bill, k) <= credit[k]
    <3>1. HoldsIn(bill, k) = {}
      BY DEF Init, HoldsIn, IsHeld, OpenStates, NoBill
    <3>2. HeldIn(bill, k) = Cardinality({})
      BY <3>1 DEF HeldIn, Total, Units
    <3>. QED  BY <3>2, FS_EmptySet DEF Init
  <2>. QED  BY <2>1, <2>2, <2>3 DEF IInv, Solvent, Held
<1>2. IInv /\ [Next]_vars => IInv'
  BY InvStep
<1>. QED  BY <1>1, <1>2, PTL DEF Spec

\* Rows keep their shape and no balance is ever negative, for any number of
\* keys, requests, prices and budgets.
THEOREM TypeCorrect == Spec => []TypeOK
<1>1. IInv => TypeOK
  BY DEF IInv
<1>. QED  BY <1>1, Inductive, PTL

\* The holds of a key never exceed its balance: what reserve() promises to a
\* request is never promised twice.
THEOREM SolventAlways == Spec => []Solvent
<1>1. IInv => Solvent
  BY DEF IInv
<1>. QED  BY <1>1, Inductive, PTL

\* Every settlement charges the price of the usage capped by its own hold
\* alone, whatever the other requests of the key did.
THEOREM ExactChargeAlways == Spec => []ExactCharge
<1>1. IInv => ExactCharge
  BY DEF IInv
<1>. QED  BY <1>1, Inductive, PTL

----------------------------------------------------------------------------
(* How the ledger grows                                                    *)

\* A balance changes together with one new row at the end of the ledger.
LEMMA CreditAppends ==
  ASSUME TypeOK, NEW k, NEW n, NEW kind, NEW ref, CreditKey(k, n, kind, ref)
  PROVE  /\ Len(ledger) + 1 \notin DOMAIN ledger
         /\ DOMAIN ledger' = DOMAIN ledger \cup {Len(ledger) + 1}
         /\ \A i \in DOMAIN ledger : ledger'[i] = ledger[i]
         /\ ledger'[Len(ledger) + 1].key = k
         /\ ledger'[Len(ledger) + 1].kind = kind
         /\ ledger'[Len(ledger) + 1].ref = ref
         /\ ledger'[Len(ledger) + 1].amount = n
<1>1. ledger \in Seq(Entries)
  BY DEF TypeOK
<1>2. ledger' = Append(ledger, [key |-> k, kind |-> kind, ref |-> ref,
                                amount |-> n, balance |-> credit[k] + n])
  BY DEF CreditKey
<1>. QED  BY <1>1, <1>2

----------------------------------------------------------------------------
(* Closed bills                                                            *)

\* No transaction reopens, recharges or rewrites a bill.
LEMMA ClosedStep ==
  ASSUME IInv, [Next]_vars, NEW r \in Requests
  PROVE  StaysClosed(r)
<1>0. bill \in [Requests -> Bills] /\ bill[r] \in Bills
  BY DEF IInv, TypeOK
<1>1. ASSUME bill' = bill PROVE StaysClosed(r)
  BY <1>0, <1>1 DEF StaysClosed
<1>2. ASSUME bill' = [q \in Requests |-> Expire(bill[q])] PROVE StaysClosed(r)
  BY <1>0, <1>2 DEF StaysClosed, Expire, IsHeld, OpenStates, Bills
\* A bill moves to another state and nothing else of it changes.
<1>3. ASSUME NEW q \in Requests, NEW s, bill' = [bill EXCEPT ![q].state = s],
             \/ s = "released" /\ IsHeld(bill[q])
             \/ s = "pending" /\ IsHeld(bill[q])
             \/ s = "reversed"  /\ Reversible(bill[q])
      PROVE StaysClosed(r)
  BY <1>0, <1>3 DEF StaysClosed, IsHeld, OpenStates, Bills, Reversible
<1>4. ASSUME NEW q \in Requests, NEW cap \in Budgets, ReserveHold(q, cap) PROVE StaysClosed(r)
  <2>1. bill'[r] = bill[r] \/ bill[r].state = "none"
    BY <1>0, <1>4 DEF ReserveHold
  <2>. QED  BY <2>1 DEF StaysClosed
<1>5. ASSUME NEW q \in Requests, NEW quote \in Quotes, SettleQuoted(q, quote) PROVE StaysClosed(r)
  <2>1. IsHeld(bill[q])
    BY <1>5 DEF SettleQuoted
  <2>2. CASE r = q
    <3>1. bill'[r].state = "settled" /\ bill'[r].key = bill[r].key
          /\ bill'[r].reserved = bill[r].reserved
      BY <1>0, <1>5, <2>2 DEF SettleQuoted, Bills
    <3>. QED  BY <2>1, <2>2, <3>1 DEF StaysClosed, IsHeld, OpenStates
  <2>3. CASE r # q
    <3>1. bill'[r] = bill[r]
      BY <1>0, <1>5, <2>3 DEF SettleQuoted
    <3>. QED  BY <3>1 DEF StaysClosed
  <2>. QED  BY <2>2, <2>3
<1>6. ASSUME NEW q \in Requests, Reverse(q) PROVE StaysClosed(r)
  BY <1>3, <1>6 DEF Reverse
<1>7. ASSUME NEW q \in Requests, NEW outcome \in Outcomes, NEW dispatched \in BOOLEAN,
             SettleUnmetered(q, outcome, dispatched)
      PROVE StaysClosed(r)
  <2>1. PICK s \in {"pending", "released"} : bill' = [bill EXCEPT ![q].state = s]
    BY <1>7, Zenon DEF SettleUnmetered
  <2>2. IsHeld(bill[q])
    BY <1>7 DEF SettleUnmetered
  <2>. QED  BY <1>3, <2>1, <2>2
<1>8. ASSUME NEW q \in Requests, SettleExpired(q) PROVE StaysClosed(r)
  BY <1>3, <1>8 DEF SettleExpired
<1>9. ASSUME NEW q \in Requests, TimePasses(q) PROVE StaysClosed(r)
  BY <1>0, <1>9 DEF TimePasses, StaysClosed, Bills
<1>10. ASSUME ReleaseFailed \/ PendFinished PROVE StaysClosed(r)
  BY <1>0, <1>10 DEF ReleaseFailed, PendFinished, StaysClosed, Bills
<1>11. CASE UNCHANGED vars \/ RecoverCalls
  BY <1>1, <1>11 DEF vars, RecoverCalls
<1>12. CASE Restart \/ ExpireReservations
  BY <1>2, <1>12 DEF Restart, ExpireReservations
<1>13. CASE Admin \/ Calls
  BY <1>1, <1>13 DEF Admin, CreateKey, DeleteKey, RotateKey, Grant, Calls, BeginCall, FinalizeCall
<1>14. ASSUME NEW q \in Requests, NEW k \in Keys, ReserveBegin(q, k) PROVE StaysClosed(r)
  BY <1>2, <1>14 DEF ReserveBegin
<1>15. ASSUME NEW q \in Requests, NEW cap \in Budgets, ReserveReturn(q, cap) PROVE StaysClosed(r)
  BY <1>1, <1>15 DEF ReserveReturn
<1>. QED
  BY <1>4, <1>5, <1>6, <1>7, <1>8, <1>9, <1>10, <1>11, <1>12, <1>13, <1>14, <1>15
     DEF Next, Hold, Close, Startup

\* A closed bill stays closed, whatever is settled, reversed, expired or
\* recovered afterwards, for any number of requests.
THEOREM ClosedForGoodAlways == Spec => ClosedForGood
<1>1. IInv /\ [Next]_vars => [\A r \in Requests : StaysClosed(r)]_vars
  BY ClosedStep
<1>. QED  BY <1>1, Inductive, PTL DEF Spec, ClosedForGood

----------------------------------------------------------------------------
(* Bill and ledger                                                         *)

\* A step that writes no usage and no reversal row of r, and neither settles
\* nor reverses its bill, keeps the two in agreement.
LEMMA AgreesKept ==
  ASSUME NEW r \in Requests, BillAndLedgerAgree(r), bill[r] \in Bills, bill'[r] \in Bills,
         \A kind \in {"usage", "reversal"} : RowsOf(ledger', kind, r) = RowsOf(ledger, kind, r),
         \A i \in DOMAIN ledger : ledger'[i] = ledger[i],
         \/ /\ bill'[r].state = bill[r].state /\ bill'[r].key = bill[r].key
            /\ bill'[r].charged = bill[r].charged
         \/ /\ bill[r].state \notin {"settled", "reversed"}
            /\ bill'[r].state \notin {"settled", "reversed"}
            /\ bill'[r].charged <= bill[r].charged
  PROVE  BillAndLedgerAgree(r)'
<1>1. /\ RowsOf(ledger', "usage", r) = RowsOf(ledger, "usage", r)
      /\ RowsOf(ledger', "reversal", r) = RowsOf(ledger, "reversal", r)
  OBVIOUS
<1>2. /\ \A i \in RowsOf(ledger, "usage", r) : ledger'[i] = ledger[i]
      /\ \A i \in RowsOf(ledger, "reversal", r) : ledger'[i] = ledger[i]
  BY DEF RowsOf
<1>3. bill[r].charged \in Nat /\ bill'[r].charged \in Nat
  BY DEF Bills
<1>. QED  BY <1>1, <1>2, <1>3 DEF BillAndLedgerAgree, EntriesOf

\* A grant writes no usage and no reversal row.
LEMMA GrantRows ==
  ASSUME TypeOK, NEW k, NEW n, NEW ref, CreditKey(k, n, "grant", ref)
  PROVE  /\ \A r \in Requests, kind \in {"usage", "reversal"} :
              RowsOf(ledger', kind, r) = RowsOf(ledger, kind, r)
         /\ \A i \in DOMAIN ledger : ledger'[i] = ledger[i]
<1>1. \A i \in DOMAIN ledger : ledger'[i] = ledger[i]
  BY CreditAppends
<1>2. ASSUME NEW r \in Requests, NEW kind \in {"usage", "reversal"}
      PROVE RowsOf(ledger', kind, r) = RowsOf(ledger, kind, r)
  <2>. DEFINE n1 == Len(ledger) + 1
  <2>1. /\ n1 \notin DOMAIN ledger /\ DOMAIN ledger' = DOMAIN ledger \cup {n1}
        /\ ledger'[n1].kind = "grant"
    BY CreditAppends
  <2>. HIDE DEF n1
  <2>. QED  BY <1>1, <2>1 DEF RowsOf
<1>. QED  BY <1>1, <1>2

\* Every transaction keeps every request's bill and rows in agreement.
LEMMA AgreesStep ==
  ASSUME IInv, BillMatchesLedger, [Next]_vars, NEW r \in Requests
  PROVE  BillAndLedgerAgree(r)'
<1>0. /\ TypeOK /\ TypeOK' /\ KeyOfBill /\ BillAndLedgerAgree(r)
      /\ bill \in [Requests -> Bills] /\ bill[r] \in Bills /\ bill'[r] \in Bills
  BY TypeStep DEF IInv, TypeOK, BillMatchesLedger
<1>1. ASSUME ledger' = ledger,
             \/ /\ bill'[r].state = bill[r].state /\ bill'[r].key = bill[r].key
                /\ bill'[r].charged = bill[r].charged
             \/ /\ bill[r].state \notin {"settled", "reversed"}
                /\ bill'[r].state \notin {"settled", "reversed"}
                /\ bill'[r].charged <= bill[r].charged
      PROVE BillAndLedgerAgree(r)'
  <2>1. \A kind \in {"usage", "reversal"} : RowsOf(ledger', kind, r) = RowsOf(ledger, kind, r)
    BY <1>1 DEF RowsOf
  <2>. QED  BY <1>0, <1>1, <2>1, AgreesKept
<1>2. ASSUME NEW k \in Keys, NEW n \in Amounts \cup {0}, NEW ref,
             CreditKey(k, n, "grant", ref), bill' = bill
      PROVE BillAndLedgerAgree(r)'
  BY <1>0, <1>2, GrantRows, AgreesKept
<1>3. ASSUME ledger' = ledger, bill' = bill PROVE BillAndLedgerAgree(r)'
  BY <1>1, <1>3
<1>4. ASSUME ledger' = ledger, bill' = [q \in Requests |-> Expire(bill[q])]
      PROVE BillAndLedgerAgree(r)'
  <2>1. \/ bill'[r] = bill[r]
        \/ /\ bill[r].state \in OpenStates /\ bill'[r].state = "released"
           /\ bill'[r].charged = bill[r].charged
    BY <1>0, <1>4 DEF Expire, IsHeld, Bills
  <2>2. bill[r].charged <= bill[r].charged
    BY <1>0 DEF Bills
  <2>. QED  BY <1>1, <1>4, <2>1, <2>2 DEF OpenStates
<1>5. ASSUME NEW q \in Requests, NEW s \in {"pending", "released"}, IsHeld(bill[q]),
             bill' = [bill EXCEPT ![q].state = s], ledger' = ledger
      PROVE BillAndLedgerAgree(r)'
  <2>1. \/ bill'[r] = bill[r]
        \/ /\ bill[r].state \in OpenStates /\ bill'[r].state = s
           /\ bill'[r].charged = bill[r].charged
    BY <1>0, <1>5 DEF IsHeld, Bills
  <2>2. bill[r].charged <= bill[r].charged
    BY <1>0 DEF Bills
  <2>. QED  BY <1>1, <1>5, <2>1, <2>2 DEF OpenStates
<1>6. ASSUME NEW k \in Keys, NEW n \in Amounts \cup {0}, CreateKey(k, n)
      PROVE BillAndLedgerAgree(r)'
  <2>1. CASE n > 0
    BY <1>2, <1>6, <2>1 DEF CreateKey
  <2>2. CASE ~(n > 0)
    BY <1>3, <1>6, <2>2 DEF CreateKey
  <2>. QED  BY <2>1, <2>2
<1>7. ASSUME NEW k \in Keys, NEW n \in Amounts, NEW g \in GrantIds \cup {NoRef}, Grant(k, n, g)
      PROVE BillAndLedgerAgree(r)'
  BY <1>2, <1>7 DEF Grant
<1>8. ASSUME NEW q \in Requests, NEW cap \in Budgets, ReserveHold(q, cap)
      PROVE BillAndLedgerAgree(r)'
  <2>1. CASE r = q
    <3>1. /\ bill[r].state = "none" /\ bill'[r].state = "reserved"
          /\ bill'[r].charged = 0 /\ ledger' = ledger
      BY <1>0, <1>8, <2>1 DEF ReserveHold, NoBill
    <3>2. 0 <= bill[r].charged
      BY <1>0 DEF Bills
    <3>. QED  BY <1>1, <3>1, <3>2
  <2>2. CASE r # q
    <3>1. bill'[r] = bill[r] /\ ledger' = ledger
      BY <1>0, <1>8, <2>2 DEF ReserveHold
    <3>. QED  BY <1>1, <3>1
  <2>. QED  BY <2>1, <2>2
\* A row of another request changes nothing here.
<1>9. ASSUME NEW q \in Requests, q # r, NEW k, NEW n, NEW kind \in {"usage", "reversal"},
             CreditKey(k, n, kind, q), bill'[r] = bill[r]
      PROVE BillAndLedgerAgree(r)'
  <2>. DEFINE n1 == Len(ledger) + 1
  <2>1. /\ n1 \notin DOMAIN ledger /\ DOMAIN ledger' = DOMAIN ledger \cup {n1}
        /\ \A i \in DOMAIN ledger : ledger'[i] = ledger[i]
        /\ ledger'[n1].ref = q
    BY <1>0, <1>9, CreditAppends
  <2>. HIDE DEF n1
  <2>2. \A kd \in {"usage", "reversal"} : RowsOf(ledger', kd, r) = RowsOf(ledger, kd, r)
    BY <1>9, <2>1 DEF RowsOf
  <2>. QED  BY <1>0, <1>9, <2>1, <2>2, AgreesKept
<1>10. ASSUME NEW q \in Requests, NEW quote \in Quotes, SettleQuoted(q, quote)
       PROVE BillAndLedgerAgree(r)'
  <2>. DEFINE charged == Charge(bill[q], quote)
              n1 == Len(ledger) + 1
  <2>1. CreditKey(bill[q].key, -charged, "usage", q) /\ IsHeld(bill[q])
    BY <1>10 DEF SettleQuoted
  <2>2. CASE r = q
    <3>1. /\ bill'[r].state = "settled" /\ bill'[r].key = bill[r].key
          /\ bill'[r].charged = charged
      BY <1>0, <1>10, <2>2 DEF SettleQuoted
    <3>2. RowsOf(ledger, "usage", r) = {} /\ RowsOf(ledger, "reversal", r) = {}
      BY <1>0, <2>1, <2>2 DEF BillAndLedgerAgree, EntriesOf, IsHeld, OpenStates
    <3>3. /\ RowsOf(ledger', "usage", r) = {n1} /\ RowsOf(ledger', "reversal", r) = {}
          /\ ledger'[n1].key = bill[r].key /\ ledger'[n1].amount = -charged
      <4>1. /\ n1 \notin DOMAIN ledger /\ DOMAIN ledger' = DOMAIN ledger \cup {n1}
            /\ \A i \in DOMAIN ledger : ledger'[i] = ledger[i]
            /\ ledger'[n1].kind = "usage" /\ ledger'[n1].ref = q
            /\ ledger'[n1].key = bill[q].key /\ ledger'[n1].amount = -charged
        BY <1>0, <2>1, CreditAppends
      <4>. HIDE DEF n1, charged
      <4>2. /\ RowsOf(ledger', "usage", r) = RowsOf(ledger, "usage", r) \cup {n1}
            /\ RowsOf(ledger', "reversal", r) = RowsOf(ledger, "reversal", r)
        BY <2>2, <4>1 DEF RowsOf
      <4>. QED  BY <2>2, <3>2, <4>1, <4>2
    <3>4. Cardinality({n1}) = 1 /\ Cardinality({}) = 0
      BY FS_Singleton, FS_EmptySet
    <3>. HIDE DEF n1, charged
    <3>. QED  BY <3>1, <3>3, <3>4 DEF BillAndLedgerAgree, EntriesOf
  <2>3. CASE r # q
    <3>1. bill'[r] = bill[r]
      BY <1>0, <1>10, <2>3 DEF SettleQuoted
    <3>. QED  BY <1>9, <2>1, <2>3, <3>1
  <2>. QED  BY <2>2, <2>3
<1>11. ASSUME NEW q \in Requests, Reverse(q) PROVE BillAndLedgerAgree(r)'
  <2>. DEFINE n1 == Len(ledger) + 1
  <2>1. CreditKey(bill[q].key, bill[q].charged, "reversal", q) /\ Reversible(bill[q])
    BY <1>11 DEF Reverse
  <2>2. CASE r = q
    <3>1. /\ bill'[r].state = "reversed" /\ bill'[r].key = bill[r].key
          /\ bill'[r].charged = bill[r].charged
      BY <1>0, <1>11, <2>2 DEF Reverse, Bills
    <3>2. RowsOf(ledger, "reversal", r) = {}
      BY <1>0, <2>1, <2>2 DEF BillAndLedgerAgree, EntriesOf, Reversible
    <3>3. /\ RowsOf(ledger', "usage", r) = RowsOf(ledger, "usage", r)
          /\ RowsOf(ledger', "reversal", r) = {n1}
          /\ ledger'[n1].key = bill[r].key /\ ledger'[n1].amount = bill[r].charged
          /\ \A i \in RowsOf(ledger, "usage", r) : ledger'[i] = ledger[i]
      <4>1. /\ n1 \notin DOMAIN ledger /\ DOMAIN ledger' = DOMAIN ledger \cup {n1}
            /\ \A i \in DOMAIN ledger : ledger'[i] = ledger[i]
            /\ ledger'[n1].kind = "reversal" /\ ledger'[n1].ref = q
            /\ ledger'[n1].key = bill[q].key /\ ledger'[n1].amount = bill[q].charged
        BY <1>0, <2>1, CreditAppends
      <4>. HIDE DEF n1
      <4>2. /\ RowsOf(ledger', "reversal", r) = RowsOf(ledger, "reversal", r) \cup {n1}
            /\ RowsOf(ledger', "usage", r) = RowsOf(ledger, "usage", r)
        BY <2>2, <4>1 DEF RowsOf
      <4>3. \A i \in RowsOf(ledger, "usage", r) : ledger'[i] = ledger[i]
        BY <4>1 DEF RowsOf
      <4>. QED  BY <2>2, <3>2, <4>1, <4>2, <4>3
    <3>4. Cardinality({n1}) = 1
      BY FS_Singleton
    <3>. HIDE DEF n1
    <3>. QED  BY <1>0, <3>1, <3>3, <3>4 DEF BillAndLedgerAgree, EntriesOf
  <2>3. CASE r # q
    <3>1. bill'[r] = bill[r]
      BY <1>0, <1>11, <2>3 DEF Reverse
    <3>. QED  BY <1>9, <2>1, <2>3, <3>1
  <2>. QED  BY <2>2, <2>3
<1>12. ASSUME NEW q \in Requests, NEW outcome \in Outcomes, NEW dispatched \in BOOLEAN,
              SettleUnmetered(q, outcome, dispatched)
       PROVE BillAndLedgerAgree(r)'
  <2>1. PICK s \in {"pending", "released"} : bill' = [bill EXCEPT ![q].state = s]
    BY <1>12, Zenon DEF SettleUnmetered
  <2>2. IsHeld(bill[q]) /\ ledger' = ledger
    BY <1>12 DEF SettleUnmetered
  <2>. QED  BY <1>5, <2>1, <2>2
<1>13. ASSUME NEW q \in Requests, SettleExpired(q) PROVE BillAndLedgerAgree(r)'
  BY <1>5, <1>13 DEF SettleExpired
<1>14. ASSUME NEW q \in Requests, TimePasses(q) PROVE BillAndLedgerAgree(r)'
  <2>1. /\ bill'[r].state = bill[r].state /\ bill'[r].key = bill[r].key
        /\ bill'[r].charged = bill[r].charged /\ ledger' = ledger
    BY <1>0, <1>14 DEF TimePasses, Bills
  <2>. QED  BY <1>1, <2>1
<1>15. ASSUME ReleaseFailed \/ PendFinished PROVE BillAndLedgerAgree(r)'
  <2>1. \/ bill'[r] = bill[r]
        \/ /\ bill[r].state = "reserved" /\ bill'[r].state \in {"released", "pending"}
           /\ bill'[r].charged = bill[r].charged
    BY <1>0, <1>15 DEF ReleaseFailed, PendFinished, Bills
  <2>2. bill[r].charged <= bill[r].charged /\ ledger' = ledger
    BY <1>0, <1>15 DEF Bills, ReleaseFailed, PendFinished
  <2>. QED  BY <1>1, <2>1, <2>2
<1>16. CASE UNCHANGED vars \/ RecoverCalls
  BY <1>3, <1>16 DEF vars, RecoverCalls
<1>17. CASE Restart \/ ExpireReservations
  BY <1>4, <1>17 DEF Restart, ExpireReservations
<1>18. ASSUME NEW k \in Keys, DeleteKey(k) \/ RotateKey(k) PROVE BillAndLedgerAgree(r)'
  BY <1>3, <1>18 DEF DeleteKey, RotateKey
<1>19. CASE Calls
  BY <1>3, <1>19 DEF Calls, BeginCall, FinalizeCall
<1>20. ASSUME NEW q \in Requests, NEW k \in Keys, ReserveBegin(q, k) PROVE BillAndLedgerAgree(r)'
  BY <1>4, <1>20 DEF ReserveBegin
<1>21. ASSUME NEW q \in Requests, NEW cap \in Budgets, ReserveReturn(q, cap)
       PROVE BillAndLedgerAgree(r)'
  BY <1>3, <1>21 DEF ReserveReturn
<1>. QED
  BY <1>6, <1>7, <1>8, <1>10, <1>11, <1>12, <1>13, <1>14, <1>15, <1>16, <1>17, <1>18,
     <1>19, <1>20, <1>21 DEF Next, Admin, Hold, Close, Startup

\* A request is charged once and given back once, and the ledger shows
\* exactly that, for any requests, keys, prices and orders of settlement,
\* reversal, expiry and recovery.
THEOREM BillMatchesLedgerAlways == Spec => []BillMatchesLedger
<1>1. Init => BillMatchesLedger
  <2>. SUFFICES ASSUME Init, NEW r \in Requests PROVE BillAndLedgerAgree(r)
    BY DEF BillMatchesLedger
  <2>1. RowsOf(ledger, "usage", r) = {} /\ RowsOf(ledger, "reversal", r) = {}
    BY DEF Init, RowsOf
  <2>2. bill[r].state = "none" /\ bill[r].charged = 0
    BY DEF Init, NoBill
  <2>. QED  BY <2>1, <2>2, FS_EmptySet DEF BillAndLedgerAgree, EntriesOf
<1>2. IInv /\ BillMatchesLedger /\ [Next]_vars => BillMatchesLedger'
  BY AgreesStep DEF BillMatchesLedger
<1>. QED  BY <1>1, <1>2, Inductive, PTL DEF Spec

----------------------------------------------------------------------------
(* Grants                                                                  *)

\* A row that is not a grant named g leaves the grants named g as they are.
LEMMA OtherRow ==
  ASSUME TypeOK, NEW k, NEW n, NEW kind, NEW ref, CreditKey(k, n, kind, ref),
         NEW g, kind # "grant" \/ ref # g
  PROVE  RowsOf(ledger', "grant", g) = RowsOf(ledger, "grant", g)
<1>. DEFINE n1 == Len(ledger) + 1
<1>1. /\ n1 \notin DOMAIN ledger /\ DOMAIN ledger' = DOMAIN ledger \cup {n1}
      /\ \A i \in DOMAIN ledger : ledger'[i] = ledger[i]
      /\ ledger'[n1].kind = kind /\ ledger'[n1].ref = ref
  BY CreditAppends
<1>. HIDE DEF n1
<1>. QED  BY <1>1 DEF RowsOf

\* No transaction credits an idempotency key a second time.
LEMMA GrantStep ==
  ASSUME IInv, GrantOnce, [Next]_vars, NEW g \in GrantIds
  PROVE  Cardinality(RowsOf(ledger', "grant", g)) <= 1
<1>0. TypeOK /\ Cardinality(RowsOf(ledger, "grant", g)) <= 1
  BY DEF IInv, GrantOnce, EntriesOf
<1>1. ASSUME RowsOf(ledger', "grant", g) = RowsOf(ledger, "grant", g)
      PROVE Cardinality(RowsOf(ledger', "grant", g)) <= 1
  BY <1>0, <1>1
<1>2. ASSUME NEW k \in Keys, NEW n \in Amounts \cup {0}, CreateKey(k, n)
      PROVE Cardinality(RowsOf(ledger', "grant", g)) <= 1
  <2>1. CASE n > 0
    <3>1. CreditKey(k, n, "grant", k) /\ k # g
      BY <1>2, <2>1, NamesAssumption DEF CreateKey
    <3>. QED  BY <1>0, <1>1, <3>1, OtherRow
  <2>2. CASE ~(n > 0)
    BY <1>1, <1>2, <2>2 DEF CreateKey
  <2>. QED  BY <2>1, <2>2
<1>3. ASSUME NEW k \in Keys, NEW n \in Amounts, NEW h \in GrantIds \cup {NoRef}, Grant(k, n, h)
      PROVE Cardinality(RowsOf(ledger', "grant", g)) <= 1
  <2>1. CreditKey(k, n, "grant", h)
    BY <1>3 DEF Grant
  <2>2. CASE h # g
    BY <1>0, <1>1, <2>1, <2>2, OtherRow
  <2>3. CASE h = g
    <3>. DEFINE n1 == Len(ledger) + 1
    <3>1. /\ n1 \notin DOMAIN ledger /\ DOMAIN ledger' = DOMAIN ledger \cup {n1}
          /\ \A i \in DOMAIN ledger : ledger'[i] = ledger[i]
      BY <1>0, <2>1, CreditAppends
    <3>2. RowsOf(ledger, "grant", g) = {}
      BY <1>3, <2>3, NamesAssumption DEF Grant, Granted, RowsOf
    <3>. HIDE DEF n1
    <3>3. RowsOf(ledger', "grant", g) \in SUBSET {n1}
      BY <3>1, <3>2 DEF RowsOf
    <3>4. RowsOf(ledger', "grant", g) = {} \/ RowsOf(ledger', "grant", g) = {n1}
      BY <3>3
    <3>5. Cardinality({}) = 0 /\ Cardinality({n1}) = 1
      BY FS_EmptySet, FS_Singleton
    <3>. QED  BY <3>4, <3>5
  <2>. QED  BY <2>2, <2>3
<1>4. ASSUME ledger' = ledger PROVE Cardinality(RowsOf(ledger', "grant", g)) <= 1
  BY <1>1, <1>4
<1>5. ASSUME NEW q \in Requests, NEW quote \in Quotes, SettleQuoted(q, quote)
      PROVE Cardinality(RowsOf(ledger', "grant", g)) <= 1
  BY <1>0, <1>1, <1>5, OtherRow DEF SettleQuoted
<1>6. ASSUME NEW q \in Requests, Reverse(q)
      PROVE Cardinality(RowsOf(ledger', "grant", g)) <= 1
  BY <1>0, <1>1, <1>6, OtherRow DEF Reverse
<1>7. CASE Hold \/ Calls \/ Startup \/ ExpireReservations \/ UNCHANGED vars
  BY <1>4, <1>7 DEF Hold, ReserveBegin, ReserveHold, ReserveReturn, Calls, BeginCall,
     FinalizeCall, Startup, Restart, RecoverCalls, ReleaseFailed, PendFinished,
     ExpireReservations, vars
<1>8. ASSUME NEW q \in Requests,
             \/ SettleExpired(q)
             \/ \E outcome \in Outcomes, dispatched \in BOOLEAN :
                  SettleUnmetered(q, outcome, dispatched)
             \/ TimePasses(q)
      PROVE Cardinality(RowsOf(ledger', "grant", g)) <= 1
  BY <1>4, <1>8 DEF SettleExpired, SettleUnmetered, TimePasses
<1>9. ASSUME NEW k \in Keys, DeleteKey(k) \/ RotateKey(k)
      PROVE Cardinality(RowsOf(ledger', "grant", g)) <= 1
  BY <1>4, <1>9 DEF DeleteKey, RotateKey
<1>. QED
  BY <1>2, <1>3, <1>5, <1>6, <1>7, <1>8, <1>9 DEF Next, Admin, Close

\* A grant that is sent again credits nobody a second time, for any number of
\* grants, keys and repetitions.
THEOREM GrantOnceAlways == Spec => []GrantOnce
<1>1. Init => GrantOnce
  <2>. SUFFICES ASSUME Init, NEW g \in GrantIds PROVE Cardinality(EntriesOf("grant", g)) <= 1
    BY DEF GrantOnce
  <2>1. EntriesOf("grant", g) = {}
    BY DEF Init, EntriesOf, RowsOf
  <2>. QED  BY <2>1, FS_EmptySet
<1>2. IInv /\ GrantOnce /\ [Next]_vars => GrantOnce'
  BY GrantStep DEF GrantOnce, EntriesOf
<1>. QED  BY <1>1, <1>2, Inductive, PTL DEF Spec

----------------------------------------------------------------------------
(* Balances                                                                *)

\* The last balance depends only on the rows it looks at.
LEMMA LastBalanceSame ==
  ASSUME NEW l, NEW m, NEW k, NEW n \in Nat, NEW v, \A i \in 1..n : m[i] = l[i],
         IsLastBalance(l, k, n, v)
  PROVE  IsLastBalance(m, k, n, v)
<1>1. CASE v = 0 /\ \A j \in 1..n : l[j].key # k
  BY <1>1 DEF IsLastBalance
<1>2. ASSUME NEW i \in 1..n, l[i].key = k, l[i].balance = v, \A j \in (i + 1)..n : l[j].key # k
      PROVE IsLastBalance(m, k, n, v)
  <2>1. m[i].key = k /\ m[i].balance = v
    BY <1>2
  <2>2. \A j \in (i + 1)..n : j \in 1..n
    OBVIOUS
  <2>3. \A j \in (i + 1)..n : m[j].key # k
    BY <1>2, <2>2
  <2>. QED  BY <2>1, <2>3 DEF IsLastBalance
<1>. QED  BY <1>1, <1>2 DEF IsLastBalance

\* One more row of key k shows its balance, and no other key's.
LEMMA LastBalanceNext ==
  ASSUME NEW l, NEW k, NEW n \in Nat, NEW v
  PROVE  /\ l[n + 1].key # k /\ IsLastBalance(l, k, n, v) => IsLastBalance(l, k, n + 1, v)
         /\ l[n + 1].key = k /\ l[n + 1].balance = v => IsLastBalance(l, k, n + 1, v)
<1>1. \A j \in 1..(n + 1) : j \in 1..n \/ j = n + 1
  OBVIOUS
<1>2. ASSUME l[n + 1].key # k, v = 0, \A j \in 1..n : l[j].key # k
      PROVE IsLastBalance(l, k, n + 1, v)
  BY <1>1, <1>2 DEF IsLastBalance
<1>3. ASSUME l[n + 1].key # k, NEW i \in 1..n, l[i].key = k, l[i].balance = v,
             \A j \in (i + 1)..n : l[j].key # k
      PROVE IsLastBalance(l, k, n + 1, v)
  <2>1. i \in 1..(n + 1) /\ \A j \in (i + 1)..(n + 1) : j \in (i + 1)..n \/ j = n + 1
    OBVIOUS
  <2>2. \A j \in (i + 1)..(n + 1) : l[j].key # k
    BY <1>3, <2>1
  <2>. QED  BY <1>3, <2>1, <2>2 DEF IsLastBalance
<1>4. ASSUME l[n + 1].key = k, l[n + 1].balance = v PROVE IsLastBalance(l, k, n + 1, v)
  <2>1. n + 1 \in 1..(n + 1) /\ \A j \in (n + 1 + 1)..(n + 1) : FALSE
    OBVIOUS
  <2>. QED  BY <1>4, <2>1 DEF IsLastBalance
<1>. QED  BY <1>2, <1>3, <1>4 DEF IsLastBalance

\* A credited balance and its row keep the ledger's explanation.
LEMMA CreditExplained ==
  ASSUME TypeOK, LedgerExplainsBalance, NEW k \in Keys, NEW n \in Int, NEW kind, NEW ref,
         CreditKey(k, n, kind, ref)
  PROVE  LedgerExplainsBalance'
<1>. DEFINE last == Len(ledger)
<1>0. /\ last \in Nat /\ Len(ledger') = last + 1
      /\ \A i \in 1..last : ledger'[i] = ledger[i]
      /\ ledger'[last + 1].key = k /\ ledger'[last + 1].amount = n
      /\ ledger'[last + 1].balance = credit[k] + n
      /\ credit \in [Keys -> Nat] /\ credit' = [credit EXCEPT ![k] = credit[k] + n]
  <2>1. ledger \in Seq(Entries) /\ credit \in [Keys -> Nat]
    BY DEF TypeOK
  <2>2. ledger' = Append(ledger, [key |-> k, kind |-> kind, ref |-> ref,
                                  amount |-> n, balance |-> credit[k] + n])
    BY DEF CreditKey
  <2>3. credit' = [credit EXCEPT ![k] = credit[k] + n]
    BY DEF CreditKey
  <2>. QED  BY <2>1, <2>2, <2>3
<1>. HIDE DEF last
<1>1. /\ \A i \in 1..last :
           IsLastBalance(ledger, ledger[i].key, i - 1, ledger[i].balance - ledger[i].amount)
      /\ \A q \in Keys : IsLastBalance(ledger, q, last, credit[q])
  BY DEF LedgerExplainsBalance, last
<1>2. ASSUME NEW i \in 1..(last + 1)
      PROVE IsLastBalance(ledger', ledger'[i].key, i - 1, ledger'[i].balance - ledger'[i].amount)
  <2>1. CASE i \in 1..last
    <3>1. i - 1 \in Nat /\ \A j \in 1..(i - 1) : ledger'[j] = ledger[j]
      BY <1>0, <2>1
    <3>2. IsLastBalance(ledger, ledger[i].key, i - 1, ledger[i].balance - ledger[i].amount)
      BY <1>1, <2>1
    <3>3. ledger'[i] = ledger[i]
      BY <1>0, <2>1
    <3>. QED  BY <3>1, <3>2, <3>3, LastBalanceSame
  <2>2. CASE i = last + 1
    <3>1. i - 1 = last /\ ledger'[i].key = k /\ ledger'[i].balance - ledger'[i].amount = credit[k]
      BY <1>0, <2>2
    <3>2. IsLastBalance(ledger', k, last, credit[k])
      BY <1>0, <1>1, LastBalanceSame
    <3>. QED  BY <3>1, <3>2
  <2>. QED  BY <1>0, <2>1, <2>2
<1>3. ASSUME NEW q \in Keys PROVE IsLastBalance(ledger', q, last + 1, credit'[q])
  <2>1. CASE q = k
    BY <1>0, <2>1, LastBalanceNext
  <2>2. CASE q # k
    <3>1. IsLastBalance(ledger', q, last, credit[q])
      BY <1>0, <1>1, LastBalanceSame
    <3>2. credit'[q] = credit[q] /\ ledger'[last + 1].key # q
      BY <1>0, <2>2
    <3>. QED  BY <1>0, <3>1, <3>2, LastBalanceNext
  <2>. QED  BY <2>1, <2>2
<1>. QED  BY <1>0, <1>2, <1>3 DEF LedgerExplainsBalance

\* No transaction changes a balance without a row that explains it.
LEMMA ExplainedStep ==
  ASSUME IInv, LedgerExplainsBalance, [Next]_vars
  PROVE  LedgerExplainsBalance'
<1>0. TypeOK /\ KeyOfBill /\ bill \in [Requests -> Bills] /\ credit \in [Keys -> Nat]
  BY DEF IInv, TypeOK
<1>1. ASSUME ledger' = ledger, credit' = credit PROVE LedgerExplainsBalance'
  BY <1>1 DEF LedgerExplainsBalance
<1>2. ASSUME NEW k \in Keys, NEW n \in Amounts \cup {0}, CreateKey(k, n)
      PROVE LedgerExplainsBalance'
  <2>1. n \in Int
    BY MoneyAssumption
  <2>2. CASE n > 0
    BY <1>0, <1>2, <2>1, <2>2, CreditExplained DEF CreateKey
  <2>3. CASE ~(n > 0)
    BY <1>1, <1>2, <2>3 DEF CreateKey
  <2>. QED  BY <2>2, <2>3
<1>3. ASSUME NEW k \in Keys, NEW n \in Amounts, NEW g \in GrantIds \cup {NoRef}, Grant(k, n, g)
      PROVE LedgerExplainsBalance'
  <2>1. n \in Int
    BY MoneyAssumption
  <2>. QED  BY <1>0, <1>3, <2>1, CreditExplained DEF Grant
<1>4. ASSUME NEW q \in Requests, NEW quote \in Quotes, SettleQuoted(q, quote)
      PROVE LedgerExplainsBalance'
  <2>. DEFINE charged == Charge(bill[q], quote)
  <2>1. bill[q] \in Bills /\ bill[q].key \in Keys
    BY <1>0, <1>4 DEF SettleQuoted, KeyOfBill, IsHeld, OpenStates
  <2>2. charged \in Nat
    BY <1>0, <2>1, ChargeBounds
  <2>3. CreditKey(bill[q].key, -charged, "usage", q)
    BY <1>4 DEF SettleQuoted
  <2>4. -charged \in Int
    <3>. HIDE DEF charged
    <3>. QED  BY <2>2
  <2>. HIDE DEF charged
  <2>. QED  BY <1>0, <2>1, <2>3, <2>4, CreditExplained
<1>5. ASSUME NEW q \in Requests, Reverse(q) PROVE LedgerExplainsBalance'
  <2>1. bill[q].key \in Keys /\ bill[q].charged \in Int
    BY <1>0, <1>5 DEF Reverse, Reversible, KeyOfBill, Bills
  <2>. QED  BY <1>0, <1>5, <2>1, CreditExplained DEF Reverse
<1>6. CASE Hold \/ Calls \/ Startup \/ ExpireReservations \/ UNCHANGED vars
  BY <1>1, <1>6 DEF Hold, ReserveBegin, ReserveHold, ReserveReturn, Calls, BeginCall,
     FinalizeCall, Startup, Restart, RecoverCalls, ReleaseFailed, PendFinished,
     ExpireReservations, vars
<1>7. ASSUME NEW q \in Requests,
             \/ SettleExpired(q)
             \/ \E outcome \in Outcomes, dispatched \in BOOLEAN :
                  SettleUnmetered(q, outcome, dispatched)
             \/ TimePasses(q)
      PROVE LedgerExplainsBalance'
  BY <1>1, <1>7 DEF SettleExpired, SettleUnmetered, TimePasses
<1>8. ASSUME NEW k \in Keys, DeleteKey(k) \/ RotateKey(k) PROVE LedgerExplainsBalance'
  BY <1>1, <1>8 DEF DeleteKey, RotateKey
<1>. QED
  BY <1>2, <1>3, <1>4, <1>5, <1>6, <1>7, <1>8 DEF Next, Admin, Close

\* Every balance can be recomputed from the ledger, row by row, whatever is
\* granted, settled and reversed and in whatever order.
THEOREM LedgerExplainsAlways == Spec => []LedgerExplainsBalance
<1>1. Init => LedgerExplainsBalance
  <2>. SUFFICES ASSUME Init PROVE LedgerExplainsBalance
    OBVIOUS
  <2>1. Len(ledger) = 0
    BY DEF Init
  <2>2. \A i \in 1..0 : FALSE
    OBVIOUS
  <2>. QED  BY <2>1, <2>2 DEF Init, LedgerExplainsBalance, IsLastBalance
<1>2. IInv /\ LedgerExplainsBalance /\ [Next]_vars => LedgerExplainsBalance'
  BY ExplainedStep
<1>. QED  BY <1>1, <1>2, Inductive, PTL DEF Spec

\* The ledger is the whole truth about the money, for any number of keys,
\* requests and grants: what a balance shows is the sum of its rows, and no
\* idempotency key was credited twice.
THEOREM LedgerIsTrueAlways == Spec => []LedgerIsTrue
BY GrantOnceAlways, LedgerExplainsAlways, PTL DEF LedgerIsTrue

-----------------------------------------------------------------------------
(* The wallet implements the prepaid account.                              *)

(* Lemmas about what was spent: b and c are the bills before and after.    *)

\* A key's charges are finitely many and their sum is a natural number.
LEMMA SpentType ==
  ASSUME NEW b \in [Requests -> Bills], NEW k \in Keys
  PROVE  /\ IsFiniteSet(ChargesIn(b, k))
         /\ \A r \in ChargesIn(b, k) : [q \in Requests |-> b[q].charged][r] \in Nat
         /\ SpentIn(b, k) \in Nat
<1>1. IsFiniteSet(ChargesIn(b, k))
  BY RequestsAssumption, FS_Subset DEF ChargesIn
<1>2. \A r \in ChargesIn(b, k) : [q \in Requests |-> b[q].charged][r] \in Nat
  BY DEF ChargesIn, Bills
<1>. QED  BY <1>1, <1>2, TotalType DEF SpentIn

\* A step that neither settles nor reverses a charged bill spends nothing.
LEMMA SpentSame ==
  ASSUME NEW b \in [Requests -> Bills], NEW c \in [Requests -> Bills], NEW k \in Keys,
         \A r \in Requests : b[r].state = "settled" \/ c[r].state = "settled" =>
           c[r].state = b[r].state /\ c[r].key = b[r].key /\ c[r].charged = b[r].charged
  PROVE  SpentIn(c, k) = SpentIn(b, k)
<1>. DEFINE f == [q \in Requests |-> b[q].charged]
            g == [q \in Requests |-> c[q].charged]
<1>1. ChargesIn(c, k) = ChargesIn(b, k)
  BY DEF ChargesIn
<1>2. \A r \in ChargesIn(c, k) : g[r] = f[r]
  BY DEF ChargesIn
<1>3. Total(g, ChargesIn(c, k)) = Total(f, ChargesIn(c, k))
  BY <1>2, TotalSame, ZenonT(60)
<1>. QED  BY <1>1, <1>3 DEF SpentIn

\* Undoing one charge lowers what its key spent by exactly that charge.
LEMMA SpentRemoves ==
  ASSUME NEW b \in [Requests -> Bills], NEW r \in Requests, b[r].state = "settled",
         NEW x \in Bills, x.state # "settled", NEW k \in Keys
  PROVE  /\ b[r].key = k => /\ SpentIn([b EXCEPT ![r] = x], k) = SpentIn(b, k) - b[r].charged
                            /\ b[r].charged <= SpentIn(b, k)
         /\ b[r].key # k => SpentIn([b EXCEPT ![r] = x], k) = SpentIn(b, k)
<1>. DEFINE c == [b EXCEPT ![r] = x]
            f == [q \in Requests |-> b[q].charged]
            g == [q \in Requests |-> c[q].charged]
<1>1. ChargesIn(c, k) = ChargesIn(b, k) \ {r}
  BY DEF ChargesIn
<1>2. ASSUME NEW q \in ChargesIn(c, k) PROVE g[q] = f[q]
  <2>1. q \in Requests /\ q # r
    BY <1>1 DEF ChargesIn
  <2>. QED  BY <2>1
<1>3. Total(g, ChargesIn(c, k)) = Total(f, ChargesIn(b, k) \ {r})
  <2>. HIDE DEF c, f, g
  <2>1. Total(g, ChargesIn(c, k)) = Total(f, ChargesIn(c, k))
    BY <1>2, TotalSame
  <2>. QED  BY <1>1, <2>1
<1>4. CASE b[r].key = k
  <2>1. r \in ChargesIn(b, k)
    BY <1>4 DEF ChargesIn
  <2>2. /\ Total(f, ChargesIn(b, k) \ {r}) = Total(f, ChargesIn(b, k)) - f[r]
        /\ f[r] <= Total(f, ChargesIn(b, k))
    BY <2>1, SpentType, TotalRemove
  <2>3. f[r] = b[r].charged
    OBVIOUS
  <2>. QED  BY <1>3, <1>4, <2>2, <2>3 DEF SpentIn
<1>5. CASE b[r].key # k
  <2>1. ChargesIn(b, k) \ {r} = ChargesIn(b, k)
    BY <1>5 DEF ChargesIn
  <2>. QED  BY <1>3, <1>5, <2>1 DEF SpentIn
<1>. QED  BY <1>4, <1>5

\* A settlement adds exactly its charge to what its key spent.
LEMMA SpentAdds ==
  ASSUME NEW b \in [Requests -> Bills], NEW r \in Requests, b[r].state # "settled",
         NEW x \in Bills, x.state = "settled", NEW k \in Keys
  PROVE  SpentIn([b EXCEPT ![r] = x], k)
           = SpentIn(b, k) + (IF x.key = k THEN x.charged ELSE 0)
<1>. DEFINE c == [b EXCEPT ![r] = x]
<1>1. c \in [Requests -> Bills] /\ c[r] = x
  OBVIOUS
<1>2. [c EXCEPT ![r] = b[r]] = b
  OBVIOUS
<1>3. b[r] \in Bills
  OBVIOUS
<1>4. /\ c[r].key = k => /\ SpentIn([c EXCEPT ![r] = b[r]], k) = SpentIn(c, k) - c[r].charged
                         /\ c[r].charged <= SpentIn(c, k)
      /\ c[r].key # k => SpentIn([c EXCEPT ![r] = b[r]], k) = SpentIn(c, k)
  <2>. HIDE DEF c
  <2>. QED  BY <1>1, <1>3, SpentRemoves, ZenonT(60)
<1>5. SpentIn(c, k) \in Nat /\ SpentIn(b, k) \in Nat
  BY <1>1, SpentType
<1>6. x.charged \in Nat
  BY DEF Bills
<1>. HIDE DEF c
<1>. QED  BY <1>1, <1>2, <1>4, <1>5, <1>6 DEF c

----------------------------------------------------------------------------
(* The steps of the account                                                *)

\* The sums of a key are natural numbers, and its holds are covered.
LEMMA AccountParts ==
  ASSUME IInv, NEW k \in Keys
  PROVE  /\ HeldIn(bill, k) \in Nat /\ SpentIn(bill, k) \in Nat
         /\ credit[k] \in Nat /\ HeldIn(bill, k) <= credit[k]
<1>1. bill \in [Requests -> Bills] /\ credit[k] \in Nat
  BY DEF IInv, TypeOK
<1>2. HeldIn(bill, k) <= credit[k]
  BY DEF IInv, Solvent, Held
<1>. QED  BY <1>1, <1>2, HeldType, SpentType

\* A step that only lets go of holds is a Release of the account.
LEMMA ReleaseMaps ==
  ASSUME IInv, IInv', credit' = credit,
         \A k \in Keys : HeldIn(bill', k) <= HeldIn(bill, k),
         \A k \in Keys : SpentIn(bill', k) = SpentIn(bill, k)
  PROVE  Account!Release
<1>1. \A k \in Keys : /\ HeldIn(bill, k) \in Nat /\ credit[k] \in Nat
                      /\ HeldIn(bill, k) <= credit[k]
  BY AccountParts
<1>2. \A k \in Keys : HeldIn(bill', k) \in Nat
  <2>1. bill' \in [Requests -> Bills]
    BY DEF IInv, TypeOK
  <2>. QED  BY <2>1, HeldType
<1>. DEFINE heldOf(k) == HeldIn(bill, k)
            next(k) == HeldIn(bill', k)
<1>3. [k \in Keys |-> Held(k)]' = [k \in Keys |-> next(k)]
  BY DEF Held
<1>4. [k \in Keys |-> Spent(k)]' = [k \in Keys |-> Spent(k)]
  BY DEF Spent
<1>5. [k \in Keys |-> credit[k] + Spent(k)]' = [k \in Keys |-> credit[k] + Spent(k)]
  BY DEF Spent
<1>6. [k \in Keys |-> Available(k)]' = [k \in Keys |-> Available(k) + (heldOf(k) - next(k))]
  <2>1. \A k \in Keys : credit[k] - next(k) = (credit[k] - heldOf(k)) + (heldOf(k) - next(k))
    BY <1>1, <1>2
  <2>2. \A k \in Keys : Available(k)' = credit[k] - next(k)
    BY DEF Available, Held
  <2>3. \A k \in Keys : Available(k) = credit[k] - heldOf(k)
    BY DEF Available, Held
  <2>. HIDE DEF heldOf, next
  <2>. QED  BY <2>1, <2>2, <2>3
<1>7. [k \in Keys |-> next(k)] \in [Keys -> Nat]
  BY <1>2
<1>8. \A k \in Keys : next(k) <= heldOf(k)
  OBVIOUS
<1>9. \A k \in Keys : Held(k) = heldOf(k)
  BY DEF Held
<1>. HIDE DEF heldOf, next
<1>. QED  BY <1>3, <1>4, <1>5, <1>6, <1>7, <1>8, <1>9 DEF Account!Release

\* A grant is a PayIn.
LEMMA PayInMaps ==
  ASSUME IInv, NEW k \in Keys, NEW n \in Nat \ {0},
         credit' = [credit EXCEPT ![k] = credit[k] + n], bill' = bill
  PROVE  Account!PayIn(k)
<1>. DEFINE h(q) == HeldIn(bill, q)
            s(q) == SpentIn(bill, q)
<1>1. \A q \in Keys : h(q) \in Nat /\ s(q) \in Nat /\ credit[q] \in Nat
  BY AccountParts
<1>2. credit \in [Keys -> Nat]
  BY DEF IInv, TypeOK
<1>3. \A q \in Keys : /\ Held(q) = h(q) /\ Spent(q) = s(q) /\ Available(q) = credit[q] - h(q)
                      /\ Held(q)' = h(q) /\ Spent(q)' = s(q) /\ Available(q)' = credit'[q] - h(q)
  BY DEF Held, Spent, Available
<1>. HIDE DEF h, s
<1>4. /\ [q \in Keys |-> credit[q] + Spent(q)]' = [q \in Keys |-> credit'[q] + s(q)]
      /\ [q \in Keys |-> Available(q)]' = [q \in Keys |-> credit'[q] - h(q)]
      /\ [q \in Keys |-> Held(q)]' = [q \in Keys |-> h(q)]
      /\ [q \in Keys |-> Spent(q)]' = [q \in Keys |-> s(q)]
      /\ [q \in Keys |-> credit[q] + Spent(q)] = [q \in Keys |-> credit[q] + s(q)]
      /\ [q \in Keys |-> Available(q)] = [q \in Keys |-> credit[q] - h(q)]
      /\ [q \in Keys |-> Held(q)] = [q \in Keys |-> h(q)]
      /\ [q \in Keys |-> Spent(q)] = [q \in Keys |-> s(q)]
  BY <1>3
<1>5. credit'[k] = credit[k] + n /\ \A q \in Keys \ {k} : credit'[q] = credit[q]
  BY <1>2
<1>6. n = (credit'[k] + s(k)) - (credit[k] + s(k))
  BY <1>1, <1>5
<1>7. [q \in Keys |-> credit'[q] + s(q)] =
        [[q \in Keys |-> credit[q] + s(q)] EXCEPT ![k] = (credit[k] + s(k)) + n]
  <2>1. \A q \in Keys : credit'[q] + s(q) =
          IF q = k THEN (credit[k] + s(k)) + n ELSE credit[q] + s(q)
    BY <1>1, <1>5
  <2>. QED  BY <2>1
<1>8. [q \in Keys |-> credit'[q] - h(q)] =
        [[q \in Keys |-> credit[q] - h(q)] EXCEPT ![k] = (credit[k] - h(k)) + n]
  <2>1. \A q \in Keys : credit'[q] - h(q) =
          IF q = k THEN (credit[k] - h(k)) + n ELSE credit[q] - h(q)
    BY <1>1, <1>5
  <2>. QED  BY <2>1
<1>. QED  BY <1>4, <1>6, <1>7, <1>8 DEF Account!PayIn

\* What the other steps do to the sums, and with them to the account: the
\* balance of k changes by c, its holds by h and its charges by s.
Moves(k, c, h, s) ==
  /\ \A q \in Keys : credit'[q] = credit[q] + (IF q = k THEN c ELSE 0)
  /\ \A q \in Keys : HeldIn(bill', q) = HeldIn(bill, q) + (IF q = k THEN h ELSE 0)
  /\ \A q \in Keys : SpentIn(bill', q) = SpentIn(bill, q) + (IF q = k THEN s ELSE 0)

LEMMA MovesMap ==
  ASSUME IInv, NEW k \in Keys, NEW c \in Int, NEW h \in Int, NEW s \in Int, Moves(k, c, h, s)
  PROVE  /\ \A q \in Keys \ {k} :
              /\ credit'[q] + Spent(q)' = credit[q] + Spent(q)
              /\ Available(q)' = Available(q) /\ Held(q)' = Held(q) /\ Spent(q)' = Spent(q)
         /\ credit'[k] + Spent(k)' = (credit[k] + Spent(k)) + (c + s)
         /\ Available(k)' = Available(k) + (c - h)
         /\ Held(k)' = Held(k) + h /\ Spent(k)' = Spent(k) + s
<1>1. \A q \in Keys : /\ Held(q) \in Nat /\ Spent(q) \in Nat /\ credit[q] \in Nat
                      /\ Available(q) = credit[q] - Held(q)
                      /\ Available(q)' = credit'[q] - Held(q)'
                      /\ Held(q)' = Held(q) + (IF q = k THEN h ELSE 0)
                      /\ Spent(q)' = Spent(q) + (IF q = k THEN s ELSE 0)
                      /\ credit'[q] = credit[q] + (IF q = k THEN c ELSE 0)
  BY AccountParts DEF Held, Spent, Available, Moves
<1>2. \A q \in Keys \ {k} : /\ Held(q)' = Held(q) /\ Spent(q)' = Spent(q)
                            /\ credit'[q] = credit[q] /\ Available(q)' = Available(q)
  BY <1>1
<1>3. /\ Held(k)' = Held(k) + h /\ Spent(k)' = Spent(k) + s
      /\ credit'[k] + Spent(k)' = (credit[k] + Spent(k)) + (c + s)
      /\ Available(k)' = Available(k) + (c - h)
  BY <1>1
<1>. QED  BY <1>2, <1>3

\* A hold is an Authorise.
LEMMA AuthoriseMaps ==
  ASSUME IInv, NEW k \in Keys, NEW n \in Nat, 1 <= n, n <= Available(k), Moves(k, 0, n, 0)
  PROVE  Account!Authorise(k)
<1>1. /\ Held(k) \in Nat /\ Spent(k) \in Nat /\ credit[k] \in Nat
      /\ Available(k) = credit[k] - Held(k) /\ Held(k) <= credit[k]
  BY AccountParts DEF Held, Spent, Available
<1>2. n \in 1..Available(k)
  BY <1>1
<1>3. /\ (credit[k] + Spent(k)) + (0 + 0) = credit[k] + Spent(k)
      /\ Available(k) + (0 - n) = Available(k) - n /\ Spent(k) + 0 = Spent(k)
  BY <1>1
<1>4. /\ [q \in Keys |-> credit[q] + Spent(q)]' = [q \in Keys |-> credit[q] + Spent(q)]
      /\ [q \in Keys |-> Available(q)]' =
              [[q \in Keys |-> Available(q)] EXCEPT ![k] = Available(k) - n]
      /\ [q \in Keys |-> Held(q)]' = [[q \in Keys |-> Held(q)] EXCEPT ![k] = Held(k) + n]
      /\ [q \in Keys |-> Spent(q)]' = [q \in Keys |-> Spent(q)]
  <2>1. /\ \A q \in Keys \ {k} :
             /\ credit'[q] + Spent(q)' = credit[q] + Spent(q)
             /\ Available(q)' = Available(q) /\ Held(q)' = Held(q) /\ Spent(q)' = Spent(q)
        /\ credit'[k] + Spent(k)' = (credit[k] + Spent(k)) + (0 + 0)
        /\ Available(k)' = Available(k) + (0 - n)
        /\ Held(k)' = Held(k) + n /\ Spent(k)' = Spent(k) + 0
    BY MovesMap
  <2>. QED  BY <1>3, <2>1
<1>. QED  BY <1>2, <1>4 DEF Account!Authorise

\* A settlement is a Capture of the whole hold.
LEMMA CaptureMaps ==
  ASSUME IInv, NEW k \in Keys, NEW n \in Nat, NEW m \in Nat, n <= Held(k), m <= n,
         Moves(k, -m, -n, m)
  PROVE  Account!Capture(k)
<1>1. /\ Held(k) \in Nat /\ Spent(k) \in Nat /\ credit[k] \in Nat /\ Available(k) \in Int
  BY AccountParts DEF Held, Spent, Available
<1>2. n \in 0..Held(k) /\ m \in 0..n
  BY <1>1
<1>3. /\ (credit[k] + Spent(k)) + ((-m) + m) = credit[k] + Spent(k)
      /\ Available(k) + ((-m) - (-n)) = Available(k) + (n - m)
      /\ Held(k) + (-n) = Held(k) - n
  BY <1>1
<1>4. -m \in Int /\ -n \in Int
  OBVIOUS
<1>5. /\ [q \in Keys |-> credit[q] + Spent(q)]' = [q \in Keys |-> credit[q] + Spent(q)]
      /\ [q \in Keys |-> Available(q)]' =
              [[q \in Keys |-> Available(q)] EXCEPT ![k] = Available(k) + (n - m)]
      /\ [q \in Keys |-> Held(q)]' = [[q \in Keys |-> Held(q)] EXCEPT ![k] = Held(k) - n]
      /\ [q \in Keys |-> Spent(q)]' = [[q \in Keys |-> Spent(q)] EXCEPT ![k] = Spent(k) + m]
  <2>1. /\ \A q \in Keys \ {k} :
             /\ credit'[q] + Spent(q)' = credit[q] + Spent(q)
             /\ Available(q)' = Available(q) /\ Held(q)' = Held(q) /\ Spent(q)' = Spent(q)
        /\ credit'[k] + Spent(k)' = (credit[k] + Spent(k)) + ((-m) + m)
        /\ Available(k)' = Available(k) + ((-m) - (-n))
        /\ Held(k)' = Held(k) + (-n) /\ Spent(k)' = Spent(k) + m
    BY <1>4, MovesMap
  <2>. QED  BY <1>3, <2>1
<1>. QED  BY <1>2, <1>5 DEF Account!Capture

\* The reversal of a charge is a Refund.
LEMMA RefundMaps ==
  ASSUME IInv, NEW k \in Keys, NEW n \in Nat, n <= Spent(k), Moves(k, n, 0, -n)
  PROVE  Account!Refund(k)
<1>1. /\ Held(k) \in Nat /\ Spent(k) \in Nat /\ credit[k] \in Nat /\ Available(k) \in Int
  BY AccountParts DEF Held, Spent, Available
<1>2. n \in 0..Spent(k)
  BY <1>1
<1>3. /\ (credit[k] + Spent(k)) + (n + (-n)) = credit[k] + Spent(k)
      /\ Available(k) + (n - 0) = Available(k) + n
      /\ Spent(k) + (-n) = Spent(k) - n /\ Held(k) + 0 = Held(k)
  BY <1>1
<1>4. -n \in Int
  OBVIOUS
<1>5. /\ [q \in Keys |-> credit[q] + Spent(q)]' = [q \in Keys |-> credit[q] + Spent(q)]
      /\ [q \in Keys |-> Available(q)]' =
              [[q \in Keys |-> Available(q)] EXCEPT ![k] = Available(k) + n]
      /\ [q \in Keys |-> Held(q)]' = [q \in Keys |-> Held(q)]
      /\ [q \in Keys |-> Spent(q)]' = [[q \in Keys |-> Spent(q)] EXCEPT ![k] = Spent(k) - n]
  <2>1. /\ \A q \in Keys \ {k} :
             /\ credit'[q] + Spent(q)' = credit[q] + Spent(q)
             /\ Available(q)' = Available(q) /\ Held(q)' = Held(q) /\ Spent(q)' = Spent(q)
        /\ credit'[k] + Spent(k)' = (credit[k] + Spent(k)) + (n + (-n))
        /\ Available(k)' = Available(k) + (n - 0)
        /\ Held(k)' = Held(k) + 0 /\ Spent(k)' = Spent(k) + (-n)
    BY <1>4, MovesMap
  <2>. QED  BY <1>3, <2>1
<1>. QED  BY <1>2, <1>5 DEF Account!Refund

----------------------------------------------------------------------------
(* Every transaction maps to a step of the account                         *)

\* A step that opens, settles and reverses nothing lets go of holds at most.
LEMMA ClosingMaps ==
  ASSUME IInv, IInv', credit' = credit, OnlyCloses(bill, bill'),
         \A r \in Requests : bill[r].state = "settled" \/ bill'[r].state = "settled" =>
           /\ bill'[r].state = bill[r].state /\ bill'[r].key = bill[r].key
           /\ bill'[r].charged = bill[r].charged
  PROVE  Account!Next
<1>1. bill \in [Requests -> Bills] /\ bill' \in [Requests -> Bills]
  BY DEF IInv, TypeOK
<1>2. \A k \in Keys : HeldIn(bill', k) <= HeldIn(bill, k)
  BY <1>1, HeldShrinks DEF OnlyCloses
<1>3. \A k \in Keys : SpentIn(bill', k) = SpentIn(bill, k)
  BY <1>1, SpentSame
<1>4. Account!Release
  BY <1>2, <1>3, ReleaseMaps
<1>. QED  BY <1>4 DEF Account!Next

LEMMA AccountStep ==
  ASSUME IInv, BillMatchesLedger, [Next]_vars
  PROVE  Account!Next
<1>0. /\ TypeOK /\ KeyOfBill /\ IInv'
      /\ bill \in [Requests -> Bills] /\ bill' \in [Requests -> Bills]
      /\ credit \in [Keys -> Nat]
  BY InvStep DEF IInv, TypeOK
<1>1. ASSUME bill' = bill, credit' = credit PROVE Account!Next
  BY <1>0, <1>1, ClosingMaps DEF OnlyCloses
<1>2. ASSUME bill' = [r \in Requests |-> Expire(bill[r])], credit' = credit PROVE Account!Next
  <2>1. OnlyCloses(bill, bill')
    BY <1>2 DEF OnlyCloses, Expire, IsHeld
  <2>2. \A r \in Requests : bill[r].state = "settled" \/ bill'[r].state = "settled" =>
          /\ bill'[r].state = bill[r].state /\ bill'[r].key = bill[r].key
          /\ bill'[r].charged = bill[r].charged
    BY <1>0, <1>2 DEF Expire, IsHeld, OpenStates, Bills
  <2>. QED  BY <1>0, <1>2, <2>1, <2>2, ClosingMaps
\* An open bill moves to another state that is not settled.
<1>3. ASSUME NEW q \in Requests, NEW s \in BillStates \ {"settled"}, IsHeld(bill[q]),
             bill' = [bill EXCEPT ![q].state = s], credit' = credit
      PROVE Account!Next
  <2>1. OnlyCloses(bill, bill')
    BY <1>0, <1>3 DEF OnlyCloses, IsHeld, OpenStates, Bills
  <2>2. \A r \in Requests : bill[r].state = "settled" \/ bill'[r].state = "settled" =>
          /\ bill'[r].state = bill[r].state /\ bill'[r].key = bill[r].key
          /\ bill'[r].charged = bill[r].charged
    BY <1>0, <1>3 DEF IsHeld, OpenStates, Bills
  <2>. QED  BY <1>0, <1>3, <2>1, <2>2, ClosingMaps
<1>4. ASSUME NEW k \in Keys, NEW n \in Amounts, NEW kind, NEW ref,
             CreditKey(k, n, kind, ref), bill' = bill
      PROVE Account!Next
  <2>1. n \in Nat \ {0}
    BY MoneyAssumption
  <2>2. credit' = [credit EXCEPT ![k] = credit[k] + n]
    BY <1>4 DEF CreditKey
  <2>3. Account!PayIn(k)
    BY <1>4, <2>1, <2>2, PayInMaps
  <2>. QED  BY <2>3 DEF Account!Next
<1>5. ASSUME NEW k \in Keys, NEW n \in Amounts \cup {0}, CreateKey(k, n) PROVE Account!Next
  <2>1. CASE n > 0
    <3>1. n \in Amounts
      BY <2>1
    <3>. QED  BY <1>4, <1>5, <2>1, <3>1 DEF CreateKey
  <2>2. CASE ~(n > 0)
    BY <1>1, <1>5, <2>2 DEF CreateKey
  <2>. QED  BY <2>1, <2>2
<1>6. ASSUME NEW k \in Keys, NEW n \in Amounts, NEW g \in GrantIds \cup {NoRef}, Grant(k, n, g)
      PROVE Account!Next
  BY <1>4, <1>6 DEF Grant
<1>7. ASSUME NEW r \in Requests, NEW cap \in Budgets, ReserveHold(r, cap) PROVE Account!Next
  <2>. DEFINE k == reserving[r]
              budget == Least(Available(k), cap)
              new == [NoBill EXCEPT !.state = "reserved", !.key = k, !.reserved = budget]
  <2>1. k \in Keys /\ bill[r].state = "none"
    BY <1>0, <1>7 DEF ReserveHold, TypeOK
  <2>2. HeldIn(bill, k) \in Nat /\ credit[k] \in Nat /\ cap \in Nat
    BY <2>1, AccountParts, MoneyAssumption
  <2>3. budget \in Nat /\ 1 <= budget /\ budget <= Available(k)
    BY <1>7, <2>2 DEF ReserveHold, Least, Available, Held
  <2>4. bill' = [bill EXCEPT ![r] = new] /\ credit' = credit
    BY <1>7 DEF ReserveHold
  <2>5. new \in Bills /\ new.state = "reserved" /\ new.key = k /\ new.reserved = budget
    <3>. HIDE DEF budget
    <3>. QED  BY <2>1, <2>3 DEF NoBill, Bills, BillStates
  <2>6. IsHeld(new) /\ ~IsHeld(bill[r])
    BY <2>1, <2>5 DEF IsHeld, OpenStates
  <2>. HIDE DEF new
  <2>7. \A q \in Keys : HeldIn(bill', q) = HeldIn(bill, q) + (IF q = k THEN budget ELSE 0)
    <3>1. \A q \in Keys : HeldIn([bill EXCEPT ![r] = new], q)
              = HeldIn(bill, q) + (IF new.key = q THEN new.reserved ELSE 0)
      BY <1>0, <2>5, <2>6, HeldOpens
    <3>. HIDE DEF budget, k
    <3>. QED  BY <2>4, <2>5, <3>1
  <2>8. \A q \in Keys : SpentIn(bill', q) = SpentIn(bill, q)
    <3>1. \A p \in Requests : bill[p].state = "settled" \/ bill'[p].state = "settled" =>
          /\ bill'[p].state = bill[p].state /\ bill'[p].key = bill[p].key
          /\ bill'[p].charged = bill[p].charged
      BY <1>0, <2>1, <2>4, <2>5
    <3>. QED  BY <1>0, <3>1, SpentSame
  <2>9. Moves(k, 0, budget, 0)
    <3>1. \A q \in Keys : /\ SpentIn(bill, q) \in Nat /\ credit[q] \in Nat
      BY AccountParts
    <3>. HIDE DEF budget, k
    <3>2. \A q \in Keys : credit'[q] = credit[q] + (IF q = k THEN 0 ELSE 0)
      <4>1. ASSUME NEW q \in Keys PROVE credit'[q] = credit[q] + 0
        BY <2>4, <3>1
      <4>. QED  BY <4>1
    <3>3. \A q \in Keys : SpentIn(bill', q) = SpentIn(bill, q) + (IF q = k THEN 0 ELSE 0)
      <4>1. ASSUME NEW q \in Keys PROVE SpentIn(bill', q) = SpentIn(bill, q) + 0
        BY <2>8, <3>1
      <4>. QED  BY <4>1
    <3>. QED  BY <2>7, <3>2, <3>3 DEF Moves
  <2>10. Account!Authorise(k)
    <3>. HIDE DEF budget, k
    <3>. QED  BY <2>1, <2>3, <2>9, AuthoriseMaps
  <2>. QED  BY <2>1, <2>10 DEF Account!Next
<1>8. ASSUME NEW r \in Requests, NEW quote \in Quotes, SettleQuoted(r, quote) PROVE Account!Next
  <2>. DEFINE b == bill[r]
              charged == Charge(b, quote)
              new == [b EXCEPT !.state = "settled", !.actual = quote,
                               !.charged = charged, !.absorbed = quote - charged]
  <2>1. b \in Bills /\ IsHeld(b) /\ b.key \in Keys
    BY <1>0, <1>8 DEF SettleQuoted, KeyOfBill, IsHeld, OpenStates
  <2>2. charged \in Nat /\ charged <= b.reserved /\ quote - charged \in Nat
    BY <1>0, <2>1, ChargeBounds
  <2>3. bill' = [bill EXCEPT ![r] = new]
    BY <1>8 DEF SettleQuoted
  <2>4. credit' = [credit EXCEPT ![b.key] = @ + (-charged)]
    BY <1>8 DEF SettleQuoted, CreditKey
  <2>5. /\ new \in Bills /\ ~IsHeld(new) /\ new.key = b.key /\ new.reserved = b.reserved
        /\ new.state = "settled" /\ new.charged = charged
    <3>. HIDE DEF charged
    <3>. QED  BY <2>1, <2>2, MoneyAssumption DEF Bills, BillStates, IsHeld, OpenStates
  <2>. HIDE DEF new, charged
  <2>6. /\ b.reserved <= HeldIn(bill, b.key) /\ b.reserved \in Nat /\ b.state # "settled"
    BY <1>0, <2>1, <2>5, HeldCloses DEF Bills, IsHeld, OpenStates
  <2>7. \A q \in Keys : HeldIn(bill', q) = HeldIn(bill, q) + (IF q = b.key THEN -b.reserved ELSE 0)
    <3>1. ASSUME NEW q \in Keys
          PROVE HeldIn(bill', q) = HeldIn(bill, q) + (IF q = b.key THEN -b.reserved ELSE 0)
      <4>. DEFINE c == [bill EXCEPT ![r] = new]
      <4>1. /\ bill[r].key = q => HeldIn(c, q) = HeldIn(bill, q) - bill[r].reserved
            /\ bill[r].key # q => HeldIn(c, q) = HeldIn(bill, q)
        <5>1. new \in Bills /\ ~IsHeld(new)
          BY <2>5
        <5>2. bill \in [Requests -> Bills] /\ IsHeld(bill[r])
          BY <1>0, <2>1
        <5>. QED  BY <5>1, <5>2, HeldCloses
      <4>2. bill' = c
        BY <2>3
      <4>3. HeldIn(bill, q) \in Nat /\ b.reserved \in Nat
        BY <2>6, AccountParts
      <4>. HIDE DEF c
      <4>4. CASE b.key = q
        BY <4>1, <4>2, <4>3, <4>4
      <4>5. CASE b.key # q
        BY <4>1, <4>2, <4>3, <4>5
      <4>. QED  BY <4>4, <4>5
    <3>. QED  BY <3>1
  <2>8. \A q \in Keys : SpentIn(bill', q) = SpentIn(bill, q) + (IF q = b.key THEN charged ELSE 0)
    <3>1. \A q \in Keys : SpentIn([bill EXCEPT ![r] = new], q)
            = SpentIn(bill, q) + (IF new.key = q THEN new.charged ELSE 0)
      BY <1>0, <2>5, <2>6, SpentAdds
    <3>. HIDE DEF b
    <3>. QED  BY <2>3, <2>5, <3>1
  <2>9. \A q \in Keys : credit'[q] = credit[q] + (IF q = b.key THEN -charged ELSE 0)
    <3>. HIDE DEF b
    <3>. QED  BY <1>0, <2>2, <2>4
  <2>10. Moves(b.key, -charged, -b.reserved, charged)
    <3>. HIDE DEF b
    <3>. QED  BY <2>7, <2>8, <2>9 DEF Moves
  <2>11. Account!Capture(b.key)
    <3>1. b.reserved <= Held(b.key)
      BY <2>6 DEF Held
    <3>. HIDE DEF b
    <3>. QED  BY <2>1, <2>2, <2>6, <2>10, <3>1, CaptureMaps
  <2>. QED  BY <2>1, <2>11 DEF Account!Next
<1>9. ASSUME NEW r \in Requests, Reverse(r) PROVE Account!Next
  <2>. DEFINE b == bill[r]
  <2>1. /\ b \in Bills /\ b.key \in Keys /\ b.charged \in Nat
        /\ b.state \in {"reserved", "pending", "settled"}
    BY <1>0, <1>9 DEF Reverse, Reversible, KeyOfBill, Bills, BillStates
  <2>2. /\ bill' = [bill EXCEPT ![r].state = "reversed"]
        /\ credit' = [credit EXCEPT ![b.key] = credit[b.key] + b.charged]
    BY <1>9 DEF Reverse, CreditKey
  <2>3. CASE b.state # "settled"
    <3>1. ~(b.charged > 0)
      BY <2>1, <2>3 DEF BillMatchesLedger, BillAndLedgerAgree
    <3>2. credit' = credit
      BY <1>0, <2>1, <2>2, <3>1
    <3>3. IsHeld(b)
      BY <2>1, <2>3 DEF IsHeld, OpenStates
    <3>. QED  BY <1>3, <2>2, <3>2, <3>3 DEF BillStates
  <2>4. CASE b.state = "settled"
    <3>. DEFINE new == [b EXCEPT !.state = "reversed"]
    <3>1. bill' = [bill EXCEPT ![r] = new]
      BY <1>0, <2>2 DEF Bills
    <3>2. new \in Bills /\ new.state # "settled" /\ ~IsHeld(new) /\ ~IsHeld(b)
      BY <2>1, <2>4 DEF Bills, BillStates, IsHeld, OpenStates
    <3>. HIDE DEF new
    <3>3. ASSUME NEW q \in Keys
          PROVE /\ b.key = q => /\ SpentIn([bill EXCEPT ![r] = new], q) = SpentIn(bill, q) - b.charged
                                /\ b.charged <= SpentIn(bill, q)
                /\ b.key # q => SpentIn([bill EXCEPT ![r] = new], q) = SpentIn(bill, q)
      BY <1>0, <2>4, <3>2, SpentRemoves
    <3>4. \A q \in Keys : SpentIn(bill', q) = SpentIn(bill, q) + (IF q = b.key THEN -b.charged ELSE 0)
      <4>1. \A q \in Keys : SpentIn(bill, q) \in Nat
        BY AccountParts
      <4>2. ASSUME NEW q \in Keys, b.key = q
            PROVE SpentIn(bill', q) = SpentIn(bill, q) + (-b.charged)
        <5>1. SpentIn([bill EXCEPT ![r] = new], q) = SpentIn(bill, q) - b.charged
          BY <3>3, <4>2
        <5>2. SpentIn(bill', q) = SpentIn(bill, q) - b.charged
          BY <3>1, <5>1
        <5>3. b.charged \in Nat /\ SpentIn(bill, q) \in Nat
          BY <2>1, <4>1
        <5>. HIDE DEF b
        <5>. QED  BY <5>2, <5>3
      <4>3. ASSUME NEW q \in Keys, b.key # q
            PROVE SpentIn(bill', q) = SpentIn(bill, q) + 0
        <5>1. SpentIn([bill EXCEPT ![r] = new], q) = SpentIn(bill, q)
          BY <3>3, <4>3
        <5>2. SpentIn(bill', q) = SpentIn(bill, q)
          BY <3>1, <5>1
        <5>3. SpentIn(bill, q) \in Nat
          BY <4>1
        <5>. QED  BY <5>2, <5>3
      <4>. HIDE DEF b
      <4>. QED  BY <4>2, <4>3
    <3>5. \A q \in Keys : HeldIn(bill', q) = HeldIn(bill, q) + 0
      <4>1. \A p \in Requests : IsHeld(bill'[p]) =>
              IsHeld(bill[p]) /\ bill'[p].key = bill[p].key /\ bill'[p].reserved = bill[p].reserved
        BY <1>0, <3>1, <3>2
      <4>2. \A p \in Requests : IsHeld(bill[p]) =>
              IsHeld(bill'[p]) /\ bill[p].key = bill'[p].key /\ bill[p].reserved = bill'[p].reserved
        BY <1>0, <3>1, <3>2
      <4>3. \A q \in Keys : HeldIn(bill', q) <= HeldIn(bill, q)
        BY <1>0, <4>1, HeldShrinks
      <4>4. \A q \in Keys : HeldIn(bill, q) <= HeldIn(bill', q)
        BY <1>0, <4>2, HeldShrinks
      <4>5. \A q \in Keys : HeldIn(bill, q) \in Nat /\ HeldIn(bill', q) \in Nat
        BY <1>0, HeldType
      <4>. QED  BY <4>3, <4>4, <4>5
    <3>6. \A q \in Keys : credit'[q] = credit[q] + (IF q = b.key THEN b.charged ELSE 0)
      <4>. HIDE DEF b
      <4>. QED  BY <1>0, <2>1, <2>2
    <3>7. Moves(b.key, b.charged, 0, -b.charged)
      <4>. HIDE DEF b
      <4>. QED  BY <3>4, <3>5, <3>6 DEF Moves
    <3>8. Account!Refund(b.key)
      <4>1. b.charged <= Spent(b.key)
        BY <2>1, <3>3 DEF Spent
      <4>. HIDE DEF b
      <4>. QED  BY <2>1, <3>7, <4>1, RefundMaps
    <3>. QED  BY <2>1, <3>8 DEF Account!Next
  <2>. QED  BY <2>3, <2>4
<1>10. ASSUME NEW q \in Requests, NEW outcome \in Outcomes, NEW dispatched \in BOOLEAN,
              SettleUnmetered(q, outcome, dispatched)
       PROVE Account!Next
  <2>1. PICK s \in {"pending", "released"} : bill' = [bill EXCEPT ![q].state = s]
    BY <1>10, Zenon DEF SettleUnmetered
  <2>2. IsHeld(bill[q]) /\ credit' = credit
    BY <1>10 DEF SettleUnmetered
  <2>3. s \in BillStates \ {"settled"}
    BY DEF BillStates
  <2>. QED  BY <1>3, <2>1, <2>2, <2>3
<1>11. ASSUME NEW q \in Requests, SettleExpired(q) PROVE Account!Next
  <2>1. "released" \in BillStates \ {"settled"}
    BY DEF BillStates
  <2>. QED  BY <1>3, <1>11, <2>1 DEF SettleExpired
<1>12. ASSUME NEW q \in Requests, TimePasses(q) PROVE Account!Next
  <2>1. /\ bill' = [bill EXCEPT ![q].expired = TRUE] /\ credit' = credit
    BY <1>12 DEF TimePasses
  <2>2. OnlyCloses(bill, bill')
    BY <1>0, <2>1 DEF OnlyCloses, IsHeld, Bills
  <2>3. \A r \in Requests : /\ bill'[r].state = bill[r].state /\ bill'[r].key = bill[r].key
                            /\ bill'[r].charged = bill[r].charged
    BY <1>0, <2>1 DEF Bills
  <2>. QED  BY <1>0, <2>1, <2>2, <2>3, ClosingMaps
<1>13. ASSUME ReleaseFailed \/ PendFinished PROVE Account!Next
  <2>1. credit' = credit
    BY <1>13 DEF ReleaseFailed, PendFinished
  <2>2. \A r \in Requests :
          \/ bill'[r] = bill[r]
          \/ /\ bill[r].state = "reserved" /\ bill'[r].state \in {"released", "pending"}
             /\ bill'[r].key = bill[r].key /\ bill'[r].reserved = bill[r].reserved
    BY <1>0, <1>13 DEF ReleaseFailed, PendFinished, Bills
  <2>3. OnlyCloses(bill, bill')
    BY <2>2 DEF OnlyCloses, IsHeld, OpenStates
  <2>4. \A r \in Requests : bill[r].state = "settled" \/ bill'[r].state = "settled" =>
          /\ bill'[r].state = bill[r].state /\ bill'[r].key = bill[r].key
          /\ bill'[r].charged = bill[r].charged
    BY <2>2
  <2>. QED  BY <1>0, <2>1, <2>3, <2>4, ClosingMaps
<1>14. CASE Calls \/ RecoverCalls \/ UNCHANGED vars
  BY <1>1, <1>14 DEF Calls, BeginCall, FinalizeCall, RecoverCalls, vars
<1>15. CASE Restart \/ ExpireReservations
  BY <1>2, <1>15 DEF Restart, ExpireReservations
<1>16. ASSUME NEW k \in Keys, DeleteKey(k) \/ RotateKey(k) PROVE Account!Next
  BY <1>1, <1>16 DEF DeleteKey, RotateKey
<1>17. ASSUME NEW r \in Requests, NEW k \in Keys, ReserveBegin(r, k) PROVE Account!Next
  BY <1>2, <1>17 DEF ReserveBegin
<1>18. ASSUME NEW r \in Requests, NEW cap \in Budgets, ReserveReturn(r, cap) PROVE Account!Next
  BY <1>1, <1>18 DEF ReserveReturn
<1>. QED
  BY <1>5, <1>6, <1>7, <1>8, <1>9, <1>10, <1>11, <1>12, <1>13, <1>14, <1>15, <1>16,
     <1>17, <1>18 DEF Next, Admin, Hold, Close, Startup

\* An empty wallet is an empty account.
LEMMA AccountInit == Init => Account!Init
<1>. SUFFICES ASSUME Init PROVE Account!Init
  OBVIOUS
<1>1. ASSUME NEW k \in Keys
      PROVE Held(k) = 0 /\ Spent(k) = 0 /\ Available(k) = 0 /\ credit[k] = 0
  <2>1. HoldsIn(bill, k) = {} /\ ChargesIn(bill, k) = {}
    BY DEF Init, HoldsIn, ChargesIn, IsHeld, OpenStates, NoBill
  <2>2. HeldIn(bill, k) = Cardinality({}) /\ SpentIn(bill, k) = Cardinality({})
    BY <2>1 DEF HeldIn, SpentIn, Total, Units
  <2>3. credit[k] = 0
    BY DEF Init
  <2>. QED  BY <2>2, <2>3, FS_EmptySet DEF Held, Spent, Available
<1>. QED  BY <1>1 DEF Account!Init

\* Every behaviour of the wallet is a behaviour of the account: money enters
\* only by a grant and leaves only by a charge against the request's own hold,
\* through crashes, expiry, late settlements and reversals.
THEOREM Refines == Spec => ImplementsAccount
<1>1. Init => Account!Init
  BY AccountInit
<1>2. IInv /\ BillMatchesLedger /\ [Next]_vars => [Account!Next]_(Account!pvars)
  BY AccountStep
<1>. QED
  BY <1>1, <1>2, Inductive, BillMatchesLedgerAlways, PTL
     DEF Spec, ImplementsAccount, Account!Spec

\* What was ever paid in is free, held or spent, and none of the three is
\* negative, in every reachable state of the wallet.
THEOREM MoneyIsConserved == Spec => []Account!Conserved
<1>1. IInv => Account!Conserved
  <2>. SUFFICES ASSUME IInv PROVE Account!Conserved
    OBVIOUS
  <2>1. \A k \in Keys : /\ Held(k) \in Nat /\ Spent(k) \in Nat /\ credit[k] \in Nat
                        /\ Held(k) <= credit[k] /\ Available(k) = credit[k] - Held(k)
    BY AccountParts DEF Held, Spent, Available
  <2>2. \A k \in Keys : /\ Available(k) \in Nat /\ credit[k] + Spent(k) \in Nat
                        /\ credit[k] + Spent(k) = Available(k) + Held(k) + Spent(k)
    BY <2>1
  <2>. QED  BY <2>1, <2>2 DEF Account!Conserved
<1>. QED  BY <1>1, Inductive, PTL
=============================================================================
