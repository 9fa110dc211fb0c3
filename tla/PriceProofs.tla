------------------------------ MODULE PriceProofs ------------------------------
(***************************************************************************)
(* Theorems about PriceBook for any models, names, rates, calls and        *)
(* administrators.                                                         *)
(* After those about prices follow the laws of lists, and with them the    *)
(* theorems about the tools that Grok sends and gives back (Grok) and the  *)
(* lists of models that the desktop merges (Roster).                       *)
(*                                                                         *)
(* What a call pays is decided by copies that were taken one after the     *)
(* other (Copied).  A price set by hand stands because it marks its row as *)
(* one that no synchronisation touches (Marked).  That an edit alone is    *)
(* not lost holds because what it will write is what was asked for, as     *)
(* long as nobody else is at it (Alone).                                   *)
(***************************************************************************)
EXTENDS PriceBook, Collections, FiniteSetTheorems, WellFoundedInduction, TLAPS

Bills == [st : {"none", "asking", "priced", "held", "settled", "refused"}, model : Models, at : Nat, row : Rows,
          conf : Confs, told : Nat, used : 0..2, charged : Nat]

Types ==
  /\ price \in [Models -> Rows] /\ conf \in Confs /\ asked \in Confs /\ contested \in BOOLEAN
  /\ edits \in [Admins -> [on : BOOLEAN, conf : Confs]]
  /\ hand \in [Models -> [kind : Kinds, rate : 0..MaxRate]]
  /\ bills \in [Buyers -> Bills]

\* What one unit costs by a row and the settings.
Unit(row, config) == row.rate[row.kind] * Factor(row, config)

\* A bill asks under one of its names.
Asking == \A c \in Buyers : bills[c].at \in DOMAIN Names[bills[c].model]

\* A bill that has its price has one that sells, and a hold knows what it told.
Copied ==
  \A c \in Buyers :
    /\ bills[c].st \in {"priced", "held"} => Complete(bills[c].row)
    /\ bills[c].st = "held" => bills[c].told = Unit(bills[c].row, bills[c].conf)

\* A settled bill was priced at what it was told, and that was something.
Paid ==
  \A c \in Buyers : bills[c].st = "settled" =>
    /\ bills[c].charged = Least(bills[c].told * bills[c].used, Budget) /\ bills[c].charged > 0

Marked ==
  \A m \in Models : hand[m].rate # 0 => price[m].src = "manual" /\ price[m].rate[hand[m].kind] = hand[m].rate

Alone ==
  ~contested =>
    /\ \A a, b \in Admins : edits[a].on /\ edits[b].on => a = b
    /\ \A a \in Admins : edits[a].on => edits[a].conf = asked
    /\ (\A a \in Admins : ~edits[a].on) => conf = asked

CInv == Types /\ Asking /\ Copied /\ Paid /\ Marked /\ Alone

\* The constants that are numbers.
LEMMA Numbers ==
  /\ MaxRate \in Nat /\ MaxFactor \in Nat /\ Budget \in Nat /\ MaxRate > 0 /\ MaxFactor > 0 /\ Budget > 0
  /\ \A m \in Models : Catalog[m] \in 0..MaxRate
BY BoundsAssumption

\* A row that sells costs something.
LEMMA UnitCosts ==
  ASSUME NEW row \in Rows, NEW config \in Confs, Complete(row)
  PROVE  Unit(row, config) \in Nat /\ Unit(row, config) > 0
<1>. DEFINE r == row.rate[row.kind]
            f == Factor(row, config)
<1>1. r \in Nat /\ r > 0
  BY Numbers DEF Rows, Complete
<1>2. f \in Nat /\ f > 0
  BY Numbers DEF Rows, Confs, Factor
<1>. HIDE DEF r, f
<1>3. r * f \in Nat /\ r * f > 0
  BY <1>1, <1>2
<1>. QED  BY <1>3 DEF Unit, r, f

\* What use costs at a price that is something, up to the budget.
LEMMA ChargeCosts ==
  ASSUME NEW t \in Nat, t > 0, NEW used \in 1..2
  PROVE  Least(t * used, Budget) \in Nat /\ Least(t * used, Budget) > 0
<1>1. t * used \in Nat /\ t * used > 0
  BY used = 1 \/ used = 2
<1>. QED  BY <1>1, Numbers DEF Least

LEMMA InitHolds == Init => CInv
<1>. SUFFICES ASSUME Init PROVE CInv
  OBVIOUS
<1>1. NoRow \in Rows /\ [factor |-> 1, credit |-> 0] \in Confs
  BY Numbers DEF NoRow, Rows, Confs, Kinds
<1>2. \A m \in Models : NoBill(m) \in Bills /\ NoBill(m).st = "none"
  BY <1>1 DEF NoBill, Bills
<1>3. bills \in [Buyers -> Bills] /\ \A c \in Buyers : bills[c].st = "none"
  BY <1>2 DEF Init
<1>4. /\ \A m \in Models : hand[m].rate = 0
      /\ hand \in [Models -> [kind : Kinds, rate : 0..MaxRate]]
  BY Numbers DEF Init, Kinds
<1>5. edits \in [Admins -> [on : BOOLEAN, conf : Confs]] /\ \A a \in Admins : ~edits[a].on
  BY <1>1 DEF Init, NoEdit
<1>6. Types
  BY <1>1, <1>3, <1>4, <1>5 DEF Types, Init
<1>7. Asking
  <2>1. \A m \in Models : NoBill(m).at = 1 /\ NoBill(m).model = m /\ 1 \in DOMAIN Names[m]
    <3>1. \A m \in Models : Names[m] \in Seq(Models) /\ Names[m] # <<>>
      BY BoundsAssumption
    <3>. QED  BY <3>1 DEF NoBill
  <2>. QED  BY <2>1 DEF Init, Asking
<1>. QED  BY <1>3, <1>4, <1>5, <1>6, <1>7 DEF CInv, Copied, Paid, Marked, Alone, Init

-----------------------------------------------------------------------------
(* The rows.                                                               *)

LEMMA OfficialRow ==
  ASSUME NEW m \in Models, NEW row \in Rows
  PROVE  Official(m, row) \in Rows
<1>. DEFINE rates == [k \in Kinds |-> IF k = "text" THEN Catalog[m] ELSE 0]
<1>1. rates \in [Kinds -> 0..MaxRate]
  BY Numbers
<1>. HIDE DEF rates
<1>2. [row EXCEPT !.st = IF @ = "none" THEN "active" ELSE @, !.kind = "text", !.src = "catalog", !.rate = rates] \in Rows
  BY <1>1 DEF Rows, Kinds
<1>. QED  BY <1>2 DEF Official, rates

\* A synchronisation leaves a row that was set by hand alone.
LEMMA SyncedRows ==
  ASSUME Types, Marked
  PROVE  Synced \in [Models -> Rows] /\ \A m \in Models : hand[m].rate # 0 => Synced[m] = price[m]
<1>1. \A m \in Models : Synced[m] \in Rows
  BY OfficialRow DEF Synced, Types
<1>2. ASSUME NEW m \in Models, hand[m].rate # 0 PROVE Synced[m] = price[m]
  BY <1>2 DEF Synced, Syncs, Marked
<1>. QED  BY <1>1, <1>2 DEF Synced

LEMMA RowsStep ==
  ASSUME Types, Marked, [Next]_vars
  PROVE  price' \in [Models -> Rows] /\ hand' \in [Models -> [kind : Kinds, rate : 0..MaxRate]] /\ Marked'
<1>. DEFINE Good == price' \in [Models -> Rows] /\ hand' \in [Models -> [kind : Kinds, rate : 0..MaxRate]] /\ Marked'
<1>1. CASE UNCHANGED <<price, hand>>
  BY <1>1 DEF Types, Marked
<1>2. CASE price' = Synced /\ hand' = hand
  BY <1>2, SyncedRows DEF Types, Marked
<1>3. ASSUME NEW m \in Models, NEW kind \in Kinds, NEW rate \in 0..MaxRate, SetOfficial(m, kind, rate)
      PROVE  Good
  <2>. DEFINE row == [price[m] EXCEPT !.st = IF @ = "none" THEN "active" ELSE @, !.kind = kind,
                                      !.rate[kind] = rate, !.src = "manual"]
  <2>1. row \in Rows /\ row.src = "manual" /\ row.rate[kind] = rate
    <3>. DEFINE rates == [price[m].rate EXCEPT ![kind] = rate]
    <3>1. price[m] \in Rows /\ price[m].rate \in [Kinds -> 0..MaxRate]
      BY DEF Types, Rows
    <3>2. row = [price[m] EXCEPT !.st = IF @ = "none" THEN "active" ELSE @, !.kind = kind,
                                 !.rate = rates, !.src = "manual"]
      BY <3>1 DEF Rows
    <3>3. rates \in [Kinds -> 0..MaxRate] /\ rates[kind] = rate
      BY <3>1
    <3>. HIDE DEF rates, row
    <3>. QED  BY <3>1, <3>2, <3>3 DEF Rows
  <2>2. price' = [price EXCEPT ![m] = row] /\ hand' = [hand EXCEPT ![m] = [kind |-> kind, rate |-> rate]]
    BY <1>3 DEF SetOfficial
  <2>. HIDE DEF row
  <2>. QED  BY <2>1, <2>2 DEF Types, Marked
<1>4. ASSUME NEW m \in Models, NEW row \in Rows, SetOther(m, row), row.src = price[m].src, row.rate = price[m].rate
      PROVE  Good
  <2>1. price' = [price EXCEPT ![m] = row] /\ hand' = hand
    BY <1>4 DEF SetOther
  <2>. QED  BY <1>4, <2>1 DEF Types, Marked
<1>5. ASSUME NEW m \in Models, NEW factor \in 0..MaxFactor, SetFactor(m, factor) PROVE Good
  <2>0. price[m] \in Rows
    BY DEF Types
  <2>1. [price[m] EXCEPT !.factor = factor] \in Rows
    <3>. DEFINE limits == 0..MaxFactor
    <3>1. factor \in limits /\ price[m] \in [st : {"none", "active", "disabled"}, src : {"catalog", "manual"},
                                             kind : Kinds, rate : [Kinds -> 0..MaxRate], factor : limits]
      BY <2>0 DEF Rows
    <3>. HIDE DEF limits
    <3>2. [price[m] EXCEPT !.factor = factor] \in [st : {"none", "active", "disabled"}, src : {"catalog", "manual"},
                                                  kind : Kinds, rate : [Kinds -> 0..MaxRate], factor : limits]
      BY <3>1
    <3>. QED  BY <3>2 DEF limits, Rows
  <2>. QED  BY <1>4, <1>5, <2>1 DEF SetFactor, Types, Rows
<1>6. ASSUME NEW m \in Models, NEW st \in {"active", "disabled"}, SetStatus(m, st) PROVE Good
  <2>0. price[m] \in Rows
    BY DEF Types
  <2>1. [price[m] EXCEPT !.st = st] \in Rows
    BY <2>0 DEF Rows
  <2>. QED  BY <1>4, <1>6, <2>1 DEF SetStatus, Types, Rows
<1>7. ASSUME NEW m \in Models, NEW kind \in Kinds, SetKind(m, kind) PROVE Good
  <2>0. price[m] \in Rows
    BY DEF Types
  <2>1. [price[m] EXCEPT !.kind = kind] \in Rows
    BY <2>0 DEF Rows
  <2>. QED  BY <1>4, <1>7, <2>1 DEF SetKind, Types, Rows
<1>8. CASE Sync
  BY <1>2, <1>8 DEF Sync
<1>9. ASSUME NEW a \in Admins, EditEnd(a) \/ \E factor \in 0..MaxFactor, credit \in 0..2 : EditBegin(a, factor, credit)
      PROVE  Good
  BY <1>1, <1>9 DEF EditEnd, EditBegin
<1>10. ASSUME NEW c \in Buyers, Reserve(c) PROVE Good
  <2>1. hand' = hand /\ price' \in {Synced, price}
    BY <1>10 DEF Reserve, Set
  <2>. QED  BY <1>1, <1>2, <2>1
<1>11. ASSUME NEW c \in Buyers, Ask(c) \/ Hold(c) \/ Loses(c) \/ \E used \in 1..2 : Settle(c, used) PROVE Good
  <2>1. UNCHANGED <<price, hand>>
    BY <1>11 DEF Ask, Hold, Loses, Settle, Set
  <2>. QED  BY <1>1, <2>1
<1>. QED  BY <1>1, <1>3, <1>5, <1>6, <1>7, <1>8, <1>9, <1>10, <1>11 DEF Next, vars

-----------------------------------------------------------------------------
(* The settings.                                                           *)

LEMMA SettingsStep ==
  ASSUME Types, Alone, [Next]_vars
  PROVE  /\ conf' \in Confs /\ asked' \in Confs /\ contested' \in BOOLEAN
         /\ edits' \in [Admins -> [on : BOOLEAN, conf : Confs]] /\ Alone'
<1>. DEFINE Good == /\ conf' \in Confs /\ asked' \in Confs /\ contested' \in BOOLEAN
                    /\ edits' \in [Admins -> [on : BOOLEAN, conf : Confs]] /\ Alone'
<1>1. CASE UNCHANGED <<conf, edits, asked, contested>>
  BY <1>1 DEF Types, Alone
<1>2. ASSUME NEW a \in Admins, NEW factor \in 0..MaxFactor, NEW credit \in 0..2, EditBegin(a, factor, credit)
      PROVE  Good
  <2>. DEFINE given(old) == [factor |-> IF factor = 0 THEN old.factor ELSE factor,
                             credit |-> IF credit = 2 THEN old.credit ELSE credit]
  <2>1. \A old \in Confs : given(old) \in Confs
    BY Numbers DEF Confs
  <2>2. /\ ~edits[a].on /\ edits' = [edits EXCEPT ![a] = [on |-> TRUE, conf |-> given(conf)]]
        /\ asked' = given(asked) /\ contested' = (contested \/ \E b \in Admins : edits[b].on) /\ conf' = conf
    BY <1>2 DEF EditBegin
  <2>. HIDE DEF given
  <2>3. /\ given(conf) \in Confs /\ given(asked) \in Confs
        /\ edits' \in [Admins -> [on : BOOLEAN, conf : Confs]] /\ contested' \in BOOLEAN
    BY <2>1, <2>2 DEF Types
  <2>4. ASSUME ~contested'
        PROVE  /\ \A b \in Admins : edits'[b].on => b = a
               /\ edits'[a].on /\ edits'[a].conf = asked'
    <3>1. ~contested /\ \A b \in Admins : ~edits[b].on
      BY <2>2, <2>4
    <3>2. conf = asked
      BY <3>1 DEF Alone
    <3>. QED  BY <2>2, <3>1, <3>2 DEF Types
  <2>. QED  BY <2>2, <2>3, <2>4 DEF Types, Alone
<1>3. ASSUME NEW a \in Admins, EditEnd(a) PROVE Good
  <2>1. /\ edits[a].on /\ edits' = [edits EXCEPT ![a] = NoEdit] /\ conf' = edits[a].conf
        /\ asked' = asked /\ contested' = contested
    BY <1>3 DEF EditEnd, Written
  <2>2. NoEdit \in [on : BOOLEAN, conf : Confs] /\ NoEdit.on = FALSE
    BY Numbers DEF NoEdit, Confs
  <2>3. edits' \in [Admins -> [on : BOOLEAN, conf : Confs]]
    BY <2>1, <2>2 DEF Types
  <2>4. ASSUME ~contested PROVE conf' = asked /\ \A b \in Admins : ~edits'[b].on
    <3>1. conf' = asked /\ \A b \in Admins : edits[b].on => b = a
      BY <2>1, <2>4 DEF Alone
    <3>. QED  BY <2>1, <2>2, <3>1 DEF Types
  <2>. QED  BY <2>1, <2>3, <2>4 DEF Types, Alone
<1>4. ASSUME NEW c \in Buyers, \/ Reserve(c) \/ Ask(c) \/ Hold(c) \/ Loses(c) \/ \E used \in 1..2 : Settle(c, used)
      PROVE  Good
  <2>1. UNCHANGED <<conf, edits, asked, contested>>
    BY <1>4 DEF Reserve, Ask, Hold, Loses, Settle, Set
  <2>. QED  BY <1>1, <2>1
<1>. QED  BY <1>1, <1>2, <1>3, <1>4 DEF Next, vars, Sync, SetOfficial, SetFactor, SetStatus, SetKind, SetOther

-----------------------------------------------------------------------------
(* The calls.                                                              *)

\* What is claimed of one bill.
OneBill(bill) ==
  /\ bill \in Bills /\ bill.at \in DOMAIN Names[bill.model]
  /\ bill.st \in {"priced", "held"} => Complete(bill.row)
  /\ bill.st = "held" => bill.told = Unit(bill.row, bill.conf)
  /\ bill.st = "settled" => bill.charged = Least(bill.told * bill.used, Budget) /\ bill.charged > 0

LEMMA EachBill ==
  ASSUME bills \in [Buyers -> Bills]
  PROVE  Asking /\ Copied /\ Paid <=> \A c \in Buyers : OneBill(bills[c])
BY DEF Asking, Copied, Paid, OneBill

LEMMA BillsStep ==
  ASSUME Types, Asking, Copied, Paid, [Next]_vars
  PROVE  bills' \in [Buyers -> Bills] /\ Asking' /\ Copied' /\ Paid'
<1>0. \A c \in Buyers : OneBill(bills[c])
  BY EachBill DEF Types
<1>. SUFFICES ASSUME bills' # bills PROVE bills' \in [Buyers -> Bills] /\ \A c \in Buyers : OneBill(bills'[c])
  BY <1>0 DEF Types, OneBill, Asking, Copied, Paid
<1>1. ASSUME NEW c \in Buyers, NEW bill, Set(c, bill), OneBill(bill)
      PROVE  bills' \in [Buyers -> Bills] /\ \A d \in Buyers : OneBill(bills'[d])
  <2>1. bills' = [bills EXCEPT ![c] = bill] /\ bill \in Bills
    BY <1>1 DEF Set, OneBill
  <2>2. bills' \in [Buyers -> Bills]
    BY <2>1 DEF Types
  <2>3. \A d \in Buyers : bills'[d] \in {bill, bills[d]}
    BY <2>1 DEF Types
  <2>. QED  BY <1>0, <1>1, <2>2, <2>3
<1>2. ASSUME NEW c \in Buyers, Reserve(c) PROVE OneBill(bills[c]) /\ \E bill : Set(c, bill) /\ OneBill(bill)
  <2>1. bills[c] \in Bills /\ conf \in Confs
    BY DEF Types
  <2>2. OneBill([bills[c] EXCEPT !.st = "asking", !.conf = conf])
    BY <1>0, <2>1 DEF Bills, OneBill
  <2>. QED  BY <1>0, <1>2, <2>2 DEF Reserve
<1>3. ASSUME NEW c \in Buyers, Ask(c) PROVE \E bill : Set(c, bill) /\ OneBill(bill)
  <2>0. bills[c] \in Bills /\ bills[c].st = "asking"
    BY <1>3 DEF Types, Ask
  <2>1. CASE Sells(Row(c)) /\ Set(c, [bills[c] EXCEPT !.st = "priced", !.row = Row(c)])
    <3>1. Row(c) \in Rows
      <4>1. Names[bills[c].model] \in Seq(Models)
        BY <2>0, BoundsAssumption DEF Bills
      <4>2. bills[c].at \in DOMAIN Names[bills[c].model]
        BY <1>0 DEF OneBill
      <4>3. Names[bills[c].model][bills[c].at] \in Models
        BY <4>1, <4>2
      <4>. QED  BY <4>3 DEF Row, Types
    <3>2. OneBill([bills[c] EXCEPT !.st = "priced", !.row = Row(c)])
      BY <1>0, <2>0, <2>1, <3>1 DEF Bills, OneBill, Sells
    <3>. QED  BY <2>1, <3>2
  <2>2. CASE bills[c].at < Len(Names[bills[c].model]) /\ Set(c, [bills[c] EXCEPT !.at = @ + 1])
    <3>0. Names[bills[c].model] \in Seq(Models) /\ bills[c].at \in DOMAIN Names[bills[c].model]
      BY <1>0, <2>0, BoundsAssumption DEF Bills, OneBill
    <3>2. bills[c].at + 1 \in DOMAIN Names[bills[c].model] /\ bills[c].at + 1 \in Nat
      BY <2>2, <3>0
    <3>1. OneBill([bills[c] EXCEPT !.at = @ + 1])
      BY <2>0, <3>2 DEF Bills, OneBill
    <3>. QED  BY <2>2, <3>1
  <2>3. CASE Set(c, [bills[c] EXCEPT !.st = "refused"])
    <3>1. OneBill([bills[c] EXCEPT !.st = "refused"])
      BY <1>0, <2>0 DEF Bills, OneBill
    <3>. QED  BY <2>3, <3>1
  <2>. QED  BY <1>3, <2>1, <2>2, <2>3 DEF Ask
<1>4. ASSUME NEW c \in Buyers, Hold(c) \/ Loses(c) PROVE \E bill : Set(c, bill) /\ OneBill(bill)
  <2>0. bills[c] \in Bills
    BY DEF Types
  <2>1. CASE Set(c, [bills[c] EXCEPT !.st = "refused"])
    <3>1. OneBill([bills[c] EXCEPT !.st = "refused"])
      BY <1>0, <2>0 DEF Bills, OneBill
    <3>. QED  BY <2>1, <3>1
  <2>2. CASE /\ bills[c].st = "priced"
             /\ Set(c, [bills[c] EXCEPT !.st = "held", !.told = Unit(bills[c].row, bills[c].conf)])
    <3>1. Complete(bills[c].row) /\ bills[c].row \in Rows /\ bills[c].conf \in Confs
      BY <1>0, <2>0, <2>2 DEF OneBill, Bills
    <3>2. Unit(bills[c].row, bills[c].conf) \in Nat
      BY <3>1, UnitCosts
    <3>3. OneBill([bills[c] EXCEPT !.st = "held", !.told = Unit(bills[c].row, bills[c].conf)])
      BY <1>0, <2>0, <3>1, <3>2 DEF Bills, OneBill
    <3>. QED  BY <2>2, <3>3
  <2>. QED  BY <1>4, <2>1, <2>2 DEF Hold, Loses, Unit
<1>5. ASSUME NEW c \in Buyers, NEW used \in 1..2, Settle(c, used) PROVE \E bill : Set(c, bill) /\ OneBill(bill)
  <2>. DEFINE b == bills[c]
              paid == Least(Cost(c, used), Budget)
  <2>0. b \in Bills /\ b.st = "held" /\ Set(c, [b EXCEPT !.st = "settled", !.used = used, !.charged = paid])
    BY <1>5 DEF Types, Settle
  <2>1. Complete(b.row) /\ b.row \in Rows /\ b.conf \in Confs /\ b.told = Unit(b.row, b.conf)
    BY <1>0, <2>0 DEF OneBill, Bills
  <2>2. b.told \in Nat /\ b.told > 0
    BY <2>1, UnitCosts
  <2>3. paid = Least(b.told * used, Budget)
    BY <2>1 DEF Cost, Quote, Unit, Complete
  <2>4. paid \in Nat /\ paid > 0
    BY <2>2, <2>3, ChargeCosts
  <2>. DEFINE new == [b EXCEPT !.st = "settled", !.used = used, !.charged = paid]
  <2>5. used \in 0..2
    OBVIOUS
  <2>. HIDE DEF paid, b
  <2>6. /\ new \in Bills /\ new.st = "settled" /\ new.told = b.told /\ new.used = used /\ new.charged = paid
        /\ new.model = b.model /\ new.at = b.at
    BY <2>0, <2>4, <2>5 DEF Bills
  <2>7. OneBill(new)
    <3>0. OneBill(b)
      BY <1>0 DEF b
    <3>. HIDE DEF new
    <3>. QED  BY <3>0, <2>3, <2>4, <2>6 DEF OneBill
  <2>. QED  BY <2>0, <2>7
<1>6. \E c \in Buyers : \E bill : Set(c, bill) /\ OneBill(bill)
  BY <1>2, <1>3, <1>4, <1>5
     DEF Next, vars, Sync, SetOfficial, SetFactor, SetStatus, SetKind, SetOther, EditBegin, EditEnd
<1>. QED  BY <1>1, <1>6

-----------------------------------------------------------------------------
LEMMA Inductive == CInv /\ [Next]_vars => CInv'
BY RowsStep, SettingsStep, BillsStep DEF CInv, Types

\* A call pays the price it was held at, up to its hold, and never nothing for
\* what it used; a price set by hand outlasts every synchronisation, and one
\* administrator's edit of the settings is not lost (reserve, settle,
\* sync_official_prices, update_settings).
THEOREM PricesHoldAlways == Spec => []PricesHold
<1>1. CInv => PricesHold
  BY DEF CInv, PricesHold, PricedWhenHeld, NothingForFree, HandPriceStands, EditStands, Paid, Marked, Alone
<1>. QED  BY InitHolds, Inductive, <1>1, PTL DEF Spec

-----------------------------------------------------------------------------
(* Lists.  A loop over a list is a function by recursion: that there is     *)
(* one is proved by induction over the numbers, which is here one through  *)
(* sets of them (CountingTo, Recursion).                                   *)

\* Induction over the numbers, of what holds on a set of them.
LEMMA Counting ==
  ASSUME NEW P, 0 \in P, \A n \in Nat : n \in P => n + 1 \in P
  PROVE  Nat \subseteq P
<1>. DEFINE T == Nat \ P
<1>1. SUFFICES ASSUME T # {} PROVE FALSE
  OBVIOUS
<1>2. T \subseteq Nat
  OBVIOUS
<1>3. PICK n \in T : \A m \in T : ~(<<m, n>> \in OpToRel(<, Nat))
  BY <1>1, <1>2, WFMin, NatLessThanWellFounded, Zenon
<1>4. \A m \in T : ~(m < n)
  BY <1>2, <1>3 DEF OpToRel
<1>5. n \in Nat /\ n # 0 /\ n \notin P
  OBVIOUS
<1>6. n - 1 \in Nat /\ n - 1 < n /\ (n - 1) + 1 = n
  BY <1>5
<1>7. n - 1 \in P
  BY <1>4, <1>6
<1>. QED  BY <1>5, <1>6, <1>7

\* The same up to a bound.
LEMMA CountingTo ==
  ASSUME NEW N \in Nat, NEW P, 0 \in P, \A n \in 0..N : n < N /\ n \in P => n + 1 \in P
  PROVE  0..N \subseteq P
<1>. DEFINE Q == {n \in Nat : n <= N => n \in P}
<1>1. 0 \in Q
  OBVIOUS
<1>2. \A n \in Nat : n \in Q => n + 1 \in Q
  OBVIOUS
<1>. HIDE DEF Q
<1>3. Nat \subseteq Q
  BY <1>1, <1>2, Counting
<1>. QED  BY <1>3 DEF Q

\* What step by step makes of a first value, is a function: Step[n] takes the
\* value after n - 1 steps to that after n.
Unrolls(f, N, first, Step) ==
  /\ f = [n \in 0..N |-> f[n]] /\ f[0] = first
  /\ \A n \in 1..N : f[n] = Step[n][f[n - 1]]

LEMMA Recursion ==
  ASSUME NEW N \in Nat, NEW T, NEW first \in T, NEW Step \in [1..N -> [T -> T]]
  PROVE  \E f : Unrolls(f, N, first, Step)
<1>. DEFINE P == {n \in 0..N : \E f \in [0..n -> T] : f[0] = first /\ \A k \in 1..n : f[k] = Step[k][f[k - 1]]}
<1>1. 0 \in P
  <2>. DEFINE f == [k \in 0..0 |-> first]
  <2>1. f \in [0..0 -> T] /\ f[0] = first /\ \A k \in 1..0 : f[k] = Step[k][f[k - 1]]
    OBVIOUS
  <2>. HIDE DEF f
  <2>2. \E h \in [0..0 -> T] : h[0] = first /\ \A k \in 1..0 : h[k] = Step[k][h[k - 1]]
    BY <2>1
  <2>. QED  BY <2>2
<1>2. ASSUME NEW n \in 0..N, n < N, n \in P PROVE n + 1 \in P
  <2>1. PICK f \in [0..n -> T] : f[0] = first /\ \A k \in 1..n : f[k] = Step[k][f[k - 1]]
    BY <1>2
  <2>. DEFINE g == [k \in 0..(n + 1) |-> IF k = n + 1 THEN Step[n + 1][f[n]] ELSE f[k]]
  <2>2. n + 1 \in 1..N /\ n \in 0..n
    BY <1>2
  <2>3. Step[n + 1][f[n]] \in T
    BY <2>2
  <2>4. g \in [0..(n + 1) -> T]
    BY <2>3
  <2>5. g[0] = first
    BY <2>1
  <2>6. ASSUME NEW k \in 1..(n + 1) PROVE g[k] = Step[k][g[k - 1]]
    BY <2>1
  <2>. HIDE DEF g
  <2>7. \E h \in [0..(n + 1) -> T] : h[0] = first /\ \A k \in 1..(n + 1) : h[k] = Step[k][h[k - 1]]
    BY <2>4, <2>5, <2>6
  <2>. QED  BY <2>2, <2>7
<1>. HIDE DEF P
<1>3. \A n \in 0..N : n < N /\ n \in P => n + 1 \in P
  BY <1>2
<1>4. 0..N \subseteq P /\ N \in 0..N
  <2>1. 0..N \subseteq P
    BY <1>1, <1>3, CountingTo, Zenon
  <2>. QED  BY <2>1
<1>5. PICK f \in [0..N -> T] : f[0] = first /\ \A k \in 1..N : f[k] = Step[k][f[k - 1]]
  BY <1>4 DEF P
<1>. QED  BY <1>5 DEF Unrolls

-----------------------------------------------------------------------------
(* The elements of a list that are in a set (Only of Collections).         *)

\* One element more of s.
Picks(s, S, f) ==
  f = [n \in 0..Len(s) |->
         IF n = 0 THEN <<>> ELSE IF s[n] \in S THEN Append(f[n - 1], s[n]) ELSE f[n - 1]]

LEMMA PicksExist ==
  ASSUME NEW T, NEW s \in Seq(T), NEW S
  PROVE  \E f : Picks(s, S, f) /\ Only(s, S) = f[Len(s)]
<1>. DEFINE Step == [n \in 1..Len(s) |-> [x \in Seq(T) |-> IF s[n] \in S THEN Append(x, s[n]) ELSE x]]
<1>1. Step \in [1..Len(s) -> [Seq(T) -> Seq(T)]]
  OBVIOUS
<1>2. Len(s) \in Nat /\ <<>> \in Seq(T)
  OBVIOUS
<1>. HIDE DEF Step
<1>3. PICK f : Unrolls(f, Len(s), <<>>, Step)
  BY <1>1, <1>2, Recursion
<1>. DEFINE P == {n \in 0..Len(s) : f[n] \in Seq(T)}
<1>4. 0 \in P
  BY <1>2, <1>3 DEF Unrolls
<1>5. \A n \in 0..Len(s) : n < Len(s) /\ n \in P => n + 1 \in P
  <2>. SUFFICES ASSUME NEW n \in 0..Len(s), n < Len(s), n \in P PROVE n + 1 \in P
    OBVIOUS
  <2>1. n + 1 \in 1..Len(s) /\ (n + 1) - 1 = n
    BY <1>2
  <2>2. f[n + 1] = Step[n + 1][f[n]]
    BY <1>3, <2>1 DEF Unrolls
  <2>3. f[n + 1] \in Seq(T)
    BY <1>1, <2>1, <2>2
  <2>. QED  BY <2>1, <2>3
<1>6. \A n \in 0..Len(s) : f[n] \in Seq(T)
  <2>. HIDE DEF P
  <2>1. 0..Len(s) \subseteq P
    BY <1>2, <1>4, <1>5, CountingTo
  <2>. QED  BY <2>1 DEF P
<1>7. \A n \in 1..Len(s) : f[n] = IF s[n] \in S THEN Append(f[n - 1], s[n]) ELSE f[n - 1]
  <2>. SUFFICES ASSUME NEW n \in 1..Len(s) PROVE f[n] = IF s[n] \in S THEN Append(f[n - 1], s[n]) ELSE f[n - 1]
    OBVIOUS
  <2>1. n - 1 \in 0..Len(s)
    BY <1>2
  <2>2. f[n] = Step[n][f[n - 1]]
    BY <1>3 DEF Unrolls
  <2>3. f[n - 1] \in Seq(T)
    BY <1>6, <2>1
  <2>. QED  BY <2>2, <2>3 DEF Step
<1>8. Picks(s, S, f)
  <2>1. f = [n \in 0..Len(s) |-> f[n]] /\ f[0] = <<>>
    BY <1>3 DEF Unrolls
  <2>2. \A n \in 0..Len(s) : f[n] = IF n = 0 THEN <<>> ELSE IF s[n] \in S THEN Append(f[n - 1], s[n]) ELSE f[n - 1]
    <3>1. \A n \in 0..Len(s) : n = 0 \/ n \in 1..Len(s)
      BY <1>2
    <3>. QED  BY <1>7, <2>1, <3>1
  <2>. QED  BY <2>1, <2>2, Zenon DEF Picks
<1>. DEFINE g == CHOOSE g : Picks(s, S, g)
<1>9. Picks(s, S, g)
  BY <1>8
<1>10. Only(s, S) = g[Len(s)]
  BY <1>9 DEF Only, Picks
<1>. QED  BY <1>9, <1>10

\* The elements of a list.
Elements(s) == {s[k] : k \in DOMAIN s}

\* A list with one element more.
Longer(s, x, a) ==
  /\ Len(s) \in Nat /\ DOMAIN s = 1..Len(s) /\ Len(s) + 1 \notin DOMAIN s
  /\ DOMAIN a = DOMAIN s \cup {Len(s) + 1} /\ a[Len(s) + 1] = x
  /\ \A k \in DOMAIN s : a[k] = s[k]

LEMMA AppendIs ==
  ASSUME NEW T, NEW s \in Seq(T), NEW x \in T
  PROVE  Append(s, x) \in Seq(T) /\ Longer(s, x, Append(s, x))
<1>. DEFINE a == Append(s, x)
<1>1. Append(s, x) \in Seq(T) /\ Len(Append(s, x)) = Len(s) + 1 /\ Len(s) \in Nat
  OBVIOUS
<1>2. DOMAIN s = 1..Len(s) /\ DOMAIN Append(s, x) = 1..(Len(s) + 1)
  BY <1>1
<1>3. \A k \in 1..Len(s) : a[k] = s[k]
  OBVIOUS
<1>4. a[Len(s) + 1] = x
  OBVIOUS
<1>5. 1..(Len(s) + 1) = 1..Len(s) \cup {Len(s) + 1} /\ Len(s) + 1 \notin 1..Len(s)
  BY <1>1
<1>. HIDE DEF a
<1>. QED  BY <1>1, <1>2, <1>3, <1>4, <1>5, Zenon DEF Longer, a

LEMMA ElementsAppend ==
  ASSUME NEW T, NEW s \in Seq(T), NEW x \in T
  PROVE  Append(s, x) \in Seq(T) /\ Elements(Append(s, x)) = Elements(s) \cup {x}
<1>1. Append(s, x) \in Seq(T) /\ Len(Append(s, x)) = Len(s) + 1 /\ Len(s) \in Nat
  OBVIOUS
<1>2. DOMAIN s = 1..Len(s) /\ DOMAIN Append(s, x) = 1..(Len(s) + 1)
  BY <1>1
<1>3. \A k \in 1..Len(s) : Append(s, x)[k] = s[k]
  OBVIOUS
<1>4. Append(s, x)[Len(s) + 1] = x
  OBVIOUS
<1>5. 1..(Len(s) + 1) = 1..Len(s) \cup {Len(s) + 1}
  BY <1>1
<1>. DEFINE a == Append(s, x)
<1>6. \A k \in 1..(Len(s) + 1) : k = Len(s) + 1 \/ k \in 1..Len(s)
  BY <1>5
<1>7. \A k \in 1..Len(s) : k \in 1..(Len(s) + 1)
  BY <1>5
<1>8. Len(s) + 1 \in 1..(Len(s) + 1)
  BY <1>5
<1>. HIDE DEF a
<1>9. Elements(a) \subseteq Elements(s) \cup {x}
  BY <1>2, <1>3, <1>4, <1>6, Zenon DEF Elements, a
<1>10. Elements(s) \cup {x} \subseteq Elements(a)
  <2>1. x \in Elements(a)
    BY <1>2, <1>4, <1>8, Zenon DEF Elements, a
  <2>2. ASSUME NEW k \in 1..Len(s) PROVE s[k] \in Elements(a)
    <3>1. s[k] = a[k] /\ k \in DOMAIN a
      BY <1>2, <1>3, <1>7, Zenon DEF a
    <3>. QED  BY <3>1 DEF Elements
  <2>3. Elements(s) \subseteq Elements(a)
    BY <1>2, <2>2, Zenon DEF Elements
  <2>. QED  BY <2>1, <2>3
<1>. QED  BY <1>1, <1>9, <1>10 DEF a

LEMMA ElementsConcat ==
  ASSUME NEW T, NEW s \in Seq(T), NEW t \in Seq(T)
  PROVE  s \o t \in Seq(T) /\ Elements(s \o t) = Elements(s) \cup Elements(t)
<1>1. s \o t \in Seq(T) /\ Len(s \o t) = Len(s) + Len(t) /\ Len(s) \in Nat /\ Len(t) \in Nat
  OBVIOUS
<1>2. DOMAIN s = 1..Len(s) /\ DOMAIN t = 1..Len(t) /\ DOMAIN (s \o t) = 1..(Len(s) + Len(t))
  BY <1>1
<1>3. \A k \in 1..Len(s) : k \in 1..(Len(s) + Len(t)) /\ (s \o t)[k] = s[k]
  BY <1>1
<1>4. \A k \in 1..Len(t) : Len(s) + k \in 1..(Len(s) + Len(t)) /\ (s \o t)[Len(s) + k] = t[k]
  BY <1>1
<1>5. \A k \in 1..(Len(s) + Len(t)) : k \in 1..Len(s) \/ \E j \in 1..Len(t) : k = Len(s) + j
  <2>. SUFFICES ASSUME NEW k \in 1..(Len(s) + Len(t)), k \notin 1..Len(s) PROVE \E j \in 1..Len(t) : k = Len(s) + j
    OBVIOUS
  <2>1. k - Len(s) \in 1..Len(t) /\ k = Len(s) + (k - Len(s))
    BY <1>1
  <2>. QED  BY <2>1
<1>. DEFINE u == s \o t
<1>. HIDE DEF u
<1>6. ASSUME NEW k \in DOMAIN s PROVE s[k] \in Elements(u)
  <2>1. s[k] = u[k] /\ k \in DOMAIN u
    BY <1>2, <1>3 DEF u
  <2>. QED  BY <2>1 DEF Elements
<1>7. ASSUME NEW k \in DOMAIN t PROVE t[k] \in Elements(u)
  <2>1. t[k] = u[Len(s) + k] /\ Len(s) + k \in DOMAIN u
    BY <1>2, <1>4 DEF u
  <2>. QED  BY <2>1 DEF Elements
<1>8. ASSUME NEW k \in DOMAIN u PROVE u[k] \in Elements(s) \cup Elements(t)
  <2>1. CASE k \in 1..Len(s)
    <3>1. u[k] = s[k] /\ k \in DOMAIN s
      BY <1>2, <1>3, <2>1 DEF u
    <3>. QED  BY <3>1 DEF Elements
  <2>2. CASE k \notin 1..Len(s)
    <3>1. PICK j \in 1..Len(t) : k = Len(s) + j
      BY <1>2, <1>5, <2>2 DEF u
    <3>2. u[k] = t[j] /\ j \in DOMAIN t
      BY <1>2, <1>4, <3>1 DEF u
    <3>. QED  BY <3>2 DEF Elements
  <2>. QED  BY <2>1, <2>2
<1>9. Elements(u) \subseteq Elements(s) \cup Elements(t)
  BY <1>8, Zenon DEF Elements
<1>10. Elements(s) \cup Elements(t) \subseteq Elements(u)
  BY <1>6, <1>7, Zenon DEF Elements
<1>. QED  BY <1>1, <1>9, <1>10 DEF u

LEMMA OnlyElements ==
  ASSUME NEW T, NEW s \in Seq(T), NEW S
  PROVE  Only(s, S) \in Seq(T) /\ Elements(Only(s, S)) = Elements(s) \cap S
<1>1. PICK f : Picks(s, S, f) /\ Only(s, S) = f[Len(s)]
  BY PicksExist
<1>2. Len(s) \in Nat /\ DOMAIN s = 1..Len(s)
  OBVIOUS
<1>. DEFINE P == {n \in 0..Len(s) : f[n] \in Seq(T) /\ Elements(f[n]) = {s[k] : k \in 1..n} \cap S}
<1>3. 0 \in P
  <2>1. f[0] = <<>> /\ 0 \in 0..Len(s)
    BY <1>1, <1>2 DEF Picks
  <2>2. Elements(<<>>) = {} /\ 1..0 = {}
    BY DEF Elements
  <2>3. {s[k] : k \in 1..0} \cap S = {} /\ <<>> \in Seq(T)
    OBVIOUS
  <2>. QED  BY <2>1, <2>2, <2>3
<1>4. \A n \in 0..Len(s) : n < Len(s) /\ n \in P => n + 1 \in P
  <2>. SUFFICES ASSUME NEW n \in 0..Len(s), n < Len(s), n \in P PROVE n + 1 \in P
    OBVIOUS
  <2>1. n + 1 \in 1..Len(s) /\ (n + 1) - 1 = n /\ n + 1 \in 0..Len(s) /\ n + 1 # 0
    BY <1>2
  <2>2. f[n + 1] = IF s[n + 1] \in S THEN Append(f[n], s[n + 1]) ELSE f[n]
    BY <1>1, <2>1 DEF Picks
  <2>3. s[n + 1] \in T
    BY <2>1
  <2>4. 1..(n + 1) = 1..n \cup {n + 1}
    BY <1>2
  <2>5. {s[k] : k \in 1..(n + 1)} = {s[k] : k \in 1..n} \cup {s[n + 1]}
    BY <2>4
  <2>6. CASE s[n + 1] \in S
    <3>1. f[n + 1] \in Seq(T) /\ Elements(f[n + 1]) = Elements(f[n]) \cup {s[n + 1]}
      BY <2>2, <2>3, <2>6, ElementsAppend
    <3>. QED  BY <2>1, <2>5, <2>6, <3>1
  <2>7. CASE s[n + 1] \notin S
    BY <2>1, <2>2, <2>5, <2>7
  <2>. QED  BY <2>6, <2>7
<1>. HIDE DEF P
<1>5. 0..Len(s) \subseteq P
  BY <1>2, <1>3, <1>4, CountingTo, Zenon
<1>6. Len(s) \in P
  BY <1>2, <1>5
<1>. QED  BY <1>1, <1>2, <1>6 DEF P, Elements

LEMMA Squeezed ==
  ASSUME NEW a \in Nat, NEW b \in 0..a, a <= b
  PROVE  a = b /\ 1..(a - b) = {}
OBVIOUS

LEMMA NothingLeft ==
  ASSUME NEW s, NEW m, NEW D, D = {}
  PROVE  [k \in D |-> s[m + k]] = <<>>
OBVIOUS

\* When the first m are not in the set and the others are, these are what stays.
TailIn(s, S, m) == (\A k \in 1..m : s[k] \notin S) /\ \A k \in (m + 1)..Len(s) : s[k] \in S
TailOf(s, m) == [k \in 1..(Len(s) - m) |-> s[m + k]]

LEMMA OnlyTail ==
  ASSUME NEW T, NEW s \in Seq(T), NEW S, NEW m \in 0..Len(s), TailIn(s, S, m)
  PROVE  Only(s, S) = TailOf(s, m)
<1>. USE DEF TailIn, TailOf
<1>1. PICK f : Picks(s, S, f) /\ Only(s, S) = f[Len(s)]
  BY PicksExist
<1>2. Len(s) \in Nat /\ DOMAIN s = 1..Len(s)
  OBVIOUS
<1>. DEFINE Rest(n) == [k \in 1..(n - m) |-> s[m + k]]
<1>. DEFINE P == {n \in 0..Len(s) : f[n] = IF n <= m THEN <<>> ELSE Rest(n)}
<1>3. 0 \in P
  <2>1. f[0] = <<>> /\ 0 \in 0..Len(s) /\ 0 <= m
    BY <1>1, <1>2 DEF Picks
  <2>. QED  BY <2>1
<1>4. \A n \in 0..Len(s) : n < Len(s) /\ n \in P => n + 1 \in P
  <2>. SUFFICES ASSUME NEW n \in 0..Len(s), n < Len(s), n \in P PROVE n + 1 \in P
    OBVIOUS
  <2>1. n + 1 \in 1..Len(s) /\ (n + 1) - 1 = n /\ n + 1 \in 0..Len(s) /\ n + 1 # 0
    BY <1>2
  <2>2. f[n + 1] = IF s[n + 1] \in S THEN Append(f[n], s[n + 1]) ELSE f[n]
    BY <1>1, <2>1 DEF Picks
  <2>3. s[n + 1] \in T
    BY <2>1
  <2>4. CASE n + 1 <= m
    <3>1. n + 1 \in 1..m /\ n <= m
      BY <1>2, <2>4
    <3>2. f[n + 1] = <<>>
      BY <2>2, <3>1
    <3>. QED  BY <2>1, <2>4, <3>2
  <2>5. CASE ~(n + 1 <= m)
    <3>1. n + 1 \in (m + 1)..Len(s) /\ n >= m /\ n - m \in Nat /\ (n + 1) - m = (n - m) + 1 /\ m + ((n - m) + 1) = n + 1
      BY <1>2, <2>5
    <3>2. f[n] = Rest(n)
      <4>1. CASE n = m
        <5>1. n <= m /\ f[n] = <<>>
          BY <4>1
        <5>2. 1..(n - m) = {}
          BY <4>1
        <5>. QED  BY <5>1, <5>2
      <4>2. CASE n # m
        <5>1. ~(n <= m)
          BY <1>2, <3>1, <4>2
        <5>. QED  BY <5>1
      <4>. QED  BY <4>1, <4>2
    <3>3. Rest(n) \in Seq(T) /\ Len(Rest(n)) = n - m
      <4>1. \A k \in 1..(n - m) : m + k \in 1..Len(s)
        BY <1>2
      <4>2. \A k \in 1..(n - m) : s[m + k] \in T
        BY <4>1
      <4>. QED  BY <3>1, <4>2
    <3>4. f[n + 1] = Append(Rest(n), s[n + 1])
      BY <2>2, <3>1, <3>2
    <3>5. Append(Rest(n), s[n + 1]) = Rest(n + 1)
      <4>. DEFINE r == Rest(n)
      <4>1. Append(r, s[n + 1]) = [k \in 1..(Len(r) + 1) |-> IF k = Len(r) + 1 THEN s[n + 1] ELSE r[k]]
        <5>. HIDE DEF r
        <5>. QED  BY <2>3, <3>3
      <4>2. \A k \in 1..((n - m) + 1) : (IF k = (n - m) + 1 THEN s[n + 1] ELSE r[k]) = s[m + k]
        <5>. TAKE k \in 1..((n - m) + 1)
        <5>1. CASE k = (n - m) + 1
          BY <3>1, <5>1
        <5>2. CASE k # (n - m) + 1
          <6>1. k \in 1..(n - m)
            BY <3>1, <5>2
          <6>. QED  BY <5>2, <6>1
        <5>. QED  BY <5>1, <5>2
      <4>. HIDE DEF r
      <4>3. Append(r, s[n + 1]) = [k \in 1..((n - m) + 1) |-> s[m + k]]
        <5>1. Len(r) = n - m
          BY <3>3, Zenon DEF r
        <5>2. Append(r, s[n + 1]) = [k \in 1..((n - m) + 1) |-> IF k = (n - m) + 1 THEN s[n + 1] ELSE r[k]]
          BY <4>1, <5>1
        <5>. QED  BY <4>2, <5>2, Zenon
      <4>. QED  BY <3>1, <4>3 DEF r
    <3>. QED  BY <2>1, <2>5, <3>4, <3>5
  <2>. QED  BY <2>4, <2>5
<1>. HIDE DEF P
<1>5. 0..Len(s) \subseteq P
  BY <1>2, <1>3, <1>4, CountingTo, Zenon
<1>6. Len(s) \in P
  BY <1>2, <1>5
<1>7. CASE Len(s) <= m
  <2>1. 1..(Len(s) - m) = {}
    BY <1>2, <1>7, Squeezed, Zenon
  <2>2. [k \in 1..(Len(s) - m) |-> s[m + k]] = <<>>
    BY <2>1, NothingLeft, Zenon
  <2>. QED  BY <1>1, <1>6, <1>7, <2>2 DEF P
<1>8. CASE ~(Len(s) <= m)
  BY <1>1, <1>6, <1>8 DEF P
<1>. QED  BY <1>7, <1>8

\* A list that has nothing twice has as many elements as its length says.
Distinct(s) == \A i, j \in DOMAIN s : s[i] = s[j] => i = j

LEMMA DistinctAppend ==
  ASSUME NEW T, NEW s \in Seq(T), NEW x \in T, Distinct(s), x \notin Elements(s)
  PROVE  Distinct(Append(s, x))
<1>. DEFINE a == Append(s, x)
<1>1. Longer(s, x, a)
  BY AppendIs
<1>. HIDE DEF a
<1>2. \A k \in DOMAIN s : s[k] # x
  BY DEF Elements
<1>3. Distinct(a)
  BY <1>1, <1>2, Zenon DEF Distinct, Longer
<1>. QED  BY <1>3 DEF a

LEMMA DistinctSize ==
  ASSUME NEW T, NEW s \in Seq(T)
  PROVE  /\ IsFiniteSet(Elements(s)) /\ Cardinality(Elements(s)) \in Nat
         /\ Distinct(s) => Cardinality(Elements(s)) = Len(s)
<1>. DEFINE n == Len(s) E == Elements(s)
<1>1. n \in Nat /\ DOMAIN s = 1..n /\ s = [k \in 1..n |-> s[k]]
  OBVIOUS
<1>2. IsFiniteSet(1..n) /\ Cardinality(1..n) = n
  <2>. HIDE DEF n
  <2>1. n \in Nat /\ n \in Int /\ 1 \in Int
    BY <1>1
  <2>2. IsFiniteSet(1..n) /\ Cardinality(1..n) = IF 1 > n THEN 0 ELSE n - 1 + 1
    BY <2>1, FS_Interval
  <2>3. (IF 1 > n THEN 0 ELSE n - 1 + 1) = n
    BY <2>1
  <2>. QED  BY <2>2, <2>3
<1>3. s \in [1..n -> E]
  <2>1. \A k \in 1..n : s[k] \in E
    BY <1>1 DEF Elements
  <2>. HIDE DEF n, E
  <2>. QED  BY <1>1, <2>1
<1>4. \A y \in E : \E k \in 1..n : s[k] = y
  BY <1>1 DEF Elements
<1>. HIDE DEF n, E
<1>5. s \in Surjection(1..n, E)
  BY <1>3, <1>4 DEF Surjection
<1>6. IsFiniteSet(E) /\ (Cardinality(E) = Cardinality(1..n) <=> s \in Injection(1..n, E))
  BY <1>2, <1>5, FS_Surjection
<1>7. Cardinality(E) \in Nat
  BY <1>6, FS_CardinalityType
<1>8. Distinct(s) => s \in Injection(1..n, E)
  BY <1>1, <1>3 DEF Distinct, Injection, IsInjective
<1>. QED  BY <1>2, <1>6, <1>7, <1>8 DEF n, E

\* Where the elements of a joined list come from.
Joined(s, t, u) ==
  /\ Len(s) \in Nat /\ Len(t) \in Nat /\ Len(u) = Len(s) + Len(t)
  /\ DOMAIN u = 1..(Len(s) + Len(t)) /\ DOMAIN s = 1..Len(s) /\ DOMAIN t = 1..Len(t)
  /\ \A k \in 1..Len(s) : u[k] = s[k]
  /\ \A k \in 1..Len(t) : u[Len(s) + k] = t[k]
  /\ \A k \in DOMAIN u : k \in 1..Len(s) \/ \E j \in 1..Len(t) : k = Len(s) + j

LEMMA ConcatIs ==
  ASSUME NEW T, NEW s \in Seq(T), NEW t \in Seq(T)
  PROVE  s \o t \in Seq(T) /\ Joined(s, t, s \o t)
<1>. DEFINE u == s \o t
<1>1. u \in Seq(T) /\ Len(u) = Len(s) + Len(t) /\ Len(s) \in Nat /\ Len(t) \in Nat
  OBVIOUS
<1>2. DOMAIN s = 1..Len(s) /\ DOMAIN t = 1..Len(t) /\ DOMAIN u = 1..(Len(s) + Len(t))
  BY <1>1
<1>3. \A k \in 1..Len(s) : u[k] = s[k]
  BY <1>1
<1>4. \A k \in 1..Len(t) : u[Len(s) + k] = t[k]
  BY <1>1
<1>5. ASSUME NEW k \in 1..(Len(s) + Len(t)), k \notin 1..Len(s) PROVE \E j \in 1..Len(t) : k = Len(s) + j
  <2>1. k - Len(s) \in 1..Len(t) /\ k = Len(s) + (k - Len(s))
    BY <1>1, <1>5
  <2>. QED  BY <2>1
<1>. HIDE DEF u
<1>. QED  BY <1>1, <1>2, <1>3, <1>4, <1>5 DEF Joined

LEMMA DistinctConcat ==
  ASSUME NEW T, NEW s \in Seq(T), NEW t \in Seq(T), Distinct(s), Distinct(t), Elements(s) \cap Elements(t) = {},
         NEW u, u = s \o t
  PROVE  Distinct(u)
<1>1. /\ Len(s) \in Nat /\ Len(t) \in Nat /\ DOMAIN s = 1..Len(s) /\ DOMAIN t = 1..Len(t)
      /\ \A k \in 1..Len(s) : u[k] = s[k]
      /\ \A k \in 1..Len(t) : u[Len(s) + k] = t[k]
      /\ \A k \in DOMAIN u : k \in 1..Len(s) \/ \E j \in 1..Len(t) : k = Len(s) + j
  <2>1. Joined(s, t, u)
    BY ConcatIs
  <2>. QED  BY <2>1 DEF Joined
<1>2. \A i \in 1..Len(s), j \in 1..Len(t) : s[i] # t[j]
  BY <1>1 DEF Elements
<1>. SUFFICES ASSUME NEW i \in DOMAIN u, NEW j \in DOMAIN u, u[i] = u[j] PROVE i = j
  BY DEF Distinct
<1>3. CASE i \in 1..Len(s) /\ j \in 1..Len(s)
  BY <1>1, <1>3 DEF Distinct
<1>4. CASE i \in 1..Len(s) /\ j \notin 1..Len(s)
  BY <1>1, <1>2, <1>4
<1>5. CASE i \notin 1..Len(s) /\ j \in 1..Len(s)
  BY <1>1, <1>2, <1>5
<1>6. CASE i \notin 1..Len(s) /\ j \notin 1..Len(s)
  <2>1. PICK a \in 1..Len(t) : i = Len(s) + a
    BY <1>1, <1>6
  <2>2. PICK b \in 1..Len(t) : j = Len(s) + b
    BY <1>1, <1>6
  <2>3. t[a] = t[b]
    BY <1>1, <2>1, <2>2
  <2>. QED  BY <1>1, <2>1, <2>2, <2>3 DEF Distinct
<1>. QED  BY <1>3, <1>4, <1>5, <1>6

LEMMA OnlyDistinct ==
  ASSUME NEW T, NEW s \in Seq(T), NEW S, Distinct(s)
  PROVE  Distinct(Only(s, S))
<1>1. PICK f : Picks(s, S, f) /\ Only(s, S) = f[Len(s)]
  BY PicksExist
<1>2. Len(s) \in Nat /\ DOMAIN s = 1..Len(s)
  OBVIOUS
<1>. DEFINE P == {n \in 0..Len(s) : f[n] \in Seq(T) /\ Elements(f[n]) \subseteq {s[k] : k \in 1..n} /\ Distinct(f[n])}
<1>3. 0 \in P
  <2>1. f[0] = <<>> /\ 0 \in 0..Len(s)
    BY <1>1, <1>2 DEF Picks
  <2>2. Elements(<<>>) = {} /\ Distinct(<<>>)
    BY DEF Elements, Distinct
  <2>3. <<>> \in Seq(T)
    OBVIOUS
  <2>. QED  BY <2>1, <2>2, <2>3
<1>4. \A n \in 0..Len(s) : n < Len(s) /\ n \in P => n + 1 \in P
  <2>. SUFFICES ASSUME NEW n \in 0..Len(s), n < Len(s), n \in P PROVE n + 1 \in P
    OBVIOUS
  <2>1. n + 1 \in 1..Len(s) /\ (n + 1) - 1 = n /\ n + 1 \in 0..Len(s) /\ n + 1 # 0
    BY <1>2
  <2>2. f[n + 1] = IF s[n + 1] \in S THEN Append(f[n], s[n + 1]) ELSE f[n]
    BY <1>1, <2>1 DEF Picks
  <2>3. s[n + 1] \in T /\ n + 1 \in DOMAIN s
    BY <1>2, <2>1
  <2>4. 1..(n + 1) = 1..n \cup {n + 1} /\ 1..n \subseteq DOMAIN s /\ n + 1 \notin 1..n
    BY <1>2
  <2>5. {s[k] : k \in 1..(n + 1)} = {s[k] : k \in 1..n} \cup {s[n + 1]}
    BY <2>4
  <2>6. CASE s[n + 1] \in S
    <3>1. f[n] \in Seq(T) /\ Distinct(f[n]) /\ f[n + 1] = Append(f[n], s[n + 1])
      BY <2>2, <2>6
    <3>2. f[n + 1] \in Seq(T) /\ Elements(f[n + 1]) = Elements(f[n]) \cup {s[n + 1]}
      BY <2>3, <3>1, ElementsAppend
    <3>3. s[n + 1] \notin {s[k] : k \in 1..n}
      BY <2>3, <2>4 DEF Distinct
    <3>4. s[n + 1] \notin Elements(f[n])
      BY <3>3
    <3>5. Distinct(f[n + 1])
      BY <2>3, <3>1, <3>4, DistinctAppend
    <3>. QED  BY <2>1, <2>5, <3>2, <3>5
  <2>7. CASE s[n + 1] \notin S
    BY <2>1, <2>2, <2>5, <2>7
  <2>. QED  BY <2>6, <2>7
<1>. HIDE DEF P
<1>5. 0..Len(s) \subseteq P
  BY <1>2, <1>3, <1>4, CountingTo, Zenon
<1>6. Len(s) \in P
  BY <1>2, <1>5
<1>. QED  BY <1>1, <1>6 DEF P

-----------------------------------------------------------------------------
(* The tools of a conversation that Grok answers (GrokTools), for any tools, *)
(* conversations and lifetime.                                             *)
(*                                                                         *)
(* A call is given back as what the client declared because what was sent to *)
(* Grok is covered by what calls are turned back into (GoodTurn), also where it *)
(* was remembered (GoodEntry); a request without tools is sent all of them *)
(* because the cache has them as long as it may (Keeps).                   *)
CONSTANTS Conversations, Anonymous, Own, Findable, TTL, MaxKeys, MaxTools, MaxClock, MaxCalls
VARIABLES clock, cache, history, turn, said, at

Grok == INSTANCE GrokTools

\* The tools as Grok gets them; what a call can be, for Grok and for the client.
Wires == {Grok!Wire(t) : t \in Grok!Tools}
Called == {w.name : w \in Wires}
Forms == [type : {"custom_tool_call", "tool_search_call", "function_call"},
          name : {t.name : t \in Grok!Tools} \cup {Grok!SearchName, ""},
            space : {t.space : t \in Grok!Tools} \cup {Grok!NoSpace}]
Items == [name : Called, is : Forms, step : {"added", "given", "argued", "done"}, pieces : 0..2,
          heard : Seq({"first", "second"})]

\* Names are given back only to what they were declared as, ...
Free(free) == \A n \in free : \E t \in Grok!Tools : t.name = n /\ t.kind = "custom"
Placed(spaces) == \A n \in DOMAIN spaces : \E t \in Grok!Tools : t.name = n /\ t.space # Grok!NoSpace
  /\ spaces[n] = t.space

\* ... and all of these tools are.
Covers(wires, free, spaces) ==
  \A t \in Grok!Tools : Grok!Wire(t) \in wires =>
    /\ t.kind = "custom" => t.name \in free
    /\ t.space # Grok!NoSpace => t.name \in DOMAIN spaces
Finds(wires, search) == \A t \in Grok!Tools : Grok!Wire(t) \in wires /\ t.kind = "search" => search

\* What a client has heard of a call's arguments.
Part(n) == IF n = 0 THEN <<>> ELSE IF n = 1 THEN <<"first">> ELSE Grok!Whole
Hears(item, tracked, searching, full) ==
  /\ item.step = "added" => item.heard = (IF tracked \/ searching THEN <<>> ELSE Part(item.pieces))
  /\ item.step = "given" => item.heard = Grok!Whole /\ (tracked => full)
  /\ item.step = "argued" => item.heard = Grok!Whole \/ (searching /\ item.heard = <<>>)
  /\ item.step = "done" => item.heard = Grok!Whole
  /\ full => tracked /\ item.step # "added"

\* A call is one of a tool that was sent, and stays what it was made of it.
GoodItem(t, i) ==
  LET item == t.items[i]
  IN  /\ \E w \in t.sent : w.name = item.name /\ w.name # ""
      /\ item.is = Grok!Rewritten(item.name, t.rewrite)
      /\ i \in t.tracked <=> item.is.type = "custom_tool_call"
      /\ i \in t.searches <=> item.is.type = "tool_search_call"
      /\ Hears(item, i \in t.tracked, i \in t.searches, i \in t.full)

Fields == {"st", "bare", "sent", "rewrite", "items", "tracked", "searches", "full"}
GoodTurn(t) ==
  /\ t = [x \in Fields |-> t[x]]
  /\ t.st \in {"idle", "open"} /\ t.sent \subseteq Wires
  /\ Free(t.rewrite.free) /\ Placed(t.rewrite.spaces)
  /\ Covers(t.sent, t.rewrite.free, t.rewrite.spaces) /\ Finds(t.sent, t.rewrite.search)
  /\ t.items \in Seq(Items) /\ \A i \in DOMAIN t.items : GoodItem(t, i)
  /\ t.tracked \cup t.searches \cup t.full \subseteq DOMAIN t.items

-----------------------------------------------------------------------------
(* Tools and names.                                                        *)

\* The wire of a tool with a declaration of its own is nobody else's.
LEMMA WireIsOwn ==
  ASSUME Grok!NamesAssumption, NEW t \in Grok!Tools, NEW u \in Grok!Tools, Grok!Wire(t) = Grok!Wire(u),
         t.kind \in {"custom", "function"}
  PROVE  t = u
<1>1. t.kind \in Grok!Kinds /\ u.kind \in Grok!Kinds /\ t.name # "" /\ (t.name = u.name => t = u)
  BY DEF Grok!NamesAssumption
<1>2. t.name = Grok!SearchName => t.kind = "search"
  BY DEF Grok!NamesAssumption
<1>3. Grok!Wire(t).name = t.name
  BY DEF Grok!Wire
<1>4. CASE u.kind = "builtin"
  BY <1>1, <1>3, <1>4 DEF Grok!Wire
<1>5. CASE u.kind = "search"
  BY <1>1, <1>2, <1>3, <1>5 DEF Grok!Wire
<1>6. CASE u.kind \notin {"builtin", "search"}
  BY <1>1, <1>3, <1>6 DEF Grok!Wire
<1>. QED  BY <1>4, <1>5, <1>6

\* A name that was sent is turned back into a call of the tool it came from.
LEMMA RewrittenIs ==
  ASSUME Grok!NamesAssumption, NEW sent, NEW r, NEW t \in Grok!Tools, Grok!Wire(t) \in sent,
         Grok!Wire(t).name # "",
         Free(r.free), Placed(r.spaces), Covers(sent, r.free, r.spaces), Finds(sent, r.search)
  PROVE  Grok!Rewritten(Grok!Wire(t).name, r) = Grok!Meant(t) /\ Grok!Meant(t) \in Forms
<1>1. t.kind \in Grok!Kinds /\ t.kind # "builtin" /\ t.name # ""
        /\ (t.name = Grok!SearchName => t.kind = "search")
  BY DEF Grok!NamesAssumption, Grok!Wire
<1>2. \A u \in Grok!Tools : u.name = t.name => u = t
  BY DEF Grok!NamesAssumption
<1>3. t.space # Grok!NoSpace => t.kind = "function"
  BY DEF Grok!NamesAssumption
<1>4. CASE t.kind = "custom"
  <2>1. Grok!Wire(t).name = t.name /\ t.name \in r.free
    BY <1>4 DEF Grok!Wire, Covers
  <2>. QED  BY <1>4, <2>1 DEF Grok!Rewritten, Grok!Meant, Grok!Call, Forms
<1>5. CASE t.kind = "search"
  <2>1. Grok!Wire(t).name = Grok!SearchName /\ r.search
    BY <1>5 DEF Grok!Wire, Finds
  <2>2. Grok!SearchName \notin r.free
    <3>. SUFFICES ASSUME NEW u \in Grok!Tools, u.name = Grok!SearchName, u.kind = "custom" PROVE FALSE
      BY DEF Free
    <3>. QED  BY DEF Grok!NamesAssumption
  <2>. QED  BY <1>5, <2>1, <2>2 DEF Grok!Rewritten, Grok!Meant, Grok!Call, Forms
<1>6. CASE t.kind = "function"
  <2>1. Grok!Wire(t).name = t.name /\ t.name # Grok!SearchName
    BY <1>1, <1>6 DEF Grok!Wire
  <2>2. t.name \notin r.free
    BY <1>2, <1>6 DEF Free
  <2>3. CASE t.space # Grok!NoSpace
    <3>1. t.name \in DOMAIN r.spaces
      BY <2>3 DEF Covers
    <3>2. r.spaces[t.name] = t.space
      BY <1>2, <3>1 DEF Placed
    <3>. QED  BY <1>6, <2>1, <2>2, <2>3, <3>1, <3>2 DEF Grok!Rewritten, Grok!Meant, Grok!Call, Forms
  <2>4. CASE t.space = Grok!NoSpace
    <3>1. t.name \notin DOMAIN r.spaces
      BY <1>2, <2>4 DEF Placed
    <3>. QED  BY <1>6, <2>1, <2>2, <2>4, <3>1 DEF Grok!Rewritten, Grok!Meant, Grok!Call, Forms
  <2>. QED  BY <2>3, <2>4
<1>. QED  BY <1>1, <1>4, <1>5, <1>6 DEF Grok!Kinds

-----------------------------------------------------------------------------
(* Lists of tools.                                                         *)

\* Merge has the elements of both, and nothing twice that s had not twice.
LEMMA MergeIs ==
  ASSUME NEW T, NEW s \in Seq(T), NEW t \in Seq(T)
  PROVE  /\ Grok!Merge(s, t) \in Seq(T) /\ Elements(Grok!Merge(s, t)) = Elements(s) \cup Elements(t)
         /\ Distinct(s) => Distinct(Grok!Merge(s, t))
<1>. DEFINE N == Len(t)
            Step == [n \in 1..N |-> [x \in Seq(T) |-> IF t[n] \in Grok!ToSet(x) THEN x ELSE Append(x, t[n])]]
            Is(f) == f = [n \in 0..N |-> IF n = 0 THEN s
                            ELSE IF t[n] \in Grok!ToSet(f[n - 1]) THEN f[n - 1] ELSE Append(f[n - 1], t[n])]
<1>1. N \in Nat /\ DOMAIN t = 1..N /\ \A n \in 1..N : t[n] \in T
  OBVIOUS
<1>2. Step \in [1..N -> [Seq(T) -> Seq(T)]]
  BY <1>1
<1>. HIDE DEF Step, N
<1>3. PICK f : Unrolls(f, N, s, Step)
  BY <1>1, <1>2, Recursion
<1>. DEFINE P == {n \in 0..N : f[n] \in Seq(T)}
<1>4. 0 \in P
  BY <1>1, <1>3 DEF Unrolls
<1>5. \A n \in 0..N : n < N /\ n \in P => n + 1 \in P
  <2>. SUFFICES ASSUME NEW n \in 0..N, n < N, n \in P PROVE n + 1 \in P
    OBVIOUS
  <2>1. n + 1 \in 1..N /\ (n + 1) - 1 = n
    BY <1>1
  <2>2. f[n + 1] = Step[n + 1][f[n]]
    BY <1>3, <2>1 DEF Unrolls
  <2>3. f[n + 1] \in Seq(T)
    BY <1>2, <2>1, <2>2
  <2>. QED  BY <2>1, <2>3
<1>6. \A n \in 0..N : f[n] \in Seq(T)
  <2>. HIDE DEF P
  <2>1. 0..N \subseteq P
    BY <1>1, <1>4, <1>5, CountingTo, Zenon
  <2>. QED  BY <2>1 DEF P
<1>7. Is(f)
  <2>1. f = [n \in 0..N |-> f[n]] /\ f[0] = s
    BY <1>3 DEF Unrolls
  <2>2. \A n \in 1..N : f[n] = IF t[n] \in Grok!ToSet(f[n - 1]) THEN f[n - 1] ELSE Append(f[n - 1], t[n])
    <3>. TAKE n \in 1..N
    <3>1. n - 1 \in 0..N
      BY <1>1
    <3>2. f[n] = Step[n][f[n - 1]]
      BY <1>3 DEF Unrolls
    <3>3. f[n - 1] \in Seq(T)
      BY <1>6, <3>1
    <3>. QED  BY <3>2, <3>3 DEF Step
  <2>3. \A n \in 0..N : n = 0 \/ n \in 1..N
    BY <1>1
  <2>4. \A n \in 0..N :
          f[n] = IF n = 0 THEN s ELSE IF t[n] \in Grok!ToSet(f[n - 1]) THEN f[n - 1] ELSE Append(f[n - 1], t[n])
    BY <2>1, <2>2, <2>3
  <2>. QED  BY <2>1, <2>4, Zenon
<1>. DEFINE g == CHOOSE g : Is(g)
<1>8. Is(g)
  BY <1>7
<1>9. Grok!Merge(s, t) = g[N]
  BY <1>8 DEF Grok!Merge, N
<1>. DEFINE Q == {n \in 0..N : /\ g[n] \in Seq(T) /\ Elements(g[n]) = Elements(s) \cup {t[k] : k \in 1..n}
                               /\ Distinct(s) => Distinct(g[n])}
<1>10. /\ g[0] = s
       /\ \A n \in 1..N : g[n] = IF t[n] \in Elements(g[n - 1]) THEN g[n - 1] ELSE Append(g[n - 1], t[n])
  <2>1. 0 \in 0..N /\ \A n \in 1..N : n \in 0..N /\ n # 0
    BY <1>1
  <2>. HIDE DEF g
  <2>. QED  BY <1>8, <2>1 DEF Elements, Grok!ToSet
<1>. HIDE DEF g
<1>11. 0 \in Q
  <2>1. {t[k] : k \in 1..0} = {}
    OBVIOUS
  <2>. QED  BY <1>1, <1>10, <2>1
<1>12. \A n \in 0..N : n < N /\ n \in Q => n + 1 \in Q
  <2>. SUFFICES ASSUME NEW n \in 0..N, n < N, n \in Q PROVE n + 1 \in Q
    OBVIOUS
  <2>1. n + 1 \in 1..N /\ (n + 1) - 1 = n /\ n + 1 \in 0..N /\ 1..(n + 1) = 1..n \cup {n + 1}
    BY <1>1
  <2>2. g[n + 1] = IF t[n + 1] \in Elements(g[n]) THEN g[n] ELSE Append(g[n], t[n + 1])
    BY <1>10, <2>1
  <2>3. {t[k] : k \in 1..(n + 1)} = {t[k] : k \in 1..n} \cup {t[n + 1]}
    BY <2>1
  <2>4. t[n + 1] \in T
    BY <1>1, <2>1
  <2>5. CASE t[n + 1] \in Elements(g[n])
    BY <2>1, <2>2, <2>3, <2>5
  <2>6. CASE t[n + 1] \notin Elements(g[n])
    <3>1. g[n] \in Seq(T) /\ g[n + 1] = Append(g[n], t[n + 1])
      BY <2>2, <2>6
    <3>2. g[n + 1] \in Seq(T) /\ Elements(g[n + 1]) = Elements(g[n]) \cup {t[n + 1]}
      BY <2>4, <3>1, ElementsAppend
    <3>3. Distinct(g[n]) => Distinct(g[n + 1])
      BY <2>4, <2>6, <3>1, DistinctAppend
    <3>. QED  BY <2>1, <2>3, <3>2, <3>3
  <2>. QED  BY <2>5, <2>6
<1>. HIDE DEF Q
<1>13. 0..N \subseteq Q /\ N \in 0..N
  <2>1. 0..N \subseteq Q
    BY <1>1, <1>11, <1>12, CountingTo, Zenon
  <2>. QED  BY <1>1, <2>1
<1>14. {t[k] : k \in 1..N} = Elements(t)
  BY <1>1 DEF Elements
<1>. QED  BY <1>9, <1>13, <1>14 DEF Q

-----------------------------------------------------------------------------
(* The calls of an answer.                                                 *)

\* One item changes, and only in what was heard of it.
LEMMA ItemStep ==
  ASSUME NEW t, GoodTurn(t), NEW i \in DOMAIN t.items, NEW x \in Items, NEW n,
         n = [f \in Fields |-> n[f]],
         n.st = t.st, n.sent = t.sent, n.rewrite = t.rewrite, n.tracked = t.tracked,
         n.searches = t.searches, n.full = t.full, n.items = [t.items EXCEPT ![i] = x],
         x.name = t.items[i].name, x.is = t.items[i].is,
         Hears(x, i \in t.tracked, i \in t.searches, i \in t.full)
  PROVE  GoodTurn(n)
<1>1. t.items \in Seq(Items) /\ n.items \in Seq(Items) /\ DOMAIN n.items = DOMAIN t.items
  <2>1. t.items \in Seq(Items)
    BY DEF GoodTurn
  <2>2. [t.items EXCEPT ![i] = x] \in Seq(Items) /\ DOMAIN [t.items EXCEPT ![i] = x] = DOMAIN t.items
    BY <2>1
  <2>. QED  BY <2>1, <2>2
<1>2. ASSUME NEW k \in DOMAIN n.items PROVE GoodItem(n, k)
  <2>1. k \in DOMAIN t.items /\ GoodItem(t, k)
    BY <1>1, <1>2 DEF GoodTurn
  <2>2. CASE k # i
    <3>1. n.items[k] = t.items[k]
      BY <1>1, <2>1, <2>2
    <3>. QED  BY <2>1, <3>1 DEF GoodItem
  <2>3. CASE k = i
    <3>1. n.items[k] = x
      BY <1>1, <2>1, <2>3
    <3>. QED  BY <2>1, <2>3, <3>1 DEF GoodItem
  <2>. QED  BY <2>2, <2>3
<1>. QED  BY <1>1, <1>2 DEF GoodTurn

\* A step of the answer to c: the turn stays good, with the tools it was sent.
AnswerStep(c) ==
  /\ turn' = [d \in Conversations |-> turn'[d]] /\ \A d \in Conversations \ {c} : turn'[d] = turn[d]
  /\ GoodTurn(turn'[c]) /\ turn'[c].sent = turn[c].sent /\ turn'[c].bare = turn[c].bare

LEMMA Pair ==
  ASSUME NEW x, NEW y
  PROVE  <<x>> \o <<y>> = <<x, y>>
<1>. DEFINE S == {x, y}
<1>1. <<x>> \in Seq(S) /\ <<y>> \in Seq(S) /\ Len(<<x>>) = 1 /\ Len(<<y>>) = 1 /\ <<x>>[1] = x /\ <<y>>[1] = y
  OBVIOUS
<1>. HIDE DEF S
<1>2. PICK a \in Seq(S) : a = <<x>>
  BY <1>1
<1>3. PICK b \in Seq(S) : b = <<y>>
  BY <1>1
<1>4. Len(a) = 1 /\ Len(b) = 1 /\ a[1] = x /\ b[1] = y
  BY <1>1, <1>2, <1>3
<1>5. a \o b \in Seq(S) /\ Len(a \o b) = 2 /\ (a \o b)[1] = x /\ (a \o b)[2] = y
  <2>1. a \o b \in Seq(S) /\ Len(a \o b) = Len(a) + Len(b)
    OBVIOUS
  <2>2. \A k \in 1..Len(a) : (a \o b)[k] = a[k]
    OBVIOUS
  <2>3. \A k \in 1..Len(b) : (a \o b)[Len(a) + k] = b[k]
    OBVIOUS
  <2>4. 1 \in 1..Len(a) /\ 1 \in 1..Len(b) /\ Len(a) + 1 = 2 /\ Len(a) + Len(b) = 2
    BY <1>4
  <2>5. (a \o b)[1] = x
    BY <1>4, <2>2, <2>4
  <2>6. (a \o b)[2] = y
    BY <1>4, <2>3, <2>4
  <2>. QED  BY <2>1, <2>4, <2>5, <2>6
<1>6. PICK u \in Seq(S) : u = a \o b /\ Len(u) = 2 /\ u[1] = x /\ u[2] = y
  BY <1>5, Zenon
<1>7. u = [k \in 1..2 |-> u[k]]
  <2>1. DOMAIN u = 1..Len(u) /\ u = [k \in 1..Len(u) |-> u[k]]
    OBVIOUS
  <2>. QED  BY <1>6, <2>1, Zenon
<1>8. \A k \in 1..2 : u[k] = <<x, y>>[k]
  <2>1. 1..2 = {1, 2}
    OBVIOUS
  <2>. QED  BY <1>6, <2>1
<1>9. <<x, y>> = [k \in 1..2 |-> <<x, y>>[k]]
  OBVIOUS
<1>10. u = <<x, y>>
  BY <1>7, <1>8, <1>9
<1>. QED  BY <1>2, <1>3, <1>6, <1>10, Zenon

LEMMA PieceJoins ==
  ASSUME NEW p \in 0..2, p + 1 <= 2
  PROVE  Part(p) \o <<Grok!Whole[p + 1]>> = Part(p + 1) /\ <<Grok!Whole[p + 1]>> \in Seq({"first", "second"})
<1>1. CASE p = 0
  <2>1. Grok!Whole[p + 1] = "first"
    BY <1>1 DEF Grok!Whole
  <2>2. Part(p) = <<>> /\ Part(p + 1) = <<"first">>
    BY <1>1 DEF Part
  <2>3. <<>> \o <<"first">> = <<"first">> /\ <<"first">> \in Seq({"first", "second"})
    OBVIOUS
  <2>. QED  BY <2>1, <2>2, <2>3
<1>2. CASE p = 1
  <2>1. Grok!Whole[p + 1] = "second"
    BY <1>2 DEF Grok!Whole
  <2>2. Part(p) = <<"first">> /\ Part(p + 1) = <<"first", "second">>
    BY <1>2 DEF Part, Grok!Whole
  <2>3. <<"first">> \o <<"second">> = <<"first", "second">>
    BY Pair, Zenon
  <2>4. <<"second">> \in Seq({"first", "second"})
    OBVIOUS
  <2>. QED  BY <2>1, <2>2, <2>3, <2>4
<1>. QED  BY <1>1, <1>2

LEMMA DeltaStep ==
  ASSUME NEW c \in Conversations, turn = [d \in Conversations |-> turn[d]], GoodTurn(turn[c]),
         NEW i \in DOMAIN turn[c].items, Grok!Delta(c, i)
  PROVE  AnswerStep(c)
<1>. DEFINE t == turn[c] item == t.items[i] piece == item.pieces + 1
            heard == IF i \in t.tracked \cup t.searches THEN <<>> ELSE <<Grok!Whole[piece]>>
            mid == Grok!Steps(c, i, "added", heard)
            x == [[item EXCEPT !.step = "added", !.heard = item.heard \o heard] EXCEPT !.pieces = piece]
<1>1. t.items \in Seq(Items) /\ item \in Items /\ GoodItem(t, i) /\ t = [f \in Fields |-> t[f]]
  BY DEF GoodTurn
<1>2. item.step = "added" /\ piece <= 2 /\ Len(Grok!Whole) = 2 /\ item.pieces \in 0..2
  <2>1. item.pieces \in 0..2
    BY <1>1 DEF Items
  <2>2. item.step = "added" /\ piece <= Len(Grok!Whole) /\ Len(Grok!Whole) = 2
    BY DEF Grok!Delta, Grok!Whole
  <2>. QED  BY <2>1, <2>2
<1>3. turn' = [mid EXCEPT ![c].items[i].pieces = piece]
  BY DEF Grok!Delta
<1>4. /\ mid = [d \in Conversations |-> mid[d]] /\ \A d \in Conversations \ {c} : mid[d] = turn[d]
      /\ mid[c] = [f \in Fields |-> IF f = "items" THEN mid[c].items ELSE t[f]]
      /\ mid[c].items = [t.items EXCEPT ![i] = [item EXCEPT !.step = "added", !.heard = item.heard \o heard]]
  <2>1. "items" \in Fields
    BY DEF Fields
  <2>2. item = [item EXCEPT !.step = item.step] /\ DOMAIN item = {"name", "is", "step", "pieces", "heard"}
    <3>. HIDE DEF item
    <3>. QED  BY <1>1 DEF Items
  <2>. HIDE DEF heard
  <2>. QED  BY <1>1, <2>1, <2>2 DEF Grok!Steps
<1>. HIDE DEF mid
<1>5. /\ turn' = [d \in Conversations |-> turn'[d]] /\ \A d \in Conversations \ {c} : turn'[d] = turn[d]
      /\ turn'[c] = [f \in Fields |-> IF f = "items" THEN turn'[c].items ELSE t[f]]
      /\ turn'[c].items = [t.items EXCEPT ![i] = x]
  <2>1. "items" \in Fields
    BY DEF Fields
  <2>2. DOMAIN item = {"name", "is", "step", "pieces", "heard"}
    BY <1>1 DEF Items
  <2>. QED  BY <1>1, <1>3, <1>4, <2>1, <2>2
<1>6. x.name = item.name /\ x.is = item.is /\ x.step = "added" /\ x.heard = item.heard \o heard
        /\ x.pieces = piece
  <2>1. DOMAIN item = {"name", "is", "step", "pieces", "heard"}
    BY <1>1 DEF Items
  <2>. HIDE DEF item, heard, piece
  <2>. QED  BY <2>1
<1>7. heard \in Seq({"first", "second"})
  <2>1. <<>> \in Seq({"first", "second"})
    OBVIOUS
  <2>2. <<Grok!Whole[piece]>> \in Seq({"first", "second"})
    BY <1>2, PieceJoins
  <2>. QED  BY <2>1, <2>2, Zenon
<1>8. x \in Items
  <2>1. item.heard \o heard \in Seq({"first", "second"}) /\ piece \in 0..2
    <3>1. item.heard \in Seq({"first", "second"})
      BY <1>1 DEF Items
    <3>2. piece \in 0..2
      BY <1>2
    <3>. HIDE DEF heard, piece
    <3>. QED  BY <1>7, <3>1, <3>2
  <2>. HIDE DEF heard, piece
  <2>. QED  BY <1>1, <2>1 DEF Items
<1>9. Hears(x, i \in t.tracked, i \in t.searches, i \in t.full)
  <2>1. item.heard = IF i \in t.tracked \cup t.searches THEN <<>> ELSE Part(item.pieces)
    BY <1>1, <1>2 DEF GoodItem, Hears
  <2>2. i \notin t.full
    BY <1>1, <1>2 DEF GoodItem, Hears
  <2>3. x.heard = IF i \in t.tracked \cup t.searches THEN <<>> ELSE Part(piece)
    <3>1. CASE i \in t.tracked \cup t.searches
      BY <1>6, <2>1, <3>1
    <3>2. CASE i \notin t.tracked \cup t.searches
      <4>1. item.heard = Part(item.pieces) /\ heard = <<Grok!Whole[piece]>> /\ x.heard = item.heard \o heard
        BY <1>6, <2>1, <3>2
      <4>2. Part(item.pieces) \o <<Grok!Whole[piece]>> = Part(piece)
        BY <1>2, PieceJoins
      <4>. HIDE DEF x, heard, item, piece
      <4>. QED  BY <3>2, <4>1, <4>2
    <3>. QED  BY <3>1, <3>2
  <2>. HIDE DEF x
  <2>. QED  BY <1>6, <2>2, <2>3 DEF Hears
<1>. DEFINE n == turn'[c]
<1>10. /\ n = [f \in Fields |-> n[f]] /\ n.st = t.st /\ n.sent = t.sent /\ n.rewrite = t.rewrite
            /\ n.tracked = t.tracked
       /\ n.searches = t.searches /\ n.full = t.full /\ n.items = [t.items EXCEPT ![i] = x] /\ n.bare = t.bare
  <2>. HIDE DEF x
  <2>. QED  BY <1>5 DEF Fields
<1>11. GoodTurn(n)
  <2>. HIDE DEF n, x
  <2>. QED  BY <1>6, <1>8, <1>9, <1>10, ItemStep
<1>. QED  BY <1>5, <1>10, <1>11 DEF AnswerStep

LEMMA Joins ==
  ASSUME NEW S, NEW s \in Seq(S)
  PROVE  s \o <<>> = s /\ <<>> \o s = s
OBVIOUS

LEMMA WholeIs ==
  /\ Grok!Whole \in Seq({"first", "second"}) /\ Grok!Whole # <<>>
  /\ <<>> \in Seq({"first", "second"}) /\ 0 \in 0..2
BY DEF Grok!Whole

LEMMA ArgumentsStep ==
  ASSUME NEW c \in Conversations, turn = [d \in Conversations |-> turn[d]], GoodTurn(turn[c]),
         NEW i \in DOMAIN turn[c].items, Grok!ArgumentsDone(c, i)
  PROVE  AnswerStep(c)
<1>. DEFINE t == turn[c] item == t.items[i]
            heard == IF Grok!Silent(t, i) THEN <<>> ELSE Grok!Whole
            x == [item EXCEPT !.step = "argued", !.heard = item.heard \o heard]
<1>1. t.items \in Seq(Items) /\ item \in Items /\ GoodItem(t, i) /\ t = [f \in Fields |-> t[f]]
  BY DEF GoodTurn
<1>2. item.step = "given" \/ (item.step = "added" /\ item.pieces = 2)
  <2>1. Len(Grok!Whole) = 2
    BY DEF Grok!Whole
  <2>. QED  BY <2>1 DEF Grok!ArgumentsDone
<1>3. turn' = Grok!Steps(c, i, "argued", heard)
  BY DEF Grok!ArgumentsDone
<1>4. /\ turn' = [d \in Conversations |-> turn'[d]] /\ \A d \in Conversations \ {c} : turn'[d] = turn[d]
      /\ turn'[c] = [f \in Fields |-> IF f = "items" THEN turn'[c].items ELSE t[f]]
      /\ turn'[c].items = [t.items EXCEPT ![i] = x]
  <2>1. "items" \in Fields
    BY DEF Fields
  <2>2. item = [item EXCEPT !.step = item.step] /\ DOMAIN item = {"name", "is", "step", "pieces", "heard"}
    <3>. HIDE DEF item
    <3>. QED  BY <1>1 DEF Items
  <2>. HIDE DEF heard
  <2>. QED  BY <1>1, <1>3, <2>1, <2>2 DEF Grok!Steps
<1>5. x.name = item.name /\ x.is = item.is /\ x.step = "argued" /\ x.heard = item.heard \o heard
  <2>1. DOMAIN item = {"name", "is", "step", "pieces", "heard"}
    BY <1>1 DEF Items
  <2>. HIDE DEF item, heard
  <2>. QED  BY <2>1
<1>6. item.heard \in Seq({"first", "second"}) /\ heard \in Seq({"first", "second"})
  <2>1. item.heard \in Seq({"first", "second"})
    BY <1>1 DEF Items
  <2>2. <<>> \in Seq({"first", "second"})
    OBVIOUS
  <2>. QED  BY <2>1, <2>2, WholeIs, Zenon
<1>7. x \in Items
  <2>1. item.heard \o heard \in Seq({"first", "second"})
    <3>. HIDE DEF heard
    <3>. QED  BY <1>6
  <2>. HIDE DEF heard
  <2>. QED  BY <1>1, <2>1 DEF Items
<1>8. x.heard = Grok!Whole \/ (i \in t.searches /\ x.heard = <<>>)
  <2>1. item.heard \o <<>> = item.heard /\ <<>> \o Grok!Whole = Grok!Whole
    BY <1>6, WholeIs, Joins
  <2>2. CASE item.step = "given"
    <3>1. item.heard = Grok!Whole /\ (i \in t.tracked => i \in t.full)
      BY <1>1, <2>2 DEF GoodItem, Hears
    <3>2. heard = <<>>
      BY <3>1 DEF Grok!Silent
    <3>. QED  BY <1>5, <2>1, <3>1, <3>2, Zenon
  <2>3. CASE item.step = "added" /\ item.pieces = 2
    <3>1. /\ item.heard = IF i \in t.tracked \/ i \in t.searches THEN <<>> ELSE Part(item.pieces)
          /\ i \notin t.full
      BY <1>1, <2>3 DEF GoodItem, Hears
    <3>2. CASE i \in t.searches
      <4>1. heard = <<>> /\ item.heard = <<>>
        BY <3>1, <3>2 DEF Grok!Silent
      <4>. QED  BY <1>5, <2>1, <3>2, <4>1, Zenon
    <3>3. CASE i \notin t.searches /\ i \in t.tracked
      <4>1. heard = Grok!Whole /\ item.heard = <<>>
        BY <3>1, <3>3 DEF Grok!Silent
      <4>. QED  BY <1>5, <2>1, <4>1, Zenon
    <3>4. CASE i \notin t.searches /\ i \notin t.tracked
      <4>1. heard = <<>> /\ item.heard = Part(item.pieces)
        BY <3>1, <3>4 DEF Grok!Silent
      <4>2. Part(item.pieces) = Grok!Whole
        BY <2>3 DEF Part
      <4>. QED  BY <1>5, <2>1, <4>1, <4>2, Zenon
    <3>. QED  BY <3>2, <3>3, <3>4
  <2>. QED  BY <1>2, <2>2, <2>3
<1>9. Hears(x, i \in t.tracked, i \in t.searches, i \in t.full)
  <2>1. i \in t.full => i \in t.tracked
    BY <1>1 DEF GoodItem, Hears
  <2>. HIDE DEF x
  <2>. QED  BY <1>5, <1>8, <2>1 DEF Hears
<1>. DEFINE n == turn'[c]
<1>10. /\ n = [f \in Fields |-> n[f]] /\ n.st = t.st /\ n.sent = t.sent /\ n.rewrite = t.rewrite
            /\ n.tracked = t.tracked
       /\ n.searches = t.searches /\ n.full = t.full /\ n.items = [t.items EXCEPT ![i] = x] /\ n.bare = t.bare
  <2>. HIDE DEF x
  <2>. QED  BY <1>4 DEF Fields
<1>11. GoodTurn(n)
  <2>. HIDE DEF n, x
  <2>. QED  BY <1>5, <1>7, <1>9, <1>10, ItemStep
<1>. QED  BY <1>4, <1>10, <1>11 DEF AnswerStep

LEMMA ItemDoneStep ==
  ASSUME NEW c \in Conversations, turn = [d \in Conversations |-> turn[d]], GoodTurn(turn[c]),
         NEW i \in DOMAIN turn[c].items, Grok!ItemDone(c, i)
  PROVE  AnswerStep(c)
<1>. DEFINE t == turn[c] item == t.items[i]
            is == Grok!Rewritten(item.name, t.rewrite)
            heard == IF i \in t.searches /\ item.heard = <<>> THEN Grok!Whole ELSE <<>>
            more == IF is.type = "tool_search_call" THEN {i} ELSE {}
            mid == Grok!Steps(c, i, "done", heard)
            x == [[item EXCEPT !.step = "done", !.heard = item.heard \o heard] EXCEPT !.is = is]
<1>1. t.items \in Seq(Items) /\ item \in Items /\ GoodItem(t, i) /\ t = [f \in Fields |-> t[f]]
  BY DEF GoodTurn
<1>2. item.step = "argued" /\ (item.heard = Grok!Whole \/ (i \in t.searches /\ item.heard = <<>>)) /\ is = item.is
  BY <1>1 DEF Grok!ItemDone, GoodItem, Hears
<1>3. turn' = [mid EXCEPT ![c].items[i].is = is, ![c].searches = @ \cup more]
  BY DEF Grok!ItemDone
<1>4. /\ mid = [d \in Conversations |-> mid[d]] /\ \A d \in Conversations \ {c} : mid[d] = turn[d]
      /\ mid[c] = [f \in Fields |-> IF f = "items" THEN mid[c].items ELSE t[f]]
      /\ mid[c].items = [t.items EXCEPT ![i] = [item EXCEPT !.step = "done", !.heard = item.heard \o heard]]
  <2>1. "items" \in Fields
    BY DEF Fields
  <2>2. item = [item EXCEPT !.step = item.step] /\ DOMAIN item = {"name", "is", "step", "pieces", "heard"}
    <3>. HIDE DEF item
    <3>. QED  BY <1>1 DEF Items
  <2>. HIDE DEF heard
  <2>. QED  BY <1>1, <2>1, <2>2 DEF Grok!Steps
<1>. HIDE DEF mid
<1>5. t.searches \cup more = t.searches
  BY <1>1, <1>2 DEF GoodItem
<1>6. /\ turn' = [d \in Conversations |-> turn'[d]] /\ \A d \in Conversations \ {c} : turn'[d] = turn[d]
      /\ turn'[c] = [f \in Fields |-> IF f = "items" THEN turn'[c].items ELSE t[f]]
      /\ turn'[c].items = [t.items EXCEPT ![i] = x]
  <2>1. "items" \in Fields /\ "searches" \in Fields
    BY DEF Fields
  <2>2. DOMAIN item = {"name", "is", "step", "pieces", "heard"}
    BY <1>1 DEF Items
  <2>. HIDE DEF heard, is, more
  <2>. QED  BY <1>1, <1>3, <1>4, <1>5, <2>1, <2>2
<1>7. x.name = item.name /\ x.is = item.is /\ x.step = "done" /\ x.heard = item.heard \o heard
  <2>1. DOMAIN item = {"name", "is", "step", "pieces", "heard"}
    BY <1>1 DEF Items
  <2>. HIDE DEF item, heard, is
  <2>. QED  BY <1>2, <2>1
<1>8. item.heard \in Seq({"first", "second"}) /\ heard \in Seq({"first", "second"})
  <2>1. item.heard \in Seq({"first", "second"})
    BY <1>1 DEF Items
  <2>2. <<>> \in Seq({"first", "second"})
    OBVIOUS
  <2>. QED  BY <2>1, <2>2, WholeIs, Zenon
<1>9. x \in Items
  <2>1. item.heard \o heard \in Seq({"first", "second"})
    <3>. HIDE DEF heard
    <3>. QED  BY <1>8
  <2>. HIDE DEF heard, is
  <2>. QED  BY <1>1, <1>2, <2>1 DEF Items
<1>10. x.heard = Grok!Whole
  <2>1. item.heard \o <<>> = item.heard /\ <<>> \o Grok!Whole = Grok!Whole
    BY <1>8, WholeIs, Joins
  <2>2. CASE item.heard = Grok!Whole
    <3>1. heard = <<>>
      BY <2>2, WholeIs
    <3>. QED  BY <1>7, <2>1, <2>2, <3>1, Zenon
  <2>3. CASE i \in t.searches /\ item.heard = <<>>
    <3>1. heard = Grok!Whole
      BY <2>3
    <3>. QED  BY <1>7, <2>1, <2>3, <3>1, Zenon
  <2>. QED  BY <1>2, <2>2, <2>3
<1>11. Hears(x, i \in t.tracked, i \in t.searches, i \in t.full)
  <2>1. i \in t.full => i \in t.tracked
    BY <1>1 DEF GoodItem, Hears
  <2>. HIDE DEF x
  <2>. QED  BY <1>7, <1>10, <2>1 DEF Hears
<1>. DEFINE n == turn'[c]
<1>12. /\ n = [f \in Fields |-> n[f]] /\ n.st = t.st /\ n.sent = t.sent /\ n.rewrite = t.rewrite
            /\ n.tracked = t.tracked
       /\ n.searches = t.searches /\ n.full = t.full /\ n.items = [t.items EXCEPT ![i] = x] /\ n.bare = t.bare
  <2>. HIDE DEF x
  <2>. QED  BY <1>6 DEF Fields
<1>13. GoodTurn(n)
  <2>. HIDE DEF n, x
  <2>. QED  BY <1>7, <1>9, <1>11, <1>12, ItemStep
<1>. QED  BY <1>6, <1>12, <1>13 DEF AnswerStep

LEMMA AddedStep ==
  ASSUME Grok!NamesAssumption, NEW c \in Conversations, turn = [d \in Conversations |-> turn[d]],
         GoodTurn(turn[c]),
         NEW w \in turn[c].sent, NEW whole \in BOOLEAN, w.name # "", Grok!Added(c, w.name, whole)
  PROVE  AnswerStep(c)
<1>. DEFINE t == turn[c] i == Len(t.items) + 1
            is == Grok!Rewritten(w.name, t.rewrite)
            step == IF whole THEN "given" ELSE "added"
            heard == IF whole THEN Grok!Whole ELSE <<>>
            x == [name |-> w.name, is |-> is, step |-> step, pieces |-> 0, heard |-> heard]
            custom == is.type = "custom_tool_call"
            tracked == IF custom THEN {i} ELSE {}
            full == IF custom /\ whole THEN {i} ELSE {}
            searches == IF is.type = "tool_search_call" THEN {i} ELSE {}
<1>1. t.items \in Seq(Items) /\ t = [f \in Fields |-> t[f]]
        /\ t.tracked \cup t.searches \cup t.full \subseteq DOMAIN t.items
  BY DEF GoodTurn
<1>3. PICK u \in Grok!Tools : w = Grok!Wire(u)
  BY DEF GoodTurn, Wires
<1>4. is \in Forms /\ w.name \in Called
  <2>1. w.name \in Called
    BY <1>3 DEF Called, Wires
  <2>2. is = Grok!Meant(u) /\ Grok!Meant(u) \in Forms
    <3>1. /\ Grok!Wire(u) \in t.sent /\ Grok!Wire(u).name # "" /\ Free(t.rewrite.free) /\ Placed(t.rewrite.spaces)
          /\ Covers(t.sent, t.rewrite.free, t.rewrite.spaces) /\ Finds(t.sent, t.rewrite.search)
      BY <1>3 DEF GoodTurn
    <3>. QED  BY <1>3, <3>1, RewrittenIs
  <2>. QED  BY <2>1, <2>2
<1>5. turn' = [turn EXCEPT ![c].items = Append(@, x), ![c].tracked = @ \cup tracked,
                           ![c].full = @ \cup full, ![c].searches = @ \cup searches]
  BY DEF Grok!Added
<1>6. x \in Items /\ x.name = w.name /\ x.is = is /\ x.step = step /\ x.heard = heard /\ x.pieces = 0
  <2>1. heard \in Seq({"first", "second"})
    BY WholeIs, Zenon
  <2>2. step \in {"added", "given", "argued", "done"} /\ 0 \in 0..2
    BY WholeIs, Zenon
  <2>. HIDE DEF heard, is, step
  <2>3. x \in Items
    BY <1>4, <2>1, <2>2, Zenon DEF Items
  <2>. QED  BY <2>3, Zenon
<1>. DEFINE n == turn'[c]
<1>7. /\ turn' = [d \in Conversations |-> turn'[d]] /\ \A d \in Conversations \ {c} : turn'[d] = turn[d]
      /\ n = [f \in Fields |-> n[f]]
      /\ n.st = t.st /\ n.bare = t.bare /\ n.sent = t.sent /\ n.rewrite = t.rewrite
      /\ n.items = Append(t.items, x) /\ n.tracked = t.tracked \cup tracked
      /\ n.full = t.full \cup full /\ n.searches = t.searches \cup searches
  <2>. HIDE DEF x, tracked, full, searches, i
  <2>. QED  BY <1>1, <1>5 DEF Fields
<1>2. /\ i \notin DOMAIN t.items /\ n.items \in Seq(Items) /\ n.items[i] = x
      /\ DOMAIN n.items = DOMAIN t.items \cup {i}
      /\ \A k \in DOMAIN t.items : n.items[k] = t.items[k]
  <2>. HIDE DEF x, n
  <2>1. t.items \in Seq(Items) /\ x \in Items /\ n.items = Append(t.items, x)
    BY <1>1, <1>6, <1>7, Zenon
  <2>2. Append(t.items, x) \in Seq(Items) /\ Longer(t.items, x, Append(t.items, x))
    BY <2>1, AppendIs
  <2>3. n.items \in Seq(Items) /\ Longer(t.items, x, n.items)
    BY <2>1, <2>2, Zenon
  <2>. QED  BY <2>3, Zenon DEF Longer
<1>8. n.items \in Seq(Items) /\ DOMAIN n.items = DOMAIN t.items \cup {i} /\ n.items[i] = x
  <2>. HIDE DEF x, n, i
  <2>. QED  BY <1>2, <1>7, Zenon
<1>9. \A k \in DOMAIN t.items : n.items[k] = t.items[k]
  <2>. HIDE DEF x, n, i
  <2>. QED  BY <1>2, <1>7, Zenon
<1>10. tracked \subseteq {i} /\ full \subseteq {i} /\ searches \subseteq {i}
  OBVIOUS
<1>11. \A k \in DOMAIN n.items : GoodItem(n, k)
  <2>. SUFFICES ASSUME NEW k \in DOMAIN n.items PROVE GoodItem(n, k)
    OBVIOUS
  <2>1. CASE k \in DOMAIN t.items
    <3>1. GoodItem(t, k) /\ n.items[k] = t.items[k] /\ k # i
      BY <1>2, <1>9, <2>1 DEF GoodTurn
    <3>2. (k \in n.tracked <=> k \in t.tracked) /\ (k \in n.searches <=> k \in t.searches)
            /\ (k \in n.full <=> k \in t.full)
      <4>. HIDE DEF n, tracked, full, searches, i
      <4>. QED  BY <1>7, <1>10, <3>1
    <3>. HIDE DEF n
    <3>. QED  BY <1>7, <3>1, <3>2 DEF GoodItem, Hears
  <2>2. CASE k = i
    <3>1. n.items[k] = x
      BY <1>8, <2>2
    <3>2. i \notin t.tracked /\ i \notin t.searches /\ i \notin t.full
      <4>. HIDE DEF i
      <4>. QED  BY <1>1, <1>2
    <3>3. (i \in n.tracked <=> custom) /\ (i \in n.full <=> custom /\ whole)
          /\ (i \in n.searches <=> is.type = "tool_search_call")
      <4>. HIDE DEF n, i, is
      <4>. QED  BY <1>7, <3>2
    <3>4. Part(0) = <<>>
      BY DEF Part
    <3>5. Hears(x, custom, is.type = "tool_search_call", custom /\ whole)
      <4>. HIDE DEF x, is
      <4>1. CASE whole
        BY <1>6, <3>4, <4>1 DEF Hears
      <4>2. CASE ~whole
        BY <1>6, <3>4, <4>2 DEF Hears
      <4>. QED  BY <4>1, <4>2
    <3>6. Hears(x, i \in n.tracked, i \in n.searches, i \in n.full)
      <4>. HIDE DEF x, is, n, i
      <4>. QED  BY <3>3, <3>5 DEF Hears
    <3>. HIDE DEF x, is, n, i
    <3>. QED  BY <1>6, <1>7, <2>2, <3>1, <3>3, <3>6 DEF GoodItem
  <2>. QED  BY <1>8, <2>1, <2>2
<1>12. n.tracked \cup n.searches \cup n.full \subseteq DOMAIN n.items
  <2>. HIDE DEF n, tracked, full, searches, i
  <2>. QED  BY <1>1, <1>7, <1>8, <1>10
<1>13. GoodTurn(n)
  <2>. HIDE DEF n, x
  <2>. QED  BY <1>7, <1>8, <1>11, <1>12 DEF GoodTurn
<1>. QED  BY <1>7, <1>13 DEF AnswerStep

LEMMA AnswersStep ==
  ASSUME Grok!NamesAssumption, NEW c \in Conversations, turn = [d \in Conversations |-> turn[d]],
         GoodTurn(turn[c]), Grok!Answer(c)
  PROVE  AnswerStep(c)
<1>1. ASSUME NEW w \in turn[c].sent, NEW whole \in BOOLEAN, w.name # "",
             Grok!Added(c, w.name, whole) PROVE AnswerStep(c)
  BY <1>1, AddedStep
<1>2. ASSUME NEW i \in DOMAIN turn[c].items, Grok!Delta(c, i) PROVE AnswerStep(c)
  BY <1>2, DeltaStep
<1>3. ASSUME NEW i \in DOMAIN turn[c].items, Grok!ArgumentsDone(c, i) PROVE AnswerStep(c)
  BY <1>3, ArgumentsStep
<1>4. ASSUME NEW i \in DOMAIN turn[c].items, Grok!ItemDone(c, i) PROVE AnswerStep(c)
  BY <1>4, ItemDoneStep
<1>. QED  BY <1>1, <1>2, <1>3, <1>4 DEF Grok!Answer

-----------------------------------------------------------------------------
(* The request.                                                            *)

GoodEntry(e) ==
  /\ e.tools \in Seq(Wires) /\ Distinct(e.tools) /\ Len(e.tools) <= MaxTools /\ e.until \in Nat
  /\ Free(e.free) /\ Placed(e.spaces) /\ Covers(Elements(e.tools), e.free, e.spaces)

\* The tools of a request, as Grok gets them.
LEMMA AdvertisedIs ==
  ASSUME NEW own \in Seq(Own), NEW past, past.found \in Seq(Findable), NEW tools,
         tools = Grok!Declared(own, past),
         NEW wires, wires = Grok!Merge(<<>>, [n \in DOMAIN tools |-> Grok!Wire(tools[n])])
  PROVE  /\ tools \in Seq(Grok!Tools) /\ wires \in Seq(Wires) /\ Distinct(wires)
         /\ Elements(wires) = {Grok!Wire(t) : t \in Elements(tools)}
<1>1. tools \in Seq(Grok!Tools)
  <2>1. own \in Seq(Grok!Tools) /\ past.found \in Seq(Grok!Tools)
    <3>1. Own \subseteq Grok!Tools /\ Findable \subseteq Grok!Tools
      BY DEF Grok!Tools
    <3>2. \A s \in Seq(Own) : s \in Seq(Grok!Tools)
      BY <3>1
    <3>3. \A s \in Seq(Findable) : s \in Seq(Grok!Tools)
      BY <3>1
    <3>. QED  BY <3>2, <3>3
  <2>. QED  BY <2>1, MergeIs DEF Grok!Declared
<1>. DEFINE w == [n \in DOMAIN tools |-> Grok!Wire(tools[n])]
<1>2. w \in Seq(Wires) /\ Elements(w) = {Grok!Wire(t) : t \in Elements(tools)}
  <2>1. DOMAIN tools = 1..Len(tools) /\ Len(tools) \in Nat /\ \A n \in 1..Len(tools) : tools[n] \in Grok!Tools
    BY <1>1
  <2>2. \A n \in 1..Len(tools) : Grok!Wire(tools[n]) \in Wires
    BY <2>1 DEF Wires
  <2>3. w \in Seq(Wires)
    BY <2>1, <2>2
  <2>4. Elements(w) = {Grok!Wire(t) : t \in Elements(tools)}
    <3>1. DOMAIN w = DOMAIN tools /\ \A n \in DOMAIN tools : w[n] = Grok!Wire(tools[n])
      OBVIOUS
    <3>. HIDE DEF w
    <3>. QED  BY <3>1, Zenon DEF Elements
  <2>. QED  BY <2>3, <2>4
<1>3. <<>> \in Seq(Wires) /\ Elements(<<>>) = {} /\ Distinct(<<>>)
  BY DEF Elements, Distinct
<1>. HIDE DEF w
<1>4. wires \in Seq(Wires) /\ Elements(wires) = Elements(<<>>) \cup Elements(w) /\ Distinct(wires)
  BY <1>2, <1>3, MergeIs DEF w
<1>. QED  BY <1>1, <1>2, <1>3, <1>4

\* A tool of a list of tools is the one that its wire comes from.
LEMMA WiresBack ==
  ASSUME Grok!NamesAssumption, NEW T \in SUBSET Grok!Tools, NEW t \in Grok!Tools,
         Grok!Wire(t) \in {Grok!Wire(u) : u \in T},
         t.kind \in {"custom", "function"}
  PROVE  t \in T
BY WireIsOwn

\* The declarations of a request are given back as declared, all of them.
LEMMA RewriteIs ==
  ASSUME Grok!NamesAssumption, NEW tools \in Seq(Grok!Tools), NEW r, r = Grok!Rewrite(tools),
         NEW W, W = {Grok!Wire(t) : t \in Elements(tools)}
  PROVE  Free(r.free) /\ Placed(r.spaces) /\ Covers(W, r.free, r.spaces) /\ Finds(W, r.search)
<1>. DEFINE T == Elements(tools)
<1>1. T \subseteq Grok!Tools
  BY DEF Elements
<1>2. Grok!ToSet(tools) = T
  BY DEF Elements, Grok!ToSet
<1>. HIDE DEF T
<1>3. /\ r.free = {t.name : t \in {u \in T : u.kind = "custom"}}
      /\ r.spaces = [n \in {t.name : t \in {u \in T : u.space # Grok!NoSpace}} |-> (CHOOSE t \in T : t.name = n).space]
  BY <1>2 DEF Grok!Rewrite, Grok!Spaces
<1>4. r.search <=> \E t \in T : t.kind = "search"
  BY <1>2 DEF Grok!Rewrite
<1>5. Free(r.free)
  BY <1>1, <1>3 DEF Free
<1>6. ASSUME NEW t \in T,
             t.space # Grok!NoSpace PROVE t.name \in DOMAIN r.spaces /\ r.spaces[t.name] = t.space
  <2>1. t.name \in DOMAIN r.spaces /\ r.spaces[t.name] = (CHOOSE u \in T : u.name = t.name).space
    BY <1>3, <1>6
  <2>2. (CHOOSE u \in T : u.name = t.name) = t
    BY <1>1, Zenon DEF Grok!NamesAssumption
  <2>. QED  BY <2>1, <2>2
<1>7. Placed(r.spaces)
  <2>. SUFFICES ASSUME NEW n \in DOMAIN r.spaces
                PROVE  \E t \in Grok!Tools : t.name = n /\ t.space # Grok!NoSpace /\ r.spaces[n] = t.space
    BY DEF Placed
  <2>1. PICK t \in T : t.space # Grok!NoSpace /\ n = t.name
    BY <1>3
  <2>. QED  BY <1>1, <1>6, <2>1
<1>8. Covers(W, r.free, r.spaces)
  <2>. SUFFICES ASSUME NEW t \in Grok!Tools, Grok!Wire(t) \in W
                PROVE  (t.kind = "custom" => t.name \in r.free)
                         /\ (t.space # Grok!NoSpace => t.name \in DOMAIN r.spaces)
    BY DEF Covers
  <2>1. t.space # Grok!NoSpace => t.kind = "function"
    BY DEF Grok!NamesAssumption
  <2>2. t.kind \in {"custom", "function"} => t \in T
    BY <1>1, WiresBack DEF T
  <2>. QED  BY <1>3, <1>6, <2>1, <2>2
<1>9. Finds(W, r.search)
  <2>. SUFFICES ASSUME NEW t \in Grok!Tools, Grok!Wire(t) \in W, t.kind = "search"
                PROVE \E u \in T : u.kind = "search"
    BY <1>4 DEF Finds
  <2>1. PICK u \in T : Grok!Wire(u) = Grok!Wire(t)
    BY DEF T
  <2>2. Grok!Wire(t) = [type |-> "function", name |-> Grok!SearchName] /\ u \in Grok!Tools
    BY <1>1 DEF Grok!Wire
  <2>3. Grok!Wire(u).name = Grok!SearchName /\ Grok!SearchName # ""
    BY <2>1, <2>2 DEF Grok!SearchName
  <2>4. u.name = Grok!SearchName => u.kind = "search"
    BY <2>2 DEF Grok!NamesAssumption
  <2>. QED  BY <2>3, <2>4 DEF Grok!Wire
<1>. QED  BY <1>5, <1>7, <1>8, <1>9

\* What is remembered of it is as good.
LEMMA CachedIs ==
  ASSUME Grok!BoundsAssumption, NEW c, \A d \in DOMAIN cache : GoodEntry(cache[d])
  PROVE  GoodEntry(Grok!Cached(c)) /\ (~Grok!Fresh(c) => Grok!Cached(c).tools = <<>>)
<1>1. CASE Grok!Fresh(c)
  BY <1>1 DEF Grok!Cached, Grok!Fresh
<1>2. CASE ~Grok!Fresh(c)
  <2>1. Grok!Cached(c) = Grok!NoEntry
    BY <1>2 DEF Grok!Cached
  <2>2. Grok!NoEntry.tools = <<>> /\ Grok!NoEntry.free = {} /\ Grok!NoEntry.spaces = <<>>
          /\ Grok!NoEntry.until = 0
    BY DEF Grok!NoEntry
  <2>3. <<>> \in Seq(Wires) /\ Len(<<>>) = 0 /\ DOMAIN <<>> = {}
    OBVIOUS
  <2>4. Elements(<<>>) = {} /\ Distinct(<<>>)
    BY DEF Elements, Distinct
  <2>5. 0 <= MaxTools /\ 0 \in Nat
    BY DEF Grok!BoundsAssumption
  <2>6. Free({}) /\ Placed(<<>>) /\ Covers({}, {}, <<>>)
    BY <2>3 DEF Free, Placed, Covers
  <2>. QED  BY <2>1, <2>2, <2>3, <2>4, <2>5, <2>6 DEF GoodEntry
<1>. QED  BY <1>1, <1>2

LEMMA TogetherIs ==
  ASSUME NEW r, NEW e, NEW a, a = Grok!Together(r, e), NEW W, NEW V,
         Free(r.free), Placed(r.spaces), Covers(W, r.free, r.spaces),
         Free(e.free), Placed(e.spaces), Covers(V, e.free, e.spaces)
  PROVE  Free(a.free) /\ Placed(a.spaces) /\ Covers(W \cup V, a.free, a.spaces) /\ (a.search <=> r.search)
<1>1. a.free = r.free \cup e.free /\ DOMAIN a.spaces = DOMAIN r.spaces \cup DOMAIN e.spaces
  BY DEF Grok!Together
<1>2. \A n \in DOMAIN a.spaces : a.spaces[n] = IF n \in DOMAIN r.spaces THEN r.spaces[n] ELSE e.spaces[n]
  BY DEF Grok!Together
<1>3. a.search <=> r.search
  BY DEF Grok!Together
<1>4. Free(a.free)
  BY <1>1 DEF Free
<1>5. Placed(a.spaces)
  BY <1>1, <1>2 DEF Placed
<1>6. Covers(W \cup V, a.free, a.spaces)
  BY <1>1 DEF Covers
<1>. QED  BY <1>3, <1>4, <1>5, <1>6

LEMMA PickedIs ==
  ASSUME NEW s, NEW S
  PROVE  Grok!Only(s, S) = Only(s, S)
BY DEF Grok!Only, Only

LEMMA SentIs ==
  ASSUME NEW w \in Seq(Wires), NEW e \in Seq(Wires), NEW used, NEW sent, sent = Grok!Sent(w, e, used)
  PROVE  /\ sent \in Seq(Wires) /\ Elements(sent) \subseteq Elements(w) \cup Elements(e)
         /\ Elements(w) \subseteq Elements(sent) /\ (w = <<>> => sent = e)
<1>1. CASE w = <<>>
  <2>1. Elements(w) = {}
    BY <1>1 DEF Elements
  <2>. QED  BY <1>1, <2>1 DEF Grok!Sent
<1>2. CASE w # <<>>
  <2>. DEFINE S == {x \in Grok!ToSet(e) : x.name \in used}
  <2>1. sent = Grok!Merge(w, Only(e, S))
    BY <1>2, PickedIs DEF Grok!Sent
  <2>2. Only(e, S) \in Seq(Wires) /\ Elements(Only(e, S)) = Elements(e) \cap S
    BY OnlyElements
  <2>. HIDE DEF S
  <2>3. sent \in Seq(Wires) /\ Elements(sent) = Elements(w) \cup Elements(Only(e, S))
    BY <2>1, <2>2, MergeIs
  <2>. QED  BY <1>2, <2>2, <2>3
<1>. QED  BY <1>1, <1>2

LEMMA PrunedIs ==
  ASSUME Grok!NamesAssumption, NEW a, NEW sent \in Seq(Wires), NEW used, NEW p,
         p = Grok!Pruned(a, sent, used), NEW W,
         Elements(sent) \subseteq W, Free(a.free), Placed(a.spaces), Covers(W, a.free, a.spaces)
  PROVE  /\ Free(p.free) /\ Placed(p.spaces) /\ Covers(Elements(sent), p.free, p.spaces)
         /\ Finds(Elements(sent), p.search)
<1>. DEFINE N == Grok!Names(sent) \cup used
<1>1. Grok!Names(sent) = {w.name : w \in Elements(sent)} \ {""}
  BY DEF Grok!Names, Elements, Grok!ToSet
<1>2. p.free = a.free \cap N /\ DOMAIN p.spaces = DOMAIN a.spaces \cap N
      /\ \A n \in DOMAIN p.spaces : p.spaces[n] = a.spaces[n]
  BY DEF Grok!Pruned, Grok!Restrict
<1>3. p.search <=> a.search \/ Grok!SearchName \in Grok!Names(sent)
  BY DEF Grok!Pruned
<1>4. Free(p.free) /\ Placed(p.spaces)
  BY <1>2 DEF Free, Placed
<1>5. Covers(Elements(sent), p.free, p.spaces)
  <2>. SUFFICES ASSUME NEW t \in Grok!Tools, Grok!Wire(t) \in Elements(sent)
                PROVE  (t.kind = "custom" => t.name \in p.free)
                         /\ (t.space # Grok!NoSpace => t.name \in DOMAIN p.spaces)
    BY DEF Covers
  <2>1. (t.kind = "custom" => t.name \in a.free) /\ (t.space # Grok!NoSpace => t.name \in DOMAIN a.spaces)
    BY DEF Covers
  <2>2. t.space # Grok!NoSpace => t.kind = "function"
    BY DEF Grok!NamesAssumption
  <2>3. t.kind \in {"custom", "function"} => Grok!Wire(t).name = t.name /\ t.name # ""
    BY DEF Grok!Wire, Grok!NamesAssumption
  <2>4. t.kind \in {"custom", "function"} => t.name \in N
    BY <1>1, <2>3
  <2>. QED  BY <1>2, <2>1, <2>2, <2>4
<1>6. Finds(Elements(sent), p.search)
  <2>. SUFFICES ASSUME NEW t \in Grok!Tools, Grok!Wire(t) \in Elements(sent), t.kind = "search"
                PROVE Grok!SearchName \in Grok!Names(sent)
    BY <1>3 DEF Finds
  <2>1. Grok!Wire(t).name = Grok!SearchName /\ Grok!SearchName # ""
    BY DEF Grok!Wire, Grok!SearchName
  <2>. QED  BY <1>1, <2>1
<1>. QED  BY <1>4, <1>5, <1>6

-----------------------------------------------------------------------------
(* The invariant.                                                          *)

Size(S) == Grok!Cardinality(S)

LEMMA SizeIs ==
  ASSUME NEW S
  PROVE  Size(S) = Cardinality(S)
BY DEF Size, Grok!Cardinality, Cardinality

Room == Size(Conversations \ Anonymous) <= MaxKeys
Fits(S) == Size(S) <= MaxTools

Times ==
  /\ clock \in 0..MaxClock /\ at \in [Conversations -> 0..MaxClock] /\ \A c \in Conversations : at[c] <= clock
Pasts == history = [c \in Conversations |-> history[c]]
  /\ \A c \in Conversations : history[c].found \in Seq(Findable)
Turns == turn = [c \in Conversations |-> turn[c]] /\ \A c \in Conversations : GoodTurn(turn[c])
Saids ==
  /\ said = [c \in Conversations |-> said[c]]
  /\ \A c \in Conversations : said[c] \subseteq Wires /\ IsFiniteSet(said[c]) /\ turn[c].sent \subseteq said[c]

\* The cache has of a conversation what it said since it was forgotten, ...
Entries ==
  /\ DOMAIN cache \subseteq Conversations \ Anonymous /\ Size(DOMAIN cache) <= MaxKeys
  /\ \A c \in DOMAIN cache :
       GoodEntry(cache[c]) /\ cache[c].until <= at[c] + TTL /\ Elements(cache[c].tools) \subseteq said[c]

\* ... and all of it, when there is room.
Keeps(c) ==
  said[c] # {} /\ Fits(said[c]) /\ clock - at[c] < TTL =>
    c \in DOMAIN cache /\ cache[c].until = at[c] + TTL /\ said[c] \subseteq Elements(cache[c].tools)
Remembered == Room => \A c \in Conversations \ Anonymous : Keeps(c)

\* What was sent of it, when the request had none.
Stays(c) == turn[c].bare /\ Room /\ Fits(said[c]) => said[c] \subseteq turn[c].sent

GInv ==
  /\ Times /\ Pasts /\ Turns /\ Saids /\ Entries /\ Remembered
  /\ \A c \in Conversations \ Anonymous : Stays(c)

LEMMA TakeIs ==
  ASSUME NEW T, NEW s \in Seq(T), NEW n \in Nat, NEW t, t = Grok!Take(s, n)
  PROVE  /\ t \in Seq(T) /\ Len(t) <= n /\ Elements(t) \subseteq Elements(s) /\ (Distinct(s) => Distinct(t))
         /\ (Len(s) <= n => t = s)
<1>. DEFINE k == IF Len(s) < n THEN Len(s) ELSE n
<1>1. t = SubSeq(s, 1, k) /\ k \in 0..Len(s) /\ k <= n
  BY DEF Grok!Take
<1>. HIDE DEF k
<1>2. t \in Seq(T) /\ Len(t) = k /\ DOMAIN t = 1..k /\ \A i \in 1..k : t[i] = s[i]
  BY <1>1
<1>3. DOMAIN s = 1..Len(s) /\ 1..k \subseteq 1..Len(s)
  BY <1>1
<1>4. Elements(t) \subseteq Elements(s) /\ (Distinct(s) => Distinct(t))
  BY <1>2, <1>3 DEF Elements, Distinct
<1>5. ASSUME Len(s) <= n PROVE t = s
  <2>1. k = Len(s)
    BY <1>5 DEF k
  <2>. QED  BY <1>1, <2>1
<1>. QED  BY <1>1, <1>2, <1>4, <1>5

\* What a request makes of its tools and the remembered ones (see Request), ...
Computes(c, own, past, tools, w, e, a, sent, m, p, s1) ==
  /\ tools = Grok!Declared(own, past) /\ w = Grok!Merge(<<>>, [n \in DOMAIN tools |-> Grok!Wire(tools[n])])
  /\ e = Grok!Cached(c) /\ a = Grok!Together(Grok!Rewrite(tools), e) /\ sent = Grok!Sent(w, e.tools, past.called)
  /\ m = Grok!Merge(e.tools, w) /\ p = Grok!Pruned(a, sent, past.called)
  /\ s1 = (IF clock - at[c] < TTL THEN said[c] ELSE {}) \cup Elements(w)

\* ... and what that is.
Computed(c, w, e, a, sent, m, p, s1) ==
  /\ e.tools \in Seq(Wires) /\ Len(e.tools) <= MaxTools /\ Elements(e.tools) \subseteq s1
  /\ m \in Seq(Wires) /\ Distinct(m) /\ Elements(m) \subseteq s1
  /\ Free(a.free) /\ Placed(a.spaces) /\ Covers(Elements(m), a.free, a.spaces)
  /\ sent \in Seq(Wires) /\ Elements(sent) \subseteq s1 /\ (w = <<>> => sent = e.tools)
  /\ Free(p.free) /\ Placed(p.spaces) /\ Covers(Elements(sent), p.free, p.spaces)
       /\ Finds(Elements(sent), p.search)
  /\ s1 \subseteq Wires /\ IsFiniteSet(s1)
  /\ (Room /\ c \notin Anonymous /\ Fits(s1) => s1 \subseteq Elements(m))
  /\ (w = <<>> => Elements(m) = Elements(e.tools))

LEMMA RequestIs ==
  ASSUME Grok!NamesAssumption, Grok!BoundsAssumption, GInv, NEW c \in Conversations, NEW own \in Seq(Own),
         NEW past, past.found \in Seq(Findable),
         NEW tools, NEW w, NEW e, NEW a, NEW sent, NEW m, NEW p, NEW s1,
         Computes(c, own, past, tools, w, e, a, sent, m, p, s1)
  PROVE  Computed(c, w, e, a, sent, m, p, s1)
<1>. USE DEF Computes
<1>1. tools \in Seq(Grok!Tools) /\ w \in Seq(Wires) /\ Distinct(w)
        /\ Elements(w) = {Grok!Wire(t) : t \in Elements(tools)}
  BY AdvertisedIs
<1>2. \A d \in DOMAIN cache : GoodEntry(cache[d])
  BY DEF GInv, Entries
<1>3. GoodEntry(e) /\ (~Grok!Fresh(c) => e.tools = <<>>)
  BY <1>2, CachedIs
<1>4. e.tools \in Seq(Wires) /\ Distinct(e.tools) /\ Len(e.tools) <= MaxTools
  BY <1>3 DEF GoodEntry
<1>5. m \in Seq(Wires) /\ Distinct(m) /\ Elements(m) = Elements(e.tools) \cup Elements(w)
  <2>1. m = Grok!Merge(e.tools, w)
    OBVIOUS
  <2>. QED  BY ONLY <1>1, <1>4, <2>1, MergeIs
<1>6. DEFINE r == Grok!Rewrite(tools)
<1>7. Free(r.free) /\ Placed(r.spaces) /\ Covers(Elements(w), r.free, r.spaces)
  BY <1>1, RewriteIs
<1>8. Free(a.free) /\ Placed(a.spaces) /\ Covers(Elements(w) \cup Elements(e.tools), a.free, a.spaces)
  <2>1. Free(e.free) /\ Placed(e.spaces) /\ Covers(Elements(e.tools), e.free, e.spaces)
    BY <1>3 DEF GoodEntry
  <2>. QED  BY <1>7, <2>1, TogetherIs
<1>9. Elements(w) \cup Elements(e.tools) = Elements(m)
  BY <1>5
<1>10. /\ sent \in Seq(Wires) /\ Elements(sent) \subseteq Elements(w) \cup Elements(e.tools)
       /\ (w = <<>> => sent = e.tools)
  BY <1>1, <1>4, SentIs
<1>11. /\ Free(p.free) /\ Placed(p.spaces) /\ Covers(Elements(sent), p.free, p.spaces)
       /\ Finds(Elements(sent), p.search)
  <2>. DEFINE W == Elements(w) \cup Elements(e.tools)
  <2>1. Elements(sent) \subseteq W /\ Covers(W, a.free, a.spaces) /\ Free(a.free) /\ Placed(a.spaces)
    BY <1>8, <1>10
  <2>2. sent \in Seq(Wires)
    BY <1>10
  <2>. DEFINE used == past.called
  <2>3. p = Grok!Pruned(a, sent, used)
    OBVIOUS
  <2>. HIDE DEF W, used
  <2>. QED  BY ONLY Grok!NamesAssumption, <2>1, <2>2, <2>3, PrunedIs, Zenon
<1>12. clock \in Nat /\ at[c] \in Nat /\ TTL \in Nat /\ MaxTools \in Nat
  BY DEF GInv, Times, Grok!BoundsAssumption
<1>13. Elements(<<>>) = {}
  BY DEF Elements
<1>14. Elements(e.tools) \subseteq s1
  <2>1. CASE Grok!Fresh(c)
    <3>1. e = cache[c] /\ c \in DOMAIN cache /\ cache[c].until > clock
      BY <2>1 DEF Grok!Cached, Grok!Fresh
    <3>2. cache[c].until \in Nat /\ cache[c].until <= at[c] + TTL /\ Elements(cache[c].tools) \subseteq said[c]
      BY <3>1 DEF GInv, Entries, GoodEntry
    <3>3. clock - at[c] < TTL
      BY <1>12, <3>1, <3>2
    <3>. QED  BY <3>1, <3>2, <3>3
  <2>2. CASE ~Grok!Fresh(c)
    BY <1>3, <1>13, <2>2
  <2>. QED  BY <2>1, <2>2
<1>15. IsFiniteSet(s1) /\ s1 \subseteq Wires
  <2>1. IsFiniteSet(Elements(w)) /\ Elements(w) \subseteq Wires
    <3>1. IsFiniteSet(Elements(w))
      BY <1>1, DistinctSize
    <3>2. Elements(w) \subseteq Wires
      BY <1>1 DEF Elements
    <3>. QED  BY <3>1, <3>2
  <2>2. IsFiniteSet(said[c]) /\ said[c] \subseteq Wires
    BY DEF GInv, Saids
  <2>3. IsFiniteSet(IF clock - at[c] < TTL THEN said[c] ELSE {})
    BY <2>2, FS_EmptySet
  <2>. QED  BY <2>1, <2>2, <2>3, FS_Union
<1>16. ASSUME Room, c \notin Anonymous, Fits(s1) PROVE s1 \subseteq Elements(m)
  <2>1. CASE clock - at[c] < TTL /\ said[c] # {}
    <3>1. said[c] \subseteq s1
      BY <2>1
    <3>2. Fits(said[c])
      <4>1. Cardinality(said[c]) <= Cardinality(s1) /\ Cardinality(said[c]) \in Nat /\ Cardinality(s1) \in Nat
        BY <1>15, <3>1, FS_Subset, FS_CardinalityType
      <4>2. Cardinality(s1) <= MaxTools
        BY <1>16, SizeIs DEF Fits
      <4>3. Cardinality(said[c]) <= MaxTools
        BY <1>12, <4>1, <4>2
      <4>. QED  BY <4>3, SizeIs DEF Fits
    <3>3. Keeps(c)
      BY <1>16 DEF GInv, Remembered
    <3>4. c \in DOMAIN cache /\ cache[c].until = at[c] + TTL /\ said[c] \subseteq Elements(cache[c].tools)
      BY <2>1, <3>2, <3>3 DEF Keeps
    <3>5. Grok!Fresh(c)
      BY <1>12, <2>1, <3>4 DEF Grok!Fresh
    <3>. QED  BY <1>5, <2>1, <3>4, <3>5 DEF Grok!Cached
  <2>2. CASE ~(clock - at[c] < TTL /\ said[c] # {})
    BY <1>5, <2>2
  <2>. QED  BY <2>1, <2>2
<1>17. Elements(w) \subseteq s1
  OBVIOUS
<1>18. w = <<>> => Elements(m) = Elements(e.tools)
  BY <1>5, <1>13
<1>. QED  BY <1>4, <1>5, <1>8, <1>9, <1>10, <1>11, <1>14, <1>15, <1>16, <1>17, <1>18 DEF Computed

\* The cache after a request that has something to remember.
LEMMA CacheIs ==
  ASSUME Grok!BoundsAssumption, GInv, NEW c \in Conversations \ Anonymous, NEW gone \in Grok!Evicted(c),
         NEW x,
         NEW n, n = [d \in {c} \cup (Grok!Swept(c) \ gone) |-> IF d # c THEN cache[d] ELSE x]
  PROVE  /\ DOMAIN n \subseteq Conversations \ Anonymous /\ Size(DOMAIN n) <= MaxKeys
         /\ c \in DOMAIN n /\ n[c] = x
         /\ \A d \in DOMAIN n : d # c => d \in DOMAIN cache /\ n[d] = cache[d]
         /\ Room => Grok!Swept(c) \subseteq DOMAIN n
<1>. DEFINE K == Grok!Swept(c)
            D == {c} \cup (K \ gone)
<1>1. K \subseteq DOMAIN cache /\ DOMAIN cache \subseteq Conversations \ Anonymous
        /\ Size(DOMAIN cache) <= MaxKeys
  BY DEF GInv, Entries, Grok!Swept
<1>2. IsFiniteSet(Conversations \ Anonymous) /\ MaxKeys \in Nat /\ MaxKeys > 0
  <2>1. IsFiniteSet(Conversations) /\ MaxKeys \in Nat \ {0}
    BY DEF Grok!BoundsAssumption, Grok!IsFiniteSet, IsFiniteSet
  <2>. QED  BY <2>1, FS_Subset
<1>3. IsFiniteSet(K) /\ IsFiniteSet(DOMAIN cache)
  BY <1>1, <1>2, FS_Subset
<1>. HIDE DEF K
<1>4. Cardinality(K) \in Nat /\ Cardinality(DOMAIN cache) \in Nat /\ Cardinality(K) <= Cardinality(DOMAIN cache)
  BY <1>1, <1>3, FS_Subset, FS_CardinalityType
<1>5. Cardinality(DOMAIN cache) <= MaxKeys
  BY <1>1, SizeIs
<1>6. gone \in IF c \in K \/ Cardinality(K) < MaxKeys THEN {{}}
               ELSE {{d} : d \in {e \in K : \A f \in K : cache[e].until <= cache[f].until}}
  BY SizeIs DEF Grok!Evicted, K, Size
<1>7. Cardinality(D) <= MaxKeys
  <2>1. CASE c \in K
    <3>1. D = K
      BY <1>6, <2>1
    <3>. QED  BY <1>2, <1>4, <1>5, <3>1
  <2>2. CASE c \notin K /\ Cardinality(K) < MaxKeys
    <3>1. D = K \cup {c}
      BY <1>6, <2>2
    <3>2. Cardinality(K \cup {c}) = Cardinality(K) + 1
      BY <1>3, <2>2, FS_AddElement
    <3>3. Cardinality(D) = Cardinality(K) + 1
      BY <3>1, <3>2, Zenon
    <3>. HIDE DEF D
    <3>. QED  BY <1>2, <1>4, <2>2, <3>3
  <2>3. CASE c \notin K /\ ~(Cardinality(K) < MaxKeys)
    <3>1. PICK d \in K : gone = {d}
      BY <1>6, <2>3
    <3>2. Cardinality(K \ {d}) = Cardinality(K) - 1 /\ IsFiniteSet(K \ {d})
      BY <1>3, <3>1, FS_RemoveElement
    <3>3. Cardinality((K \ {d}) \cup {c}) = Cardinality(K \ {d}) + 1
      BY <2>3, <3>2, FS_AddElement
    <3>4. D = (K \ {d}) \cup {c}
      BY <3>1
    <3>5. Cardinality(D) = Cardinality(K)
      <4>1. Cardinality(D) = Cardinality(K \ {d}) + 1
        BY <3>3, <3>4, Zenon
      <4>. HIDE DEF D
      <4>. QED  BY <1>4, <3>2, <4>1
    <3>. QED  BY <1>2, <1>4, <1>5, <3>5
  <2>. QED  BY <2>1, <2>2, <2>3
<1>8. ASSUME Room PROVE K \subseteq D
  <2>1. CASE c \in K \/ Cardinality(K) < MaxKeys
    BY <1>6, <2>1
  <2>2. CASE c \notin K /\ ~(Cardinality(K) < MaxKeys)
    <3>1. K \cup {c} \subseteq Conversations \ Anonymous
      BY <1>1
    <3>2. Cardinality(K \cup {c}) = Cardinality(K) + 1
      BY <1>3, <2>2, FS_AddElement
    <3>3. Cardinality(K \cup {c}) <= Cardinality(Conversations \ Anonymous)
            /\ Cardinality(Conversations \ Anonymous) \in Nat
      BY <1>2, <3>1, FS_Subset, FS_CardinalityType
    <3>4. Cardinality(Conversations \ Anonymous) <= MaxKeys
      BY <1>8, SizeIs DEF Room
    <3>. QED  BY <1>2, <1>4, <2>2, <3>2, <3>3, <3>4
  <2>. QED  BY <2>1, <2>2
<1>9. n = [d \in D |-> IF d # c THEN cache[d] ELSE x]
  BY DEF K
<1>10. DOMAIN n = D /\ c \in D /\ n[c] = x /\ \A d \in D : d # c => n[d] = cache[d]
  BY <1>9
<1>11. D \subseteq Conversations \ Anonymous /\ \A d \in D : d # c => d \in DOMAIN cache
  BY <1>1
<1>. HIDE DEF D
<1>. QED  BY <1>7, <1>8, <1>10, <1>11, SizeIs DEF K

\* The turn of a request: nothing is called yet.
LEMMA NewTurn ==
  ASSUME NEW n, n = [f \in Fields |-> n[f]], n.st = "open", n.sent \subseteq Wires,
         Free(n.rewrite.free), Placed(n.rewrite.spaces), Covers(n.sent, n.rewrite.free, n.rewrite.spaces),
         Finds(n.sent, n.rewrite.search),
         n.items = Grok!Idle.items, n.tracked = Grok!Idle.tracked, n.searches = Grok!Idle.searches,
           n.full = Grok!Idle.full
  PROVE  GoodTurn(n)
<1>1. n.items = <<>> /\ n.tracked = {} /\ n.searches = {} /\ n.full = {}
  BY DEF Grok!Idle
<1>2. <<>> \in Seq(Items) /\ DOMAIN <<>> = {}
  OBVIOUS
<1>3. n.items \in Seq(Items) /\ DOMAIN n.items = {}
  BY <1>1, <1>2
<1>. QED  BY <1>1, <1>3 DEF GoodTurn

LEMMA IdleTurn == GoodTurn(Grok!Idle) /\ Grok!Idle.sent = {} /\ Grok!Idle.bare = FALSE
<1>1. Grok!Idle = [f \in Fields |-> Grok!Idle[f]] /\ Grok!Idle.st = "idle" /\ Grok!Idle.bare = FALSE
        /\ Grok!Idle.sent = {}
      /\ Grok!Idle.rewrite = Grok!NoRewrite
  BY DEF Grok!Idle, Fields
<1>2. Grok!Idle.items = <<>> /\ Grok!Idle.tracked = {} /\ Grok!Idle.searches = {} /\ Grok!Idle.full = {}
  BY DEF Grok!Idle
<1>3. <<>> \in Seq(Items) /\ DOMAIN <<>> = {}
  OBVIOUS
<1>4. Grok!Idle.items \in Seq(Items) /\ DOMAIN Grok!Idle.items = {}
  BY <1>2, <1>3
<1>5. Grok!NoRewrite.free = {} /\ Grok!NoRewrite.spaces = <<>>
  BY DEF Grok!NoRewrite
<1>6. Free({}) /\ Placed(<<>>) /\ Covers({}, {}, <<>>) /\ Finds({}, Grok!NoRewrite.search)
  BY <1>3 DEF Free, Placed, Covers, Finds
<1>. QED  BY <1>1, <1>2, <1>4, <1>5, <1>6, Zenon DEF GoodTurn

\* The cache after a request that has nothing to remember, or nobody to
\* remember it for.
LEMMA QuietIs ==
  ASSUME Grok!BoundsAssumption, GInv, NEW c \in Conversations, NEW n,
         n = Grok!Restrict(cache, DOMAIN cache \ (IF Grok!Fresh(c) THEN {} ELSE {c}))
  PROVE  /\ DOMAIN n \subseteq DOMAIN cache /\ Size(DOMAIN n) <= MaxKeys
         /\ \A d \in DOMAIN n : n[d] = cache[d] /\ (d = c => Grok!Fresh(c))
         /\ \A d \in DOMAIN cache : d # c => d \in DOMAIN n
<1>1. /\ DOMAIN n = DOMAIN cache \ (IF Grok!Fresh(c) THEN {} ELSE {c})
      /\ \A d \in DOMAIN n : n[d] = cache[d]
  BY DEF Grok!Restrict
<1>2. IsFiniteSet(DOMAIN cache)
  <2>1. IsFiniteSet(Conversations)
    BY DEF Grok!BoundsAssumption, Grok!IsFiniteSet, IsFiniteSet
  <2>2. DOMAIN cache \subseteq Conversations
    BY DEF GInv, Entries
  <2>. QED  BY <2>1, <2>2, FS_Subset
<1>3. Size(DOMAIN n) <= MaxKeys
  <2>1. DOMAIN n \subseteq DOMAIN cache
    BY <1>1
  <2>2. Cardinality(DOMAIN n) <= Cardinality(DOMAIN cache) /\ IsFiniteSet(DOMAIN n)
    BY <1>2, <2>1, FS_Subset
  <2>3. Cardinality(DOMAIN cache) <= MaxKeys
    BY SizeIs DEF GInv, Entries
  <2>4. Cardinality(DOMAIN n) \in Nat /\ Cardinality(DOMAIN cache) \in Nat /\ MaxKeys \in Nat
    BY <1>2, <2>2, FS_CardinalityType DEF Grok!BoundsAssumption
  <2>5. Cardinality(DOMAIN n) <= MaxKeys
    BY <2>2, <2>3, <2>4
  <2>. QED  BY <2>5, SizeIs
<1>. QED  BY <1>1, <1>3

LEMMA ListsAre ==
  ASSUME NEW S, NEW s \in Grok!Lists(S)
  PROVE  s \in Seq(S)
<1>1. <<>> \in Seq(S) /\ \A t \in S : <<t>> \in Seq(S)
  OBVIOUS
<1>2. \A t \in S, u \in S : <<t, u>> \in Seq(S)
  OBVIOUS
<1>3. ASSUME s \in S \X S PROVE s \in Seq(S)
  <2>1. PICK t \in S, u \in S : s = <<t, u>>
    BY <1>3
  <2>. QED  BY <1>2, <2>1
<1>. QED  BY <1>1, <1>3 DEF Grok!Lists

LEMMA RequestStep ==
  ASSUME Grok!NamesAssumption, Grok!BoundsAssumption, GInv, NEW c \in Conversations,
         NEW own \in Grok!Lists(Own),
         NEW past \in {Grok!NoHistory, history[c]}, Grok!Request(c, own, past)
  PROVE  GInv'
<1>1. own \in Seq(Own) /\ past.found \in Seq(Findable)
  <2>1. Grok!NoHistory.found = <<>> /\ <<>> \in Seq(Findable)
    BY DEF Grok!NoHistory
  <2>. QED  BY <2>1, ListsAre DEF GInv, Pasts
<1>2. PICK tools, w, e, a, sent, m, p, s1, k :
        Computes(c, own, past, tools, w, e, a, sent, m, p, s1) /\ k = Grok!Take(sent, MaxTools)
  BY Zenon DEF Computes
<1>3. PICK n : n = [Grok!Idle EXCEPT !.st = "open", !.bare = (w = <<>>), !.sent = Grok!ToSet(k), !.rewrite = p]
  OBVIOUS
<1>4. /\ Grok!Remember(c, m, a) /\ turn' = [turn EXCEPT ![c] = n]
      /\ history' = [history EXCEPT ![c] = past]
      /\ said' = [said EXCEPT ![c] = s1] /\ at' = [at EXCEPT ![c] = clock] /\ clock' = clock
  <2>1. Grok!ToSet(w) = Elements(w)
    BY DEF Grok!ToSet, Elements
  <2>. QED  BY <1>2, <1>3, <2>1 DEF Grok!Request, Computes
<1>5. /\ e.tools \in Seq(Wires) /\ Len(e.tools) <= MaxTools /\ Elements(e.tools) \subseteq s1
      /\ m \in Seq(Wires) /\ Distinct(m) /\ Elements(m) \subseteq s1
      /\ Free(a.free) /\ Placed(a.spaces) /\ Covers(Elements(m), a.free, a.spaces)
      /\ sent \in Seq(Wires) /\ Elements(sent) \subseteq s1 /\ (w = <<>> => sent = e.tools)
      /\ Free(p.free) /\ Placed(p.spaces) /\ Covers(Elements(sent), p.free, p.spaces)
           /\ Finds(Elements(sent), p.search)
      /\ s1 \subseteq Wires /\ IsFiniteSet(s1)
      /\ (Room /\ c \notin Anonymous /\ Fits(s1) => s1 \subseteq Elements(m))
      /\ (w = <<>> => Elements(m) = Elements(e.tools))
  <2>1. Computed(c, w, e, a, sent, m, p, s1)
    BY <1>1, <1>2, RequestIs
  <2>. QED  BY <2>1 DEF Computed
<1>6. /\ k \in Seq(Wires) /\ Elements(k) \subseteq Elements(sent) /\ (w = <<>> => Elements(k) = Elements(m))
  <2>1. MaxTools \in Nat
    BY DEF Grok!BoundsAssumption
  <2>2. /\ k \in Seq(Wires) /\ Elements(k) \subseteq Elements(sent)
        /\ (Len(sent) <= MaxTools => k = sent)
    BY <1>2, <1>5, <2>1, TakeIs
  <2>. QED  BY <1>5, <2>2
<1>7. Elements(k) \subseteq Wires /\ Covers(Elements(k), p.free, p.spaces) /\ Finds(Elements(k), p.search)
  <2>1. Elements(k) \subseteq Wires
    BY <1>6 DEF Elements
  <2>. QED  BY <1>5, <1>6, <2>1 DEF Covers, Finds
<1>8. /\ n = [f \in Fields |-> n[f]] /\ n.st = "open" /\ n.sent = Elements(k) /\ n.rewrite = p
      /\ n.items = Grok!Idle.items /\ n.tracked = Grok!Idle.tracked /\ n.searches = Grok!Idle.searches
           /\ n.full = Grok!Idle.full
      /\ (n.bare <=> w = <<>>)
  <2>1. Grok!ToSet(k) = Elements(k)
    BY DEF Grok!ToSet, Elements
  <2>2. DOMAIN Grok!Idle = Fields
    BY DEF Grok!Idle, Fields
  <2>3. DOMAIN n = Fields /\ n = [f \in DOMAIN n |-> n[f]]
    BY <1>3, <2>2
  <2>4. /\ n.st = "open" /\ n.sent = Elements(k) /\ n.rewrite = p
        /\ n.items = Grok!Idle.items /\ n.tracked = Grok!Idle.tracked /\ n.searches = Grok!Idle.searches
             /\ n.full = Grok!Idle.full
    BY <1>3, <2>1, <2>2 DEF Fields
  <2>5. n.bare <=> w = <<>>
    BY <1>3, <2>2, Zenon DEF Fields
  <2>. QED  BY <2>3, <2>4, <2>5
<1>9. GoodTurn(n)
  <2>1. Free(p.free) /\ Placed(p.spaces)
    BY <1>5
  <2>. QED  BY <1>7, <1>8, <2>1, NewTurn
<1>10. /\ Times /\ Pasts /\ Turns /\ Saids /\ Entries /\ Remembered
       /\ clock \in Nat /\ at[c] \in Nat /\ TTL \in Nat /\ MaxTools \in Nat
  BY DEF GInv, Times, Grok!BoundsAssumption
<1>11. Times'
  BY <1>4, <1>10 DEF Times
<1>12. Pasts'
  BY <1>1, <1>4, <1>10 DEF Pasts
<1>13. Turns'
  BY <1>4, <1>9, <1>10 DEF Turns
<1>14. Saids'
  <2>1. turn'[c].sent \subseteq s1 /\ \A d \in Conversations : d # c => turn'[d] = turn[d]
    BY <1>4, <1>5, <1>6, <1>8, <1>10 DEF Turns
  <2>2. said'[c] = s1 /\ said' = [d \in Conversations |-> said'[d]] /\ \A d \in Conversations : d # c =>
          said'[d] = said[d]
    BY <1>4, <1>10 DEF Saids
  <2>. QED  BY <1>5, <1>10, <2>1, <2>2 DEF Saids
<1>15. /\ said'[c] = s1 /\ at'[c] = clock /\ turn'[c] = n
       /\ \A d \in Conversations : d # c => said'[d] = said[d] /\ at'[d] = at[d] /\ turn'[d] = turn[d]
  BY <1>4, <1>10 DEF Saids, Times, Turns
<1>16. Entries' /\ Remembered'
  <2>1. CASE m = <<>> \/ c \in Anonymous
    <3>1. cache' = Grok!Restrict(cache, DOMAIN cache \ (IF Grok!Fresh(c) THEN {} ELSE {c}))
      BY <1>4, <2>1 DEF Grok!Remember
    <3>2. /\ DOMAIN cache' \subseteq DOMAIN cache /\ Size(DOMAIN cache') <= MaxKeys
          /\ \A d \in DOMAIN cache' : cache'[d] = cache[d] /\ (d = c => Grok!Fresh(c))
          /\ \A d \in DOMAIN cache : d # c => d \in DOMAIN cache'
      BY <3>1, QuietIs
    <3>3. Entries'
      <4>1. ASSUME NEW d \in DOMAIN cache'
            PROVE  GoodEntry(cache'[d]) /\ cache'[d].until <= at'[d] + TTL
                     /\ Elements(cache'[d].tools) \subseteq said'[d]
        <5>1. /\ d \in DOMAIN cache /\ d \in Conversations /\ cache'[d] = cache[d] /\ GoodEntry(cache[d])
              /\ cache[d].until <= at[d] + TTL /\ Elements(cache[d].tools) \subseteq said[d]
                   /\ cache[d].until \in Nat
          BY <1>10, <3>2, <4>1 DEF Entries, GoodEntry
        <5>2. CASE d # c
          BY <1>15, <5>1, <5>2
        <5>3. CASE d = c
          <6>1. e = cache[c]
            BY <1>2, <3>2, <5>3 DEF Grok!Cached, Computes
          <6>2. at[c] <= clock
            BY <1>10 DEF Times
          <6>3. cache[c].until <= clock + TTL
            BY <1>10, <5>1, <5>3, <6>2
          <6>. QED  BY <1>5, <1>15, <5>1, <5>3, <6>1, <6>3
        <5>. QED  BY <5>2, <5>3
      <4>. QED  BY <1>10, <3>2, <4>1 DEF Entries
    <3>4. ASSUME Room, NEW d \in Conversations \ Anonymous PROVE Keeps(d)'
      <4>1. CASE d # c
        <5>1. Keeps(d)
          BY <1>10, <3>4 DEF Remembered
        <5>2. d \in DOMAIN cache => d \in DOMAIN cache' /\ cache'[d] = cache[d]
          BY <3>2, <4>1
        <5>. QED  BY <1>4, <1>15, <4>1, <5>1, <5>2 DEF Keeps
      <4>2. CASE d = c
        <5>1. Elements(m) = {}
          BY <2>1, <3>4, <4>2 DEF Elements
        <5>. QED  BY <1>5, <1>15, <3>4, <4>2, <5>1 DEF Keeps
      <4>. QED  BY <4>1, <4>2
    <3>5. Remembered'
      BY <3>4 DEF Remembered
    <3>. QED  BY <3>3, <3>5
  <2>2. CASE ~(m = <<>> \/ c \in Anonymous)
    <3>. DEFINE x == [tools |-> Grok!Take(m, MaxTools), free |-> a.free, spaces |-> a.spaces,
           until |-> clock + TTL]
    <3>1. PICK gone \in Grok!Evicted(c) :
            cache' = [d \in {c} \cup (Grok!Swept(c) \ gone) |-> IF d # c THEN cache[d] ELSE x]
      BY <1>4, <2>2 DEF Grok!Remember
    <3>2. x.tools = Grok!Take(m, MaxTools) /\ x.free = a.free /\ x.spaces = a.spaces /\ x.until = clock + TTL
      OBVIOUS
    <3>. HIDE DEF x
    <3>3. c \in Conversations \ Anonymous
      BY <2>2
    <3>4. /\ DOMAIN cache' \subseteq Conversations \ Anonymous /\ Size(DOMAIN cache') <= MaxKeys
          /\ c \in DOMAIN cache' /\ cache'[c] = x
          /\ \A d \in DOMAIN cache' : d # c => d \in DOMAIN cache /\ cache'[d] = cache[d]
          /\ Room => Grok!Swept(c) \subseteq DOMAIN cache'
      BY <3>1, <3>3, CacheIs
    <3>5. /\ x.tools \in Seq(Wires) /\ Len(x.tools) <= MaxTools /\ Elements(x.tools) \subseteq Elements(m)
          /\ Distinct(x.tools) /\ (Len(m) <= MaxTools => x.tools = m)
      BY <1>5, <1>10, <3>2, TakeIs
    <3>6. GoodEntry(x)
      <4>1. Covers(Elements(x.tools), x.free, x.spaces)
        BY <1>5, <3>2, <3>5 DEF Covers
      <4>2. x.until \in Nat
        BY <1>10, <3>2
      <4>. QED  BY <1>5, <3>2, <3>5, <4>1, <4>2 DEF GoodEntry
    <3>7. Entries'
      <4>1. ASSUME NEW d \in DOMAIN cache'
            PROVE  GoodEntry(cache'[d]) /\ cache'[d].until <= at'[d] + TTL
                     /\ Elements(cache'[d].tools) \subseteq said'[d]
        <5>1. CASE d # c
          <6>1. d \in DOMAIN cache /\ cache'[d] = cache[d] /\ d \in Conversations
            BY <1>10, <3>4, <5>1 DEF Entries
          <6>. QED  BY <1>10, <1>15, <5>1, <6>1 DEF Entries
        <5>2. CASE d = c
          <6>1. x.until <= clock + TTL
            BY <1>10, <3>2
          <6>. QED  BY <1>5, <1>15, <3>4, <3>5, <3>6, <5>2, <6>1
        <5>. QED  BY <5>1, <5>2
      <4>. QED  BY <3>4, <4>1 DEF Entries
    <3>8. ASSUME Room, NEW d \in Conversations \ Anonymous PROVE Keeps(d)'
      <4>1. CASE d # c
        <5>. SUFFICES ASSUME said[d] # {}, Fits(said[d]), clock - at[d] < TTL
                      PROVE  d \in DOMAIN cache' /\ cache'[d].until = at[d] + TTL
                             /\ said[d] \subseteq Elements(cache'[d].tools)
          BY <1>4, <1>15, <4>1 DEF Keeps
        <5>1. d \in DOMAIN cache /\ cache[d].until = at[d] + TTL /\ said[d] \subseteq Elements(cache[d].tools)
          BY <1>10, <3>8 DEF Remembered, Keeps
        <5>2. at[d] \in Nat
          BY <1>10 DEF Times
        <5>3. d \in Grok!Swept(c)
          BY <1>10, <5>1, <5>2 DEF Grok!Swept
        <5>. QED  BY <3>4, <3>8, <4>1, <5>1, <5>3
      <4>2. CASE d = c
        <5>. SUFFICES ASSUME Fits(s1)
                      PROVE  cache'[c].until = clock + TTL /\ s1 \subseteq Elements(cache'[c].tools)
          BY <1>15, <3>4, <4>2 DEF Keeps
        <5>1. s1 = Elements(m)
          BY <1>5, <3>8, <4>2
        <5>2. Len(m) <= MaxTools
          <6>1. Cardinality(Elements(m)) = Len(m)
            BY <1>5, DistinctSize
          <6>2. Cardinality(s1) <= MaxTools
            BY SizeIs DEF Fits
          <6>. QED  BY <5>1, <6>1, <6>2
        <5>. QED  BY <3>2, <3>4, <3>5, <5>1, <5>2
      <4>. QED  BY <4>1, <4>2
    <3>9. Remembered'
      BY <3>8 DEF Remembered
    <3>. QED  BY <3>7, <3>9
  <2>. QED  BY <2>1, <2>2
<1>17. ASSUME NEW d \in Conversations \ Anonymous PROVE Stays(d)'
  <2>1. CASE d # c
    <3>1. Stays(d)
      BY DEF GInv
    <3>. QED  BY <1>15, <2>1, <3>1 DEF Stays
  <2>2. CASE d = c
    <3>. SUFFICES ASSUME n.bare, Room, Fits(s1) PROVE s1 \subseteq n.sent
      BY <1>15, <2>2 DEF Stays
    <3>1. w = <<>>
      BY <1>8
    <3>2. Elements(k) = Elements(m) /\ s1 \subseteq Elements(m)
      BY <1>5, <1>6, <2>2, <3>1
    <3>. QED  BY <1>8, <3>2
  <2>. QED  BY <2>1, <2>2
<1>. QED  BY <1>11, <1>12, <1>13, <1>14, <1>16, <1>17 DEF GInv

-----------------------------------------------------------------------------
(* The other steps.                                                        *)

\* The turn of c goes on or ends with the tools it was sent, or with none.
LEMMA TurnStep ==
  ASSUME GInv, NEW c \in Conversations, UNCHANGED <<clock, cache, said, at>>, Pasts',
         turn' = [d \in Conversations |-> turn'[d]], \A d \in Conversations \ {c} : turn'[d] = turn[d],
         GoodTurn(turn'[c]), turn'[c].sent \subseteq turn[c].sent,
         turn'[c].bare => turn[c].bare /\ turn'[c].sent = turn[c].sent
  PROVE  GInv'
<1>1. Times' /\ Turns' /\ Saids'
  <2>1. Times'
    BY DEF GInv, Times
  <2>2. Turns'
    BY DEF GInv, Turns
  <2>3. Saids'
    BY DEF GInv, Saids
  <2>. QED  BY <2>1, <2>2, <2>3
<1>2. Entries' /\ Remembered'
  <2>1. Entries'
    BY DEF GInv, Entries
  <2>2. Remembered'
    BY DEF GInv, Remembered, Keeps
  <2>. QED  BY <2>1, <2>2
<1>3. ASSUME NEW d \in Conversations \ Anonymous PROVE Stays(d)'
  <2>1. Stays(d) /\ said' = said
    BY DEF GInv
  <2>2. CASE d # c
    BY <2>1, <2>2 DEF Stays
  <2>3. CASE d = c
    BY <2>1, <2>3 DEF Stays
  <2>. QED  BY <2>2, <2>3
<1>. QED  BY <1>1, <1>2, <1>3 DEF GInv

LEMMA SamePasts ==
  ASSUME Pasts, history' = history
  PROVE  Pasts'
BY DEF Pasts

LEMMA IdleStep ==
  ASSUME GInv, NEW c \in Conversations, UNCHANGED <<clock, cache, said, at>>, Pasts',
         turn' = [turn EXCEPT ![c] = Grok!Idle]
  PROVE  GInv'
<1>1. turn = [d \in Conversations |-> turn[d]]
  BY DEF GInv, Turns
<1>2. /\ turn' = [d \in Conversations |-> turn'[d]] /\ \A d \in Conversations \ {c} : turn'[d] = turn[d]
      /\ turn'[c] = Grok!Idle
  BY <1>1
<1>. QED  BY <1>2, IdleTurn, TurnStep

LEMMA CompletedStep ==
  ASSUME GInv, NEW c \in Conversations, NEW found \in Grok!Lists(Findable), Grok!Completed(c, found)
  PROVE  GInv'
<1>1. found \in Seq(Findable) /\ history[c].found \in Seq(Findable)
        /\ history = [d \in Conversations |-> history[d]]
  BY ListsAre DEF GInv, Pasts
<1>2. Grok!Merge(history[c].found, found) \in Seq(Findable)
  BY <1>1, MergeIs
<1>3. Pasts'
  <2>1. PICK h : h = [called |-> history[c].called \cup {turn[c].items[i].name : i \in DOMAIN turn[c].items},
                      found |-> Grok!Merge(history[c].found, found)]
    OBVIOUS
  <2>2. history' = [history EXCEPT ![c] = h]
    BY <2>1 DEF Grok!Completed
  <2>3. h.found \in Seq(Findable)
    BY <1>2, <2>1
  <2>. QED  BY <1>1, <2>2, <2>3 DEF GInv, Pasts
<1>. QED  BY <1>3, IdleStep DEF Grok!Completed

LEMMA RestartStep ==
  ASSUME Grok!BoundsAssumption, GInv, Grok!Restart
  PROVE  GInv'
<1>1. DOMAIN cache' = {} /\ said' = [c \in Conversations |-> {}] /\ turn' = [c \in Conversations |-> Grok!Idle]
      /\ UNCHANGED <<clock, history, at>>
  BY DEF Grok!Restart
<1>2. Size({}) <= MaxKeys
  BY FS_EmptySet, SizeIs DEF Grok!BoundsAssumption
<1>3. Times' /\ Pasts'
  BY <1>1 DEF GInv, Times, Pasts
<1>4. Turns' /\ Saids'
  BY <1>1, IdleTurn, FS_EmptySet DEF Turns, Saids
<1>5. Entries'
  BY <1>1, <1>2 DEF Entries
<1>6. Remembered'
  BY <1>1 DEF Remembered, Keeps
<1>7. \A c \in Conversations \ Anonymous : Stays(c)'
  BY <1>1, IdleTurn DEF Stays
<1>. QED  BY <1>3, <1>4, <1>5, <1>6, <1>7 DEF GInv

LEMMA TickStep ==
  ASSUME Grok!BoundsAssumption, GInv, Grok!Tick
  PROVE  GInv'
<1>1. clock < MaxClock /\ clock' = clock + 1 /\ UNCHANGED <<cache, history, turn, said, at>>
  BY DEF Grok!Tick
<1>2. clock \in 0..MaxClock /\ MaxClock \in Nat /\ TTL \in Nat
  BY DEF GInv, Times, Grok!BoundsAssumption
<1>3. Times'
  BY <1>1, <1>2 DEF GInv, Times
<1>4. Pasts' /\ Turns' /\ Saids' /\ Entries'
  BY <1>1 DEF GInv, Pasts, Turns, Saids, Entries
<1>5. Remembered'
  <2>. SUFFICES ASSUME Room, NEW c \in Conversations \ Anonymous PROVE Keeps(c)'
    BY DEF Remembered
  <2>1. Keeps(c) /\ at[c] \in 0..MaxClock
    BY DEF GInv, Remembered, Times
  <2>2. clock' - at[c] < TTL => clock - at[c] < TTL
    BY <1>1, <1>2, <2>1
  <2>. QED  BY <1>1, <2>1, <2>2 DEF Keeps
<1>6. \A c \in Conversations \ Anonymous : Stays(c)'
  BY <1>1 DEF GInv, Stays
<1>. QED  BY <1>3, <1>4, <1>5, <1>6 DEF GInv

LEMMA GInit ==
  ASSUME Grok!BoundsAssumption, Grok!Init
  PROVE  GInv
<1>1. /\ clock = 0 /\ DOMAIN cache = {} /\ history = [c \in Conversations |-> Grok!NoHistory]
      /\ turn = [c \in Conversations |-> Grok!Idle] /\ said = [c \in Conversations |-> {}]
      /\ at = [c \in Conversations |-> 0]
  BY DEF Grok!Init
<1>2. Size({}) <= MaxKeys
  BY FS_EmptySet, SizeIs DEF Grok!BoundsAssumption
<1>3. Times
  BY <1>1 DEF Times, Grok!BoundsAssumption
<1>4. Pasts
  <2>1. Grok!NoHistory.found = <<>> /\ <<>> \in Seq(Findable)
    BY DEF Grok!NoHistory
  <2>. QED  BY <1>1, <2>1 DEF Pasts
<1>5. Turns /\ Saids
  BY <1>1, IdleTurn, FS_EmptySet DEF Turns, Saids
<1>6. Entries
  BY <1>1, <1>2 DEF Entries
<1>7. Remembered
  BY <1>1 DEF Remembered, Keeps
<1>8. \A c \in Conversations \ Anonymous : Stays(c)
  BY <1>1, IdleTurn DEF Stays
<1>. QED  BY <1>3, <1>4, <1>5, <1>6, <1>7, <1>8 DEF GInv

LEMMA GStep ==
  ASSUME Grok!NamesAssumption, Grok!BoundsAssumption, GInv, [Grok!Next]_(Grok!vars)
  PROVE  GInv'
<1>1. CASE UNCHANGED Grok!vars
  <2>1. Times' /\ Pasts' /\ Turns' /\ Saids' /\ Entries'
    BY <1>1 DEF Grok!vars, GInv, Times, Pasts, Turns, Saids, Entries
  <2>2. Remembered' /\ \A c \in Conversations \ Anonymous : Stays(c)'
    BY <1>1 DEF Grok!vars, GInv, Remembered, Keeps, Stays
  <2>. QED  BY <2>1, <2>2 DEF GInv
<1>2. CASE Grok!Restart \/ Grok!Tick
  BY <1>2, RestartStep, TickStep
<1>3. ASSUME NEW c \in Conversations, NEW own \in Grok!Lists(Own),
             NEW past \in {Grok!NoHistory, history[c]}, Grok!Request(c, own, past)
      PROVE  GInv'
  BY <1>3, RequestStep
<1>4. ASSUME NEW c \in Conversations, Grok!Compact(c) PROVE GInv'
  <2>1. history' = [history EXCEPT ![c] = Grok!NoHistory] /\ UNCHANGED <<clock, cache, turn, said, at>>
    BY <1>4 DEF Grok!Compact
  <2>2. Pasts'
    <3>1. Grok!NoHistory.found = <<>> /\ <<>> \in Seq(Findable)
      BY DEF Grok!NoHistory
    <3>. QED  BY <2>1, <3>1 DEF GInv, Pasts
  <2>3. turn = [d \in Conversations |-> turn[d]] /\ GoodTurn(turn[c])
    BY DEF GInv, Turns
  <2>. QED  BY <2>1, <2>2, <2>3, TurnStep
<1>5. ASSUME NEW c \in Conversations, Grok!Broken(c) PROVE GInv'
  <2>1. turn' = [turn EXCEPT ![c] = Grok!Idle] /\ UNCHANGED <<clock, cache, history, said, at>>
    BY <1>5 DEF Grok!Broken
  <2>2. Pasts'
    BY <2>1, SamePasts DEF GInv
  <2>. QED  BY <2>1, <2>2, IdleStep
<1>6. ASSUME NEW c \in Conversations, Grok!Answer(c), UNCHANGED <<clock, cache, history, said,
             at>> PROVE GInv'
  <2>1. turn = [d \in Conversations |-> turn[d]] /\ GoodTurn(turn[c])
    BY DEF GInv, Turns
  <2>2. AnswerStep(c)
    BY <1>6, <2>1, AnswersStep
  <2>3. Pasts'
    BY <1>6, SamePasts DEF GInv
  <2>. QED  BY <1>6, <2>2, <2>3, TurnStep DEF AnswerStep
<1>7. ASSUME NEW c \in Conversations, NEW found \in Grok!Lists(Findable),
             Grok!Completed(c, found) PROVE GInv'
  BY <1>7, CompletedStep
<1>. QED  BY <1>1, <1>2, <1>3, <1>4, <1>5, <1>6, <1>7 DEF Grok!Next

\* What the invariant says of what is seen.
LEMMA GTypes ==
  ASSUME Grok!BoundsAssumption, GInv
  PROVE  Grok!TypeOK
<1>1. clock \in 0..MaxClock /\ TTL \in Nat /\ MaxClock \in Nat
  BY DEF GInv, Times, Grok!BoundsAssumption
<1>2. ASSUME NEW c \in DOMAIN cache PROVE Len(cache[c].tools) <= MaxTools /\ cache[c].until <= clock + TTL
  <2>1. /\ GoodEntry(cache[c]) /\ cache[c].until <= at[c] + TTL /\ at[c] \in 0..MaxClock /\ at[c] <= clock
    BY <1>2 DEF GInv, Entries, Times
  <2>2. Len(cache[c].tools) <= MaxTools /\ cache[c].until \in Nat
    BY <2>1 DEF GoodEntry
  <2>3. cache[c].until <= clock + TTL
    BY <1>1, <2>1, <2>2
  <2>. QED  BY <2>2, <2>3
<1>3. DOMAIN cache \subseteq Conversations \ Anonymous /\ Size(DOMAIN cache) <= MaxKeys
  BY DEF GInv, Entries
<1>4. \A c \in Conversations : turn[c].st \in {"idle", "open"} /\ history[c].found \in Seq(Findable)
  BY DEF GInv, Turns, GoodTurn, Pasts
<1>. QED  BY <1>1, <1>2, <1>3, <1>4 DEF Grok!TypeOK, Size

LEMMA CallsAre ==
  ASSUME Grok!NamesAssumption, GInv
  PROVE  Grok!CallsAsDeclared
<1>. SUFFICES ASSUME NEW c \in Conversations, NEW i \in DOMAIN turn[c].items
              PROVE  /\ \E t \in Grok!Tools : Grok!Wire(t).name = turn[c].items[i].name
                          /\ turn[c].items[i].is = Grok!Meant(t)
                     /\ turn[c].items[i].step = "done" => turn[c].items[i].heard = Grok!Whole
  BY DEF Grok!CallsAsDeclared
<1>1. PICK t : t = turn[c]
  OBVIOUS
<1>2. GoodTurn(t) /\ GoodItem(t, i)
  BY <1>1 DEF GInv, Turns, GoodTurn
<1>3. PICK u \in Grok!Tools : Grok!Wire(u) \in t.sent /\ Grok!Wire(u).name = t.items[i].name
        /\ Grok!Wire(u).name # ""
  BY <1>2 DEF GoodItem, GoodTurn, Wires
<1>4. Grok!Rewritten(Grok!Wire(u).name, t.rewrite) = Grok!Meant(u)
  <2>1. /\ Free(t.rewrite.free) /\ Placed(t.rewrite.spaces)
        /\ Covers(t.sent, t.rewrite.free, t.rewrite.spaces) /\ Finds(t.sent, t.rewrite.search)
    BY <1>2 DEF GoodTurn
  <2>. QED  BY <1>3, <2>1, RewrittenIs
<1>5. t.items[i].is = Grok!Meant(u)
  BY <1>2, <1>3, <1>4 DEF GoodItem
<1>6. t.items[i].step = "done" => t.items[i].heard = Grok!Whole
  BY <1>2 DEF GoodItem, Hears
<1>. QED  BY <1>1, <1>3, <1>5, <1>6

LEMMA ToolsAre ==
  ASSUME GInv
  PROVE  Grok!OwnToolsOnly /\ Grok!ToolsStay
<1>1. Grok!OwnToolsOnly
  BY DEF GInv, Saids, Grok!OwnToolsOnly
<1>2. Grok!ToolsStay
  BY DEF GInv, Stays, Room, Fits, Grok!ToolsStay, Size
<1>. QED  BY <1>1, <1>2

\* Every call that Grok makes of a tool reaches the client as a call of the
\* tool it declared, with its arguments exactly once; no conversation is sent
\* the tools of another or those it declared before the cache forgot them; and
\* a request without tools is sent all that its conversation declared within
\* the lifetime, where there is room (sanitize_grok_responses,
\* _apply_grok_tool_cache, rewrite_grok_codex_sse_payload).
THEOREM ToolsComeBackAlways ==
  Grok!NamesAssumption /\ Grok!BoundsAssumption =>
    (Grok!Spec => [](Grok!TypeOK /\ Grok!CallsAsDeclared /\ Grok!OwnToolsOnly /\ Grok!ToolsStay))
<1>. SUFFICES ASSUME Grok!NamesAssumption, Grok!BoundsAssumption
              PROVE  Grok!Spec => [](Grok!TypeOK /\ Grok!CallsAsDeclared /\ Grok!OwnToolsOnly /\ Grok!ToolsStay)
  OBVIOUS
<1>1. Grok!Init => GInv
  BY GInit
<1>2. GInv /\ [Grok!Next]_(Grok!vars) => GInv'
  BY GStep
<1>3. GInv => Grok!TypeOK /\ Grok!CallsAsDeclared /\ Grok!OwnToolsOnly /\ Grok!ToolsStay
  BY GTypes, CallsAre, ToolsAre
<1>. QED  BY <1>1, <1>2, <1>3, PTL DEF Grok!Spec

-----------------------------------------------------------------------------
(* The lists of models of ZCode and WorkBuddy (ProviderLists), for any models *)
(* and any names of the user's.                                            *)
(*                                                                         *)
(* A merge takes only what is ours because no two entries have the same name *)
(* (Single); of the gateway's models only our own entries are listed (Listed). *)
CONSTANTS Slugs, UserNames, None, MaxItems
VARIABLES rules, modelRules, order, default, models, available, merged

Roster == INSTANCE ProviderLists WITH Names <- UserNames

Chosen(slugs) == {[id |-> x, url |-> "ours"] : x \in Elements(slugs)}
Calls == {e \in Roster!Entry : e.url = "ours"}

\* No two entries of a list have the same name.
Single(s) == \A e, f \in Elements(s) : e.id = f.id => e = f

\* Of the gateway's models only those of our entries are listed by name.
Listed == \A x \in Elements(available) \cap Slugs : \E e \in Elements(models) : e.id = x /\ e.url = "ours"

Shapes ==
  /\ rules \in Seq(Roster!Entry) /\ models \in Seq(Roster!Entry)
  /\ modelRules \in Seq(Roster!Ids) /\ order \in Seq(Roster!Ids) /\ available \in Seq(Roster!Ids)
  /\ default \in Roster!Ids \cup {None} /\ merged \in Roster!Selections \cup {<<>>} /\ Distinct(order)
Refers ==
  /\ Elements(order) \cup Elements(modelRules) \subseteq {e.id : e \in Elements(rules)}
  /\ default \in {e.id : e \in Elements(rules)} \cup {None}
Exact ==
  merged # <<>> =>
    /\ Only(rules, Calls) = Roster!Entries(merged) /\ Only(models, Calls) = Roster!Entries(merged)
    /\ available # <<>> => Elements(available) \cap (Slugs \cup {Roster!Legacy}) = Elements(merged)

LInv == Shapes /\ Refers /\ Exact /\ Single(rules) /\ Single(models) /\ Listed

\* The operators that ProviderLists takes from its modules.
LEMMA OnlyIs ==
  ASSUME NEW s, NEW S
  PROVE  Roster!Only(s, S) = Only(s, S)
BY DEF Roster!Only, Only

LEMMA ToSetIs ==
  ASSUME NEW s
  PROVE  Roster!ToSet(s) = Elements(s) /\ Roster!Ids_(s) = {e.id : e \in Elements(s)}
<1>1. Roster!Ids_(s) = {e.id : e \in Elements(s)}
  BY DEF Roster!Ids_, Elements
<1>. QED  BY <1>1 DEF Roster!ToSet, Elements

LEMMA SelectionIs ==
  ASSUME Roster!ListNames, NEW slugs \in Roster!Selections
  PROVE  /\ slugs \in Seq(Slugs) /\ slugs \in Seq(Roster!Ids) /\ Distinct(slugs) /\ slugs # <<>>
         /\ slugs[1] \in Elements(slugs) /\ Elements(slugs) \subseteq Slugs
<1>1. IsFiniteSet(Slugs)
  BY DEF Roster!ListNames, Roster!IsFiniteSet, IsFiniteSet
<1>2. Cardinality(Slugs) \in Nat
  BY <1>1, FS_CardinalityType
<1>3. PICK n \in 1..Cardinality(Slugs) : slugs \in [1..n -> Slugs]
  BY DEF Roster!Selections, Roster!Cardinality, Cardinality
<1>4. n \in Nat /\ n >= 1
  BY <1>2, <1>3
<1>5. slugs \in Seq(Slugs) /\ DOMAIN slugs = 1..n /\ 1 \in 1..n /\ Len(slugs) = n
  BY <1>3, <1>4
<1>6. slugs \in Seq(Roster!Ids)
  BY <1>3, <1>4 DEF Roster!Ids
<1>7. slugs # <<>>
  <2>1. Len(<<>>) = 0
    OBVIOUS
  <2>. QED  BY <1>4, <1>5, <2>1
<1>8. Distinct(slugs)
  BY DEF Roster!Selections, Roster!OneToOne, Distinct
<1>9. slugs[1] \in Elements(slugs) /\ Elements(slugs) \subseteq Slugs
  BY <1>3, <1>5 DEF Elements
<1>. QED  BY <1>5, <1>6, <1>7, <1>8, <1>9

LEMMA EntriesAre ==
  ASSUME Roster!ListNames, NEW slugs \in Roster!Selections
  PROVE  /\ Roster!Entries(slugs) \in Seq(Roster!Entry) /\ Elements(Roster!Entries(slugs)) = Chosen(slugs)
         /\ Len(Roster!Entries(slugs)) = Len(slugs)
              /\ Roster!Entries(slugs) = [k \in 1..Len(slugs) |-> Roster!Entries(slugs)[k]]
         /\ Chosen(slugs) \subseteq Calls
<1>1. slugs \in Seq(Slugs) /\ Len(slugs) \in Nat /\ DOMAIN slugs = 1..Len(slugs)
  BY SelectionIs
<1>2. \A k \in 1..Len(slugs) : slugs[k] \in Slugs
  BY <1>1
<1>3. \A x \in Slugs : [id |-> x, url |-> "ours"] \in Roster!Entry
  BY DEF Roster!Entry, Roster!Ids
<1>. DEFINE t == Roster!Entries(slugs)
<1>4. t = [k \in 1..Len(slugs) |-> [id |-> slugs[k], url |-> "ours"]]
  BY <1>1 DEF Roster!Entries
<1>5. t \in Seq(Roster!Entry) /\ Len(t) = Len(slugs) /\ DOMAIN t = 1..Len(slugs)
  BY <1>1, <1>2, <1>3, <1>4
<1>6. \A k \in 1..Len(slugs) : t[k] = [id |-> slugs[k], url |-> "ours"]
  BY <1>4
<1>. HIDE DEF t
<1>7. Elements(t) = Chosen(slugs)
  BY <1>1, <1>5, <1>6, Zenon DEF Elements, Chosen
<1>8. Chosen(slugs) \subseteq Calls
  <2>1. Elements(slugs) \subseteq Slugs
    BY SelectionIs
  <2>. QED  BY <1>3, <2>1 DEF Chosen, Calls
<1>9. t = [k \in 1..Len(slugs) |-> t[k]]
  BY <1>5
<1>. QED  BY <1>5, <1>7, <1>8, <1>9 DEF t

\* What a merge makes of a list of entries, when all that it keeps call others.
LEMMA MergedList ==
  ASSUME Roster!ListNames, NEW slugs \in Roster!Selections, NEW s \in Seq(Roster!Entry), Single(s),
         NEW keep \in SUBSET Roster!Entry,
         \A e \in keep : e.url # "ours" /\ e.id \notin Elements(slugs),
         NEW r, r = Only(s, keep) \o Roster!Entries(slugs)
  PROVE  /\ r \in Seq(Roster!Entry) /\ Elements(r) = (Elements(s) \cap keep) \cup Chosen(slugs)
         /\ Only(r, Calls) = Roster!Entries(slugs) /\ Single(r)
<1>. DEFINE K == Only(s, keep) t == Roster!Entries(slugs)
<1>1. K \in Seq(Roster!Entry) /\ Elements(K) = Elements(s) \cap keep
  BY OnlyElements
<1>2. /\ t \in Seq(Roster!Entry) /\ Elements(t) = Chosen(slugs) /\ Len(t) = Len(slugs)
      /\ t = [k \in 1..Len(slugs) |-> t[k]] /\ Chosen(slugs) \subseteq Calls
  BY EntriesAre
<1>. HIDE DEF K, t
<1>3. r = K \o t
  BY DEF K, t
<1>4. r \in Seq(Roster!Entry) /\ Elements(r) = Elements(K) \cup Elements(t)
  <2>1. K \o t \in Seq(Roster!Entry) /\ Elements(K \o t) = Elements(K) \cup Elements(t)
    <3>1. K \in Seq(Roster!Entry) /\ t \in Seq(Roster!Entry)
      BY <1>1, <1>2
    <3>. QED  BY ONLY <3>1, ElementsConcat
  <2>. QED  BY <1>3, <2>1, Zenon
<1>5. Joined(K, t, r)
  BY <1>1, <1>2, <1>3, ConcatIs
<1>6. Only(r, Calls) = t
  <2>1. \A k \in 1..Len(K) : r[k] \notin Calls
    <3>1. \A k \in 1..Len(K) : r[k] = K[k] /\ k \in DOMAIN K
      BY <1>5 DEF Joined
    <3>2. \A e \in Elements(K) : e \notin Calls
      BY <1>1 DEF Calls
    <3>. QED  BY <3>1, <3>2 DEF Elements
  <2>2. \A k \in (Len(K) + 1)..Len(r) : r[k] \in Calls
    <3>. SUFFICES ASSUME NEW k \in (Len(K) + 1)..Len(r) PROVE r[k] \in Calls
      OBVIOUS
    <3>1. k \in DOMAIN r /\ k \notin 1..Len(K)
      BY <1>5 DEF Joined
    <3>2. PICK j \in 1..Len(t) : k = Len(K) + j
      BY <1>5, <3>1 DEF Joined
    <3>3. r[k] = t[j] /\ j \in DOMAIN t
      BY <1>5, <3>2 DEF Joined
    <3>4. t[j] \in Elements(t)
      BY <3>3 DEF Elements
    <3>. QED  BY <1>2, <3>3, <3>4
  <2>3. Len(K) \in 0..Len(r) /\ Len(r) - Len(K) = Len(slugs)
    BY <1>2, <1>5 DEF Joined
  <2>4. Only(r, Calls) = TailOf(r, Len(K))
    <3>1. TailIn(r, Calls, Len(K))
      BY <2>1, <2>2 DEF TailIn
    <3>. QED  BY <1>4, <2>3, <3>1, OnlyTail
  <2>5. \A k \in 1..Len(slugs) : r[Len(K) + k] = t[k]
    BY <1>2, <1>5 DEF Joined
  <2>6. Only(r, Calls) = [k \in 1..Len(slugs) |-> r[Len(K) + k]]
    BY <2>3, <2>4, Zenon DEF TailOf
  <2>7. [k \in 1..Len(slugs) |-> r[Len(K) + k]] = [k \in 1..Len(slugs) |-> t[k]]
    BY <2>5
  <2>. QED  BY <1>2, <2>6, <2>7, Zenon
<1>7. Single(r)
  <2>. SUFFICES ASSUME NEW e \in Elements(r), NEW f \in Elements(r), e.id = f.id PROVE e = f
    BY DEF Single
  <2>1. \A x \in Elements(t) : x.id \in Elements(slugs) /\ x = [id |-> x.id, url |-> "ours"]
    BY <1>2 DEF Chosen
  <2>2. \A x \in Elements(K) : x \in Elements(s) /\ x.id \notin Elements(slugs)
    BY <1>1
  <2>3. CASE e \in Elements(K) /\ f \in Elements(K)
    BY <2>2, <2>3 DEF Single
  <2>4. CASE e \in Elements(t) /\ f \in Elements(t)
    BY <2>1, <2>4
  <2>. QED  BY <1>4, <2>1, <2>2, <2>3, <2>4
<1>. QED  BY <1>1, <1>2, <1>4, <1>6, <1>7 DEF t

-----------------------------------------------------------------------------
(* The steps.                                                              *)

\* What goes of the providers, and what stays under a name that stays.
LEMMA GoneIs ==
  ASSUME NEW slugs \in Roster!Selections, rules \in Seq(Roster!Entry),
         NEW kept, kept = {e \in Roster!Entry : ~Roster!ZcodeOurs(e) /\ e.id \notin Roster!ToSet(slugs)},
           NEW G, G = Roster!Gone(slugs)
  PROVE  /\ Elements(slugs) \cup {Roster!Legacy} \subseteq G
         /\ \A e \in Elements(rules) : e.id \notin G => e \in Elements(rules) \cap kept
         /\ \A e \in Elements(rules) : Roster!ZcodeOurs(e) => e.id \in G
         /\ \A x \in G :
              \/ x \in Elements(slugs) \cup {Roster!Legacy}
              \/ \E e \in Elements(rules) : Roster!ZcodeOurs(e) /\ e.id = x
<1>1. G = {e.id : e \in {f \in Elements(rules) : Roster!ZcodeOurs(f)}} \cup {Roster!Legacy} \cup Elements(slugs)
  <2>1. {rules[x].id : x \in {y \in DOMAIN rules : Roster!ZcodeOurs(rules[y])}}
          = {e.id : e \in {f \in Elements(rules) : Roster!ZcodeOurs(f)}}
    BY Zenon DEF Elements
  <2>. QED  BY <2>1, ToSetIs DEF Roster!Gone
<1>2. Elements(rules) \subseteq Roster!Entry
  BY DEF Elements
<1>3. kept = {e \in Roster!Entry : ~Roster!ZcodeOurs(e) /\ e.id \notin Elements(slugs)}
  BY ToSetIs
<1>. QED  BY <1>1, <1>2, <1>3

\* Only names that stay are listed in front of the chosen ones.
LEMMA NamesMerged ==
  ASSUME Roster!ListNames, NEW slugs \in Roster!Selections, NEW s \in Seq(Roster!Ids), NEW keep,
         keep \cap Elements(slugs) = {}, NEW r, r = Only(s, keep) \o slugs
  PROVE  /\ r \in Seq(Roster!Ids) /\ Elements(r) = (Elements(s) \cap keep) \cup Elements(slugs)
         /\ Distinct(s) => Distinct(r)
<1>1. Only(s, keep) \in Seq(Roster!Ids) /\ Elements(Only(s, keep)) = Elements(s) \cap keep
  BY OnlyElements
<1>2. slugs \in Seq(Roster!Ids) /\ Distinct(slugs)
  BY SelectionIs
<1>3. PICK k : k = Only(s, keep)
  OBVIOUS
<1>4. k \in Seq(Roster!Ids) /\ Elements(k) = Elements(s) \cap keep /\ r = k \o slugs
  BY <1>1, <1>3
<1>5. k \o slugs \in Seq(Roster!Ids) /\ Elements(k \o slugs) = Elements(k) \cup Elements(slugs)
  <2>1. k \in Seq(Roster!Ids) /\ slugs \in Seq(Roster!Ids)
    BY <1>2, <1>4
  <2>. QED  BY ONLY <2>1, ElementsConcat
<1>6. r \in Seq(Roster!Ids) /\ Elements(r) = Elements(k) \cup Elements(slugs)
  BY <1>4, <1>5, Zenon
<1>7. ASSUME Distinct(s) PROVE Distinct(r)
  <2>1. Distinct(k)
    BY <1>3, <1>7, OnlyDistinct
  <2>2. Elements(k) \cap Elements(slugs) = {}
    BY <1>4
  <2>. QED  BY <1>2, <1>4, <2>1, <2>2, DistinctConcat
<1>. QED  BY <1>4, <1>6, <1>7

LEMMA MergeZcodeStep ==
  ASSUME Roster!ListNames, LInv, NEW slugs \in Roster!Selections, Roster!Merge(slugs)
  PROVE  /\ rules' \in Seq(Roster!Entry) /\ modelRules' \in Seq(Roster!Ids) /\ order' \in Seq(Roster!Ids)
              /\ Distinct(order')
         /\ default' \in Roster!Ids \cup {None} /\ Refers' /\ Single(rules')
              /\ Only(rules', Calls) = Roster!Entries(slugs)
<1>. DEFINE kept == {e \in Roster!Entry : ~Roster!ZcodeOurs(e)
       /\ e.id \notin Roster!ToSet(slugs)} G == Roster!Gone(slugs) C == Elements(slugs)
<1>1. /\ rules' = Only(rules, kept) \o Roster!Entries(slugs)
      /\ modelRules' = Only(modelRules, Roster!Ids \ G) \o slugs /\ order' = Only(order, Roster!Ids \ G) \o slugs
      /\ default' = Roster!Default(slugs)
  BY OnlyIs DEF Roster!Merge, Roster!MergeZcode, Roster!KeptRules, Roster!KeptNames
<1>2. /\ rules \in Seq(Roster!Entry) /\ modelRules \in Seq(Roster!Ids) /\ order \in Seq(Roster!Ids)
           /\ Distinct(order) /\ Single(rules)
      /\ default \in Roster!Ids \cup {None}
  BY DEF LInv, Shapes
<1>3. /\ C \cup {Roster!Legacy} \subseteq G
      /\ \A e \in Elements(rules) : e.id \notin G => e \in Elements(rules) \cap kept
  BY <1>2, GoneIs
<1>4. kept \in SUBSET Roster!Entry /\ \A e \in kept : e.url # "ours" /\ e.id \notin C
  BY ToSetIs DEF Roster!ZcodeOurs
<1>5. C \subseteq Slugs /\ slugs[1] \in C
  BY SelectionIs
<1>. HIDE DEF kept, G, C
<1>6. /\ rules' \in Seq(Roster!Entry) /\ Elements(rules') = (Elements(rules) \cap kept) \cup Chosen(slugs)
      /\ Only(rules', Calls) = Roster!Entries(slugs) /\ Single(rules')
  BY <1>1, <1>2, <1>4, MergedList DEF C
<1>7. (Roster!Ids \ G) \cap C = {}
  BY <1>3
<1>8. /\ modelRules' \in Seq(Roster!Ids)
           /\ Elements(modelRules') = (Elements(modelRules) \cap (Roster!Ids \ G)) \cup C
      /\ order' \in Seq(Roster!Ids) /\ Elements(order') = (Elements(order) \cap (Roster!Ids \ G)) \cup C
           /\ Distinct(order')
  <2>. DEFINE keep == Roster!Ids \ G
  <2>1. keep \cap Elements(slugs) = {} /\ modelRules' = Only(modelRules, keep) \o slugs
        /\ order' = Only(order, keep) \o slugs
    BY <1>1, <1>7 DEF C
  <2>. HIDE DEF keep
  <2>2. modelRules' \in Seq(Roster!Ids)
          /\ Elements(modelRules') = (Elements(modelRules) \cap keep) \cup Elements(slugs)
    BY <1>2, <2>1, NamesMerged
  <2>3. order' \in Seq(Roster!Ids) /\ Elements(order') = (Elements(order) \cap keep) \cup Elements(slugs)
          /\ Distinct(order')
    BY <1>2, <2>1, NamesMerged
  <2>. QED  BY <2>2, <2>3 DEF keep, C
<1>. DEFINE N == {e.id : e \in Elements(rules')}
<1>9. C \subseteq N /\ \A e \in Elements(rules) : e.id \notin G => e.id \in N
  <2>1. C \subseteq N
    <3>. SUFFICES ASSUME NEW x \in C PROVE \E e \in Elements(rules') : e.id = x
      OBVIOUS
    <3>1. [id |-> x, url |-> "ours"] \in Chosen(slugs)
      BY DEF Chosen, C
    <3>. QED  BY <1>6, <3>1
  <2>2. ASSUME NEW e \in Elements(rules), e.id \notin G PROVE e.id \in N
    BY <1>3, <1>6, <2>2
  <2>. QED  BY <2>1, <2>2
<1>. HIDE DEF N
<1>10. Elements(order') \cup Elements(modelRules') \subseteq N
  BY <1>8, <1>9 DEF LInv, Refers
<1>11. default' \in N \cup {None} /\ default' \in Roster!Ids \cup {None}
  <2>1. Roster!ToSet(slugs) = C
    BY ToSetIs DEF C
  <2>2. Slugs \subseteq Roster!Ids
    BY DEF Roster!Ids
  <2>3. CASE default \in C
    BY <1>1, <1>2, <1>9, <2>1, <2>3 DEF Roster!Default
  <2>4. CASE default \notin C /\ default \notin G \cup {None}
    <3>1. default' = default
      BY <1>1, <2>1, <2>4 DEF Roster!Default, G
    <3>2. \E e \in Elements(rules) : e.id = default
      BY <2>4 DEF LInv, Refers
    <3>. QED  BY <1>2, <1>9, <2>4, <3>1, <3>2
  <2>5. CASE default \notin C /\ default \in G \cup {None}
    <3>1. default' = slugs[1]
      BY <1>1, <2>1, <2>5 DEF Roster!Default, G
    <3>. QED  BY <1>5, <1>9, <2>2, <3>1
  <2>. QED  BY <2>3, <2>4, <2>5
<1>12. Refers'
  BY <1>10, <1>11 DEF Refers, N
<1>. QED  BY <1>6, <1>8, <1>11, <1>12

LEMMA MergeBuddyStep ==
  ASSUME Roster!ListNames, LInv, NEW slugs \in Roster!Selections, Roster!Merge(slugs)
  PROVE  /\ models' \in Seq(Roster!Entry) /\ available' \in Seq(Roster!Ids) /\ Single(models') /\ Listed'
         /\ Only(models', Calls) = Roster!Entries(slugs)
         /\ available' # <<>> => Elements(available') \cap (Slugs \cup {Roster!Legacy}) = Elements(slugs)
<1>. DEFINE kept == {e \in Roster!Entry : ~Roster!BuddyOurs(e,
       slugs)} C == Elements(slugs) I == Roster!Injected(slugs)
            keep == Roster!Ids \ (Roster!ToSet(slugs) \cup I \cup {Roster!Legacy})
<1>1. models' = Only(models, kept) \o Roster!Entries(slugs) /\ available' = Roster!Available(slugs)
      /\ Roster!Foreign(slugs) = Only(available, keep)
  BY OnlyIs DEF Roster!Merge, Roster!MergeBuddy, Roster!Foreign
<1>2. models \in Seq(Roster!Entry) /\ available \in Seq(Roster!Ids) /\ Single(models) /\ Listed
  BY DEF LInv, Shapes
<1>3. kept \in SUBSET Roster!Entry /\ \A e \in kept : e.url # "ours" /\ e.id \notin C
  BY ToSetIs DEF Roster!BuddyOurs
<1>4. I = {e.id : e \in {f \in Elements(models) : Roster!BuddyOurs(f, slugs)}}
  BY Zenon DEF Roster!Injected, Elements
<1>5. C \subseteq Slugs /\ Roster!ToSet(slugs) = C
  BY SelectionIs, ToSetIs
<1>6. \A e \in Chosen(slugs) : e.id \in C /\ e.url = "ours"
  BY DEF Chosen
<1>7. \A x \in C : [id |-> x, url |-> "ours"] \in Chosen(slugs)
  BY DEF Chosen
<1>8. keep \cap C = {}
  BY <1>5
<1>9. \A x \in keep : x \notin I /\ x # Roster!Legacy
  OBVIOUS
<1>. HIDE DEF kept, C, I, keep
<1>10. /\ models' \in Seq(Roster!Entry) /\ Elements(models') = (Elements(models) \cap kept) \cup Chosen(slugs)
       /\ Only(models', Calls) = Roster!Entries(slugs) /\ Single(models')
  BY <1>1, <1>2, <1>3, MergedList DEF C
<1>11. CASE Roster!Foreign(slugs) = <<>>
  <2>1. available' = <<>> /\ Elements(<<>>) = {} /\ <<>> \in Seq(Roster!Ids)
    BY <1>1, <1>11 DEF Roster!Available, Elements
  <2>2. Listed'
    BY <2>1 DEF Listed
  <2>. QED  BY <1>10, <2>1, <2>2
<1>12. CASE Roster!Foreign(slugs) # <<>>
  <2>1. available' = Only(available, keep) \o slugs
    BY <1>1, <1>12 DEF Roster!Available
  <2>2. available' \in Seq(Roster!Ids) /\ Elements(available') = (Elements(available) \cap keep) \cup C
    BY <1>2, <1>8, <2>1, NamesMerged DEF C
  <2>3. ASSUME NEW x \in Elements(available) \cap keep PROVE x \notin Slugs \cup {Roster!Legacy}
    <3>1. x \notin I /\ x # Roster!Legacy
      BY <1>9, <2>3
    <3>2. ASSUME x \in Slugs PROVE FALSE
      <4>1. PICK e \in Elements(models) : e.id = x /\ e.url = "ours"
        BY <1>2, <3>2 DEF Listed
      <4>2. Roster!BuddyOurs(e, slugs)
        BY <4>1 DEF Roster!BuddyOurs
      <4>. QED  BY <1>4, <3>1, <4>1, <4>2
    <3>. QED  BY <3>1, <3>2
  <2>4. Elements(available') \cap (Slugs \cup {Roster!Legacy}) = C
    BY <1>5, <2>2, <2>3
  <2>5. Listed'
    <3>. SUFFICES ASSUME NEW x \in Elements(available') \cap Slugs
                  PROVE  \E e \in Elements(models') : e.id = x /\ e.url = "ours"
      BY DEF Listed
    <3>1. x \in C
      BY <2>4
    <3>2. PICK e \in Chosen(slugs) : e = [id |-> x, url |-> "ours"]
      BY <1>7, <3>1
    <3>. QED  BY <1>10, <3>2
  <2>. QED  BY <1>10, <2>2, <2>4, <2>5 DEF C
<1>. QED  BY <1>11, <1>12

LEMMA MergeStep ==
  ASSUME Roster!ListNames, LInv, NEW slugs \in Roster!Selections, Roster!Merge(slugs)
  PROVE  LInv'
<1>1. merged' = slugs
  BY DEF Roster!Merge
<1>2. /\ rules' \in Seq(Roster!Entry) /\ modelRules' \in Seq(Roster!Ids) /\ order' \in Seq(Roster!Ids)
           /\ Distinct(order')
      /\ default' \in Roster!Ids \cup {None} /\ Refers' /\ Single(rules')
           /\ Only(rules', Calls) = Roster!Entries(slugs)
  BY MergeZcodeStep
<1>3. /\ models' \in Seq(Roster!Entry) /\ available' \in Seq(Roster!Ids) /\ Single(models') /\ Listed'
      /\ Only(models', Calls) = Roster!Entries(slugs)
      /\ available' # <<>> => Elements(available') \cap (Slugs \cup {Roster!Legacy}) = Elements(slugs)
  BY MergeBuddyStep
<1>4. Shapes'
  BY <1>1, <1>2, <1>3 DEF Shapes
<1>5. Exact'
  BY <1>1, <1>2, <1>3 DEF Exact
<1>. QED  BY <1>2, <1>3, <1>4, <1>5 DEF LInv

\* An entry of the user's has a name that no other has.
LEMMA SingleAppend ==
  ASSUME NEW s \in Seq(Roster!Entry), Single(s), NEW e \in Roster!Entry, e.id \notin Roster!Ids_(s), NEW r,
         r = Append(s, e)
  PROVE  r \in Seq(Roster!Entry) /\ Elements(r) = Elements(s) \cup {e} /\ Single(r)
<1>1. r \in Seq(Roster!Entry) /\ Elements(r) = Elements(s) \cup {e}
  BY ElementsAppend
<1>2. \A f \in Elements(s) : f.id # e.id
  BY ToSetIs
<1>. QED  BY <1>1, <1>2 DEF Single

LEMMA AddProviderStep ==
  ASSUME Roster!ListNames, LInv, NEW n \in UserNames \cup {Roster!Legacy}, NEW url \in {"ours", "theirs"},
         Roster!AddProvider(n, url)
  PROVE  LInv'
<1>1. PICK e : e = [id |-> n, url |-> url]
  OBVIOUS
<1>2. /\ rules' = Append(rules, e) /\ modelRules' = Append(modelRules, n) /\ order' = Append(order, n)
      /\ default' \in {default, n} /\ merged' = <<>> /\ models' = models /\ available' = available
      /\ n \notin Roster!Ids_(rules)
  BY <1>1 DEF Roster!AddProvider, Roster!workbuddy
<1>3. /\ rules \in Seq(Roster!Entry) /\ modelRules \in Seq(Roster!Ids) /\ order \in Seq(Roster!Ids)
           /\ Distinct(order) /\ Single(rules)
      /\ default \in Roster!Ids \cup {None}
  BY DEF LInv, Shapes
<1>4. e \in Roster!Entry /\ n \in Roster!Ids /\ e.id = n
  BY <1>1 DEF Roster!Entry, Roster!Ids
<1>5. rules' \in Seq(Roster!Entry) /\ Elements(rules') = Elements(rules) \cup {e} /\ Single(rules')
  BY <1>2, <1>3, <1>4, SingleAppend
<1>6. /\ modelRules' \in Seq(Roster!Ids) /\ Elements(modelRules') = Elements(modelRules) \cup {n}
      /\ order' \in Seq(Roster!Ids) /\ Elements(order') = Elements(order) \cup {n}
  BY <1>2, <1>3, <1>4, ElementsAppend
<1>7. Distinct(order')
  <2>1. n \notin Elements(order)
    BY <1>2, ToSetIs DEF LInv, Refers
  <2>. QED  BY <1>2, <1>3, <1>4, <2>1, DistinctAppend
<1>8. Shapes'
  BY <1>2, <1>3, <1>4, <1>5, <1>6, <1>7 DEF LInv, Shapes
<1>9. Refers'
  <2>1. {f.id : f \in Elements(rules')} = {f.id : f \in Elements(rules)} \cup {n}
    BY <1>4, <1>5
  <2>. QED  BY <1>2, <1>6, <2>1 DEF LInv, Refers
<1>10. Exact' /\ Listed' /\ Single(models')
  BY <1>2 DEF LInv, Exact, Listed
<1>. QED  BY <1>5, <1>8, <1>9, <1>10 DEF LInv

LEMMA AddModelStep ==
  ASSUME Roster!ListNames, LInv, NEW n \in UserNames \cup {Roster!Legacy}, NEW url \in {"ours", "theirs"},
         NEW listed \in BOOLEAN,
         Roster!AddModel(n, url, listed)
  PROVE  LInv'
<1>1. PICK e : e = [id |-> n, url |-> url]
  OBVIOUS
<1>2. /\ models' = Append(models, e) /\ (available' = available \/ available' = Append(available, n))
      /\ merged' = <<>> /\ n \notin Roster!Ids_(models)
      /\ rules' = rules /\ modelRules' = modelRules /\ order' = order /\ default' = default
  BY <1>1 DEF Roster!AddModel, Roster!zcode
<1>3. models \in Seq(Roster!Entry) /\ available \in Seq(Roster!Ids) /\ Single(models)
  BY DEF LInv, Shapes
<1>4. e \in Roster!Entry /\ n \in Roster!Ids /\ e.id = n /\ n \notin Slugs
  BY <1>1 DEF Roster!Entry, Roster!Ids, Roster!ListNames
<1>5. models' \in Seq(Roster!Entry) /\ Elements(models') = Elements(models) \cup {e} /\ Single(models')
  BY <1>2, <1>3, <1>4, SingleAppend
<1>6. available' \in Seq(Roster!Ids) /\ Elements(available') \subseteq Elements(available) \cup {n}
  <2>1. CASE available' = available
    BY <1>3, <2>1
  <2>2. CASE available' = Append(available, n)
    BY <1>3, <1>4, <2>2, ElementsAppend
  <2>. QED  BY <1>2, <2>1, <2>2
<1>7. Shapes'
  BY <1>2, <1>5, <1>6 DEF LInv, Shapes
<1>8. Refers' /\ Exact' /\ Single(rules')
  BY <1>2 DEF LInv, Refers, Exact
<1>9. Listed'
  BY <1>4, <1>5, <1>6 DEF LInv, Listed
<1>. QED  BY <1>5, <1>7, <1>8, <1>9 DEF LInv

LEMMA LInit ==
  ASSUME Roster!Init
  PROVE  LInv
<1>1. /\ rules = <<>> /\ modelRules = <<>> /\ order = <<>> /\ default = None
      /\ models = <<>> /\ available = <<>> /\ merged = <<>>
  BY DEF Roster!Init
<1>2. Elements(<<>>) = {} /\ Distinct(<<>>)
  BY DEF Elements, Distinct
<1>3. <<>> \in Seq(Roster!Entry) /\ <<>> \in Seq(Roster!Ids)
  OBVIOUS
<1>4. Shapes
  BY <1>1, <1>2, <1>3 DEF Shapes
<1>5. Refers /\ Exact /\ Single(rules) /\ Single(models) /\ Listed
  BY <1>1, <1>2 DEF Refers, Exact, Single, Listed
<1>. QED  BY <1>4, <1>5 DEF LInv

LEMMA LStep ==
  ASSUME Roster!ListNames, LInv, [Roster!Next]_(Roster!vars)
  PROVE  LInv'
<1>1. CASE UNCHANGED Roster!vars
  BY <1>1 DEF Roster!vars, Roster!zcode, Roster!workbuddy, LInv, Shapes, Refers, Exact, Single, Listed
<1>2. ASSUME NEW slugs \in Roster!Selections, Roster!Merge(slugs) PROVE LInv'
  BY <1>2, MergeStep
<1>3. ASSUME NEW n \in UserNames \cup {Roster!Legacy}, NEW url \in {"ours", "theirs"},
             Roster!AddProvider(n, url) PROVE LInv'
  BY <1>3, AddProviderStep
<1>4. ASSUME NEW n \in UserNames \cup {Roster!Legacy}, NEW url \in {"ours", "theirs"},
             NEW listed \in BOOLEAN, Roster!AddModel(n, url, listed)
      PROVE  LInv'
  BY <1>4, AddModelStep
<1>. QED  BY <1>1, <1>2, <1>3, <1>4 DEF Roster!Next

\* What the invariant says of what is seen.
LEMMA ListsHold ==
  ASSUME LInv
  PROVE  Roster!TypeOK /\ Roster!NoDangling /\ Roster!ExactlyChosen
<1>1. Roster!TypeOK
  BY DEF LInv, Shapes, Roster!TypeOK, Roster!OneToOne, Distinct
<1>2. Roster!NoDangling
  BY ToSetIs DEF LInv, Refers, Roster!NoDangling
<1>3. Roster!ExactlyChosen
  <2>1. Roster!Only(rules, Calls) = Only(rules, Calls) /\ Roster!Only(models, Calls) = Only(models, Calls)
        /\ Roster!ToSet(available) = Elements(available) /\ Roster!ToSet(merged) = Elements(merged)
    BY OnlyIs, ToSetIs
  <2>. QED  BY <2>1 DEF LInv, Exact, Roster!ExactlyChosen, Calls
<1>. QED  BY <1>1, <1>2, <1>3

\* What a merge leaves of the user's.
LEMMA ProvidersStay ==
  ASSUME Roster!ListNames, LInv, NEW slugs \in Roster!Selections, Roster!Merge(slugs),
         NEW x \in DOMAIN rules, ~Roster!ZcodeOurs(rules[x]), rules[x].id \in UserNames
  PROVE  rules[x] \in Roster!ToSet(rules') /\ (default = rules[x].id => default' = default)
<1>. DEFINE kept == {f \in Roster!Entry : ~Roster!ZcodeOurs(f)
       /\ f.id \notin Roster!ToSet(slugs)} G == Roster!Gone(slugs)
<1>1. PICK e : e = rules[x]
  OBVIOUS
<1>2. rules \in Seq(Roster!Entry) /\ Single(rules) /\ e \in Elements(rules) /\ ~Roster!ZcodeOurs(e)
        /\ e.id \in UserNames
  BY <1>1 DEF LInv, Shapes, Elements
<1>3. Elements(slugs) \subseteq Slugs /\ Roster!ToSet(slugs) = Elements(slugs)
  BY SelectionIs, ToSetIs
<1>4. e.id \notin G
  <2>1. \A y \in G :
          \/ y \in Elements(slugs) \cup {Roster!Legacy}
          \/ \E f \in Elements(rules) : Roster!ZcodeOurs(f) /\ f.id = y
    BY <1>2, GoneIs
  <2>2. e.id \notin Elements(slugs) \cup {Roster!Legacy}
    BY <1>2, <1>3 DEF Roster!ListNames
  <2>. QED  BY <1>2, <2>1, <2>2 DEF Single
<1>5. e \in Elements(rules) \cap kept
  BY <1>2, <1>4, GoneIs
<1>6. rules' = Only(rules, kept) \o Roster!Entries(slugs) /\ default' = Roster!Default(slugs)
  BY OnlyIs DEF Roster!Merge, Roster!MergeZcode, Roster!KeptRules
<1>7. kept \in SUBSET Roster!Entry /\ \A f \in kept : f.url # "ours" /\ f.id \notin Elements(slugs)
  BY <1>3 DEF Roster!ZcodeOurs
<1>. HIDE DEF kept
<1>8. Elements(rules') = (Elements(rules) \cap kept) \cup Chosen(slugs)
  BY <1>2, <1>6, <1>7, MergedList
<1>9. e \in Roster!ToSet(rules')
  BY <1>5, <1>8, ToSetIs
<1>10. e.id # None
  BY <1>2 DEF Roster!ListNames
<1>. QED  BY <1>1, <1>4, <1>6, <1>9, <1>10 DEF Roster!Default

LEMMA ModelsStay ==
  ASSUME Roster!ListNames, LInv, NEW slugs \in Roster!Selections, Roster!Merge(slugs),
         NEW x \in DOMAIN models, models[x].url = "theirs", models[x].id \in UserNames
  PROVE  /\ models[x] \in Roster!ToSet(models')
         /\ Roster!Visible(models[x].id, available) => Roster!Visible(models[x].id, available')
<1>. DEFINE kept == {f \in Roster!Entry : ~Roster!BuddyOurs(f, slugs)} I == Roster!Injected(slugs)
            keep == Roster!Ids \ (Roster!ToSet(slugs) \cup I \cup {Roster!Legacy})
<1>1. PICK e : e = models[x]
  OBVIOUS
<1>2. /\ models \in Seq(Roster!Entry) /\ available \in Seq(Roster!Ids) /\ Single(models)
      /\ e \in Elements(models) /\ e.url = "theirs" /\ e.id \in UserNames
  BY <1>1 DEF LInv, Shapes, Elements
<1>3. Elements(slugs) \subseteq Slugs /\ Roster!ToSet(slugs) = Elements(slugs)
  BY SelectionIs, ToSetIs
<1>4. ~Roster!BuddyOurs(e, slugs) /\ e \in Roster!Entry
  BY <1>2, <1>3 DEF Roster!BuddyOurs, Roster!ListNames, Elements
<1>5. e.id \in keep
  <2>1. I = {f.id : f \in {g \in Elements(models) : Roster!BuddyOurs(g, slugs)}}
    BY Zenon DEF Roster!Injected, Elements
  <2>2. e.id \notin I
    BY <1>2, <1>4, <2>1 DEF Single
  <2>3. e.id \in Roster!Ids /\ e.id \notin Elements(slugs) \cup {Roster!Legacy}
    BY <1>2, <1>3 DEF Roster!Ids, Roster!ListNames
  <2>. QED  BY <1>3, <2>2, <2>3
<1>6. models' = Only(models, kept) \o Roster!Entries(slugs) /\ available' = Roster!Available(slugs)
      /\ Roster!Foreign(slugs) = Only(available, keep)
  BY OnlyIs DEF Roster!Merge, Roster!MergeBuddy, Roster!Foreign
<1>7. kept \in SUBSET Roster!Entry /\ \A f \in kept : f.url # "ours" /\ f.id \notin Elements(slugs)
  BY <1>3 DEF Roster!BuddyOurs
<1>8. keep \cap Elements(slugs) = {}
  BY <1>3
<1>9. e \in kept
  BY <1>4
<1>. HIDE DEF kept, keep, I
<1>10. Elements(models') = (Elements(models) \cap kept) \cup Chosen(slugs)
  BY <1>2, <1>6, <1>7, MergedList
<1>11. e \in Roster!ToSet(models')
  BY <1>2, <1>9, <1>10, ToSetIs
<1>12. ASSUME Roster!Visible(e.id, available) PROVE Roster!Visible(e.id, available')
  <2>1. CASE Roster!Foreign(slugs) = <<>>
    BY <1>6, <2>1 DEF Roster!Visible, Roster!Available
  <2>2. CASE Roster!Foreign(slugs) # <<>>
    <3>1. available' = Only(available, keep) \o slugs
      BY <1>6, <2>2 DEF Roster!Available
    <3>2. Elements(available') = (Elements(available) \cap keep) \cup Elements(slugs)
      BY <1>2, <1>8, <3>1, NamesMerged
    <3>3. available # <<>>
      <4>1. Elements(Only(available, keep)) = Elements(available) \cap keep
              /\ Only(available, keep) \in Seq(Roster!Ids)
        BY <1>2, OnlyElements
      <4>2. PICK f : f = Only(available, keep)
        OBVIOUS
      <4>3. f \in Seq(Roster!Ids) /\ f # <<>> /\ Elements(f) \subseteq Elements(available)
        BY <1>6, <2>2, <4>1, <4>2
      <4>4. Elements(f) # {}
        <5>1. Len(f) \in Nat /\ Len(f) # 0 /\ DOMAIN f = 1..Len(f)
          BY <4>3
        <5>2. 1 \in DOMAIN f
          BY <5>1
        <5>. QED  BY <5>2 DEF Elements
      <4>5. Elements(<<>>) = {}
        BY DEF Elements
      <4>. QED  BY <4>3, <4>4, <4>5
    <3>4. e.id \in Elements(available)
      BY <1>12, <3>3, ToSetIs DEF Roster!Visible
    <3>. QED  BY <1>5, <3>2, <3>4, ToSetIs DEF Roster!Visible
  <2>. QED  BY <2>1, <2>2
<1>. QED  BY <1>1, <1>11, <1>12

\* After any series of merges and of the user's own changes, the lists of
\* ZCode refer only to providers there are, and the entries that call the
\* gateway are the ones chosen last, in both clients (_merge_zcode_payload,
\* _workbuddy_merged_payload).
THEOREM ListsAgreeAlways == Roster!ListNames => (Roster!Spec =>
                              [](Roster!TypeOK /\ Roster!NoDangling /\ Roster!ExactlyChosen))
<1>. SUFFICES ASSUME Roster!ListNames PROVE Roster!Spec =>
                       [](Roster!TypeOK /\ Roster!NoDangling /\ Roster!ExactlyChosen)
  OBVIOUS
<1>1. Roster!Init => LInv
  BY LInit
<1>2. LInv /\ [Roster!Next]_(Roster!vars) => LInv'
  BY LStep
<1>3. LInv => Roster!TypeOK /\ Roster!NoDangling /\ Roster!ExactlyChosen
  BY ListsHold
<1>. QED  BY <1>1, <1>2, <1>3, PTL DEF Roster!Spec

\* No merge takes away a provider or a model of the user's, hides one of his
\* models or changes his default.
THEOREM UsersStayAlways == Roster!ListNames => (Roster!Spec => Roster!UsersStay)
<1>. SUFFICES ASSUME Roster!ListNames PROVE Roster!Spec => Roster!UsersStay
  OBVIOUS
<1>. DEFINE Kept ==
       /\ \A x \in DOMAIN rules : ~Roster!ZcodeOurs(rules[x]) /\ rules[x].id \in UserNames =>
            rules[x] \in Roster!ToSet(rules') /\ (default = rules[x].id => default' = default)
       /\ \A x \in DOMAIN models : models[x].url = "theirs" /\ models[x].id \in UserNames =>
            models[x] \in Roster!ToSet(models')
              /\ (Roster!Visible(models[x].id, available) => Roster!Visible(models[x].id, available'))
<1>1. Roster!Init => LInv
  BY LInit
<1>2. LInv /\ [Roster!Next]_(Roster!vars) => LInv'
  BY LStep
<1>3. LInv /\ [Roster!Next]_(Roster!vars) => [merged' # <<>> => Kept]_(Roster!vars)
  <2>. SUFFICES ASSUME LInv, Roster!Next, merged' # <<>> PROVE Kept
    OBVIOUS
  <2>1. PICK slugs \in Roster!Selections : Roster!Merge(slugs)
    BY DEF Roster!Next, Roster!AddProvider, Roster!AddModel
  <2>2. \A x \in DOMAIN rules : ~Roster!ZcodeOurs(rules[x]) /\ rules[x].id \in UserNames =>
          rules[x] \in Roster!ToSet(rules') /\ (default = rules[x].id => default' = default)
    BY <2>1, ProvidersStay
  <2>3. \A x \in DOMAIN models : models[x].url = "theirs" /\ models[x].id \in UserNames =>
          models[x] \in Roster!ToSet(models')
            /\ (Roster!Visible(models[x].id, available) => Roster!Visible(models[x].id, available'))
    BY <2>1, ModelsStay
  <2>. QED  BY <2>2, <2>3
<1>. QED  BY <1>1, <1>2, <1>3, PTL DEF Roster!Spec, Roster!UsersStay
=============================================================================
