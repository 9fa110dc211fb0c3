------------------------------- MODULE PriceBook -------------------------------
(***************************************************************************)
(* What a call costs: the price rows and the settings of the console, and  *)
(* the copies of both that a reservation takes and a settlement uses.      *)
(* src/app/billing.py, src/app/wallet_engine.py.                           *)
(*                                                                         *)
(* reserve() reads the settings, then the price under one name after the   *)
(* other, each in an operation of its own, and the console works between   *)
(* them.  A rate of 0 stands for a column that is NULL; the wallet itself  *)
(* (what a key can afford) is the business of Wallet.                      *)
(***************************************************************************)
EXTENDS Integers, Sequences, FiniteSets

CONSTANTS Models, Names,      \* Names[m]: the rows _price_names(m) asks for, in order
          Catalog,            \* the official price of each model in the shipped file, or 0
          MaxRate, MaxFactor, Budget,
          Buyers, Admins      \* the calls, and who edits the settings

ASSUME BoundsAssumption ==
  /\ {MaxRate, MaxFactor, Budget} \subseteq Nat \ {0}
  /\ Names \in [Models -> Seq(Models)] /\ \A m \in Models : Names[m] # <<>>
  /\ Catalog \in [Models -> 0..MaxRate]

VARIABLES
  price,     \* model_official_prices
  conf,      \* billing_settings
  edits,     \* update_settings() between its read and its write, by administrator
  asked,     \* what the administrators last asked the settings to be
  contested, \* whether two of them were ever at it together
  hand,      \* the last price an administrator set by hand, per model
  bills      \* a call's reservation: its copies, and what it paid

vars == <<price, conf, edits, asked, contested, hand, bills>>

Kinds == {"text", "image"}
NoRow == [st |-> "none", src |-> "catalog", kind |-> "text", rate |-> [k \in Kinds |-> 0], factor |-> 0]
Rows == [st : {"none", "active", "disabled"}, src : {"catalog", "manual"}, kind : Kinds,
         rate : [Kinds -> 0..MaxRate], factor : 0..MaxFactor]
Confs == [factor : 1..MaxFactor, credit : 0..1]
NoEdit == [on |-> FALSE, conf |-> [factor |-> 1, credit |-> 0]]
NoBill(m) == [st |-> "none", model |-> m, at |-> 1, row |-> NoRow, conf |-> [factor |-> 1, credit |-> 0],
              told |-> 0, used |-> 0, charged |-> 0]

TypeOK ==
  /\ price \in [Models -> Rows] /\ conf \in Confs /\ asked \in Confs /\ contested \in BOOLEAN
  /\ edits \in [Admins -> [on : BOOLEAN, conf : Confs]]
  /\ hand \in [Models -> [kind : Kinds, rate : 0..MaxRate]]
  /\ \A c \in Buyers :
       /\ bills[c].st \in {"none", "asking", "priced", "held", "settled", "refused"}
       /\ bills[c].row \in Rows /\ bills[c].conf \in Confs
       /\ bills[c].at \in DOMAIN Names[bills[c].model] /\ bills[c].charged \in 0..Budget

Init ==
  /\ price = [m \in Models |-> NoRow] /\ conf = [factor |-> 1, credit |-> 0] /\ asked = conf
  /\ contested = FALSE /\ edits = [a \in Admins |-> NoEdit]
  /\ hand = [m \in Models |-> [kind |-> "text", rate |-> 0]]
  /\ bills \in [Buyers -> {NoBill(m) : m \in Models}]
Complete(row) == row.st = "active" /\ row.rate[row.kind] # 0
Factor(row, config) == IF row.factor # 0 THEN row.factor ELSE config.factor
Quote(row, config, used) == IF row.st = "active" THEN row.rate[row.kind] * Factor(row, config) * used ELSE 0
Least(i, j) == IF i < j THEN i ELSE j

-----------------------------------------------------------------------------
(* The console.                                                            *)

\* sync_official_prices(): every model of the file, but those priced by hand.
Official(m, row) ==
  [row EXCEPT !.st = IF @ = "none" THEN "active" ELSE @, !.kind = "text", !.src = "catalog",
              !.rate = [k \in Kinds |-> IF k = "text" THEN Catalog[m] ELSE 0]]
SyncsAll(m) == Catalog[m] # 0
Syncs(m) == Catalog[m] # 0 /\ price[m].src # "manual"
Synced == [m \in Models |-> IF Syncs(m) THEN Official(m, price[m]) ELSE price[m]]
Sync == price' = Synced /\ UNCHANGED <<conf, edits, asked, contested, hand, bills>>

\* update_price_overrides() with an official price: complete, or refused.
SetOfficial(m, kind, rate) ==
  LET old == price[m]
      row == [old EXCEPT !.st = IF @ = "none" THEN "active" ELSE @, !.kind = kind, !.rate[kind] = rate, !.src = "manual"]
  IN /\ Complete(row) /\ price' = [price EXCEPT ![m] = row]
     /\ hand' = [hand EXCEPT ![m] = [kind |-> kind, rate |-> rate]]
     /\ UNCHANGED <<conf, edits, asked, contested, bills>>
\* Without one it asks for a row, and not whether the row is complete after it.
SetOther(m, row) ==
  /\ price[m].st # "none" /\ price' = [price EXCEPT ![m] = row]
  /\ UNCHANGED <<conf, edits, asked, contested, hand, bills>>
SetFactor(m, factor) == SetOther(m, [price[m] EXCEPT !.factor = factor])
SetStatus(m, st) == SetOther(m, [price[m] EXCEPT !.st = st])
SetKind(m, kind) == SetOther(m, [price[m] EXCEPT !.kind = kind])

\* update_settings(): the columns that were not given are written back as they
\* were read (0 and 2 stand for a field that is not given).
EditBegin(a, factor, credit) ==
  LET given(old) == [factor |-> IF factor = 0 THEN old.factor ELSE factor,
                     credit |-> IF credit = 2 THEN old.credit ELSE credit]
  IN /\ ~edits[a].on /\ edits' = [edits EXCEPT ![a] = [on |-> TRUE, conf |-> given(conf)]]
     /\ asked' = given(asked) /\ contested' = (contested \/ \E b \in Admins : edits[b].on)
     /\ UNCHANGED <<price, conf, hand, bills>>
Written(a) == edits[a].conf
EditEnd(a) ==
  /\ edits[a].on /\ edits' = [edits EXCEPT ![a] = NoEdit] /\ conf' = Written(a)
  /\ UNCHANGED <<price, asked, contested, hand, bills>>

-----------------------------------------------------------------------------
(* A call.                                                                 *)

Set(c, bill) == bills' = [bills EXCEPT ![c] = bill] /\ UNCHANGED <<conf, edits, asked, contested, hand>>

\* The settings are read; an empty table is filled from the file first.
Reserve(c) ==
  /\ bills[c].st = "none"
  /\ price' = IF \A m \in Models : price[m].st = "none" THEN Synced ELSE price
  /\ Set(c, [bills[c] EXCEPT !.st = "asking", !.conf = conf])

\* get_price_row(): the first complete row among the names, one read each.
Row(c) == price[Names[bills[c].model][bills[c].at]]
Sells(row) == Complete(row)
Ask(c) ==
  /\ bills[c].st = "asking"
  /\ IF Sells(Row(c)) THEN Set(c, [bills[c] EXCEPT !.st = "priced", !.row = Row(c)])
     ELSE IF bills[c].at < Len(Names[bills[c].model]) THEN Set(c, [bills[c] EXCEPT !.at = @ + 1])
     ELSE Set(c, [bills[c] EXCEPT !.st = "refused"])
  /\ UNCHANGED price

\* The hold, which copies both; one picture must fit into the budget.
Least1(row) == IF row.kind = "image" THEN 1 ELSE 0
Hold(c) ==
  LET bill == bills[c]
  IN /\ bill.st = "priced"
     /\ IF Quote(bill.row, bill.conf, Least1(bill.row)) > Budget THEN Set(c, [bill EXCEPT !.st = "refused"])
        ELSE Set(c, [bill EXCEPT !.st = "held", !.told = bill.row.rate[bill.row.kind] * Factor(bill.row, bill.conf)])
     /\ UNCHANGED price

\* _prepare_budget() asks for the price again before every attempt: a call
\* whose model lost its price meanwhile goes no further, and pays nothing.
Loses(c) ==
  /\ bills[c].st = "held" /\ \A i \in DOMAIN Names[bills[c].model] : ~Complete(price[Names[bills[c].model][i]])
  /\ Set(c, [bills[c] EXCEPT !.st = "refused"]) /\ UNCHANGED price
Cost(c, used) == Quote(bills[c].row, bills[c].conf, used)
Settle(c, used) ==
  /\ bills[c].st = "held"
  /\ Set(c, [bills[c] EXCEPT !.st = "settled", !.used = used, !.charged = Least(Cost(c, used), Budget)])
  /\ UNCHANGED price

Next ==
  \/ Sync
  \/ \E m \in Models :
       \/ \E kind \in Kinds, rate \in 0..MaxRate : SetOfficial(m, kind, rate)
       \/ \E factor \in 0..MaxFactor : SetFactor(m, factor)
       \/ \E st \in {"active", "disabled"} : SetStatus(m, st)
       \/ \E kind \in Kinds : SetKind(m, kind)
  \/ \E a \in Admins : EditEnd(a) \/ \E factor \in 0..MaxFactor, credit \in 0..2 : EditBegin(a, factor, credit)
  \/ \E c \in Buyers : Reserve(c) \/ Ask(c) \/ Hold(c) \/ Loses(c) \/ \E used \in 1..2 : Settle(c, used)

Spec == Init /\ [][Next]_vars

-----------------------------------------------------------------------------
(* What must hold.                                                         *)

\* A call pays at the price it was held at, up to its hold, whatever the
\* console has synchronised, repriced or switched off while it ran.
PricedWhenHeld ==
  \A c \in Buyers : bills[c].st = "settled" => bills[c].charged = Least(bills[c].told * bills[c].used, Budget)

\* A model is never served for nothing: what was used has cost something, also
\* when its row became incomplete between the console's look and the call's.
NothingForFree == \A c \in Buyers : bills[c].st = "settled" => bills[c].charged > 0

\* The price that an administrator set by hand stands through every
\* synchronisation, until the administrator sets another.
HandPriceStands == \A m \in Models : hand[m].rate # 0 => price[m].rate[hand[m].kind] = hand[m].rate

\* The settings are what the administrators asked for, field by field, when no
\* two of them were at work at the same time.
EditStands == ~contested /\ (\A a \in Admins : ~edits[a].on) => conf = asked

\* What is paid is what was quoted, what is quoted is never nothing, and what
\* the console was told stands (reserve, settle, sync_official_prices,
\* update_settings).
PricesHold == PricedWhenHeld /\ NothingForFree /\ HandPriceStands /\ EditStands
=============================================================================
