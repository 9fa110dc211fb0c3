------------------------------ MODULE CardProofs ------------------------------
(***************************************************************************)
(* Theorems about Cards for any cards, users, networks, limits, messages   *)
(* and clocks.                                                             *)
(* After them follow those about a conversation's history (History).       *)
(*                                                                         *)
(* A code is looked up in another transaction than the one that counts the *)
(* attempt, so that the limit holds of what is looked up needs to know how *)
(* many counted calls are still under way (Attempted).  That a message is  *)
(* taken a whole window apart needs to know that its nonce is remembered   *)
(* for as long (Remembered).                                               *)
(***************************************************************************)
EXTENDS Cards, FiniteSetTheorems, SequenceTheorems, WellFoundedInduction, TLAPS

Finite == IsFiniteSet(calls)

\* The attempts of a user on a day, and those of its calls that have been
\* counted on it and did not yet look their code up.
Rows(u, d) == {u} \X Nets \X {d}
NetRows(n, d) == Users \X {n} \X {d}
Waiting(cs, u, d) == {c \in cs : c.counted /\ c.user = u /\ Day(c.at) = d}

Attempted ==
  \A u \in Users, d \in Days : looked[<<u, d>>] + Cardinality(Waiting(calls, u, d)) <= Total(tried, Rows(u, d))
UserBounded == \A u \in Users, d \in Days : Total(tried, Rows(u, d)) <= Limit

\* A message that was taken is remembered for the whole window.
Remembered ==
  \A m \in Messages : \A i \in DOMAIN taken[m] :
    /\ taken[m][i] <= clock
    /\ taken[m][i] >= clock - 4 * Skew => \E n \in nonces : n.nonce = m.nonce /\ n.at >= taken[m][i]

CInv ==
  /\ TypeOK /\ Finite
  /\ CardPaysOnce /\ CreditOnce
  /\ Attempted /\ UserBounded /\ NetworkBounded
  /\ Remembered /\ NonceHolds

\* The constants that are numbers.
LEMMA Numbers ==
  /\ Limit \in Nat /\ NetLimit \in Nat /\ Skew \in Nat /\ MaxTime \in Nat
  /\ MaxCalls \in Nat /\ MaxTries \in Nat /\ DayLength \in Nat /\ DayLength > 0
BY BoundsAssumption

-----------------------------------------------------------------------------
(* Counting rows (Total of Collections).                                          *)

\* The rows of a finite set of places are finitely many.
LEMMA RowsFinite ==
  ASSUME NEW S, IsFiniteSet(S), NEW f, \A x \in S : f[x] \in 0..MaxTries
  PROVE  IsFiniteSet(Units(f, S)) /\ Total(f, S) \in Nat
<1>1. Units(f, S) \subseteq S \X (1..MaxTries)
  BY BoundsAssumption DEF Units
<1>2. IsFiniteSet(1..MaxTries)
  BY BoundsAssumption, FS_Interval
<1>3. IsFiniteSet(S \X (1..MaxTries))
  BY <1>2, FS_Product
<1>4. IsFiniteSet(Units(f, S))
  BY <1>1, <1>3, FS_Subset
<1>. QED  BY <1>4, FS_CardinalityType DEF Total

\* Fewer places have no more rows.
LEMMA RowsSubset ==
  ASSUME NEW S, IsFiniteSet(S), NEW f, \A x \in S : f[x] \in 0..MaxTries, NEW T \in SUBSET S
  PROVE  Total(f, T) <= Total(f, S)
<1>1. Units(f, T) \subseteq Units(f, S)
  BY DEF Units
<1>2. IsFiniteSet(Units(f, S))
  BY RowsFinite
<1>. QED  BY <1>1, <1>2, FS_Subset DEF Total

\* One row more at y: the places that contain y have one more, the others as
\* many as before.
LEMMA OneRowMore ==
  ASSUME NEW S, IsFiniteSet(S), NEW f, \A x \in S : f[x] \in 0..MaxTries,
         NEW y, NEW g, \A x \in S : x # y => g[x] = f[x], y \in S => g[y] = f[y] + 1
  PROVE  /\ y \in S => Total(g, S) = Total(f, S) + 1
         /\ y \notin S => Total(g, S) = Total(f, S)
<1>. DEFINE new == <<y, f[y] + 1>>
<1>0. \A x \in S : f[x] \in Nat
  BY BoundsAssumption
<1>1. CASE y \notin S
  <2>1. \A x \in S : g[x] = f[x]
    BY <1>1
  <2>2. Units(g, S) = Units(f, S)
    BY <2>1 DEF Units
  <2>. QED  BY <1>1, <2>2 DEF Total
<1>2. CASE y \in S
  <2>1. \A x \in S : x # y => g[x] = f[x]
    OBVIOUS
  <2>2. g[y] = f[y] + 1
    BY <1>2
  <2>3. 1..(f[y] + 1) = (1..f[y]) \cup {f[y] + 1}
    BY <1>0, <1>2
  <2>4. Units(g, S) = Units(f, S) \cup {new}
    <3>1. ASSUME NEW x \in S, NEW i PROVE i \in 1..g[x] <=> (i \in 1..f[x] \/ <<x, i>> = new)
      BY <2>1, <2>2, <2>3
    <3>2. \A p \in Units(g, S) \cup Units(f, S) : p = <<p[1], p[2]>>
      BY DEF Units
    <3>3. \A x, i : <<x, i>> \in Units(g, S) <=> x \in S /\ i \in 1..g[x]
      BY DEF Units
    <3>4. \A x, i : <<x, i>> \in Units(f, S) <=> x \in S /\ i \in 1..f[x]
      BY DEF Units
    <3>5. \A x, i : <<x, i>> \in Units(g, S) <=> <<x, i>> \in Units(f, S) \/ <<x, i>> = new
      BY <1>2, <3>1, <3>3, <3>4
    <3>6. ASSUME NEW p \in Units(g, S) \cup Units(f, S) PROVE p \in Units(g, S) <=> p \in Units(f, S) \cup {new}
      <4>1. p = <<p[1], p[2]>>
        BY <3>2
      <4>. HIDE DEF new
      <4>. QED  BY <3>5, <4>1
    <3>7. new \in Units(g, S)
      BY <3>5
    <3>. HIDE DEF new
    <3>. QED  BY <3>6, <3>7
  <2>5. new \notin Units(f, S)
    BY <1>0 DEF Units
  <2>6. IsFiniteSet(Units(f, S))
    BY RowsFinite
  <2>7. Cardinality(Units(f, S) \cup {new}) = Cardinality(Units(f, S)) + 1
    BY <2>5, <2>6, FS_AddElement
  <2>. QED  BY <1>2, <2>4, <2>7 DEF Total
<1>. QED  BY <1>1, <1>2

\* Three finite sets have finitely many triples.
LEMMA TriplesFinite ==
  ASSUME NEW A, NEW B, NEW C, IsFiniteSet(A), IsFiniteSet(B), IsFiniteSet(C)
  PROVE  IsFiniteSet(A \X B \X C)
<1>. DEFINE pairs == (A \X B) \X C
            f == [p \in pairs |-> <<p[1][1], p[1][2], p[2]>>]
<1>1. IsFiniteSet(pairs)
  BY FS_Product
<1>2. f \in [pairs -> A \X B \X C]
  OBVIOUS
<1>3. \A t \in A \X B \X C : \E p \in pairs : f[p] = t
  <2>1. TAKE t \in A \X B \X C
  <2>2. <<<<t[1], t[2]>>, t[3]>> \in pairs
    OBVIOUS
  <2>3. f[<<<<t[1], t[2]>>, t[3]>>] = t
    OBVIOUS
  <2>. QED  BY <2>2, <2>3
<1>4. f \in Surjection(pairs, A \X B \X C)
  BY <1>2, <1>3 DEF Surjection
<1>. QED  BY <1>1, <1>4, FS_Surjection

\* The day of a time is a day.
LEMMA DayOfTime ==
  ASSUME NEW t \in 0..MaxTime
  PROVE  Day(t) \in Days
<1>1. DayLength \in Nat /\ DayLength > 0 /\ MaxTime \in Nat /\ t \in Nat /\ t <= MaxTime
  BY BoundsAssumption
<1>. DEFINE q == t \div DayLength
            w == MaxTime \div DayLength
<1>2. q \in Nat /\ w \in Nat
  BY <1>1
<1>3. q <= w
  <2>1. t = DayLength * q + (t % DayLength) /\ (t % DayLength) \in 0..(DayLength - 1)
    BY <1>1
  <2>2. MaxTime = DayLength * w + (MaxTime % DayLength) /\ (MaxTime % DayLength) \in 0..(DayLength - 1)
    BY <1>1
  <2>. QED  BY <1>1, <1>2, <2>1, <2>2
<1>. QED  BY <1>2, <1>3 DEF Day, Days

\* There are finitely many days, and so finitely many places of attempts.
LEMMA PlacesFinite ==
  /\ \A u \in Users, n \in Nets, d \in Days :
       /\ Rows(u, d) \subseteq Users \X Nets \X Days /\ IsFiniteSet(Rows(u, d))
       /\ NetRows(n, d) \subseteq Users \X Nets \X Days /\ IsFiniteSet(NetRows(n, d))
  /\ IsFiniteSet(Users \X Nets \X Days)
<1>1. IsFiniteSet(Days)
  <2>1. MaxTime \in 0..MaxTime
    BY BoundsAssumption
  <2>2. Day(MaxTime) \in Days
    BY <2>1, DayOfTime
  <2>3. Day(MaxTime) \in Int
    BY BoundsAssumption DEF Day
  <2>. QED  BY <2>3, FS_Interval DEF Days
<1>2. IsFiniteSet(Users \X Nets \X Days)
  BY <1>1, NamesAssumption, TriplesFinite
<1>3. ASSUME NEW u \in Users, NEW n \in Nets, NEW d \in Days
      PROVE  /\ Rows(u, d) \subseteq Users \X Nets \X Days
             /\ NetRows(n, d) \subseteq Users \X Nets \X Days
  BY DEF Rows, NetRows
<1>. QED  BY <1>2, <1>3, FS_Subset

-----------------------------------------------------------------------------
(* Types.                                                                  *)

\* A call that was not counted becomes one that was.
LEMMA CountedCall ==
  ASSUME NEW c \in Calls
  PROVE  LET d == [c EXCEPT !.counted = TRUE]
         IN  /\ d \in Calls /\ d.counted = TRUE
             /\ d.user = c.user /\ d.net = c.net /\ d.code = c.code /\ d.at = c.at
BY DEF Calls

LEMMA InitHolds == Init => CInv
<1>. SUFFICES ASSUME Init PROVE CInv
  OBVIOUS
<1>. USE DEF Init
<1>1. Finite /\ Cardinality(calls) = 0
  BY FS_EmptySet DEF Finite
<1>2. TypeOK
  BY <1>1, BoundsAssumption DEF TypeOK, Credit
<1>3. CardPaysOnce /\ CreditOnce
  BY DEF CardPaysOnce, CreditOnce
<1>4. ASSUME NEW S PROVE Units(tried, S \cap (Users \X Nets \X Days)) = {}
  BY DEF Units
<1>5. \A u \in Users, n \in Nets, d \in Days :
        Total(tried, Rows(u, d)) = 0 /\ Total(tried, NetRows(n, d)) = 0
  <2>1. TAKE u \in Users, n \in Nets, d \in Days
  <2>2. /\ Rows(u, d) \cap (Users \X Nets \X Days) = Rows(u, d)
        /\ NetRows(n, d) \cap (Users \X Nets \X Days) = NetRows(n, d)
    BY PlacesFinite
  <2>3. Units(tried, Rows(u, d)) = {} /\ Units(tried, NetRows(n, d)) = {}
    BY <1>4, <2>2
  <2>. QED  BY <2>3, FS_EmptySet DEF Total
<1>6. \A u \in Users, d \in Days : Cardinality(Waiting(calls, u, d)) = 0
  BY FS_EmptySet DEF Waiting
<1>7. ASSUME NEW u \in Users, NEW d \in Days
      PROVE  /\ looked[<<u, d>>] = 0 /\ Cardinality(Waiting(calls, u, d)) = 0
             /\ Total(tried, Rows(u, d)) = 0
  <2>1. looked[<<u, d>>] = 0
    OBVIOUS
  <2>2. CASE Nets = {}
    <3>1. Units(tried, Rows(u, d)) = {}
      BY <2>2 DEF Units, Rows
    <3>. QED  BY <2>1, <1>6, <3>1, FS_EmptySet DEF Total
  <2>3. CASE Nets # {}
    BY <1>5, <1>6, <2>1, <2>3
  <2>. QED  BY <2>2, <2>3
<1>10. Attempted
  <2>1. ASSUME NEW u \in Users, NEW d \in Days
        PROVE  looked[<<u, d>>] + Cardinality(Waiting(calls, u, d)) <= Total(tried, Rows(u, d))
    <3>. DEFINE a == looked[<<u, d>>]
                b == Cardinality(Waiting(calls, u, d))
                t == Total(tried, Rows(u, d))
    <3>1. a = 0 /\ b = 0 /\ t = 0
      BY <1>7
    <3>. HIDE DEF a, b, t
    <3>2. a + b <= t
      BY <3>1
    <3>. QED  BY <3>2 DEF a, b, t
  <2>. QED  BY <2>1 DEF Attempted
<1>11. UserBounded
  <2>1. ASSUME NEW u \in Users, NEW d \in Days PROVE Total(tried, Rows(u, d)) <= Limit
    <3>. DEFINE t == Total(tried, Rows(u, d))
    <3>1. t = 0
      BY <1>7
    <3>. HIDE DEF t
    <3>2. t <= Limit
      BY <3>1, Numbers
    <3>. QED  BY <3>2 DEF t
  <2>. QED  BY <2>1 DEF UserBounded
<1>8. NetworkBounded
  <2>. SUFFICES ASSUME NEW net \in Nets, NEW d \in Days
                PROVE  Total(tried, Users \X {net} \X {d}) <= NetLimit
    BY DEF NetworkBounded
  <2>1. CASE Users = {}
    <3>1. Units(tried, Users \X {net} \X {d}) = {}
      BY <2>1 DEF Units
    <3>2. Total(tried, Users \X {net} \X {d}) = 0
      BY <3>1, FS_EmptySet DEF Total
    <3>. QED  BY <3>2, Numbers
  <2>2. CASE Users # {}
    <3>1. Total(tried, NetRows(net, d)) = 0
      BY <1>5, <2>2
    <3>. QED  BY <3>1, Numbers DEF NetRows
  <2>. QED  BY <2>1, <2>2
<1>9. Remembered /\ NonceHolds
  BY DEF Remembered, NonceHolds
<1>. QED  BY <1>1, <1>2, <1>3, <1>10, <1>11, <1>8, <1>9 DEF CInv

\* What each step does to the calls at work.
LEMMA CallsStep ==
  ASSUME TypeOK, Finite, [Next]_vars
  PROVE  Finite' /\ calls' \subseteq Calls /\ Cardinality(calls') <= MaxCalls
<1>1. CASE calls' \subseteq calls
  BY <1>1, FS_Subset, FS_CardinalityType, BoundsAssumption DEF TypeOK, Finite
<1>2. ASSUME NEW user \in Users, NEW net \in Nets, NEW code \in Cards \cup {Wrong}, Redeem(user, net, code)
      PROVE  Finite' /\ calls' \subseteq Calls /\ Cardinality(calls') <= MaxCalls
  <2>. DEFINE call == [user |-> user, net |-> net, code |-> code, at |-> clock, counted |-> FALSE]
  <2>1. call \in Calls
    BY DEF Calls, TypeOK
  <2>2. calls' = calls \cup {call} /\ call \notin calls /\ Cardinality(calls) < MaxCalls
    BY <1>2 DEF Redeem
  <2>3. IsFiniteSet(calls') /\ Cardinality(calls') = Cardinality(calls) + 1 /\ Cardinality(calls) \in Nat
    <3>. HIDE DEF call
    <3>. QED  BY <2>2, FS_AddElement, FS_CardinalityType DEF Finite
  <2>4. Cardinality(calls') <= MaxCalls
    <3>. DEFINE size == Cardinality(calls)
    <3>1. size \in Nat /\ size < MaxCalls /\ Cardinality(calls') = size + 1
      BY <2>2, <2>3
    <3>. HIDE DEF size
    <3>. QED  BY <3>1, Numbers
  <2>5. calls' \subseteq Calls
    BY <2>1, <2>2 DEF TypeOK
  <2>. QED  BY <2>3, <2>4, <2>5 DEF Finite
<1>3. ASSUME NEW call \in calls, Reserve(call)
      PROVE  Finite' /\ calls' \subseteq Calls /\ Cardinality(calls') <= MaxCalls
  <2>1. CASE Refuses(call)
    BY <1>1, <1>3, <2>1 DEF Reserve
  <2>2. CASE ~Refuses(call)
    <3>. DEFINE then == [call EXCEPT !.counted = TRUE]
    <3>1. calls' = (calls \ {call}) \cup {then}
      BY <1>3, <2>2 DEF Reserve, Stays
    <3>2. then \in Calls
      BY CountedCall DEF TypeOK
    <3>. HIDE DEF then
    <3>3. /\ IsFiniteSet(calls \ {call}) /\ Cardinality(calls \ {call}) = Cardinality(calls) - 1
          /\ Cardinality(calls) \in Nat
      BY FS_RemoveElement, FS_CardinalityType DEF Finite
    <3>4. /\ IsFiniteSet(calls')
          /\ Cardinality(calls') = Cardinality(calls \ {call}) \/ Cardinality(calls') = Cardinality(calls \ {call}) + 1
      BY <3>1, <3>3, FS_AddElement
    <3>5. Cardinality(calls') <= MaxCalls
      <4>. DEFINE size == Cardinality(calls)
                  rest == Cardinality(calls \ {call})
                  next == Cardinality(calls')
      <4>1. size \in Nat /\ size <= MaxCalls /\ rest = size - 1 /\ (next = rest \/ next = rest + 1)
        BY <3>3, <3>4 DEF TypeOK
      <4>. HIDE DEF size, rest, next
      <4>2. next <= MaxCalls
        BY <4>1, Numbers
      <4>. QED  BY <4>2 DEF next
    <3>6. calls' \subseteq Calls
      BY <3>1, <3>2 DEF TypeOK
    <3>. QED  BY <3>4, <3>5, <3>6 DEF Finite
  <2>. QED  BY <2>1, <2>2
<1>4. CASE UNCHANGED calls
  BY <1>1, <1>4
<1>. QED  BY <1>1, <1>2, <1>3, <1>4 DEF Next, vars, Tick, Restart, CreateBatch, Disable, LoseWallet, Pays, Fails,
            Ends, Receive, Refuse, Take

LEMMA TypesStep ==
  ASSUME TypeOK, Finite, [Next]_vars
  PROVE  TypeOK' /\ Finite'
<1>0. Finite' /\ calls' \subseteq Calls /\ Cardinality(calls') <= MaxCalls
  BY CallsStep
<1>1. clock' \in 0..MaxTime
  <2>1. CASE Tick
    BY <2>1, Numbers DEF Tick, TypeOK
  <2>2. CASE UNCHANGED clock
    BY <2>2 DEF TypeOK
  <2>. QED  BY <2>1, <2>2 DEF Next, vars, Restart, CreateBatch, Disable, LoseWallet, Redeem, Reserve, Pays,
     Fails, RolledBack, Receive, Refuse, Take
<1>2. card' \in [Cards -> [st : {"none", "unused", "redeemed", "disabled", "expired"}, expiry : Expiries \cup {Never}]]
  <2>. DEFINE T == [st : {"none", "unused", "redeemed", "disabled", "expired"}, expiry : Expiries \cup {Never}]
  <2>0. card \in [Cards -> T]
    BY DEF TypeOK
  <2>1. ASSUME NEW batch \in SUBSET Cards, NEW expiry \in Expiries \cup {Never}, CreateBatch(batch, expiry)
        PROVE  card' \in [Cards -> T]
    BY <2>0, <2>1 DEF CreateBatch
  <2>2. ASSUME NEW c \in Cards, Disable(c) PROVE card' \in [Cards -> T]
    BY <2>0, <2>2 DEF Disable
  <2>3. ASSUME NEW call \in calls, Pays(call) PROVE card' \in [Cards -> T]
    BY <2>0, <2>3 DEF Pays
  <2>4. CASE UNCHANGED card
    BY <2>0, <2>4
  <2>. QED  BY <2>1, <2>2, <2>3, <2>4 DEF Next, vars, Tick, Restart, LoseWallet, Redeem, Reserve,
     Fails, RolledBack, Receive, Refuse, Take
<1>3. tried' \in [Users \X Nets \X Days -> 0..MaxTries]
  <2>1. ASSUME NEW call \in calls, Reserve(call) PROVE tried' \in [Users \X Nets \X Days -> 0..MaxTries]
    <3>. DEFINE place == <<call.user, call.net, Day(call.at)>>
    <3>1. CASE tried' = tried
      BY <3>1 DEF TypeOK
    <3>2. CASE tried[place] < MaxTries /\ tried' = [tried EXCEPT ![place] = @ + 1]
      <4>1. call \in Calls
        BY DEF TypeOK
      <4>2. place \in Users \X Nets \X Days
        BY <4>1, DayOfTime DEF Calls
      <4>3. tried[place] \in 0..MaxTries
        BY <4>2 DEF TypeOK
      <4>. HIDE DEF place
      <4>4. tried[place] + 1 \in 0..MaxTries
        BY <3>2, <4>3, BoundsAssumption
      <4>. QED  BY <3>2, <4>4 DEF TypeOK
    <3>. QED  BY <2>1, <3>1, <3>2 DEF Reserve
  <2>2. CASE UNCHANGED tried
    BY <2>2 DEF TypeOK
  <2>. QED  BY <2>1, <2>2 DEF Next, vars, Tick, Restart, CreateBatch, Disable, LoseWallet, Redeem, Pays,
     Fails, RolledBack, Receive, Refuse, Take
<1>4. looked' \in [Users \X Days -> 0..MaxTries]
  <2>1. ASSUME NEW call \in calls, Ends(call), Looks(call) PROVE looked' \in [Users \X Days -> 0..MaxTries]
    <3>. DEFINE place == <<call.user, Day(call.at)>>
    <3>1. call \in Calls
      BY DEF TypeOK
    <3>2. place \in Users \X Days
      BY <3>1, DayOfTime DEF Calls
    <3>3. looked[place] < MaxTries /\ looked' = [looked EXCEPT ![place] = @ + 1]
      BY <2>1 DEF Ends, Looks
    <3>4. looked[place] \in 0..MaxTries
      BY <3>2 DEF TypeOK
    <3>. HIDE DEF place
    <3>5. looked[place] + 1 \in 0..MaxTries
      BY <3>3, <3>4, BoundsAssumption
    <3>. QED  BY <3>3, <3>5 DEF TypeOK
  <2>2. CASE UNCHANGED looked
    BY <2>2 DEF TypeOK
  <2>. QED  BY <2>1, <2>2 DEF Next, vars, Tick, Restart, CreateBatch, Disable, LoseWallet, Redeem, Reserve, Pays,
     Fails, Receive, Refuse, Take
<1>5. mail' \subseteq Messages /\ owned' \subseteq Users
  BY DEF TypeOK, Next, vars, Tick, Restart, CreateBatch, Disable, LoseWallet, Redeem, Reserve, Pays,
     Fails, RolledBack, Receive, Refuse, Take
<1>6. /\ nonces' \subseteq [nonce : {m.nonce : m \in Messages}, at : 0..MaxTime]
      /\ taken' \in [Messages -> Seq(0..MaxTime)]
  <2>1. ASSUME NEW m \in Messages, Take(m)
        PROVE  /\ nonces' \subseteq [nonce : {x.nonce : x \in Messages}, at : 0..MaxTime]
               /\ taken' \in [Messages -> Seq(0..MaxTime)]
    BY <2>1 DEF TypeOK, Take
  <2>2. CASE UNCHANGED <<nonces, taken>>
    BY <2>2 DEF TypeOK
  <2>. QED  BY <2>1, <2>2 DEF Next, vars, Tick, Restart, CreateBatch, Disable, LoseWallet, Redeem, Reserve, Pays,
     Fails, RolledBack, Receive, Refuse
<1>7. paid' \in [Cards \cup Idems -> Seq([user : Users, at : 0..MaxTime])]
  <2>1. ASSUME NEW call \in calls, Pays(call) PROVE paid' \in [Cards \cup Idems -> Seq([user : Users, at : 0..MaxTime])]
    <3>1. call.user \in Users /\ call.at \in 0..MaxTime /\ call.code \in Cards
      BY <2>1 DEF TypeOK, Calls, Pays, Payable
    <3>2. Credit(call.user, call.at) \in [user : Users, at : 0..MaxTime]
      BY <3>1 DEF Credit
    <3>3. paid[call.code] \in Seq([user : Users, at : 0..MaxTime])
      BY <3>1 DEF TypeOK
    <3>4. Append(paid[call.code], Credit(call.user, call.at)) \in Seq([user : Users, at : 0..MaxTime])
      BY <3>2, <3>3
    <3>. QED  BY <2>1, <3>4 DEF Pays, TypeOK
  <2>2. ASSUME NEW m \in Messages, Take(m) PROVE paid' \in [Cards \cup Idems -> Seq([user : Users, at : 0..MaxTime])]
    <3>1. Credit(m.user, clock) \in [user : Users, at : 0..MaxTime]
      BY NamesAssumption DEF Credit, TypeOK
    <3>2. paid[m.idem] \in Seq([user : Users, at : 0..MaxTime])
      BY DEF TypeOK, Idems
    <3>3. Append(paid[m.idem], Credit(m.user, clock)) \in Seq([user : Users, at : 0..MaxTime])
      BY <3>1, <3>2
    <3>. QED  BY <2>2, <3>3 DEF Take, TypeOK
  <2>3. CASE UNCHANGED paid
    BY <2>3 DEF TypeOK
  <2>. QED  BY <2>1, <2>2, <2>3 DEF Next, vars, Tick, Restart, CreateBatch, Disable, LoseWallet, Redeem, Reserve,
     Fails, RolledBack, Receive, Refuse
<1>. QED  BY <1>0, <1>1, <1>2, <1>3, <1>4, <1>5, <1>6, <1>7 DEF TypeOK

-----------------------------------------------------------------------------
(* Credits.                                                                *)

\* A card pays once, and what was switched off stays off.
LEMMA CardsStep ==
  ASSUME TypeOK, CardPaysOnce, [Next]_vars
  PROVE  /\ CardPaysOnce'
         /\ \A c \in Cards : card[c].st = "disabled" => card'[c].st = "disabled" /\ paid'[c] = paid[c]
<1>. DEFINE Once(c, k, p) == /\ Len(p) = IF k.st = "redeemed" THEN 1 ELSE 0
                             /\ \A i \in DOMAIN p : p[i].at < k.expiry
            Kept(c) == /\ Once(c, card'[c], paid'[c])
                       /\ card[c].st = "disabled" => card'[c].st = "disabled" /\ paid'[c] = paid[c]
<1>0. \A c \in Cards : Once(c, card[c], paid[c]) /\ paid[c] \in Seq([user : Users, at : 0..MaxTime])
  BY DEF CardPaysOnce, TypeOK
<1>. SUFFICES ASSUME NEW c \in Cards PROVE Kept(c)
  BY DEF CardPaysOnce
<1>1. CASE UNCHANGED <<card, paid>>
  BY <1>0, <1>1
<1>2. ASSUME NEW batch \in SUBSET Cards, NEW expiry \in Expiries \cup {Never}, CreateBatch(batch, expiry)
      PROVE  Kept(c)
  <2>1. CASE c \in batch
    <3>1. card[c].st = "none" /\ card'[c] = [st |-> "unused", expiry |-> expiry] /\ paid'[c] = paid[c]
      BY <1>2, <2>1 DEF CreateBatch
    <3>2. Len(paid[c]) = 0
      BY <1>0, <3>1
    <3>3. DOMAIN paid[c] = {}
      BY <1>0, <3>2
    <3>. QED  BY <3>1, <3>2, <3>3
  <2>2. CASE c \notin batch
    BY <1>0, <1>2, <2>2 DEF CreateBatch
  <2>. QED  BY <2>1, <2>2
<1>3. ASSUME NEW off \in Cards, Disable(off) PROVE Kept(c)
  <2>1. /\ paid' = paid /\ card[off].st \notin {"redeemed", "disabled"}
        /\ card' = [card EXCEPT ![off].st = "disabled"]
    BY <1>3 DEF Disable, MayDisable
  <2>2. card'[c].expiry = card[c].expiry /\ card'[c].st = IF c = off THEN "disabled" ELSE card[c].st
    BY <2>1 DEF TypeOK
  <2>. QED  BY <1>0, <2>1, <2>2
<1>4. ASSUME NEW call \in calls, Pays(call) PROVE Kept(c)
  <2>1. /\ call.code \in Cards /\ card[call.code].st = "unused" /\ card[call.code].expiry > call.at
        /\ card' = [card EXCEPT ![call.code].st = "redeemed"]
        /\ paid' = [paid EXCEPT ![call.code] = Append(@, Credit(call.user, call.at))]
    BY <1>4 DEF Pays, Payable
  <2>2. CASE c = call.code
    <3>1. card'[c].st = "redeemed" /\ card'[c].expiry = card[c].expiry
      BY <2>1, <2>2 DEF TypeOK
    <3>2. paid'[c] = Append(paid[c], Credit(call.user, call.at))
      BY <2>1, <2>2 DEF TypeOK
    <3>3. paid[c] \in Seq([user : Users, at : 0..MaxTime]) /\ Len(paid[c]) = 0
      BY <1>0, <2>1, <2>2
    <3>4. Len(paid'[c]) = 1 /\ DOMAIN paid'[c] = {1} /\ paid'[c][1] = Credit(call.user, call.at)
      BY <3>2, <3>3
    <3>5. paid'[c][1].at < card'[c].expiry
      BY <2>1, <2>2, <3>1, <3>4 DEF Credit, TypeOK, Calls
    <3>. QED  BY <2>1, <2>2, <3>1, <3>4, <3>5
  <2>3. CASE c # call.code
    BY <1>0, <2>1, <2>3 DEF TypeOK
  <2>. QED  BY <2>2, <2>3
<1>5. ASSUME NEW m \in Messages, Take(m) PROVE Kept(c)
  <2>1. card' = card /\ paid'[c] = paid[c]
    BY <1>5, NamesAssumption DEF Take, Idems, TypeOK
  <2>. QED  BY <1>0, <2>1
<1>. QED  BY <1>1, <1>2, <1>3, <1>4, <1>5 DEF Next, vars, Tick, Restart, LoseWallet, Redeem, Reserve,
            Fails, RolledBack, Receive, Refuse

\* An idempotency key is credited once.
LEMMA CreditStep ==
  ASSUME TypeOK, CreditOnce, [Next]_vars
  PROVE  CreditOnce'
<1>. SUFFICES ASSUME NEW idem \in Idems PROVE Len(paid'[idem]) <= 1
  BY DEF CreditOnce
<1>0. paid[idem] \in Seq([user : Users, at : 0..MaxTime]) /\ Len(paid[idem]) <= 1
  BY DEF TypeOK, CreditOnce
<1>1. CASE paid' = paid
  BY <1>0, <1>1
<1>2. ASSUME NEW call \in calls, Pays(call) PROVE Len(paid'[idem]) <= 1
  <2>1. paid'[idem] = paid[idem]
    BY <1>2, NamesAssumption DEF Pays, Payable, TypeOK
  <2>. QED  BY <1>0, <2>1
<1>3. ASSUME NEW m \in Messages, Take(m) PROVE Len(paid'[idem]) <= 1
  <2>1. CASE paid[m.idem] # <<>> \/ m.idem # idem
    <3>1. paid'[idem] = paid[idem]
      BY <1>3, <2>1 DEF Take, Repeats, TypeOK
    <3>. QED  BY <1>0, <3>1
  <2>2. CASE paid[m.idem] = <<>> /\ m.idem = idem
    <3>1. paid'[idem] = Append(<<>>, Credit(m.user, clock))
      BY <1>3, <2>2 DEF Take, Repeats, TypeOK
    <3>. QED  BY <3>1
  <2>. QED  BY <2>1, <2>2
<1>. QED  BY <1>1, <1>2, <1>3 DEF Next, vars, Tick, Restart, CreateBatch, Disable, LoseWallet, Redeem, Reserve,
            Fails, RolledBack, Receive, Refuse

\* The times at which a message was taken are times.
LEMMA TakenTimes ==
  ASSUME TypeOK, NEW m \in Messages
  PROVE  /\ taken[m] \in Seq(0..MaxTime) /\ Len(taken[m]) \in Nat /\ DOMAIN taken[m] = 1..Len(taken[m])
         /\ \A i \in 1..Len(taken[m]) : taken[m][i] \in Nat
<1>1. taken[m] \in Seq(0..MaxTime)
  BY DEF TypeOK
<1>2. Len(taken[m]) \in Nat /\ DOMAIN taken[m] = 1..Len(taken[m])
  BY <1>1
<1>3. ASSUME NEW i \in 1..Len(taken[m]) PROVE taken[m][i] \in Nat
  <2>1. taken[m][i] \in 0..MaxTime
    BY <1>1, ElementOfSeq
  <2>. QED  BY <2>1, Numbers
<1>. QED  BY <1>1, <1>2, <1>3

\* A taken message is remembered while its stamp is any good, so it is not
\* taken again before.
LEMMA NonceStep ==
  ASSUME TypeOK, Remembered, NonceHolds, [Next]_vars
  PROVE  Remembered' /\ NonceHolds'
<1>0. clock \in Nat /\ Skew \in Nat
  BY Numbers DEF TypeOK
<1>1. CASE UNCHANGED <<clock, nonces, taken>>
  BY <1>1 DEF Remembered, NonceHolds
<1>2. CASE Tick
  <2>1. clock' = clock + 1 /\ UNCHANGED <<nonces, taken>>
    BY <1>2 DEF Tick
  <2>2. \A m \in Messages : \A i \in DOMAIN taken[m] : taken[m][i] \in Nat
    BY TakenTimes
  <2>. QED  BY <1>0, <2>1, <2>2 DEF Remembered, NonceHolds
<1>3. ASSUME NEW m \in Messages, Take(m) PROVE Remembered' /\ NonceHolds'
  <2>1. /\ ~Known(m) /\ clock' = clock
        /\ nonces' = {n \in nonces : ~Forgets(n)} \cup {[nonce |-> m.nonce, at |-> clock]}
        /\ taken' = [taken EXCEPT ![m] = Append(@, clock)]
    BY <1>3 DEF Take
  <2>2. \A x \in Messages : taken[x] \in Seq(0..MaxTime)
    BY DEF TypeOK
  <2>3. \A n \in nonces : n.at \in Nat
    BY DEF TypeOK
  <2>4. \A x \in Messages : x # m => taken'[x] = taken[x]
    BY <2>1 DEF TypeOK
  <2>5. /\ taken'[m] = Append(taken[m], clock) /\ taken[m] \in Seq(0..MaxTime)
        /\ Len(taken[m]) \in Nat /\ DOMAIN taken[m] = 1..Len(taken[m])
        /\ DOMAIN taken'[m] = 1..(Len(taken[m]) + 1)
        /\ taken'[m][Len(taken[m]) + 1] = clock
        /\ \A i \in 1..Len(taken[m]) : taken'[m][i] = taken[m][i] /\ taken[m][i] \in Nat
    <3>1. taken'[m] = Append(taken[m], clock)
      BY <2>1 DEF TypeOK
    <3>. QED  BY <3>1, TakenTimes
  <2>6. ASSUME NEW x \in Messages, NEW i \in DOMAIN taken[x]
        PROVE  /\ taken[x][i] <= clock
               /\ taken[x][i] >= clock - 4 * Skew => \E n \in nonces' : n.nonce = x.nonce /\ n.at >= taken[x][i]
    <3>1. taken[x][i] \in Nat /\ taken[x][i] <= clock
      BY TakenTimes DEF Remembered
    <3>2. ASSUME taken[x][i] >= clock - 4 * Skew
          PROVE  \E n \in nonces' : n.nonce = x.nonce /\ n.at >= taken[x][i]
      <4>1. PICK n \in nonces : n.nonce = x.nonce /\ n.at >= taken[x][i]
        BY <3>2 DEF Remembered
      <4>2. ~Forgets(n)
        BY <1>0, <2>3, <3>1, <3>2, <4>1 DEF Forgets
      <4>. QED  BY <2>1, <4>1, <4>2
    <3>. QED  BY <3>1, <3>2
  <2>7. ASSUME NEW x \in Messages, NEW i \in DOMAIN taken'[x]
        PROVE  /\ taken'[x][i] <= clock
               /\ taken'[x][i] >= clock - 4 * Skew => \E n \in nonces' : n.nonce = x.nonce /\ n.at >= taken'[x][i]
    <3>1. CASE x # m
      BY <2>4, <2>6, <3>1
    <3>2. CASE x = m /\ i # Len(taken[m]) + 1
      <4>1. i \in DOMAIN taken[m] /\ taken'[m][i] = taken[m][i]
        BY <2>5, <3>2
      <4>. QED  BY <2>6, <3>2, <4>1
    <3>3. CASE x = m /\ i = Len(taken[m]) + 1
      <4>1. taken'[x][i] = clock
        BY <2>5, <3>3
      <4>2. [nonce |-> m.nonce, at |-> clock] \in nonces'
        BY <2>1
      <4>. QED  BY <1>0, <3>3, <4>1, <4>2
    <3>. QED  BY <3>1, <3>2, <3>3
  <2>8. Remembered'
    BY <2>1, <2>7 DEF Remembered
  <2>9. ASSUME NEW i \in DOMAIN taken[m] PROVE clock - taken[m][i] > 4 * Skew
    <3>1. taken[m][i] < clock - 4 * Skew
      BY <1>0, <2>1, <2>5 DEF Remembered, Known
    <3>. QED  BY <1>0, <2>5, <3>1
  <2>10. ASSUME NEW x \in Messages, NEW i \in DOMAIN taken'[x], NEW j \in DOMAIN taken'[x], i < j
         PROVE  taken'[x][j] - taken'[x][i] > 4 * Skew
    <3>1. CASE x # m
      BY <2>4, <2>10, <3>1 DEF NonceHolds
    <3>2. CASE x = m /\ j # Len(taken[m]) + 1
      <4>1. i \in DOMAIN taken[m] /\ j \in DOMAIN taken[m]
        BY <2>5, <2>10, <3>2
      <4>. QED  BY <2>5, <2>10, <3>2, <4>1 DEF NonceHolds
    <3>3. CASE x = m /\ j = Len(taken[m]) + 1
      <4>1. i \in DOMAIN taken[m] /\ taken'[m][i] = taken[m][i] /\ taken'[m][j] = clock
        BY <2>5, <2>10, <3>3
      <4>. QED  BY <2>9, <3>3, <4>1
    <3>. QED  BY <3>1, <3>2, <3>3
  <2>. QED  BY <2>8, <2>10 DEF NonceHolds
<1>. QED  BY <1>1, <1>2, <1>3 DEF Next, vars, Restart, CreateBatch, Disable, LoseWallet, Redeem, Reserve, Pays,
            Fails, RolledBack, Receive, Refuse

-----------------------------------------------------------------------------
(* Attempts.                                                               *)

\* The calls of a user that wait are finitely many.
LEMMA WaitingFinite ==
  ASSUME NEW cs, IsFiniteSet(cs), NEW u, NEW d
  PROVE  IsFiniteSet(Waiting(cs, u, d)) /\ Cardinality(Waiting(cs, u, d)) \in Nat
BY FS_Subset, FS_CardinalityType DEF Waiting

\* The rows of a user and a day are counted by a number.
LEMMA RowsCounted ==
  ASSUME TypeOK, NEW u \in Users, NEW d \in Days
  PROVE  Total(tried, Rows(u, d)) \in Nat
<1>1. CASE Nets = {}
  <2>1. Units(tried, Rows(u, d)) = {}
    BY <1>1 DEF Units, Rows
  <2>. QED  BY <2>1, FS_EmptySet DEF Total
<1>2. CASE Nets # {}
  <2>1. IsFiniteSet(Rows(u, d)) /\ \A x \in Rows(u, d) : tried[x] \in 0..MaxTries
    BY <1>2, PlacesFinite DEF TypeOK
  <2>. QED  BY <2>1, RowsFinite
<1>. QED  BY <1>1, <1>2

\* The rows of a day, and the rows since then.
LEMMA RowsSince ==
  ASSUME TypeOK, NEW call \in Calls
  PROVE  LET d == Day(call.at)
         IN  /\ Total(tried, Rows(call.user, d)) <= UserAttempts(call)
             /\ Total(tried, NetRows(call.net, d)) <= NetAttempts(call)
             /\ UserAttempts(call) \in Nat /\ NetAttempts(call) \in Nat
<1>. DEFINE d == Day(call.at)
            S == {call.user} \X Nets \X Since(call)
            N == Users \X {call.net} \X Since(call)
            places == Users \X Nets \X Days
<1>1. call.user \in Users /\ call.net \in Nets /\ d \in Days
  BY DayOfTime DEF Calls
<1>2. d \in Int
  BY <1>1, Numbers DEF Days
<1>3. d \in Since(call) /\ Since(call) \subseteq Days
  BY <1>1, <1>2 DEF Since
<1>4. S \subseteq places /\ N \subseteq places
  BY <1>1, <1>3
<1>5. IsFiniteSet(S) /\ IsFiniteSet(N)
  BY <1>4, PlacesFinite, FS_Subset
<1>6. Rows(call.user, d) \subseteq S /\ NetRows(call.net, d) \subseteq N
  BY <1>3 DEF Rows, NetRows
<1>7. (\A x \in S : tried[x] \in 0..MaxTries) /\ (\A x \in N : tried[x] \in 0..MaxTries)
  BY <1>4 DEF TypeOK
<1>8. /\ Total(tried, Rows(call.user, d)) <= Total(tried, S) /\ Total(tried, S) \in Nat
      /\ Total(tried, NetRows(call.net, d)) <= Total(tried, N) /\ Total(tried, N) \in Nat
  BY <1>5, <1>6, <1>7, RowsSubset, RowsFinite
<1>. QED  BY <1>8 DEF UserAttempts, NetAttempts

\* A counted attempt: one row more at its place, and one call more that waits.
LEMMA ReserveStep ==
  ASSUME TypeOK, Finite, Attempted, UserBounded, NetworkBounded, NEW call \in calls, Reserve(call), ~Refuses(call)
  PROVE  Attempted' /\ UserBounded' /\ NetworkBounded'
<1>. DEFINE day == Day(call.at)
            place == <<call.user, call.net, day>>
            places == Users \X Nets \X Days
            then == [call EXCEPT !.counted = TRUE]
<1>1. call \in Calls /\ call.user \in Users /\ call.net \in Nets /\ call.at \in 0..MaxTime
  BY DEF TypeOK, Calls
<1>2. day \in Days /\ place \in places
  BY <1>1, DayOfTime
<1>3. /\ tried' = [tried EXCEPT ![place] = @ + 1] /\ tried[place] < MaxTries
      /\ calls' = (calls \ {call}) \cup {then} /\ looked' = looked
  BY DEF Reserve, Stays
<1>4. then.counted /\ then.user = call.user /\ then.at = call.at
  BY <1>1, CountedCall
<1>5. tried \in [places -> 0..MaxTries]
  BY DEF TypeOK
<1>6. UserAttempts(call) < Limit /\ NetAttempts(call) < NetLimit
  BY RowsSince, <1>1, Numbers DEF Refuses
<1>. HIDE DEF places
<1>7. ASSUME NEW S \in SUBSET places, IsFiniteSet(S)
      PROVE  /\ Total(tried', S) = IF place \in S THEN Total(tried, S) + 1 ELSE Total(tried, S)
             /\ Total(tried, S) \in Nat
  <2>1. \A x \in S : tried[x] \in 0..MaxTries
    BY <1>5
  <2>2. Total(tried', S) = IF place \in S THEN Total(tried, S) + 1 ELSE Total(tried, S)
    <3>1. place \in places /\ tried[place] < MaxTries /\ tried' = [tried EXCEPT ![place] = @ + 1]
      BY <1>2, <1>3
    <3>. HIDE DEF place
    <3>2. tried'[place] = tried[place] + 1 /\ \A x \in places : x # place => tried'[x] = tried[x]
      BY <1>5, <3>1
    <3>3. /\ \A x \in S : x # place => tried'[x] = tried[x]
          /\ place \in S => tried'[place] = tried[place] + 1
      BY <3>2
    <3>4. /\ place \in S => Total(tried', S) = Total(tried, S) + 1
          /\ place \notin S => Total(tried', S) = Total(tried, S)
      BY <1>7, <2>1, <3>3, OneRowMore
    <3>. QED  BY <3>4
  <2>. QED  BY <1>3, <1>7, <2>1, <2>2, RowsFinite
<1>8. ASSUME NEW u \in Users, NEW d \in Days
      PROVE  /\ Total(tried', Rows(u, d)) = IF u = call.user /\ d = day THEN Total(tried, Rows(u, d)) + 1
                                            ELSE Total(tried, Rows(u, d))
             /\ Total(tried, Rows(u, d)) \in Nat
  <2>1. Rows(u, d) \in SUBSET places /\ IsFiniteSet(Rows(u, d))
    BY <1>1, PlacesFinite DEF places
  <2>2. place \in Rows(u, d) <=> u = call.user /\ d = day
    BY <1>1, <1>2 DEF Rows
  <2>. QED  BY <1>7, <2>1, <2>2
<1>9. ASSUME NEW n \in Nets, NEW d \in Days
      PROVE  /\ Total(tried', NetRows(n, d)) = IF n = call.net /\ d = day THEN Total(tried, NetRows(n, d)) + 1
                                               ELSE Total(tried, NetRows(n, d))
             /\ Total(tried, NetRows(n, d)) \in Nat
  <2>1. NetRows(n, d) \in SUBSET places /\ IsFiniteSet(NetRows(n, d))
    BY <1>1, PlacesFinite DEF places
  <2>2. place \in NetRows(n, d) <=> n = call.net /\ d = day
    BY <1>1, <1>2 DEF NetRows
  <2>. QED  BY <1>7, <2>1, <2>2
<1>10. UserBounded'
  <2>. SUFFICES ASSUME NEW u \in Users, NEW d \in Days PROVE Total(tried', Rows(u, d)) <= Limit
    BY DEF UserBounded
  <2>1. Total(tried, Rows(u, d)) <= Limit
    BY DEF UserBounded
  <2>2. u = call.user /\ d = day => Total(tried, Rows(u, d)) < Limit
    BY <1>1, <1>6, <1>8, RowsSince, Numbers
  <2>. HIDE DEF day, place
  <2>. QED  BY <1>8, <2>1, <2>2, Numbers
<1>11. NetworkBounded'
  <2>. SUFFICES ASSUME NEW n \in Nets, NEW d \in Days PROVE Total(tried', NetRows(n, d)) <= NetLimit
    BY DEF NetworkBounded, NetRows
  <2>1. Total(tried, NetRows(n, d)) <= NetLimit
    BY DEF NetworkBounded, NetRows
  <2>2. n = call.net /\ d = day => Total(tried, NetRows(n, d)) < NetLimit
    BY <1>1, <1>6, <1>9, RowsSince, Numbers
  <2>. HIDE DEF day, place
  <2>. QED  BY <1>9, <2>1, <2>2, Numbers
<1>12. Attempted'
  <2>. SUFFICES ASSUME NEW u \in Users, NEW d \in Days
                PROVE  looked[<<u, d>>] + Cardinality(Waiting(calls', u, d)) <= Total(tried', Rows(u, d))
    BY <1>3 DEF Attempted
  <2>. DEFINE W == Waiting(calls, u, d)
              X == Waiting(calls', u, d)
              l == looked[<<u, d>>]
              t == Total(tried, Rows(u, d))
              s == Total(tried', Rows(u, d))
  <2>0. l \in Nat
    BY Numbers DEF TypeOK
  <2>1. IsFiniteSet(W) /\ Cardinality(W) \in Nat
    BY WaitingFinite DEF Finite
  <2>2. l + Cardinality(W) <= t
    BY DEF Attempted
  <2>3. CASE u = call.user /\ d = day
    <3>1. X \subseteq W \cup {then}
      BY <1>3 DEF Waiting
    <3>2. IsFiniteSet(W \cup {then}) /\ Cardinality(W \cup {then}) <= Cardinality(W) + 1
      <4>. HIDE DEF W, then
      <4>. QED  BY <2>1, FS_AddElement
    <3>3. Cardinality(X) <= Cardinality(W \cup {then}) /\ Cardinality(X) \in Nat /\ Cardinality(W \cup {then}) \in Nat
      <4>. HIDE DEF W, X, then
      <4>. QED  BY <3>1, <3>2, FS_Subset, FS_CardinalityType
    <3>4. s = t + 1 /\ t \in Nat
      BY <1>8, <2>3
    <3>. HIDE DEF W, X, l, t, s, then
    <3>5. l + Cardinality(X) <= s
      BY <2>0, <2>1, <2>2, <3>2, <3>3, <3>4
    <3>. QED  BY <3>5 DEF X, l, s
  <2>4. CASE ~(u = call.user /\ d = day)
    <3>1. X \subseteq W
      BY <1>3, <1>4, <2>4 DEF Waiting
    <3>2. Cardinality(X) <= Cardinality(W) /\ Cardinality(X) \in Nat
      <4>. HIDE DEF W, X
      <4>. QED  BY <2>1, <3>1, FS_Subset, FS_CardinalityType
    <3>3. s = t /\ t \in Nat
      BY <1>8, <2>4
    <3>. HIDE DEF W, X, l, t, s
    <3>4. l + Cardinality(X) <= s
      BY <2>0, <2>1, <2>2, <3>2, <3>3
    <3>. QED  BY <3>4 DEF X, l, s
  <2>. QED  BY <2>3, <2>4
<1>. QED  BY <1>10, <1>11, <1>12

\* A code that is looked up: one more, and one call less that waits.
LEMMA LookStep ==
  ASSUME TypeOK, Finite, Attempted, NEW call \in calls, Ends(call), Looks(call), tried' = tried
  PROVE  Attempted'
<1>. DEFINE day == Day(call.at)
            place == <<call.user, day>>
<1>1. call \in Calls /\ call.user \in Users /\ call.at \in 0..MaxTime /\ call.counted
  BY DEF TypeOK, Calls, Ends
<1>2. day \in Days
  BY <1>1, DayOfTime
<1>3. calls' = calls \ {call} /\ looked' = [looked EXCEPT ![place] = @ + 1]
  BY DEF Ends, Looks
<1>. SUFFICES ASSUME NEW u \in Users, NEW d \in Days
              PROVE  looked'[<<u, d>>] + Cardinality(Waiting(calls', u, d)) <= Total(tried, Rows(u, d))
  BY DEF Attempted
<1>. DEFINE W == Waiting(calls, u, d)
            X == Waiting(calls', u, d)
            l == looked[<<u, d>>]
            k == looked'[<<u, d>>]
            t == Total(tried, Rows(u, d))
<1>4. IsFiniteSet(W) /\ Cardinality(W) \in Nat
  BY WaitingFinite DEF Finite
<1>5. l \in Nat /\ l + Cardinality(W) <= t
  BY Numbers DEF Attempted, TypeOK
<1>6. CASE u = call.user /\ d = day
  <2>1. X = W \ {call} /\ call \in W
    BY <1>1, <1>3, <1>6 DEF Waiting
  <2>2. Cardinality(X) = Cardinality(W) - 1
    <3>. HIDE DEF W, X
    <3>. QED  BY <1>4, <2>1, FS_RemoveElement
  <2>3. k = l + 1
    BY <1>2, <1>3, <1>6 DEF TypeOK
  <2>. HIDE DEF W, X, l, k, t
  <2>4. k + Cardinality(X) <= t
    BY <1>4, <1>5, <2>2, <2>3
  <2>. QED  BY <2>4 DEF k, X, t
<1>7. CASE ~(u = call.user /\ d = day)
  <2>1. X \subseteq W /\ k = l
    BY <1>3, <1>7 DEF Waiting, TypeOK
  <2>2. Cardinality(X) <= Cardinality(W) /\ Cardinality(X) \in Nat
    <3>. HIDE DEF W, X
    <3>. QED  BY <1>4, <2>1, FS_Subset, FS_CardinalityType
  <2>3. t \in Int
    BY RowsCounted
  <2>. HIDE DEF W, X, l, k, t
  <2>4. k + Cardinality(X) <= t
    BY <1>4, <1>5, <2>1, <2>2, <2>3
  <2>. QED  BY <2>4 DEF k, X, t
<1>. QED  BY <1>6, <1>7

\* Fewer calls at work, and the same rows, are as good.
LEMMA FewerCalls ==
  ASSUME TypeOK, Finite, Attempted, calls' \subseteq calls, tried' = tried, looked' = looked
  PROVE  Attempted'
<1>. SUFFICES ASSUME NEW u \in Users, NEW d \in Days
              PROVE  looked[<<u, d>>] + Cardinality(Waiting(calls', u, d)) <= Total(tried, Rows(u, d))
  BY DEF Attempted
<1>. DEFINE W == Waiting(calls, u, d)
            X == Waiting(calls', u, d)
            l == looked[<<u, d>>]
            t == Total(tried, Rows(u, d))
<1>1. IsFiniteSet(W) /\ Cardinality(W) \in Nat
  BY WaitingFinite DEF Finite
<1>2. l \in Nat /\ l + Cardinality(W) <= t
  BY Numbers DEF Attempted, TypeOK
<1>3. X \subseteq W
  BY DEF Waiting
<1>4. Cardinality(X) <= Cardinality(W) /\ Cardinality(X) \in Nat
  <2>. HIDE DEF W, X
  <2>. QED  BY <1>1, <1>3, FS_Subset, FS_CardinalityType
<1>5. t \in Int
  BY RowsCounted
<1>. HIDE DEF W, X, l, t
<1>6. l + Cardinality(X) <= t
  BY <1>1, <1>2, <1>4, <1>5
<1>. QED  BY <1>6 DEF l, X, t

\* A call that begins has not been counted.
LEMMA RedeemStep ==
  ASSUME Attempted, NEW user \in Users, NEW net \in Nets, NEW code \in Cards \cup {Wrong}, Redeem(user, net, code)
  PROVE  Attempted'
<1>1. tried' = tried /\ looked' = looked
  BY DEF Redeem
<1>2. \A u \in Users, d \in Days : Waiting(calls', u, d) = Waiting(calls, u, d)
  BY DEF Redeem, Waiting
<1>. QED  BY <1>1, <1>2 DEF Attempted

\* Every step keeps the counts.
LEMMA AttemptsStep ==
  ASSUME TypeOK, Finite, Attempted, UserBounded, NetworkBounded, [Next]_vars
  PROVE  Attempted' /\ UserBounded' /\ NetworkBounded'
<1>1. CASE tried' = tried /\ looked' = looked /\ calls' \subseteq calls
  BY <1>1, FewerCalls DEF UserBounded, NetworkBounded
<1>2. ASSUME NEW user \in Users, NEW net \in Nets, NEW code \in Cards \cup {Wrong}, Redeem(user, net, code)
      PROVE  Attempted' /\ UserBounded' /\ NetworkBounded'
  <2>1. tried' = tried
    BY <1>2 DEF Redeem
  <2>. QED  BY <1>2, <2>1, RedeemStep DEF UserBounded, NetworkBounded
<1>3. ASSUME NEW call \in calls, Reserve(call) PROVE Attempted' /\ UserBounded' /\ NetworkBounded'
  <2>1. CASE Refuses(call)
    <3>1. tried' = tried /\ looked' = looked /\ calls' \subseteq calls
      BY <1>3, <2>1 DEF Reserve
    <3>. QED  BY <1>1, <3>1
  <2>2. CASE ~Refuses(call)
    BY <1>3, <2>2, ReserveStep
  <2>. QED  BY <2>1, <2>2
<1>4. ASSUME NEW call \in calls, Pays(call) \/ Fails(call) PROVE Attempted' /\ UserBounded' /\ NetworkBounded'
  <2>1. Ends(call) /\ Looks(call) /\ tried' = tried
    BY <1>4 DEF Pays, Fails, RolledBack
  <2>. QED  BY <2>1, LookStep DEF UserBounded, NetworkBounded
<1>. QED  BY <1>1, <1>2, <1>3, <1>4 DEF Next, vars, Tick, Restart, CreateBatch, Disable, LoseWallet, Receive, Refuse, Take

LEMMA Inductive == CInv /\ [Next]_vars => CInv'
<1>. SUFFICES ASSUME CInv, [Next]_vars PROVE CInv'
  OBVIOUS
<1>1. TypeOK' /\ Finite'
  BY TypesStep DEF CInv
<1>2. CardPaysOnce' /\ CreditOnce'
  BY CardsStep, CreditStep DEF CInv
<1>3. Attempted' /\ UserBounded' /\ NetworkBounded'
  BY AttemptsStep DEF CInv
<1>4. Remembered' /\ NonceHolds'
  BY NonceStep DEF CInv
<1>. QED  BY <1>1, <1>2, <1>3, <1>4 DEF CInv

\* What a user had looked up was counted before, and so is within the limit.
LEMMA LookedWithinLimit == CInv => GuessesBounded
<1>. SUFFICES ASSUME CInv, NEW u \in Users, NEW d \in Days PROVE looked[<<u, d>>] <= Limit
  BY DEF GuessesBounded
<1>. DEFINE l == looked[<<u, d>>]
            w == Cardinality(Waiting(calls, u, d))
            t == Total(tried, Rows(u, d))
<1>1. l \in Nat /\ w \in Nat
  BY Numbers, WaitingFinite DEF CInv, TypeOK, Finite
<1>2. l + w <= t /\ t <= Limit
  BY DEF CInv, Attempted, UserBounded
<1>3. t \in Int
  BY RowsCounted DEF CInv
<1>. HIDE DEF l, w, t
<1>4. l <= Limit
  BY <1>1, <1>2, <1>3, Numbers
<1>. QED  BY <1>4 DEF l

\* Every credit that comes in is due and comes in once, whatever calls,
\* messages, switches and restarts cross: a card pays one wallet, in time; no
\* more codes are looked up in a day than the limit; an idempotency key credits
\* once; a message is not taken twice within its window (redeem_card,
\* credit_from_hmac).
THEOREM CreditsAreTrueAlways == Spec => []CreditsAreTrue
<1>1. CInv => CreditsAreTrue
  BY LookedWithinLimit DEF CInv, CreditsAreTrue
<1>. QED  BY InitHolds, Inductive, <1>1, PTL DEF Spec

\* A card that is switched off never pays again, not to a call that was counted
\* before, and stays off (redeem_card reads the status in the transaction that
\* pays).
THEOREM OffStaysOffAlways == Spec => OffStaysOff
<1>. DEFINE A == \A c \in Cards : card[c].st = "disabled" => card'[c].st = "disabled" /\ paid'[c] = paid[c]
<1>1. CInv /\ [Next]_vars => [A]_vars
  BY CardsStep DEF CInv
<1>. QED  BY InitHolds, Inductive, <1>1, PTL DEF Spec, OffStaysOff

-----------------------------------------------------------------------------
(* Lists, as in PriceProofs: a loop over a list is a function by recursion, *)
(* and that there is one is proved by induction over the numbers, which is  *)
(* here one through sets of them (CountingTo, Recursion).                   *)

\* Induction over the numbers, of what holds on a set of them.
LEMMA Counting ==
  ASSUME NEW P, 0 \in P, \A n \in Nat : n \in P => n + 1 \in P
  PROVE  Nat \subseteq P
<1>. DEFINE T == Nat \ P
<1>1. SUFFICES ASSUME T # {} PROVE FALSE
  OBVIOUS
<1>2. T \subseteq Nat
  OBVIOUS
<1>3. PICK n \in T : \A m \in T : ~(<<m, n>> \in OpToRel(<, Nat))
  BY <1>1, <1>2, WFMin, NatLessThanWellFounded, Zenon
<1>4. \A m \in T : ~(m < n)
  BY <1>2, <1>3 DEF OpToRel
<1>5. n \in Nat /\ n # 0 /\ n \notin P
  OBVIOUS
<1>6. n - 1 \in Nat /\ n - 1 < n /\ (n - 1) + 1 = n
  BY <1>5
<1>7. n - 1 \in P
  BY <1>4, <1>6
<1>. QED  BY <1>5, <1>6, <1>7

\* The same up to a bound.
LEMMA CountingTo ==
  ASSUME NEW N \in Nat, NEW P, 0 \in P, \A n \in 0..N : n < N /\ n \in P => n + 1 \in P
  PROVE  0..N \subseteq P
<1>. DEFINE Q == {n \in Nat : n <= N => n \in P}
<1>1. 0 \in Q
  OBVIOUS
<1>2. \A n \in Nat : n \in Q => n + 1 \in Q
  OBVIOUS
<1>. HIDE DEF Q
<1>3. Nat \subseteq Q
  BY <1>1, <1>2, Counting
<1>. QED  BY <1>3 DEF Q

\* What step by step makes of a first value, is a function: Step[n] takes the
\* value after n - 1 steps to that after n.
Unrolls(f, N, first, Step) ==
  /\ f = [n \in 0..N |-> f[n]] /\ f[0] = first
  /\ \A n \in 1..N : f[n] = Step[n][f[n - 1]]

LEMMA Recursion ==
  ASSUME NEW N \in Nat, NEW T, NEW first \in T, NEW Step \in [1..N -> [T -> T]]
  PROVE  \E f : Unrolls(f, N, first, Step)
<1>. DEFINE P == {n \in 0..N : \E f \in [0..n -> T] : f[0] = first /\ \A k \in 1..n : f[k] = Step[k][f[k - 1]]}
<1>1. 0 \in P
  <2>. DEFINE f == [k \in 0..0 |-> first]
  <2>1. f \in [0..0 -> T] /\ f[0] = first /\ \A k \in 1..0 : f[k] = Step[k][f[k - 1]]
    OBVIOUS
  <2>. HIDE DEF f
  <2>2. \E h \in [0..0 -> T] : h[0] = first /\ \A k \in 1..0 : h[k] = Step[k][h[k - 1]]
    BY <2>1
  <2>. QED  BY <2>2
<1>2. ASSUME NEW n \in 0..N, n < N, n \in P PROVE n + 1 \in P
  <2>1. PICK f \in [0..n -> T] : f[0] = first /\ \A k \in 1..n : f[k] = Step[k][f[k - 1]]
    BY <1>2
  <2>. DEFINE g == [k \in 0..(n + 1) |-> IF k = n + 1 THEN Step[n + 1][f[n]] ELSE f[k]]
  <2>2. n + 1 \in 1..N /\ n \in 0..n
    BY <1>2
  <2>3. Step[n + 1][f[n]] \in T
    BY <2>2
  <2>4. g \in [0..(n + 1) -> T]
    BY <2>3
  <2>5. g[0] = first
    BY <2>1
  <2>6. ASSUME NEW k \in 1..(n + 1) PROVE g[k] = Step[k][g[k - 1]]
    BY <2>1
  <2>. HIDE DEF g
  <2>7. \E h \in [0..(n + 1) -> T] : h[0] = first /\ \A k \in 1..(n + 1) : h[k] = Step[k][h[k - 1]]
    BY <2>4, <2>5, <2>6
  <2>. QED  BY <2>2, <2>7
<1>. HIDE DEF P
<1>3. \A n \in 0..N : n < N /\ n \in P => n + 1 \in P
  BY <1>2
<1>4. 0..N \subseteq P /\ N \in 0..N
  <2>1. 0..N \subseteq P
    BY <1>1, <1>3, CountingTo, Zenon
  <2>. QED  BY <2>1
<1>5. PICK f \in [0..N -> T] : f[0] = first /\ \A k \in 1..N : f[k] = Step[k][f[k - 1]]
  BY <1>4 DEF P
<1>. QED  BY <1>5 DEF Unrolls


\* One element more of s.
Picks(s, S, f) ==
  f = [n \in 0..Len(s) |->
         IF n = 0 THEN <<>> ELSE IF s[n] \in S THEN Append(f[n - 1], s[n]) ELSE f[n - 1]]

LEMMA PicksExist ==
  ASSUME NEW T, NEW s \in Seq(T), NEW S
  PROVE  \E f : Picks(s, S, f) /\ Only(s, S) = f[Len(s)]
<1>. DEFINE Step == [n \in 1..Len(s) |-> [x \in Seq(T) |-> IF s[n] \in S THEN Append(x, s[n]) ELSE x]]
<1>1. Step \in [1..Len(s) -> [Seq(T) -> Seq(T)]]
  OBVIOUS
<1>2. Len(s) \in Nat /\ <<>> \in Seq(T)
  OBVIOUS
<1>. HIDE DEF Step
<1>3. PICK f : Unrolls(f, Len(s), <<>>, Step)
  BY <1>1, <1>2, Recursion
<1>. DEFINE P == {n \in 0..Len(s) : f[n] \in Seq(T)}
<1>4. 0 \in P
  BY <1>2, <1>3 DEF Unrolls
<1>5. \A n \in 0..Len(s) : n < Len(s) /\ n \in P => n + 1 \in P
  <2>. SUFFICES ASSUME NEW n \in 0..Len(s), n < Len(s), n \in P PROVE n + 1 \in P
    OBVIOUS
  <2>1. n + 1 \in 1..Len(s) /\ (n + 1) - 1 = n
    BY <1>2
  <2>2. f[n + 1] = Step[n + 1][f[n]]
    BY <1>3, <2>1 DEF Unrolls
  <2>3. f[n + 1] \in Seq(T)
    BY <1>1, <2>1, <2>2
  <2>. QED  BY <2>1, <2>3
<1>6. \A n \in 0..Len(s) : f[n] \in Seq(T)
  <2>. HIDE DEF P
  <2>1. 0..Len(s) \subseteq P
    BY <1>2, <1>4, <1>5, CountingTo
  <2>. QED  BY <2>1 DEF P
<1>7. \A n \in 1..Len(s) : f[n] = IF s[n] \in S THEN Append(f[n - 1], s[n]) ELSE f[n - 1]
  <2>. SUFFICES ASSUME NEW n \in 1..Len(s) PROVE f[n] = IF s[n] \in S THEN Append(f[n - 1], s[n]) ELSE f[n - 1]
    OBVIOUS
  <2>1. n - 1 \in 0..Len(s)
    BY <1>2
  <2>2. f[n] = Step[n][f[n - 1]]
    BY <1>3 DEF Unrolls
  <2>3. f[n - 1] \in Seq(T)
    BY <1>6, <2>1
  <2>. QED  BY <2>2, <2>3 DEF Step
<1>8. Picks(s, S, f)
  <2>1. f = [n \in 0..Len(s) |-> f[n]] /\ f[0] = <<>>
    BY <1>3 DEF Unrolls
  <2>2. \A n \in 0..Len(s) : f[n] = IF n = 0 THEN <<>> ELSE IF s[n] \in S THEN Append(f[n - 1], s[n]) ELSE f[n - 1]
    <3>1. \A n \in 0..Len(s) : n = 0 \/ n \in 1..Len(s)
      BY <1>2
    <3>. QED  BY <1>7, <2>1, <3>1
  <2>. QED  BY <2>1, <2>2, Zenon DEF Picks
<1>. DEFINE g == CHOOSE g : Picks(s, S, g)
<1>9. Picks(s, S, g)
  BY <1>8
<1>10. Only(s, S) = g[Len(s)]
  BY <1>9 DEF Only, Picks
<1>. QED  BY <1>9, <1>10

\* The elements of a list.
Elements(s) == {s[k] : k \in DOMAIN s}

\* A list with one element more.
Longer(s, x, a) ==
  /\ Len(s) \in Nat /\ DOMAIN s = 1..Len(s) /\ Len(s) + 1 \notin DOMAIN s
  /\ DOMAIN a = DOMAIN s \cup {Len(s) + 1} /\ a[Len(s) + 1] = x
  /\ \A k \in DOMAIN s : a[k] = s[k]

LEMMA AppendIs ==
  ASSUME NEW T, NEW s \in Seq(T), NEW x \in T
  PROVE  Append(s, x) \in Seq(T) /\ Longer(s, x, Append(s, x))
<1>. DEFINE a == Append(s, x)
<1>1. Append(s, x) \in Seq(T) /\ Len(Append(s, x)) = Len(s) + 1 /\ Len(s) \in Nat
  OBVIOUS
<1>2. DOMAIN s = 1..Len(s) /\ DOMAIN Append(s, x) = 1..(Len(s) + 1)
  BY <1>1
<1>3. \A k \in 1..Len(s) : a[k] = s[k]
  OBVIOUS
<1>4. a[Len(s) + 1] = x
  OBVIOUS
<1>5. 1..(Len(s) + 1) = 1..Len(s) \cup {Len(s) + 1} /\ Len(s) + 1 \notin 1..Len(s)
  BY <1>1
<1>. HIDE DEF a
<1>. QED  BY <1>1, <1>2, <1>3, <1>4, <1>5, Zenon DEF Longer, a

LEMMA ElementsAppend ==
  ASSUME NEW T, NEW s \in Seq(T), NEW x \in T
  PROVE  Append(s, x) \in Seq(T) /\ Elements(Append(s, x)) = Elements(s) \cup {x}
<1>1. Append(s, x) \in Seq(T) /\ Len(Append(s, x)) = Len(s) + 1 /\ Len(s) \in Nat
  OBVIOUS
<1>2. DOMAIN s = 1..Len(s) /\ DOMAIN Append(s, x) = 1..(Len(s) + 1)
  BY <1>1
<1>3. \A k \in 1..Len(s) : Append(s, x)[k] = s[k]
  OBVIOUS
<1>4. Append(s, x)[Len(s) + 1] = x
  OBVIOUS
<1>5. 1..(Len(s) + 1) = 1..Len(s) \cup {Len(s) + 1}
  BY <1>1
<1>. DEFINE a == Append(s, x)
<1>6. \A k \in 1..(Len(s) + 1) : k = Len(s) + 1 \/ k \in 1..Len(s)
  BY <1>5
<1>7. \A k \in 1..Len(s) : k \in 1..(Len(s) + 1)
  BY <1>5
<1>8. Len(s) + 1 \in 1..(Len(s) + 1)
  BY <1>5
<1>. HIDE DEF a
<1>9. Elements(a) \subseteq Elements(s) \cup {x}
  BY <1>2, <1>3, <1>4, <1>6, Zenon DEF Elements, a
<1>10. Elements(s) \cup {x} \subseteq Elements(a)
  <2>1. x \in Elements(a)
    BY <1>2, <1>4, <1>8, Zenon DEF Elements, a
  <2>2. ASSUME NEW k \in 1..Len(s) PROVE s[k] \in Elements(a)
    <3>1. s[k] = a[k] /\ k \in DOMAIN a
      BY <1>2, <1>3, <1>7, Zenon DEF a
    <3>. QED  BY <3>1 DEF Elements
  <2>3. Elements(s) \subseteq Elements(a)
    BY <1>2, <2>2, Zenon DEF Elements
  <2>. QED  BY <2>1, <2>3
<1>. QED  BY <1>1, <1>9, <1>10 DEF a

LEMMA OnlyElements ==
  ASSUME NEW T, NEW s \in Seq(T), NEW S
  PROVE  Only(s, S) \in Seq(T) /\ Elements(Only(s, S)) = Elements(s) \cap S
<1>1. PICK f : Picks(s, S, f) /\ Only(s, S) = f[Len(s)]
  BY PicksExist
<1>2. Len(s) \in Nat /\ DOMAIN s = 1..Len(s)
  OBVIOUS
<1>. DEFINE P == {n \in 0..Len(s) : f[n] \in Seq(T) /\ Elements(f[n]) = {s[k] : k \in 1..n} \cap S}
<1>3. 0 \in P
  <2>1. f[0] = <<>> /\ 0 \in 0..Len(s)
    BY <1>1, <1>2 DEF Picks
  <2>2. Elements(<<>>) = {} /\ 1..0 = {}
    BY DEF Elements
  <2>3. {s[k] : k \in 1..0} \cap S = {} /\ <<>> \in Seq(T)
    OBVIOUS
  <2>. QED  BY <2>1, <2>2, <2>3
<1>4. \A n \in 0..Len(s) : n < Len(s) /\ n \in P => n + 1 \in P
  <2>. SUFFICES ASSUME NEW n \in 0..Len(s), n < Len(s), n \in P PROVE n + 1 \in P
    OBVIOUS
  <2>1. n + 1 \in 1..Len(s) /\ (n + 1) - 1 = n /\ n + 1 \in 0..Len(s) /\ n + 1 # 0
    BY <1>2
  <2>2. f[n + 1] = IF s[n + 1] \in S THEN Append(f[n], s[n + 1]) ELSE f[n]
    BY <1>1, <2>1 DEF Picks
  <2>3. s[n + 1] \in T
    BY <2>1
  <2>4. 1..(n + 1) = 1..n \cup {n + 1}
    BY <1>2
  <2>5. {s[k] : k \in 1..(n + 1)} = {s[k] : k \in 1..n} \cup {s[n + 1]}
    BY <2>4
  <2>6. CASE s[n + 1] \in S
    <3>1. f[n + 1] \in Seq(T) /\ Elements(f[n + 1]) = Elements(f[n]) \cup {s[n + 1]}
      BY <2>2, <2>3, <2>6, ElementsAppend
    <3>. QED  BY <2>1, <2>5, <2>6, <3>1
  <2>7. CASE s[n + 1] \notin S
    BY <2>1, <2>2, <2>5, <2>7
  <2>. QED  BY <2>6, <2>7
<1>. HIDE DEF P
<1>5. 0..Len(s) \subseteq P
  BY <1>2, <1>3, <1>4, CountingTo, Zenon
<1>6. Len(s) \in P
  BY <1>2, <1>5
<1>. QED  BY <1>1, <1>2, <1>6 DEF P, Elements

\* A list that has nothing twice has as many elements as its length says.
Distinct(s) == \A i, j \in DOMAIN s : s[i] = s[j] => i = j

\* Where the elements of a joined list come from.
Joined(s, t, u) ==
  /\ Len(s) \in Nat /\ Len(t) \in Nat /\ Len(u) = Len(s) + Len(t)
  /\ DOMAIN u = 1..(Len(s) + Len(t)) /\ DOMAIN s = 1..Len(s) /\ DOMAIN t = 1..Len(t)
  /\ \A k \in 1..Len(s) : u[k] = s[k]
  /\ \A k \in 1..Len(t) : u[Len(s) + k] = t[k]
  /\ \A k \in DOMAIN u : k \in 1..Len(s) \/ \E j \in 1..Len(t) : k = Len(s) + j

LEMMA ConcatIs ==
  ASSUME NEW T, NEW s \in Seq(T), NEW t \in Seq(T)
  PROVE  s \o t \in Seq(T) /\ Joined(s, t, s \o t)
<1>. DEFINE u == s \o t
<1>1. u \in Seq(T) /\ Len(u) = Len(s) + Len(t) /\ Len(s) \in Nat /\ Len(t) \in Nat
  OBVIOUS
<1>2. DOMAIN s = 1..Len(s) /\ DOMAIN t = 1..Len(t) /\ DOMAIN u = 1..(Len(s) + Len(t))
  BY <1>1
<1>3. \A k \in 1..Len(s) : u[k] = s[k]
  BY <1>1
<1>4. \A k \in 1..Len(t) : u[Len(s) + k] = t[k]
  BY <1>1
<1>5. ASSUME NEW k \in 1..(Len(s) + Len(t)), k \notin 1..Len(s) PROVE \E j \in 1..Len(t) : k = Len(s) + j
  <2>1. k - Len(s) \in 1..Len(t) /\ k = Len(s) + (k - Len(s))
    BY <1>1, <1>5
  <2>. QED  BY <2>1
<1>. HIDE DEF u
<1>. QED  BY <1>1, <1>2, <1>3, <1>4, <1>5 DEF Joined

-----------------------------------------------------------------------------
(* A conversation with tools, replayed whole with every request (Histories), *)
(* for any clients and any length of the history.                          *)
(*                                                                         *)
(* HInv says how calls, outputs and texts lie in the client's history.  The *)
(* rest follows every item from there to where it is sent: to its place in a *)
(* list of lists that is joined into one (PlacedAt), in what is picked from a *)
(* list (Picked), and in the contents that the parts are woven into (Woven). *)
CONSTANTS Clients, MaxTurns, MaxMade
VARIABLES client, turns, number, called

History == INSTANCE Histories WITH clock <- number, MaxCalls <- MaxMade

\* The joined list, part by part.
JoinedTo(parts, f) ==
  f = [n \in 0..Len(parts) |-> IF n = 0 THEN <<>> ELSE f[n - 1] \o parts[n]]

LEMMA JoinsExist ==
  ASSUME NEW T, NEW parts \in Seq(Seq(T))
  PROVE  \E f : /\ JoinedTo(parts, f) /\ History!FlattenSeq(parts) = f[Len(parts)]
                /\ \A n \in 0..Len(parts) : f[n] \in Seq(T)
<1>. DEFINE N == Len(parts)
<1>. DEFINE Step == [n \in 1..N |-> [x \in Seq(T) |-> x \o parts[n]]]
<1>0. \A n \in 1..N : parts[n] \in Seq(T)
  OBVIOUS
<1>1. Step \in [1..N -> [Seq(T) -> Seq(T)]]
  <2>1. \A n \in 1..N : \A x \in Seq(T) : x \o parts[n] \in Seq(T)
    BY <1>0
  <2>. QED  BY <2>1
<1>2. N \in Nat /\ <<>> \in Seq(T) /\ DOMAIN parts = 1..N
  OBVIOUS
<1>. HIDE DEF Step
<1>3. PICK f : Unrolls(f, N, <<>>, Step)
  BY <1>1, <1>2, Recursion
<1>. DEFINE P == {n \in 0..N : f[n] \in Seq(T)}
<1>4. 0 \in P
  <2>1. f[0] = <<>>
    BY <1>3 DEF Unrolls
  <2>2. 0 \in 0..N /\ f[0] \in Seq(T)
    BY <1>2, <2>1
  <2>. QED  BY <2>2
<1>5. \A n \in 0..N : n < N /\ n \in P => n + 1 \in P
  <2>. SUFFICES ASSUME NEW n \in 0..N, n < N, n \in P PROVE n + 1 \in P
    OBVIOUS
  <2>1. n + 1 \in 1..N /\ (n + 1) - 1 = n
    BY <1>2
  <2>2. f[n + 1] = Step[n + 1][f[n]]
    BY <1>3, <2>1 DEF Unrolls
  <2>3. f[n + 1] \in Seq(T)
    BY <1>1, <2>1, <2>2
  <2>. QED  BY <2>1, <2>3
<1>6. \A n \in 0..N : f[n] \in Seq(T)
  <2>. HIDE DEF P
  <2>1. 0..N \subseteq P
    BY <1>2, <1>4, <1>5, CountingTo
  <2>. QED  BY <2>1 DEF P
<1>7. \A n \in 1..N : f[n] = f[n - 1] \o parts[n]
  <2>. SUFFICES ASSUME NEW n \in 1..N PROVE f[n] = f[n - 1] \o parts[n]
    OBVIOUS
  <2>1. n - 1 \in 0..N
    BY <1>2
  <2>2. f[n] = Step[n][f[n - 1]]
    BY <1>3 DEF Unrolls
  <2>3. f[n - 1] \in Seq(T)
    BY <1>6, <2>1
  <2>. QED  BY <2>2, <2>3 DEF Step
<1>8. JoinedTo(parts, f)
  <2>1. f = [n \in 0..N |-> f[n]] /\ f[0] = <<>>
    BY <1>3 DEF Unrolls
  <2>2. \A n \in 0..N : f[n] = IF n = 0 THEN <<>> ELSE f[n - 1] \o parts[n]
    <3>1. \A n \in 0..N : n = 0 \/ n \in 1..N
      BY <1>2
    <3>. QED  BY <1>7, <2>1, <3>1
  <2>. QED  BY <2>1, <2>2, Zenon DEF JoinedTo
<1>9. History!FlattenSeq(parts) = f[N]
  <2>1. CASE N = 0
    <3>1. parts = <<>>
      BY <2>1
    <3>2. History!FlattenSeq(parts) = parts
      BY <2>1 DEF History!FlattenSeq
    <3>. QED  BY <1>3, <2>1, <3>1, <3>2 DEF Unrolls
  <2>2. CASE N # 0
    <3>. DEFINE Rec(g) == g = [i \in 1..N |-> IF i = 1 THEN parts[i] ELSE g[i - 1] \o parts[i]]
    <3>. DEFINE h == [i \in 1..N |-> f[i]]
    <3>1. ASSUME NEW i \in 1..N PROVE h[i] = IF i = 1 THEN parts[i] ELSE h[i - 1] \o parts[i]
      <4>1. CASE i = 1
        <5>1. f[1] = f[0] \o parts[1] /\ f[0] = <<>> /\ parts[1] \in Seq(T)
          <6>1. 1 \in 1..N /\ 1 - 1 = 0
            BY <1>2, <2>2
          <6>. QED  BY <1>0, <1>3, <1>7, <6>1 DEF Unrolls
        <5>2. <<>> \o parts[1] = parts[1]
          BY <5>1
        <5>. QED  BY <4>1, <5>1, <5>2
      <4>2. CASE i # 1
        <5>1. i - 1 \in 1..N
          BY <1>2, <4>2
        <5>. QED  BY <1>7, <4>2, <5>1
      <4>. QED  BY <4>1, <4>2
    <3>2. Rec(h)
      <4>1. h = [i \in 1..N |-> h[i]]
        OBVIOUS
      <4>. HIDE DEF h
      <4>. QED  BY <3>1, <4>1, Zenon
    <3>. DEFINE g == CHOOSE g : Rec(g)
    <3>3. Rec(g)
      <4>. HIDE DEF Rec, h
      <4>1. \E x : Rec(x)
        BY <3>2
      <4>. QED  BY <4>1
    <3>4. History!FlattenSeq(parts) = g[N]
      BY <2>2 DEF History!FlattenSeq
    <3>. DEFINE Q == {n \in 0..N : n = 0 \/ g[n] = f[n]}
    <3>5. 0 \in Q
      BY <1>2
    <3>6. \A n \in 0..N : n < N /\ n \in Q => n + 1 \in Q
      <4>. SUFFICES ASSUME NEW n \in 0..N, n < N, n \in Q PROVE n + 1 \in Q
        OBVIOUS
      <4>1. n + 1 \in 1..N /\ (n + 1) - 1 = n /\ n + 1 \in 0..N
        <5>1. n \in 0..N /\ n < N /\ N \in Nat
          BY <1>2
        <5>. QED  BY ONLY <5>1
      <4>. HIDE DEF g
      <4>2. g[n + 1] = IF n + 1 = 1 THEN parts[n + 1] ELSE g[n] \o parts[n + 1]
        BY <3>3, <4>1
      <4>3. h[n + 1] = IF n + 1 = 1 THEN parts[n + 1] ELSE h[n] \o parts[n + 1]
        BY <3>1, <4>1
      <4>4. h[n + 1] = f[n + 1] /\ (n # 0 => h[n] = f[n])
        BY <4>1
      <4>5. g[n + 1] = f[n + 1]
        <5>. HIDE DEF h
        <5>1. CASE n = 0
          BY <4>2, <4>3, <4>4, <5>1
        <5>2. CASE n # 0
          <6>1. n + 1 # 1 /\ g[n] = f[n]
            BY <5>2
          <6>. QED  BY <4>2, <4>3, <4>4, <5>2, <6>1
        <5>. QED  BY <5>1, <5>2
      <4>. QED  BY <4>1, <4>5
    <3>. HIDE DEF Q, g
    <3>7. 0..N \subseteq Q
      BY <1>2, <3>5, <3>6, CountingTo, Zenon
    <3>8. N \in Q
      BY <1>2, <3>7
    <3>. QED  BY <2>2, <3>4, <3>8 DEF Q
  <2>. QED  BY <2>1, <2>2
<1>. QED  BY <1>6, <1>8, <1>9

\* The element k of flat is the element off[k] of the part at[k] of the first n.
PlacedAt(parts, n, flat, at, off) ==
  /\ \A k \in DOMAIN flat : at[k] \in 1..n /\ off[k] \in DOMAIN parts[at[k]] /\ flat[k] = parts[at[k]][off[k]]
  /\ \A j, k \in DOMAIN flat : j < k => at[j] < at[k] \/ (at[j] = at[k] /\ off[j] < off[k])
  /\ \A m \in 1..n : \A i \in DOMAIN parts[m] : \E k \in DOMAIN flat : at[k] = m /\ off[k] = i
  /\ \A k \in DOMAIN flat : off[k] = 1 \/ (k - 1 \in DOMAIN flat /\ at[k - 1] = at[k] /\ off[k - 1] = off[k] - 1)

\* The part m is joined to what was placed of those before it.
Grows(T, parts, n, m, q, s, at, off, u) ==
  /\ parts \in Seq(Seq(T)) /\ n \in Nat /\ m = n + 1 /\ q \in Seq(T) /\ q = parts[m]
  /\ s \in Seq(T) /\ PlacedAt(parts, n, s, at, off) /\ u = s \o q

LEMMA PlacedMore ==
  ASSUME NEW T, NEW parts, NEW n, NEW m, NEW q, NEW s, NEW at, NEW off, NEW u,
         Grows(T, parts, n, m, q, s, at, off, u)
  PROVE  \E a, o : PlacedAt(parts, m, u, a, o)
<1>0. /\ parts \in Seq(Seq(T)) /\ n \in Nat /\ m = n + 1 /\ q \in Seq(T) /\ q = parts[m]
      /\ s \in Seq(T) /\ PlacedAt(parts, n, s, at, off) /\ u = s \o q
  BY DEF Grows
<1>. USE <1>0
<1>1. Joined(s, q, u)
  BY ConcatIs
<1>. DEFINE a == [k \in DOMAIN u |-> IF k <= Len(s) THEN at[k] ELSE m]
            o == [k \in DOMAIN u |-> IF k <= Len(s) THEN off[k] ELSE k - Len(s)]
<1>2. ASSUME NEW k \in 1..Len(s)
      PROVE  /\ k \in DOMAIN u /\ k \in DOMAIN s /\ a[k] = at[k] /\ o[k] = off[k] /\ u[k] = s[k]
             /\ a[k] \in 1..n /\ o[k] \in DOMAIN parts[a[k]] /\ u[k] = parts[a[k]][o[k]]
  <2>1. k \in DOMAIN u /\ k \in DOMAIN s /\ k <= Len(s) /\ u[k] = s[k]
    BY <1>1 DEF Joined
  <2>. QED  BY <2>1 DEF PlacedAt
<1>3. ASSUME NEW i \in 1..Len(q)
      PROVE  /\ Len(s) + i \in DOMAIN u /\ a[Len(s) + i] = m /\ o[Len(s) + i] = i /\ u[Len(s) + i] = q[i]
             /\ i \in DOMAIN q
  BY <1>1 DEF Joined
<1>. HIDE DEF a, o
<1>4. \A k \in DOMAIN u : k \in 1..Len(s) \/ \E i \in 1..Len(q) : k = Len(s) + i
  BY <1>1 DEF Joined
<1>5. Len(s) \in Nat /\ Len(q) \in Nat /\ DOMAIN s = 1..Len(s) /\ DOMAIN q = 1..Len(q)
  BY <1>1 DEF Joined
<1>6. ASSUME NEW k \in DOMAIN u
      PROVE  a[k] \in 1..m /\ o[k] \in DOMAIN parts[a[k]] /\ u[k] = parts[a[k]][o[k]]
  <2>1. CASE k \in 1..Len(s)
    <3>1. a[k] \in 1..n /\ o[k] \in DOMAIN parts[a[k]] /\ u[k] = parts[a[k]][o[k]]
      BY <1>2, <2>1, Zenon
    <3>2. a[k] \in 1..m
      BY <3>1
    <3>. QED  BY <3>1, <3>2
  <2>2. CASE k \notin 1..Len(s)
    <3>1. PICK i \in 1..Len(q) : k = Len(s) + i
      BY <1>4, <2>2
    <3>2. a[k] = m /\ o[k] = i /\ u[k] = q[i] /\ i \in DOMAIN q
      BY <1>3, <3>1, Zenon
    <3>3. m \in 1..m
      OBVIOUS
    <3>. QED  BY <3>2, <3>3
  <2>. QED  BY <2>1, <2>2
<1>7. ASSUME NEW j \in DOMAIN u, NEW k \in DOMAIN u, j < k
      PROVE  a[j] < a[k] \/ (a[j] = a[k] /\ o[j] < o[k])
  <2>1. CASE k \in 1..Len(s)
    <3>1. j \in 1..Len(s)
      <4>1. ASSUME NEW i \in 1..Len(q), j = Len(s) + i PROVE FALSE
        BY <1>5, <1>7, <2>1, <4>1
      <4>. QED  BY <1>4, <4>1
    <3>2. at[j] < at[k] \/ (at[j] = at[k] /\ off[j] < off[k])
      BY <1>5, <1>7, <2>1, <3>1 DEF PlacedAt
    <3>3. a[j] = at[j] /\ a[k] = at[k] /\ o[j] = off[j] /\ o[k] = off[k]
      BY <1>2, <2>1, <3>1, Zenon
    <3>. QED  BY <3>2, <3>3
  <2>2. CASE k \notin 1..Len(s) /\ j \in 1..Len(s)
    <3>1. PICK i \in 1..Len(q) : k = Len(s) + i
      BY <1>4, <2>2
    <3>2. a[k] = m
      BY <1>3, <3>1, Zenon
    <3>3. a[j] \in 1..n
      BY <1>2, <2>2, Zenon
    <3>. QED  BY <3>2, <3>3
  <2>3. CASE k \notin 1..Len(s) /\ j \notin 1..Len(s)
    <3>1. PICK i \in 1..Len(q) : k = Len(s) + i
      BY <1>4, <2>3
    <3>2. PICK h \in 1..Len(q) : j = Len(s) + h
      BY <1>4, <2>3
    <3>3. a[k] = m /\ o[k] = i /\ a[j] = m /\ o[j] = h
      BY <1>3, <3>1, <3>2, Zenon
    <3>4. h < i
      BY <1>5, <1>7, <3>1, <3>2
    <3>. QED  BY <3>3, <3>4
  <2>. QED  BY <2>1, <2>2, <2>3
<1>8. ASSUME NEW p \in 1..m, NEW i \in DOMAIN parts[p] PROVE \E k \in DOMAIN u : a[k] = p /\ o[k] = i
  <2>1. CASE p = m
    <3>1. i \in 1..Len(q)
      BY <1>5, <2>1
    <3>2. Len(s) + i \in DOMAIN u /\ a[Len(s) + i] = m /\ o[Len(s) + i] = i
      BY <1>3, <3>1, Zenon
    <3>. QED  BY <2>1, <3>2
  <2>2. CASE p # m
    <3>1. p \in 1..n
      BY <2>2
    <3>2. PICK k \in DOMAIN s : at[k] = p /\ off[k] = i
      BY <3>1 DEF PlacedAt
    <3>3. k \in DOMAIN u /\ a[k] = at[k] /\ o[k] = off[k]
      BY <1>2, <1>5, Zenon
    <3>. QED  BY <3>2, <3>3
  <2>. QED  BY <2>1, <2>2
<1>9. ASSUME NEW k \in DOMAIN u, o[k] # 1
      PROVE  k - 1 \in DOMAIN u /\ a[k - 1] = a[k] /\ o[k - 1] = o[k] - 1
  <2>1. CASE k \in 1..Len(s)
    <3>1. a[k] = at[k] /\ o[k] = off[k] /\ k \in DOMAIN s
      BY <1>2, <2>1, Zenon
    <3>2. k - 1 \in DOMAIN s /\ at[k - 1] = at[k] /\ off[k - 1] = off[k] - 1
      BY <1>9, <3>1 DEF PlacedAt
    <3>3. k - 1 \in DOMAIN u /\ a[k - 1] = at[k - 1] /\ o[k - 1] = off[k - 1]
      BY <1>2, <1>5, <3>2, Zenon
    <3>. QED  BY <3>1, <3>2, <3>3
  <2>2. CASE k \notin 1..Len(s)
    <3>1. PICK i \in 1..Len(q) : k = Len(s) + i
      BY <1>4, <2>2
    <3>2. a[k] = m /\ o[k] = i
      BY <1>3, <3>1, Zenon
    <3>3. i - 1 \in 1..Len(q) /\ k - 1 = Len(s) + (i - 1)
      <4>1. i # 1 /\ i \in 1..Len(q)
        BY <1>9, <3>2
      <4>. QED  BY ONLY <1>5, <3>1, <4>1
    <3>4. Len(s) + (i - 1) \in DOMAIN u /\ a[Len(s) + (i - 1)] = m /\ o[Len(s) + (i - 1)] = i - 1
      BY <1>3, <3>3, Zenon
    <3>. QED  BY <3>2, <3>3, <3>4
  <2>. QED  BY <2>1, <2>2
<1>10. PlacedAt(parts, m, u, a, o)
  BY <1>6, <1>7, <1>8, <1>9, Zenon DEF PlacedAt
<1>. QED  BY <1>10

LEMMA FlatPlaces ==
  ASSUME NEW T, NEW parts \in Seq(Seq(T))
  PROVE  /\ History!FlattenSeq(parts) \in Seq(T)
         /\ \E at, off : PlacedAt(parts, Len(parts), History!FlattenSeq(parts), at, off)
<1>1. PICK f : /\ JoinedTo(parts, f) /\ History!FlattenSeq(parts) = f[Len(parts)]
               /\ \A n \in 0..Len(parts) : f[n] \in Seq(T)
  BY JoinsExist
<1>2. Len(parts) \in Nat /\ DOMAIN parts = 1..Len(parts)
  OBVIOUS
<1>. DEFINE P == {n \in 0..Len(parts) : \E at, off : PlacedAt(parts, n, f[n], at, off)}
<1>3. 0 \in P
  <2>1. f[0] = <<>> /\ 0 \in 0..Len(parts)
    BY <1>1, <1>2 DEF JoinedTo
  <2>2. DOMAIN <<>> = {} /\ 1..0 = {}
    OBVIOUS
  <2>3. PlacedAt(parts, 0, <<>>, <<>>, <<>>)
    BY <2>2 DEF PlacedAt
  <2>. QED  BY <2>1, <2>3
<1>4. \A n \in 0..Len(parts) : n < Len(parts) /\ n \in P => n + 1 \in P
  <2>. SUFFICES ASSUME NEW n \in 0..Len(parts), n < Len(parts), n \in P PROVE n + 1 \in P
    OBVIOUS
  <2>1. n + 1 \in 1..Len(parts) /\ (n + 1) - 1 = n /\ n + 1 \in 0..Len(parts) /\ n + 1 # 0 /\ n \in Nat
    BY <1>2
  <2>2. f[n + 1] = f[n] \o parts[n + 1]
    BY <1>1, <2>1 DEF JoinedTo
  <2>3. parts[n + 1] \in Seq(T) /\ f[n] \in Seq(T)
    BY <1>1, <2>1
  <2>4. PICK at, off : PlacedAt(parts, n, f[n], at, off)
    OBVIOUS
  <2>5. PICK m : m = n + 1
    OBVIOUS
  <2>6. PICK q : q = parts[m]
    OBVIOUS
  <2>7. PICK s : s = f[n]
    OBVIOUS
  <2>8. PICK u : u = f[m]
    OBVIOUS
  <2>9. q \in Seq(T) /\ s \in Seq(T) /\ u = s \o q /\ PlacedAt(parts, n, s, at, off)
    BY <2>2, <2>3, <2>4, <2>5, <2>6, <2>7, <2>8
  <2>10. Grows(T, parts, n, m, q, s, at, off, u)
    BY <2>1, <2>5, <2>6, <2>9 DEF Grows
  <2>11. \E a, o : PlacedAt(parts, m, u, a, o)
    BY <2>10, PlacedMore, Zenon
  <2>. QED  BY <2>1, <2>5, <2>8, <2>11
<1>. HIDE DEF P
<1>5. 0..Len(parts) \subseteq P
  BY <1>2, <1>3, <1>4, CountingTo, Zenon
<1>6. Len(parts) \in P /\ Len(parts) \in 0..Len(parts)
  BY <1>2, <1>5
<1>. QED  BY <1>1, <1>6 DEF P

\* The element k of r is the element at[k] of the first n of s; those in S are all there.
Picked(s, S, n, r, at) ==
  /\ \A k \in DOMAIN r : at[k] \in 1..n /\ r[k] = s[at[k]] /\ r[k] \in S
  /\ \A j, k \in DOMAIN r : j < k => at[j] < at[k]
  /\ \A i \in 1..n : s[i] \in S => \E k \in DOMAIN r : at[k] = i

LEMMA PickedMore ==
  ASSUME NEW s, NEW S, NEW n \in Nat, NEW m, m = n + 1, NEW r, NEW at, Picked(s, S, n, r, at),
         s[m] \in S, NEW u, Longer(r, s[m], u)
  PROVE  \E a : Picked(s, S, m, u, a)
<1>. DEFINE a == [k \in DOMAIN u |-> IF k \in DOMAIN r THEN at[k] ELSE m]
<1>1. /\ Len(r) \in Nat /\ DOMAIN r = 1..Len(r) /\ Len(r) + 1 \notin DOMAIN r
      /\ DOMAIN u = DOMAIN r \cup {Len(r) + 1} /\ u[Len(r) + 1] = s[m]
      /\ \A k \in DOMAIN r : u[k] = r[k]
  BY DEF Longer
<1>2. ASSUME NEW k \in DOMAIN r
      PROVE  k \in DOMAIN u /\ a[k] = at[k] /\ u[k] = r[k] /\ a[k] \in 1..n /\ u[k] = s[a[k]] /\ u[k] \in S
  <2>1. k \in DOMAIN u /\ a[k] = at[k] /\ u[k] = r[k]
    BY <1>1
  <2>. QED  BY <2>1 DEF Picked
<1>3. Len(r) + 1 \in DOMAIN u /\ a[Len(r) + 1] = m
  BY <1>1
<1>. HIDE DEF a
<1>4. ASSUME NEW k \in DOMAIN u PROVE a[k] \in 1..m /\ u[k] = s[a[k]] /\ u[k] \in S
  <2>1. CASE k \in DOMAIN r
    <3>1. a[k] \in 1..n /\ u[k] = s[a[k]] /\ u[k] \in S
      BY <1>2, <2>1, Zenon
    <3>2. a[k] \in 1..m
      BY <3>1
    <3>. QED  BY <3>1, <3>2
  <2>2. CASE k \notin DOMAIN r
    <3>1. k = Len(r) + 1
      BY <1>1, <2>2
    <3>2. m \in 1..m
      OBVIOUS
    <3>. QED  BY <1>1, <1>3, <3>1, <3>2
  <2>. QED  BY <2>1, <2>2
<1>5. ASSUME NEW j \in DOMAIN u, NEW k \in DOMAIN u, j < k PROVE a[j] < a[k]
  <2>1. CASE k \in DOMAIN r
    <3>1. j \in DOMAIN r
      BY <1>1, <1>5, <2>1
    <3>2. at[j] < at[k]
      BY <1>5, <2>1, <3>1 DEF Picked
    <3>. QED  BY <1>2, <2>1, <3>1, <3>2
  <2>2. CASE k \notin DOMAIN r
    <3>1. k = Len(r) + 1
      BY <1>1, <2>2
    <3>2. j \in DOMAIN r
      BY <1>1, <1>5, <3>1
    <3>3. a[j] \in 1..n /\ a[k] = m
      BY <1>2, <1>3, <3>1, <3>2, Zenon
    <3>. QED  BY <3>3
  <2>. QED  BY <2>1, <2>2
<1>6. ASSUME NEW i \in 1..m, s[i] \in S PROVE \E k \in DOMAIN u : a[k] = i
  <2>1. CASE i = m
    BY <1>3, <2>1
  <2>2. CASE i # m
    <3>1. i \in 1..n
      BY <2>2
    <3>2. PICK k \in DOMAIN r : at[k] = i
      BY <1>6, <3>1 DEF Picked
    <3>. QED  BY <1>2, <3>2
  <2>. QED  BY <2>1, <2>2
<1>. QED  BY <1>4, <1>5, <1>6 DEF Picked

LEMMA OnlyPlaces ==
  ASSUME NEW T, NEW s \in Seq(T), NEW S
  PROVE  Only(s, S) \in Seq(T) /\ \E at : Picked(s, S, Len(s), Only(s, S), at)
<1>1. PICK f : Picks(s, S, f) /\ Only(s, S) = f[Len(s)]
  BY PicksExist
<1>2. Len(s) \in Nat /\ DOMAIN s = 1..Len(s)
  OBVIOUS
<1>. DEFINE P == {n \in 0..Len(s) : f[n] \in Seq(T) /\ \E at : Picked(s, S, n, f[n], at)}
<1>3. 0 \in P
  <2>1. f[0] = <<>> /\ 0 \in 0..Len(s)
    BY <1>1, <1>2 DEF Picks
  <2>2. DOMAIN <<>> = {} /\ 1..0 = {} /\ <<>> \in Seq(T)
    OBVIOUS
  <2>3. Picked(s, S, 0, <<>>, <<>>)
    BY <2>2 DEF Picked
  <2>. QED  BY <2>1, <2>2, <2>3
<1>4. \A n \in 0..Len(s) : n < Len(s) /\ n \in P => n + 1 \in P
  <2>. SUFFICES ASSUME NEW n \in 0..Len(s), n < Len(s), n \in P PROVE n + 1 \in P
    OBVIOUS
  <2>1. n + 1 \in 1..Len(s) /\ (n + 1) - 1 = n /\ n + 1 \in 0..Len(s) /\ n + 1 # 0 /\ n \in Nat
    BY <1>2
  <2>2. f[n + 1] = IF s[n + 1] \in S THEN Append(f[n], s[n + 1]) ELSE f[n]
    BY <1>1, <2>1 DEF Picks
  <2>3. s[n + 1] \in T /\ f[n] \in Seq(T)
    BY <2>1
  <2>4. PICK at : Picked(s, S, n, f[n], at)
    OBVIOUS
  <2>5. PICK m : m = n + 1
    OBVIOUS
  <2>6. CASE s[m] \in S
    <3>1. PICK r : r = f[n]
      OBVIOUS
    <3>2. PICK u : u = f[m]
      OBVIOUS
    <3>3. u = Append(r, s[m]) /\ r \in Seq(T) /\ s[m] \in T
      BY <2>2, <2>3, <2>5, <2>6, <3>1, <3>2
    <3>4. u \in Seq(T) /\ Longer(r, s[m], u)
      BY <3>3, AppendIs
    <3>5. Picked(s, S, n, r, at)
      BY <2>4, <3>1
    <3>6. \E a : Picked(s, S, m, u, a)
      BY <2>1, <2>5, <2>6, <3>4, <3>5, PickedMore, Zenon
    <3>. QED  BY <2>1, <2>5, <3>2, <3>4, <3>6
  <2>7. CASE s[m] \notin S
    <3>1. f[m] = f[n]
      BY <2>2, <2>5, <2>7
    <3>2. Picked(s, S, m, f[n], at)
      <4>1. \A i \in 1..m : i \in 1..n \/ i = m
        BY <2>5
      <4>2. \A i \in 1..n : i \in 1..m
        BY <2>5
      <4>. QED  BY <2>4, <2>7, <4>1, <4>2 DEF Picked
    <3>3. m \in 0..Len(s) /\ f[m] \in Seq(T) /\ Picked(s, S, m, f[m], at)
      BY <2>1, <2>3, <2>5, <3>1, <3>2
    <3>. QED  BY <2>5, <3>3
  <2>. QED  BY <2>6, <2>7
<1>. HIDE DEF P
<1>5. 0..Len(s) \subseteq P
  BY <1>2, <1>3, <1>4, CountingTo, Zenon
<1>6. Len(s) \in P
  BY <1>2, <1>5
<1>. QED  BY <1>1, <1>6 DEF P

\* The operator of Collections, by both its names.
LEMMA PickedFrom ==
  ASSUME NEW s, NEW S
  PROVE  History!Only(s, S) = Only(s, S)
BY DEF History!Only, Only

Speakers == {"user", "model", "tool", "inline"}
TurnSet == [who : Speakers, text : Nat, calls : Seq(Nat), output : [id : Nat, v : {"none", "text", "image"}]]

\* What a turn says, by its kind, when n calls were made.
SoundTurn(turn, n) ==
  /\ turn.who = "user" => turn.calls = <<>> /\ turn.output.id = 0
  /\ turn.who = "model" => turn.output.id = 0
  /\ turn.who = "tool" => turn.text = 0 /\ turn.calls = <<>> /\ turn.output.id # 0 /\ turn.output.v # "none"
  /\ turn.who = "inline" =>
       turn.text = 0 /\ turn.calls = <<turn.output.id>> /\ turn.output.id # 0 /\ turn.output.v # "none"
  /\ Elements(turn.calls) \subseteq 1..n /\ Distinct(turn.calls) /\ turn.output.id <= n
  /\ turn.output.id = 0 => turn.output.v = "none"
  /\ Len(turn.calls) <= 2

Counted ==
  /\ client \in Clients /\ turns \in Seq(TurnSet) /\ number \in 0..MaxTurns /\ called \in 0..MaxMade
  /\ Len(turns) <= number
Turned ==
  \A k \in DOMAIN turns :
    /\ SoundTurn(turns[k], called) /\ turns[k].text <= number
    /\ turns[k].who = "inline" => client = "responses"
Increasing == \A j, k \in DOMAIN turns : j < k /\ turns[j].text > 0 /\ turns[k].text > 0 =>
  turns[j].text < turns[k].text
OutputsOnce == \A j, k \in DOMAIN turns : j # k /\ turns[j].output.id # 0 =>
  turns[j].output.id # turns[k].output.id
CallsOnce == \A j, k \in DOMAIN turns : j # k => Elements(turns[j].calls) \cap Elements(turns[k].calls) = {}
\* The call that a tool answers was before, unless it was cut off.
Follows ==
  \A k \in DOMAIN turns : turns[k].who = "tool" =>
    \A i \in DOMAIN turns : turns[k].output.id \in Elements(turns[i].calls) => i < k

HInv == Counted /\ Turned /\ Increasing /\ OutputsOnce /\ CallsOnce /\ Follows

LEMMA SetIs == ASSUME NEW s PROVE History!ToSet(s) = Elements(s)
BY DEF History!ToSet, Elements

LEMMA ContainsIs ==
  ASSUME NEW T, NEW s \in Seq(T), NEW x
  PROVE  History!Contains(s, x) <=> x \in Elements(s)
<1>1. Len(s) \in Nat /\ DOMAIN s = 1..Len(s)
  OBVIOUS
<1>. QED  BY <1>1 DEF History!Contains, Elements

LEMMA HInit == ASSUME History!BoundsAssumption, History!Init PROVE HInv
<1>1. turns = <<>> /\ DOMAIN turns = {} /\ Len(turns) = 0 /\ turns \in Seq(TurnSet)
  BY DEF History!Init
<1>2. client \in Clients /\ number = 0 /\ called = 0 /\ 0 \in 0..MaxTurns /\ 0 \in 0..MaxMade
  BY DEF History!Init, History!BoundsAssumption
<1>3. Counted
  BY <1>1, <1>2 DEF Counted
<1>. QED  BY <1>1, <1>3 DEF HInv, Turned, Increasing, OutputsOnce, CallsOnce, Follows

\* A turn more.
LEMMA Grown ==
  ASSUME History!BoundsAssumption, HInv, NEW t \in TurnSet, turns' = Append(turns, t), number < MaxTurns,
         number' = number + 1,
         called' \in called..MaxMade, client' = client, SoundTurn(t, called'), t.text = 0 \/ t.text = number + 1,
         t.who = "inline" => client = "responses",
         \A x \in Elements(t.calls) : x > called,
         t.output.id # 0 => ~History!Answered(t.output.id),
         t.output.id # 0 => t.output.id \in 1..called' /\ (t.who = "tool" => t.output.id \in 1..called)
  PROVE  HInv'
<1>. DEFINE u == turns' L == Len(turns) + 1
<1>1. Longer(turns, t, u) /\ u \in Seq(TurnSet) /\ turns \in Seq(TurnSet)
  <2>1. turns \in Seq(TurnSet)
    BY DEF HInv, Counted
  <2>. QED  BY <2>1, AppendIs
<1>2. /\ Len(turns) \in Nat /\ DOMAIN turns = 1..Len(turns) /\ L \notin DOMAIN turns
      /\ DOMAIN u = DOMAIN turns \cup {L} /\ u[L] = t /\ \A k \in DOMAIN turns : u[k] = turns[k]
  BY <1>1 DEF Longer
<1>3. \A k \in DOMAIN turns : k < L
  BY <1>2
<1>4. number \in 0..MaxTurns /\ called \in 0..MaxMade /\ client \in Clients /\ Len(turns) <= number
  BY DEF HInv, Counted
<1>5. MaxTurns \in Nat /\ MaxMade \in Nat
  BY DEF History!BoundsAssumption
<1>6. ASSUME NEW k \in DOMAIN turns
      PROVE  /\ turns[k] \in TurnSet /\ SoundTurn(turns[k], called) /\ turns[k].text <= number
             /\ turns[k].text \in Nat /\ turns[k].output.id \in Nat
             /\ turns[k].who = "inline" => client = "responses"
  <2>1. turns[k] \in TurnSet
    BY <1>1, <1>2
  <2>2. turns[k].text \in Nat /\ turns[k].output.id \in Nat
    BY <2>1 DEF TurnSet
  <2>. QED  BY <2>1, <2>2 DEF HInv, Turned
<1>7. Len(u) = L
  <2>1. u = Append(turns, t)
    OBVIOUS
  <2>. QED  BY <1>1, <2>1
<1>. HIDE DEF u
<1>8. Counted'
  <2>1. number' \in 0..MaxTurns /\ called' \in 0..MaxMade /\ Len(u) <= number'
    BY <1>2, <1>4, <1>5, <1>7
  <2>. QED  BY <1>1, <1>4, <2>1 DEF Counted, u
<1>9. Turned'
  <2>. SUFFICES ASSUME NEW k \in DOMAIN u
                PROVE  SoundTurn(u[k], called') /\ u[k].text <= number'
                         /\ (u[k].who = "inline" => client' = "responses")
    BY DEF Turned, u
  <2>1. CASE k = L
    <3>1. t.text <= number + 1
      BY <1>4, <1>5
    <3>. QED  BY <1>2, <2>1, <3>1
  <2>2. CASE k \in DOMAIN turns
    <3>1. Elements(turns[k].calls) \subseteq 1..called /\ turns[k].output.id <= called
      BY <1>6, <2>2 DEF SoundTurn
    <3>2. 1..called \subseteq 1..called'
      BY <1>4, <1>5
    <3>3. turns[k].output.id <= called' /\ turns[k].text <= number'
      BY <1>4, <1>5, <1>6, <2>2, <3>1
    <3>4. SoundTurn(turns[k], called')
      BY <1>6, <2>2, <3>1, <3>2, <3>3 DEF SoundTurn
    <3>. QED  BY <1>2, <1>6, <2>2, <3>3, <3>4
  <2>. QED  BY <1>2, <2>1, <2>2
<1>10. Increasing'
  <2>. SUFFICES ASSUME NEW j \in DOMAIN u, NEW k \in DOMAIN u, j < k, u[j].text > 0, u[k].text > 0
                PROVE  u[j].text < u[k].text
    BY DEF Increasing, u
  <2>1. CASE k = L
    <3>1. j \in DOMAIN turns /\ u[j] = turns[j] /\ u[k] = t
      BY <1>2, <2>1
    <3>2. turns[j].text <= number /\ turns[j].text \in Nat
      BY <1>6, <3>1
    <3>3. t.text = number + 1
      BY <3>1
    <3>. QED  BY <1>4, <3>1, <3>2, <3>3
  <2>2. CASE k \in DOMAIN turns
    <3>1. j \in DOMAIN turns
      BY <1>2, <1>3, <2>2
    <3>. QED  BY <1>2, <2>2, <3>1 DEF HInv, Increasing
  <2>. QED  BY <1>2, <2>1, <2>2
<1>11. OutputsOnce'
  <2>1. ASSUME NEW j \in DOMAIN turns, t.output.id # 0 PROVE t.output.id # turns[j].output.id
    BY <2>1 DEF History!Answered
  <2>. SUFFICES ASSUME NEW j \in DOMAIN u, NEW k \in DOMAIN u, j # k, u[j].output.id # 0
                PROVE  u[j].output.id # u[k].output.id
    BY DEF OutputsOnce, u
  <2>2. CASE j = L
    BY <1>2, <2>1, <2>2
  <2>3. CASE k = L
    BY <1>2, <2>1, <2>3
  <2>4. CASE j \in DOMAIN turns /\ k \in DOMAIN turns
    BY <1>2, <2>4 DEF HInv, OutputsOnce
  <2>. QED  BY <1>2, <2>2, <2>3, <2>4
<1>12. CallsOnce'
  <2>1. ASSUME NEW j \in DOMAIN turns PROVE Elements(turns[j].calls) \cap Elements(t.calls) = {}
    <3>1. Elements(turns[j].calls) \subseteq 1..called
      BY <1>6 DEF SoundTurn
    <3>2. \A x \in 1..called : ~(x > called)
      BY <1>4
    <3>. QED  BY <3>1, <3>2
  <2>. SUFFICES ASSUME NEW j \in DOMAIN u, NEW k \in DOMAIN u, j # k
                PROVE  Elements(u[j].calls) \cap Elements(u[k].calls) = {}
    BY DEF CallsOnce, u
  <2>2. CASE j = L
    BY <1>2, <2>1, <2>2
  <2>3. CASE k = L
    BY <1>2, <2>1, <2>3
  <2>4. CASE j \in DOMAIN turns /\ k \in DOMAIN turns
    BY <1>2, <2>4 DEF HInv, CallsOnce
  <2>. QED  BY <1>2, <2>2, <2>3, <2>4
<1>13. Follows'
  <2>. SUFFICES ASSUME NEW k \in DOMAIN u, u[k].who = "tool", NEW i \in DOMAIN u,
                       u[k].output.id \in Elements(u[i].calls)
                PROVE  i < k
    BY DEF Follows, u
  <2>1. CASE i = L
    <3>1. u[k].output.id > called
      BY <1>2, <2>1
    <3>2. CASE k = L
      <4>1. t.output.id \in 1..called
        <5>1. t.output.id # 0
          BY <1>2, <3>2 DEF SoundTurn
        <5>. QED  BY <1>2, <3>2, <5>1
      <4>. QED  BY <1>2, <1>4, <3>1, <3>2, <4>1
    <3>3. CASE k \in DOMAIN turns
      <4>1. turns[k].output.id <= called /\ turns[k].output.id \in Nat
        BY <1>6, <3>3 DEF SoundTurn
      <4>. QED  BY <1>2, <1>4, <3>1, <3>3, <4>1
    <3>. QED  BY <1>2, <3>2, <3>3
  <2>2. CASE i \in DOMAIN turns /\ k = L
    BY <1>3, <2>2
  <2>3. CASE i \in DOMAIN turns /\ k \in DOMAIN turns
    BY <1>2, <2>3 DEF HInv, Follows
  <2>. QED  BY <1>2, <2>1, <2>2, <2>3
<1>. QED  BY <1>8, <1>9, <1>10, <1>11, <1>12, <1>13 DEF HInv

LEMMA TailIs ==
  ASSUME NEW T, NEW s \in Seq(T), Len(s) > 1
  PROVE  /\ Tail(s) \in Seq(T) /\ Len(Tail(s)) = Len(s) - 1
         /\ \A k \in DOMAIN Tail(s) : k + 1 \in DOMAIN s /\ Tail(s)[k] = s[k + 1]
<1>1. Len(s) \in Nat /\ DOMAIN s = 1..Len(s) /\ s # <<>>
  OBVIOUS
<1>2. Tail(s) \in Seq(T) /\ Len(Tail(s)) = Len(s) - 1
  BY <1>1
<1>3. DOMAIN Tail(s) = 1..(Len(s) - 1)
  BY <1>1, <1>2
<1>4. \A k \in 1..(Len(s) - 1) : k + 1 \in 1..Len(s) /\ Tail(s)[k] = s[k + 1]
  BY <1>1
<1>. QED  BY <1>1, <1>2, <1>3, <1>4

\* The oldest turn less.
LEMMA Trimmed == ASSUME HInv, History!Trim PROVE HInv'
<1>1. turns \in Seq(TurnSet) /\ Len(turns) > 1 /\ turns' = Tail(turns) /\ client' = client
        /\ number' = number /\ called' = called
  BY DEF HInv, Counted, History!Trim
<1>. DEFINE u == turns'
<1>2. /\ u \in Seq(TurnSet) /\ Len(u) = Len(turns) - 1 /\ Len(turns) \in Nat
      /\ \A k \in DOMAIN u : k + 1 \in DOMAIN turns /\ u[k] = turns[k + 1]
  BY <1>1, TailIs
<1>3. \A k \in DOMAIN u : k \in Nat
  BY <1>2
<1>. HIDE DEF u
<1>4. Counted'
  <2>1. Len(u) <= number
    BY <1>2 DEF HInv, Counted
  <2>. QED  BY <1>1, <1>2, <2>1 DEF HInv, Counted, u
<1>5. Turned'
  BY <1>1, <1>2 DEF HInv, Turned, u
<1>6. Increasing'
  <2>. SUFFICES ASSUME NEW j \in DOMAIN u, NEW k \in DOMAIN u, j < k, u[j].text > 0, u[k].text > 0
                PROVE  u[j].text < u[k].text
    BY DEF Increasing, u
  <2>1. j + 1 < k + 1
    BY <1>3
  <2>. QED  BY <1>2, <2>1 DEF HInv, Increasing
<1>7. OutputsOnce'
  <2>. SUFFICES ASSUME NEW j \in DOMAIN u, NEW k \in DOMAIN u, j # k, u[j].output.id # 0
                PROVE  u[j].output.id # u[k].output.id
    BY DEF OutputsOnce, u
  <2>1. j + 1 # k + 1
    BY <1>3
  <2>. QED  BY <1>2, <2>1 DEF HInv, OutputsOnce
<1>8. CallsOnce'
  <2>. SUFFICES ASSUME NEW j \in DOMAIN u, NEW k \in DOMAIN u, j # k
                PROVE  Elements(u[j].calls) \cap Elements(u[k].calls) = {}
    BY DEF CallsOnce, u
  <2>1. j + 1 # k + 1
    BY <1>3
  <2>. QED  BY <1>2, <2>1 DEF HInv, CallsOnce
<1>9. Follows'
  <2>. SUFFICES ASSUME NEW k \in DOMAIN u, u[k].who = "tool", NEW i \in DOMAIN u,
                       u[k].output.id \in Elements(u[i].calls)
                PROVE  i < k
    BY DEF Follows, u
  <2>1. i + 1 < k + 1
    BY <1>2 DEF HInv, Follows
  <2>. QED  BY <1>3, <2>1
<1>. QED  BY <1>4, <1>5, <1>6, <1>7, <1>8, <1>9 DEF HInv

LEMMA EmptyIs == ASSUME NEW T PROVE <<>> \in Seq(T) /\ Elements(<<>>) = {} /\ Distinct(<<>>)
BY DEF Elements, Distinct

\* The numbers of n new calls.
LEMMA NewCalls ==
  ASSUME NEW c \in Nat, NEW n \in Nat, NEW s, s = [k \in 1..n |-> c + k]
  PROVE  /\ s \in Seq(Nat) /\ Elements(s) \subseteq 1..(c + n) /\ Distinct(s)
         /\ \A x \in Elements(s) : x > c
         /\ Len(s) = n
<1>1. DOMAIN s = 1..n /\ \A k \in 1..n : s[k] = c + k
  OBVIOUS
<1>2. \A k \in 1..n : c + k \in 1..(c + n) /\ c + k > c /\ c + k \in Nat
  OBVIOUS
<1>3. s \in Seq(Nat)
  BY <1>1, <1>2
<1>4. \A x \in Elements(s) : x \in 1..(c + n) /\ x > c
  BY <1>1, <1>2 DEF Elements
<1>5. \A j, k \in 1..n : s[j] = s[k] => j = k
  BY <1>1
<1>6. Len(s) = n
  BY <1>1
<1>. QED  BY <1>1, <1>3, <1>4, <1>5, <1>6 DEF Distinct

LEMMA HStep == ASSUME History!BoundsAssumption, HInv, History!Next PROVE HInv'
<1>. USE History!BoundsAssumption, HInv
<1>1. /\ turns \in Seq(TurnSet) /\ number \in 0..MaxTurns /\ called \in 0..MaxMade /\ called \in Nat
      /\ MaxTurns \in Nat /\ MaxMade \in Nat
  BY DEF HInv, Counted, History!BoundsAssumption
<1>2. ASSUME History!UserSays PROVE HInv'
  <2>1. PICK t : t = History!Turn("user", number + 1, <<>>, [id |-> 0, v |-> "none"])
    OBVIOUS
  <2>2. /\ turns' = Append(turns, t) /\ number < MaxTurns /\ number' = number + 1 /\ called' = called
        /\ client' = client
    BY <1>2, <2>1 DEF History!UserSays, History!Tick, History!Says, History!NoOutput
  <2>3. t \in TurnSet /\ t.who = "user" /\ t.text = number + 1 /\ t.calls = <<>> /\ t.output.id = 0
          /\ t.output.v = "none"
    <3>1. number + 1 \in Nat /\ <<>> \in Seq(Nat) /\ "user" \in Speakers
      BY <1>1, EmptyIs DEF Speakers
    <3>. QED  BY <2>1, <3>1 DEF History!Turn, TurnSet
  <2>4. SoundTurn(t, called') /\ \A x \in Elements(t.calls) : x > called
    <3>1. Elements(t.calls) = {} /\ Distinct(t.calls) /\ Len(t.calls) <= 2
      BY <2>3, EmptyIs
    <3>2. t.output.id <= called'
      BY <1>1, <2>2, <2>3
    <3>. QED  BY <2>3, <3>1, <3>2 DEF SoundTurn
  <2>5. called' \in called..MaxMade
    BY <1>1, <2>2
  <2>. QED  BY <2>2, <2>3, <2>4, <2>5, Grown
<1>3. ASSUME NEW text \in BOOLEAN, NEW n \in 0..2, History!ModelSays(text, n) PROVE HInv'
  <2>. DEFINE w == IF text THEN number + 1 ELSE 0
              s == [k \in 1..n |-> called + k]
  <2>1. PICK t : t = History!Turn("model", w, s, [id |-> 0, v |-> "none"])
    OBVIOUS
  <2>2. /\ turns' = Append(turns, t) /\ number < MaxTurns /\ number' = number + 1 /\ called' = called + n
        /\ client' = client /\ called + n <= MaxMade
    BY <1>3, <2>1 DEF History!ModelSays, History!Tick, History!Says, History!NoOutput
  <2>3. /\ s \in Seq(Nat) /\ Elements(s) \subseteq 1..(called + n) /\ Distinct(s)
        /\ (\A x \in Elements(s) : x > called) /\ Len(s) = n
    <3>. HIDE DEF s
    <3>1. n \in Nat /\ s = [k \in 1..n |-> called + k]
      BY DEF s
    <3>2. called \in Nat
      BY <1>1
    <3>. QED  BY ONLY <3>1, <3>2, NewCalls
  <2>4. w \in Nat /\ (w = 0 \/ w = number + 1)
    BY <1>1
  <2>. HIDE DEF w, s
  <2>5. t \in TurnSet /\ t.who = "model" /\ t.text = w /\ t.calls = s /\ t.output.id = 0 /\ t.output.v = "none"
    <3>1. "model" \in Speakers
      BY DEF Speakers
    <3>. QED  BY <2>1, <2>3, <2>4, <3>1 DEF History!Turn, TurnSet
  <2>6. SoundTurn(t, called') /\ \A x \in Elements(t.calls) : x > called
    <3>1. t.output.id <= called' /\ Len(t.calls) <= 2
      BY <1>1, <2>2, <2>3, <2>5
    <3>. QED  BY <2>2, <2>3, <2>5, <3>1 DEF SoundTurn
  <2>7. called' \in called..MaxMade
    BY <1>1, <2>2
  <2>. QED  BY <2>2, <2>4, <2>5, <2>6, <2>7, Grown
<1>4. ASSUME NEW id \in 1..MaxMade, NEW v \in {"text", "image"}, History!ToolAnswers(id, v) PROVE HInv'
  <2>1. PICK t : t = History!Turn("tool", 0, <<>>, [id |-> id, v |-> v])
    OBVIOUS
  <2>2. /\ turns' = Append(turns, t) /\ number < MaxTurns /\ number' = number + 1 /\ called' = called
        /\ client' = client /\ id \in 1..called /\ ~History!Answered(id)
    BY <1>4, <2>1 DEF History!ToolAnswers, History!Tick, History!Says, History!Outstanding
  <2>3. t \in TurnSet /\ t.who = "tool" /\ t.text = 0 /\ t.calls = <<>> /\ t.output.id = id /\ t.output.v = v
    <3>1. 0 \in Nat /\ <<>> \in Seq(Nat) /\ "tool" \in Speakers /\ id \in Nat /\ v \in {"none", "text", "image"}
      BY <1>1, EmptyIs DEF Speakers
    <3>. QED  BY <2>1, <3>1 DEF History!Turn, TurnSet
  <2>4. SoundTurn(t, called') /\ \A x \in Elements(t.calls) : x > called
    <3>1. Elements(t.calls) = {} /\ Distinct(t.calls) /\ Len(t.calls) <= 2
      BY <2>3, EmptyIs
    <3>2. t.output.id <= called' /\ t.output.id # 0 /\ t.output.v # "none"
      BY <1>1, <2>2, <2>3
    <3>. QED  BY <2>3, <3>1, <3>2 DEF SoundTurn
  <2>5. called' \in called..MaxMade
    BY <1>1, <2>2
  <2>. QED  BY <2>2, <2>3, <2>4, <2>5, Grown
<1>5. ASSUME NEW v \in {"text", "image"}, History!AnsweredInPlace(v) PROVE HInv'
  <2>0. PICK id : id = called + 1
    OBVIOUS
  <2>1. PICK t : t = History!Turn("inline", 0, <<id>>, [id |-> id, v |-> v])
    OBVIOUS
  <2>2. /\ turns' = Append(turns, t) /\ number < MaxTurns /\ number' = number + 1 /\ called' = called + 1
        /\ client' = client /\ client = "responses" /\ called < MaxMade
    BY <1>5, <2>0, <2>1 DEF History!AnsweredInPlace, History!Tick, History!Says
  <2>3. id \in Nat /\ <<id>> \in Seq(Nat)
    BY <1>1, <2>0
  <2>4. t \in TurnSet /\ t.who = "inline" /\ t.text = 0 /\ t.calls = <<id>> /\ t.output.id = id /\ t.output.v = v
    <3>1. 0 \in Nat /\ "inline" \in Speakers /\ v \in {"none", "text", "image"}
      BY DEF Speakers
    <3>. QED  BY <2>1, <2>3, <3>1 DEF History!Turn, TurnSet
  <2>5. Elements(<<id>>) = {id} /\ Distinct(<<id>>) /\ Len(<<id>>) <= 2
    BY DEF Elements, Distinct
  <2>6. SoundTurn(t, called') /\ \A x \in Elements(t.calls) : x > called
    <3>1. t.output.id <= called' /\ t.output.id # 0 /\ t.output.v # "none" /\ id \in 1..called' /\ id > called
      BY <1>1, <2>0, <2>2, <2>4
    <3>. QED  BY <2>4, <2>5, <3>1 DEF SoundTurn
  <2>7. ~History!Answered(id)
    <3>1. SUFFICES ASSUME NEW k \in DOMAIN turns, turns[k].output.id = id PROVE FALSE
      BY DEF History!Answered
    <3>2. turns[k].output.id <= called
      BY DEF HInv, Turned, SoundTurn
    <3>. QED  BY <1>1, <2>0, <3>1, <3>2
  <2>8. called' \in called..MaxMade /\ t.output.id \in 1..called'
    BY <1>1, <2>0, <2>2, <2>4
  <2>. QED  BY <2>2, <2>4, <2>6, <2>7, <2>8, Grown
<1>6. ASSUME History!Trim PROVE HInv'
  BY <1>6, Trimmed
<1>. QED  BY <1>2, <1>3, <1>4, <1>5, <1>6 DEF History!Next

LEMMA HTypes == ASSUME History!BoundsAssumption, HInv PROVE History!TypeOK
<1>1. /\ client \in Clients /\ number \in 0..MaxTurns /\ called \in 0..MaxMade /\ Len(turns) <= number
      /\ turns \in Seq(TurnSet) /\ MaxTurns \in Nat /\ Len(turns) \in Nat
  BY DEF HInv, Counted, History!BoundsAssumption
<1>2. Len(turns) <= MaxTurns
  BY <1>1
<1>3. \A k \in DOMAIN turns : turns[k].who \in {"user", "model", "tool", "inline"}
  <2>1. \A k \in DOMAIN turns : turns[k] \in TurnSet
    BY <1>1
  <2>. QED  BY <2>1 DEF TurnSet, Speakers
<1>4. \A j, k \in DOMAIN turns : j # k /\ turns[j].output.id # 0 => turns[j].output.id # turns[k].output.id
  BY DEF HInv, OutputsOnce
<1>. QED  BY <1>1, <1>2, <1>3, <1>4 DEF History!TypeOK

-----------------------------------------------------------------------------
(* The items of a turn.                                                    *)

ItemSet == [t : {"message", "call", "output"}, role : {"none", "user", "assistant"}, id : Nat, name : Nat,
  text : Nat,
            v : {"none", "text", "image", "empty"}]

\* The texts among the items of the turn k.
TextsAre(k, p) ==
  /\ p \in Seq(ItemSet)
  /\ \A i \in DOMAIN p :
       /\ p[i].t = "message" =>
            p[i].text = turns[k].text /\ p[i].text > 0 /\ p[i].role = History!Speaker(turns[k].who)
       /\ p[i].t # "message" => p[i].text = 0
  /\ \A i, j \in DOMAIN p : p[i].t = "message" /\ p[j].t = "message" => i = j
  /\ turns[k].text > 0 => \E i \in DOMAIN p : p[i].t = "message"

\* Its calls and its outputs, when they have the ids they were given.
CallItems(k, p) ==
  /\ \A i \in DOMAIN p : p[i].t = "call" =>
       /\ p[i].id \in Elements(turns[k].calls) /\ p[i].name = p[i].id
       /\ p[i].v # "none" => turns[k].who = "inline" /\ p[i].id = turns[k].output.id
  /\ \A x \in Elements(turns[k].calls) : \E i \in DOMAIN p : p[i].t = "call" /\ p[i].id = x
  /\ \A i, j \in DOMAIN p : p[i].t = "call" /\ p[j].t = "call" /\ p[i].id = p[j].id => i = j
  /\ turns[k].who = "inline" => \A i \in DOMAIN p : p[i].t = "call" => p[i].v # "none"
  /\ turns[k].calls # <<>> => p # <<>> /\ p[Len(p)].t = "call"
OutputsAre(k, p) ==
  /\ \A i \in DOMAIN p : p[i].t = "output" =>
       turns[k].who = "tool" /\ p[i].id = turns[k].output.id /\ p[i].name = p[i].id
  /\ \A i, j \in DOMAIN p : p[i].t = "output" /\ p[j].t = "output" => i = j
  /\ turns[k].who = "tool" => \E i \in DOMAIN p : p[i].t = "output"
\* And when they were given none.
Numbered(k, p) ==
  \A i \in DOMAIN p :
    /\ p[i].t = "call" => \E n \in 1..2 : p[i].id = 1000 + 10 * k + n
    /\ p[i].t = "output" => p[i].id = 1000 + 10 * k

PartIs(k, p) ==
  /\ TextsAre(k, p)
  /\ client # "gemini" => CallItems(k, p) /\ OutputsAre(k, p)
  /\ client = "gemini" => Numbered(k, p)

LEMMA SaidIs ==
  ASSUME NEW role \in {"user", "assistant"}, NEW text \in Nat
  PROVE  /\ History!Said(role, text) \in ItemSet /\ History!Said(role, text).t = "message"
              /\ History!Said(role, text).role = role
         /\ History!Said(role, text).text = text /\ History!Said(role, text).id = 0
              /\ History!Said(role, text).v = "none"
BY DEF History!Said, History!Item, ItemSet

LEMMA ItemIs ==
  ASSUME NEW t \in {"call", "output"}, NEW id \in Nat, NEW v \in {"none", "text", "image", "empty"},
         NEW other \in Nat
  PROVE  /\ History!Item(t, id, v) \in ItemSet /\ History!Item(t, id, v).t = t
              /\ History!Item(t, id, v).id = id /\ History!Item(t, id, v).name = id
         /\ History!Item(t, id, v).text = 0 /\ History!Item(t, id, v).v = v
         /\ History!Named(History!Item(t, id, v), other) \in ItemSet
              /\ History!Named(History!Item(t, id, v), other).t = t
         /\ History!Named(History!Item(t, id, v), other).id = other
              /\ History!Named(History!Item(t, id, v), other).name = id
         /\ History!Named(History!Item(t, id, v), other).text = 0
              /\ History!Named(History!Item(t, id, v), other).v = v
BY DEF History!Item, History!Named, ItemSet

\* A list that is empty or holds what was said.
Speech(m, role, text) ==
  /\ m \in Seq(ItemSet) /\ Len(m) <= 1 /\ (text > 0 => Len(m) = 1)
  /\ \A i \in DOMAIN m : m[i].t = "message" /\ m[i].text = text /\ text > 0 /\ m[i].role = role
LEMMA MessageIs ==
  ASSUME NEW role \in {"user", "assistant"}, NEW text \in Nat
  PROVE  Speech(History!Message(role, text), role, text)
<1>1. CASE text = 0
  <2>1. History!Message(role, text) = <<>>
    BY <1>1 DEF History!Message
  <2>2. <<>> \in Seq(ItemSet) /\ Len(<<>>) = 0 /\ DOMAIN <<>> = {}
    OBVIOUS
  <2>3. Speech(<<>>, role, text)
    BY <1>1, <2>2 DEF Speech
  <2>. QED  BY <2>1, <2>3
<1>2. CASE text # 0
  <2>. DEFINE x == History!Said(role, text)
  <2>1. History!Message(role, text) = <<x>>
    BY <1>2 DEF History!Message
  <2>2. x \in ItemSet /\ x.t = "message" /\ x.role = role /\ x.text = text
    BY SaidIs
  <2>. HIDE DEF x
  <2>3. Speech(<<x>>, role, text)
    BY <1>2, <2>2 DEF Speech
  <2>. QED  BY <2>1, <2>3
<1>. QED  BY <1>1, <1>2

\* A list of calls, with ids of their own.
CallList(c, made) ==
  /\ c \in Seq(ItemSet) /\ Len(c) = Len(made) /\ DOMAIN c = DOMAIN made
  /\ \A n \in DOMAIN c : c[n].t = "call" /\ c[n].name = made[n] /\ c[n].text = 0 /\ c[n].v = "none"
LEMMA CallListIs ==
  ASSUME NEW made \in Seq(Nat), NEW k \in Nat, NEW c,
         \/ c = [n \in DOMAIN made |-> History!Item("call", made[n], "none")]
         \/ c = [n \in DOMAIN made |-> History!Named(History!Item("call", made[n], "none"),
              History!Generated(k, n))]
  PROVE  CallList(c, made)
<1>1. DOMAIN made = 1..Len(made) /\ Len(made) \in Nat /\ \A n \in DOMAIN made : made[n] \in Nat
  OBVIOUS
<1>2. \A n \in DOMAIN made : History!Generated(k, n) \in Nat
  BY <1>1 DEF History!Generated
<1>3. ASSUME NEW n \in DOMAIN made
      PROVE  c[n] \in ItemSet /\ c[n].t = "call" /\ c[n].name = made[n] /\ c[n].text = 0 /\ c[n].v = "none"
  <2>1. made[n] \in Nat /\ History!Generated(k, n) \in Nat
    BY <1>1, <1>2
  <2>2. c[n] = History!Item("call", made[n], "none") \/ c[n] = History!Named(History!Item("call", made[n],
          "none"), History!Generated(k, n))
    OBVIOUS
  <2>3. PICK x : x = History!Item("call", made[n], "none")
    OBVIOUS
  <2>4. x \in ItemSet /\ x.t = "call" /\ x.name = made[n] /\ x.text = 0 /\ x.v = "none"
    <3>1. 0 \in Nat
      OBVIOUS
    <3>. QED  BY <2>1, <2>3, <3>1 DEF History!Item, ItemSet
  <2>5. PICK y : y = History!Named(x, History!Generated(k, n))
    OBVIOUS
  <2>6. y \in ItemSet /\ y.t = "call" /\ y.name = made[n] /\ y.text = 0 /\ y.v = "none"
    BY <2>1, <2>4, <2>5 DEF History!Named, ItemSet
  <2>7. c[n] = x \/ c[n] = y
    BY <2>2, <2>3, <2>5
  <2>. QED  BY <2>4, <2>6, <2>7
<1>4. DOMAIN c = DOMAIN made /\ c = [n \in DOMAIN made |-> c[n]]
  OBVIOUS
<1>5. c \in Seq(ItemSet) /\ Len(c) = Len(made)
  BY <1>1, <1>3, <1>4
<1>. QED  BY <1>3, <1>4, <1>5 DEF CallList

\* What joins two lists of items, one of a speech and one of calls.
Spoken(k, m, c) == Speech(m, "assistant", turns[k].text) /\ CallList(c, turns[k].calls)

LEMMA SpokenTexts ==
  ASSUME NEW k, turns[k].who = "model", NEW s, NEW q, Spoken(k, s, q) \/ Spoken(k, q, s),
         NEW p, p = s \o q
  PROVE  TextsAre(k, p) /\ Joined(s, q, p)
<1>1. s \in Seq(ItemSet) /\ q \in Seq(ItemSet)
  BY DEF Spoken, Speech, CallList
<1>2. p \in Seq(ItemSet) /\ Joined(s, q, p)
  BY <1>1, ConcatIs
<1>3. /\ Len(s) \in Nat /\ Len(q) \in Nat /\ DOMAIN s = 1..Len(s) /\ DOMAIN q = 1..Len(q)
      /\ DOMAIN p = 1..(Len(s) + Len(q))
      /\ \A i \in 1..Len(s) : p[i] = s[i]
      /\ \A i \in 1..Len(q) : p[Len(s) + i] = q[i]
      /\ \A i \in DOMAIN p : i \in 1..Len(s) \/ \E j \in 1..Len(q) : i = Len(s) + j
  BY <1>2 DEF Joined
<1>4. History!Speaker(turns[k].who) = "assistant"
  BY DEF History!Speaker
<1>5. ASSUME NEW i \in DOMAIN p
      PROVE  /\ p[i].t = "message" =>
                  p[i].text = turns[k].text /\ p[i].text > 0 /\ p[i].role = History!Speaker(turns[k].who)
             /\ p[i].t # "message" => p[i].text = 0
  <2>1. ASSUME NEW x, (\E j \in DOMAIN s : x = s[j]) \/ (\E j \in DOMAIN q : x = q[j])
        PROVE  /\ x.t = "message" => x.text = turns[k].text /\ x.text > 0 /\ x.role = "assistant"
               /\ x.t # "message" => x.text = 0
    <3>1. CASE Spoken(k, s, q)
      BY <2>1, <3>1 DEF Spoken, Speech, CallList
    <3>2. CASE Spoken(k, q, s)
      BY <2>1, <3>2 DEF Spoken, Speech, CallList
    <3>. QED  BY <3>1, <3>2
  <2>2. (\E j \in DOMAIN s : p[i] = s[j]) \/ (\E j \in DOMAIN q : p[i] = q[j])
    BY <1>3
  <2>. QED  BY <1>4, <2>1, <2>2
<1>6. ASSUME NEW i \in DOMAIN p, NEW j \in DOMAIN p, p[i].t = "message", p[j].t = "message" PROVE i = j
  <2>1. CASE Spoken(k, s, q)
    <3>1. ASSUME NEW h \in DOMAIN p, p[h].t = "message" PROVE h = 1
      <4>1. \A n \in DOMAIN q : q[n].t = "call"
        BY <2>1 DEF Spoken, CallList
      <4>2. h \in 1..Len(s)
        BY <1>3, <3>1, <4>1
      <4>3. Len(s) <= 1
        BY <2>1 DEF Spoken, Speech
      <4>. QED  BY <1>3, <4>2, <4>3
    <3>. QED  BY <1>6, <3>1
  <2>2. CASE Spoken(k, q, s)
    <3>1. ASSUME NEW h \in DOMAIN p, p[h].t = "message" PROVE h = Len(s) + 1
      <4>1. \A n \in DOMAIN s : s[n].t = "call"
        BY <2>2 DEF Spoken, CallList
      <4>2. PICK n \in 1..Len(q) : h = Len(s) + n
        BY <1>3, <3>1, <4>1
      <4>3. Len(q) <= 1
        BY <2>2 DEF Spoken, Speech
      <4>. QED  BY <1>3, <4>2, <4>3
    <3>. QED  BY <1>6, <3>1
  <2>. QED  BY <2>1, <2>2
<1>7. ASSUME turns[k].text > 0 PROVE \E i \in DOMAIN p : p[i].t = "message"
  <2>1. CASE Spoken(k, s, q)
    <3>1. 1 \in 1..Len(s) /\ s[1].t = "message"
      BY <1>3, <1>7, <2>1 DEF Spoken, Speech
    <3>2. 1 \in DOMAIN p /\ p[1] = s[1]
      BY <1>3, <3>1
    <3>. QED  BY <3>1, <3>2
  <2>2. CASE Spoken(k, q, s)
    <3>1. 1 \in 1..Len(q) /\ q[1].t = "message"
      BY <1>3, <1>7, <2>2 DEF Spoken, Speech
    <3>2. Len(s) + 1 \in DOMAIN p /\ p[Len(s) + 1] = q[1]
      BY <1>3, <3>1
    <3>. QED  BY <3>1, <3>2
  <2>. QED  BY <2>1, <2>2
<1>. QED  BY <1>2, <1>5, <1>6, <1>7 DEF TextsAre

\* The parts of the clients that give ids, and of Gemini's.
LEMMA ModelPart ==
  ASSUME NEW k, turns[k].who = "model", Distinct(turns[k].calls), turns[k].calls \in Seq(Nat), NEW m, NEW c,
         Spoken(k, m, c),
         \A n \in DOMAIN c : c[n].id = turns[k].calls[n], NEW p, p = m \o c
  PROVE  TextsAre(k, p) /\ CallItems(k, p) /\ OutputsAre(k, p)
<1>1. TextsAre(k, p) /\ Joined(m, c, p)
  BY SpokenTexts
<1>2. /\ Len(m) \in Nat /\ Len(c) \in Nat /\ DOMAIN m = 1..Len(m) /\ DOMAIN c = 1..Len(c)
      /\ DOMAIN p = 1..(Len(m) + Len(c)) /\ Len(p) = Len(m) + Len(c)
      /\ \A i \in 1..Len(m) : p[i] = m[i]
      /\ \A i \in 1..Len(c) : p[Len(m) + i] = c[i]
      /\ \A i \in DOMAIN p : i \in 1..Len(m) \/ \E j \in 1..Len(c) : i = Len(m) + j
  BY <1>1 DEF Joined
<1>3. /\ DOMAIN c = DOMAIN turns[k].calls /\ Len(c) = Len(turns[k].calls)
      /\ \A n \in DOMAIN c : c[n].t = "call" /\ c[n].name = turns[k].calls[n] /\ c[n].v = "none"
      /\ \A n \in DOMAIN m : m[n].t = "message"
  BY DEF Spoken, CallList, Speech
<1>4. ASSUME NEW i \in DOMAIN p
      PROVE  p[i].t = "message" \/ \E n \in 1..Len(c) : i = Len(m) + n /\ p[i] = c[n] /\ p[i].t = "call"
  BY <1>2, <1>3
<1>5. ASSUME NEW i \in DOMAIN p, p[i].t = "call"
      PROVE  \E n \in DOMAIN c : i = Len(m) + n /\ p[i].id = turns[k].calls[n] /\ p[i].name = p[i].id
               /\ p[i].v = "none"
  <2>1. PICK n \in 1..Len(c) : i = Len(m) + n /\ p[i] = c[n]
    BY <1>4, <1>5
  <2>2. n \in DOMAIN c
    BY <1>2
  <2>3. c[n].id = turns[k].calls[n] /\ c[n].name = turns[k].calls[n] /\ c[n].v = "none"
    BY <1>3, <2>2
  <2>. QED  BY <2>1, <2>2, <2>3
<1>6. \A i \in DOMAIN p : p[i].t # "output"
  BY <1>4
<1>7. \A x \in Elements(turns[k].calls) : \E i \in DOMAIN p : p[i].t = "call" /\ p[i].id = x
  <2>. SUFFICES ASSUME NEW n \in DOMAIN turns[k].calls
                PROVE  \E i \in DOMAIN p : p[i].t = "call" /\ p[i].id = turns[k].calls[n]
    BY DEF Elements
  <2>1. n \in 1..Len(c) /\ Len(m) + n \in DOMAIN p
    BY <1>2, <1>3
  <2>2. p[Len(m) + n] = c[n] /\ c[n].t = "call" /\ c[n].id = turns[k].calls[n]
    BY <1>2, <1>3, <2>1
  <2>. QED  BY <2>1, <2>2
<1>8. ASSUME NEW i \in DOMAIN p, NEW j \in DOMAIN p, p[i].t = "call", p[j].t = "call",
             p[i].id = p[j].id PROVE i = j
  <2>1. PICK n \in DOMAIN c : i = Len(m) + n /\ p[i].id = turns[k].calls[n]
    BY <1>5, <1>8
  <2>2. PICK h \in DOMAIN c : j = Len(m) + h /\ p[j].id = turns[k].calls[h]
    BY <1>5, <1>8
  <2>3. n = h
    BY <1>3, <1>8, <2>1, <2>2 DEF Distinct
  <2>. QED  BY <2>1, <2>2, <2>3
<1>9. ASSUME turns[k].calls # <<>> PROVE p # <<>> /\ p[Len(p)].t = "call"
  <2>1. Len(turns[k].calls) # 0
    BY <1>9
  <2>2. Len(c) \in 1..Len(c) /\ Len(p) \in DOMAIN p
    BY <1>2, <1>3, <2>1
  <2>3. p[Len(p)] = c[Len(c)]
    BY <1>2, <2>2
  <2>4. c[Len(c)].t = "call"
    BY <1>2, <1>3, <2>2
  <2>5. p # <<>>
    <3>1. DOMAIN <<>> = {}
      OBVIOUS
    <3>. QED  BY <2>2, <3>1
  <2>. QED  BY <2>3, <2>4, <2>5
<1>10. CallItems(k, p)
  <2>1. \A i \in DOMAIN p : p[i].t = "call" =>
          p[i].id \in Elements(turns[k].calls) /\ p[i].name = p[i].id /\ p[i].v = "none"
    BY <1>3, <1>5 DEF Elements
  <2>. QED  BY <1>7, <1>8, <1>9, <2>1 DEF CallItems
<1>11. OutputsAre(k, p)
  BY <1>6 DEF OutputsAre
<1>. QED  BY <1>1, <1>10, <1>11

LEMMA GeminiPart ==
  ASSUME NEW k \in Nat, turns[k].who = "model", Len(turns[k].calls) <= 2, NEW m, NEW c, Spoken(k, m, c),
         \A n \in DOMAIN c : c[n].id = History!Generated(k, n), NEW p, p = c \o m
  PROVE  TextsAre(k, p) /\ Numbered(k, p)
<1>1. TextsAre(k, p) /\ Joined(c, m, p)
  BY SpokenTexts
<1>2. /\ Len(m) \in Nat /\ Len(c) \in Nat /\ DOMAIN m = 1..Len(m) /\ DOMAIN c = 1..Len(c)
      /\ \A i \in 1..Len(c) : p[i] = c[i]
      /\ \A i \in 1..Len(m) : p[Len(c) + i] = m[i]
      /\ \A i \in DOMAIN p : i \in 1..Len(c) \/ \E j \in 1..Len(m) : i = Len(c) + j
  BY <1>1 DEF Joined
<1>3. /\ Len(c) <= 2 /\ \A n \in DOMAIN c : c[n].t = "call"
      /\ \A n \in DOMAIN m : m[n].t = "message"
  BY DEF Spoken, CallList, Speech
<1>4. \A i \in DOMAIN p : p[i].t # "output"
  BY <1>2, <1>3
<1>5. ASSUME NEW i \in DOMAIN p, p[i].t = "call" PROVE \E n \in 1..2 : p[i].id = 1000 + 10 * k + n
  <2>1. i \in 1..Len(c) /\ p[i] = c[i]
    BY <1>2, <1>3, <1>5
  <2>2. c[i].id = History!Generated(k, i) /\ i \in 1..2
    BY <1>2, <1>3, <2>1
  <2>3. History!Generated(k, i) = 1000 + 10 * k + i
    BY DEF History!Generated
  <2>4. p[i].id = 1000 + 10 * k + i
    BY <2>1, <2>2, <2>3, Zenon
  <2>. QED  BY <2>2, <2>4
<1>. QED  BY <1>1, <1>4, <1>5 DEF Numbered

\* What the user says, and parts of one item.
LEMMA UserPart ==
  ASSUME NEW k, turns[k].who = "user", turns[k].text \in Nat, turns[k].calls = <<>>,
         NEW p, p = History!Message("user", turns[k].text)
  PROVE  TextsAre(k, p) /\ CallItems(k, p) /\ OutputsAre(k, p) /\ Numbered(k, p)
<1>1. Speech(p, "user", turns[k].text)
  BY MessageIs
<1>2. /\ p \in Seq(ItemSet) /\ Len(p) <= 1 /\ (turns[k].text > 0 => Len(p) = 1) /\ DOMAIN p = 1..Len(p)
           /\ Len(p) \in Nat
      /\ \A i \in DOMAIN p : p[i].t = "message" /\ p[i].text = turns[k].text /\ turns[k].text > 0
           /\ p[i].role = "user"
  BY <1>1 DEF Speech
<1>3. \A i, j \in DOMAIN p : i = j
  BY <1>2
<1>4. turns[k].text > 0 => 1 \in DOMAIN p
  BY <1>2
<1>5. History!Speaker(turns[k].who) = "user" /\ Elements(turns[k].calls) = {}
  BY EmptyIs DEF History!Speaker
<1>6. TextsAre(k, p)
  BY <1>2, <1>3, <1>4, <1>5 DEF TextsAre
<1>7. CallItems(k, p) /\ OutputsAre(k, p) /\ Numbered(k, p)
  BY <1>2, <1>5 DEF CallItems, OutputsAre, Numbered
<1>. QED  BY <1>6, <1>7

LEMMA OneIs ==
  ASSUME NEW x \in ItemSet, NEW p, p = <<x>>
  PROVE  p \in Seq(ItemSet) /\ Len(p) = 1 /\ DOMAIN p = {1} /\ p[1] = x /\ p # <<>>
OBVIOUS

LEMMA ToolPart ==
  ASSUME NEW k, turns[k].who = "tool", turns[k].text = 0, turns[k].calls = <<>>,
         NEW x \in ItemSet, x.t = "output", x.text = 0, NEW p, p = <<x>>
  PROVE  /\ TextsAre(k, p)
         /\ x.id = turns[k].output.id /\ x.name = x.id => CallItems(k, p) /\ OutputsAre(k, p)
         /\ x.id = History!Generated(k, 0) /\ k \in Nat => Numbered(k, p)
<1>1. p \in Seq(ItemSet) /\ Len(p) = 1 /\ DOMAIN p = {1} /\ p[1] = x
  BY OneIs
<1>2. Elements(turns[k].calls) = {}
  BY EmptyIs
<1>3. TextsAre(k, p)
  BY <1>1 DEF TextsAre
<1>4. x.id = turns[k].output.id /\ x.name = x.id => CallItems(k, p) /\ OutputsAre(k, p)
  BY <1>1, <1>2 DEF CallItems, OutputsAre
<1>5. ASSUME x.id = History!Generated(k, 0), k \in Nat PROVE Numbered(k, p)
  <2>1. x.id = 1000 + 10 * k
    BY <1>5 DEF History!Generated
  <2>. QED  BY <1>1, <2>1 DEF Numbered
<1>. QED  BY <1>3, <1>4, <1>5

LEMMA InlinePart ==
  ASSUME NEW k, turns[k].who = "inline", turns[k].text = 0, turns[k].calls = <<turns[k].output.id>>,
         NEW x \in ItemSet, x.t = "call", x.text = 0, x.id = turns[k].output.id, x.name = x.id, x.v # "none",
         NEW p, p = <<x>>
  PROVE  TextsAre(k, p) /\ CallItems(k, p) /\ OutputsAre(k, p)
<1>1. p \in Seq(ItemSet) /\ Len(p) = 1 /\ DOMAIN p = {1} /\ p[1] = x /\ p # <<>>
  BY OneIs
<1>2. Elements(turns[k].calls) = {x.id}
  BY DEF Elements
<1>3. TextsAre(k, p)
  BY <1>1 DEF TextsAre
<1>4. CallItems(k, p)
  BY <1>1, <1>2 DEF CallItems
<1>5. OutputsAre(k, p)
  BY <1>1 DEF OutputsAre
<1>. QED  BY <1>3, <1>4, <1>5

LEMMA ItemsOfIs ==
  ASSUME History!BoundsAssumption, HInv, NEW k \in DOMAIN turns
  PROVE  PartIs(k, History!ItemsOf(k))
<1>. DEFINE turn == turns[k]
<1>1. /\ turn \in TurnSet /\ k \in Nat /\ SoundTurn(turn, called) /\ (turn.who = "inline" => client = "responses")
  BY DEF HInv, Counted, Turned
<1>2. /\ turn.who \in Speakers /\ turn.text \in Nat /\ turn.calls \in Seq(Nat) /\ turn.output.id \in Nat
      /\ turn.output.v \in {"none", "text", "image"}
  BY <1>1 DEF TurnSet
<1>3. client \in {"chat", "anthropic", "gemini", "responses"}
  BY DEF HInv, Counted, History!BoundsAssumption
<1>4. Distinct(turn.calls) /\ Len(turn.calls) <= 2
  BY <1>1 DEF SoundTurn
<1>. HIDE DEF turn
<1>5. CASE turn.who = "user"
  <2>1. PICK p : p = History!Message("user", turn.text)
    OBVIOUS
  <2>2. History!ItemsOf(k) = p
    BY <1>3, <1>5, <2>1 DEF History!ItemsOf, History!FromChat, History!FromAnthropic, History!FromGemini,
                            History!FromResponses, turn
  <2>3. turn.calls = <<>>
    BY <1>1, <1>5 DEF SoundTurn
  <2>4. TextsAre(k, p) /\ CallItems(k, p) /\ OutputsAre(k, p) /\ Numbered(k, p)
    BY <1>2, <1>5, <2>1, <2>3, UserPart DEF turn
  <2>. QED  BY <2>2, <2>4 DEF PartIs
<1>6. CASE turn.who = "model"
  <2>1. PICK m : m = History!Message("assistant", turn.text)
    OBVIOUS
  <2>2. Speech(m, "assistant", turn.text)
    BY <1>2, <2>1, MessageIs
  <2>3. CASE client # "gemini"
    <3>1. PICK c : c = [n \in DOMAIN turn.calls |-> History!Item("call", turn.calls[n], "none")]
      OBVIOUS
    <3>2. CallList(c, turn.calls)
      BY <1>1, <1>2, <3>1, CallListIs
    <3>3. \A n \in DOMAIN c : c[n].id = turn.calls[n]
      BY <3>1 DEF History!Item
    <3>4. PICK p : p = m \o c
      OBVIOUS
    <3>5. History!ItemsOf(k) = p
      BY <1>3, <1>6, <2>1, <2>3, <3>1, <3>4 DEF History!ItemsOf, History!FromChat, History!FromAnthropic,
                                                History!FromResponses, turn
    <3>6. TextsAre(k, p) /\ CallItems(k, p) /\ OutputsAre(k, p)
      BY <1>2, <1>4, <1>6, <2>2, <3>2, <3>3, <3>4, ModelPart DEF turn, Spoken
    <3>. QED  BY <2>3, <3>5, <3>6 DEF PartIs
  <2>4. CASE client = "gemini"
    <3>1. PICK c : c = [n \in DOMAIN turn.calls |-> History!Named(History!Item("call", turn.calls[n],
            "none"), History!Generated(k, n))]
      OBVIOUS
    <3>2. CallList(c, turn.calls)
      BY <1>1, <1>2, <3>1, CallListIs
    <3>3. \A n \in DOMAIN c : c[n].id = History!Generated(k, n)
      BY <3>1 DEF History!Item, History!Named
    <3>4. PICK p : p = c \o m
      OBVIOUS
    <3>5. History!ItemsOf(k) = p
      BY <1>6, <2>1, <2>4, <3>1, <3>4 DEF History!ItemsOf, History!FromGemini, turn
    <3>6. TextsAre(k, p) /\ Numbered(k, p)
      BY <1>1, <1>4, <1>6, <2>2, <3>2, <3>3, <3>4, GeminiPart DEF turn, Spoken
    <3>. QED  BY <2>4, <3>5, <3>6 DEF PartIs
  <2>. QED  BY <2>3, <2>4
<1>7. CASE turn.who = "tool"
  <2>1. turn.text = 0 /\ turn.calls = <<>>
    BY <1>1, <1>7 DEF SoundTurn
  <2>2. CASE client # "gemini"
    <3>1. PICK v \in {"none", "text", "image",
            "empty"} : History!ItemsOf(k) = <<History!Item("output", turn.output.id, v)>>
      <4>1. CASE client = "anthropic"
        <5>1. History!ItemsOf(k) = <<History!Item("output", turn.output.id,
                IF turn.output.v = "image" THEN "empty" ELSE "text")>>
          BY <1>7, <4>1 DEF History!ItemsOf, History!FromAnthropic, turn
        <5>2. (IF turn.output.v = "image" THEN "empty" ELSE "text") \in {"none", "text", "image", "empty"}
          OBVIOUS
        <5>. QED  BY <5>1, <5>2
      <4>2. CASE client # "anthropic"
        <5>1. History!ItemsOf(k) = <<History!Item("output", turn.output.id, turn.output.v)>>
          BY <1>3, <1>7, <2>2, <4>2 DEF History!ItemsOf, History!FromChat, History!FromResponses, turn
        <5>. QED  BY <1>2, <5>1
      <4>. QED  BY <4>1, <4>2
    <3>2. PICK x : x = History!Item("output", turn.output.id, v)
      OBVIOUS
    <3>3. x \in ItemSet /\ x.t = "output" /\ x.text = 0 /\ x.id = turn.output.id /\ x.name = x.id
      BY <1>2, <3>2 DEF History!Item, ItemSet
    <3>4. PICK p : p = <<x>>
      OBVIOUS
    <3>5. TextsAre(k, p) /\ CallItems(k, p) /\ OutputsAre(k, p)
      BY <1>7, <2>1, <3>3, <3>4, ToolPart DEF turn
    <3>6. History!ItemsOf(k) = p
      BY <3>1, <3>2, <3>4
    <3>. QED  BY <2>2, <3>5, <3>6 DEF PartIs
  <2>3. CASE client = "gemini"
    <3>1. PICK x : x = History!Named(History!Item("output", turn.output.id, "text"), History!Generated(k, 0))
      OBVIOUS
    <3>2. History!Generated(k, 0) \in Nat
      BY <1>1 DEF History!Generated
    <3>3. x \in ItemSet /\ x.t = "output" /\ x.text = 0 /\ x.id = History!Generated(k, 0)
      BY <1>2, <3>1, <3>2 DEF History!Item, ItemSet, History!Named
    <3>4. PICK p : p = <<x>>
      OBVIOUS
    <3>5. TextsAre(k, p) /\ Numbered(k, p)
      BY <1>1, <1>7, <2>1, <3>3, <3>4, ToolPart DEF turn
    <3>6. History!ItemsOf(k) = p
      BY <1>7, <2>3, <3>1, <3>4 DEF History!ItemsOf, History!FromGemini, turn
    <3>. QED  BY <2>3, <3>5, <3>6 DEF PartIs
  <2>. QED  BY <2>2, <2>3
<1>8. CASE turn.who = "inline"
  <2>1. turn.text = 0 /\ turn.calls = <<turn.output.id>> /\ turn.output.v # "none" /\ client = "responses"
    BY <1>1, <1>8 DEF SoundTurn
  <2>2. PICK x : x = History!Item("call", turn.output.id, turn.output.v)
    OBVIOUS
  <2>3. x \in ItemSet /\ x.t = "call" /\ x.text = 0 /\ x.id = turn.output.id /\ x.name = x.id /\ x.v # "none"
    BY <1>2, <2>1, <2>2 DEF History!Item, ItemSet
  <2>4. PICK p : p = <<x>>
    OBVIOUS
  <2>5. TextsAre(k, p) /\ CallItems(k, p) /\ OutputsAre(k, p)
    BY <1>8, <2>1, <2>3, <2>4, InlinePart DEF turn
  <2>6. History!ItemsOf(k) = p
    BY <1>8, <2>1, <2>2, <2>4 DEF History!ItemsOf, History!FromResponses, turn
  <2>. QED  BY <2>1, <2>5, <2>6 DEF PartIs
<1>. QED  BY <1>2, <1>5, <1>6, <1>7, <1>8 DEF Speakers

-----------------------------------------------------------------------------
(* The items of the whole history.                                         *)

Sourced(items, at, off) ==
  /\ \A k \in DOMAIN items :
       at[k] \in DOMAIN turns /\ off[k] \in DOMAIN History!ItemsOf(at[k])
         /\ items[k] = History!ItemsOf(at[k])[off[k]]
  /\ \A j, k \in DOMAIN items : j < k => at[j] < at[k] \/ (at[j] = at[k] /\ off[j] < off[k])
  /\ \A m \in DOMAIN turns : \A i \in DOMAIN History!ItemsOf(m) : \E k \in DOMAIN items : at[k] = m /\ off[k] = i

LEMMA ItemsSourced ==
  ASSUME History!BoundsAssumption, HInv
  PROVE  History!Items \in Seq(ItemSet) /\ \E at, off : Sourced(History!Items, at, off)
<1>. DEFINE parts == [k \in DOMAIN turns |-> History!ItemsOf(k)]
<1>1. DOMAIN turns = 1..Len(turns) /\ Len(turns) \in Nat
  BY DEF HInv, Counted
<1>2. \A k \in DOMAIN turns : History!ItemsOf(k) \in Seq(ItemSet)
  BY ItemsOfIs DEF PartIs, TextsAre
<1>3. parts \in Seq(Seq(ItemSet)) /\ Len(parts) = Len(turns)
  BY <1>1, <1>2
<1>4. History!Items = History!FlattenSeq(parts) /\ \A m \in DOMAIN turns : parts[m] = History!ItemsOf(m)
  BY DEF History!Items
<1>. HIDE DEF parts
<1>5. /\ History!FlattenSeq(parts) \in Seq(ItemSet)
      /\ \E at, off : PlacedAt(parts, Len(parts), History!FlattenSeq(parts), at, off)
  BY <1>3, FlatPlaces
<1>6. PICK at, off : PlacedAt(parts, Len(turns), History!Items, at, off)
  BY <1>3, <1>4, <1>5
<1>7. Sourced(History!Items, at, off)
  <2>1. /\ \A k \in DOMAIN History!Items : at[k] \in DOMAIN turns /\ off[k] \in DOMAIN parts[at[k]]
             /\ History!Items[k] = parts[at[k]][off[k]]
        /\ \A j, k \in DOMAIN History!Items : j < k => at[j] < at[k] \/ (at[j] = at[k] /\ off[j] < off[k])
        /\ \A m \in DOMAIN turns : \A i \in DOMAIN parts[m] : \E k \in DOMAIN History!Items : at[k] = m
             /\ off[k] = i
    <3>. DEFINE D == 1..Len(turns)
    <3>1. /\ \A k \in DOMAIN History!Items : at[k] \in D /\ off[k] \in DOMAIN parts[at[k]]
               /\ History!Items[k] = parts[at[k]][off[k]]
          /\ \A j, k \in DOMAIN History!Items : j < k => at[j] < at[k] \/ (at[j] = at[k] /\ off[j] < off[k])
          /\ \A m \in D : \A i \in DOMAIN parts[m] : \E k \in DOMAIN History!Items : at[k] = m /\ off[k] = i
      BY <1>6, Zenon DEF PlacedAt
    <3>2. D = DOMAIN turns
      BY <1>1
    <3>. HIDE DEF D
    <3>. QED  BY <3>1, <3>2, Zenon
  <2>2. \A k \in DOMAIN History!Items : off[k] \in DOMAIN History!ItemsOf(at[k])
          /\ History!Items[k] = History!ItemsOf(at[k])[off[k]]
    BY <1>4, <2>1, Zenon
  <2>3. \A m \in DOMAIN turns : \A i \in DOMAIN History!ItemsOf(m) :
        \E k \in DOMAIN History!Items : at[k] = m /\ off[k] = i
    BY <1>4, <2>1, Zenon
  <2>. QED  BY <2>1, <2>2, <2>3, Zenon DEF Sourced
<1>. QED  BY <1>4, <1>5, <1>7

\* What was said is in the items.
LEMMA ItemsTexts == ASSUME History!BoundsAssumption, HInv PROVE History!NothingLost(History!Items)
<1>1. PICK at, off : History!Items \in Seq(ItemSet) /\ Sourced(History!Items, at, off)
  BY ItemsSourced
<1>. DEFINE items == History!Items
<1>2. \A m \in DOMAIN turns : TextsAre(m, History!ItemsOf(m))
  BY ItemsOfIs DEF PartIs
<1>3. \A k \in DOMAIN turns : turns[k] \in TurnSet /\ turns[k].text \in Nat /\ k \in Nat
  <2>1. turns \in Seq(TurnSet)
    BY DEF HInv, Counted
  <2>2. \A k \in DOMAIN turns : turns[k] \in TurnSet /\ k \in Nat
    BY <2>1
  <2>. QED  BY <2>2 DEF TurnSet
<1>. HIDE DEF items
<1>4. /\ \A k \in DOMAIN items :
           at[k] \in DOMAIN turns /\ off[k] \in DOMAIN History!ItemsOf(at[k])
             /\ items[k] = History!ItemsOf(at[k])[off[k]]
      /\ \A j, k \in DOMAIN items : j < k => at[j] < at[k] \/ (at[j] = at[k] /\ off[j] < off[k])
      /\ \A m \in DOMAIN turns : \A i \in DOMAIN History!ItemsOf(m) : \E k \in DOMAIN items : at[k] = m
           /\ off[k] = i
  BY <1>1 DEF Sourced, items
<1>5. ASSUME NEW k \in DOMAIN items, items[k].text > 0
      PROVE  /\ at[k] \in DOMAIN turns /\ items[k].text = turns[at[k]].text
                  /\ items[k].role = History!Speaker(turns[at[k]].who)
             /\ items[k].t = "message"
  <2>1. at[k] \in DOMAIN turns /\ off[k] \in DOMAIN History!ItemsOf(at[k])
          /\ items[k] = History!ItemsOf(at[k])[off[k]]
    BY <1>4
  <2>2. TextsAre(at[k], History!ItemsOf(at[k]))
    BY <1>2, <2>1
  <2>3. items[k].t = "message"
    BY <1>5, <2>1, <2>2 DEF TextsAre
  <2>. QED  BY <2>1, <2>2, <2>3 DEF TextsAre
<1>6. ASSUME NEW m \in DOMAIN turns, turns[m].text > 0
      PROVE  \E k \in DOMAIN items : items[k].text = turns[m].text
               /\ items[k].role = History!Speaker(turns[m].who)
  <2>1. TextsAre(m, History!ItemsOf(m))
    BY <1>2
  <2>2. PICK i \in DOMAIN History!ItemsOf(m) : History!ItemsOf(m)[i].t = "message"
    BY <1>6, <2>1 DEF TextsAre
  <2>3. PICK k \in DOMAIN items : at[k] = m /\ off[k] = i
    BY <1>4
  <2>4. items[k] = History!ItemsOf(m)[i]
    BY <1>4, <2>3
  <2>. QED  BY <2>1, <2>2, <2>4 DEF TextsAre
<1>7. ASSUME NEW j \in DOMAIN items, NEW k \in DOMAIN items, j < k, items[j].text > 0, items[k].text > 0
      PROVE  items[j].text < items[k].text
  <2>1. /\ at[j] \in DOMAIN turns /\ items[j].text = turns[at[j]].text /\ items[j].t = "message"
        /\ at[k] \in DOMAIN turns /\ items[k].text = turns[at[k]].text /\ items[k].t = "message"
    BY <1>5, <1>7
  <2>2. CASE at[j] < at[k]
    BY <1>7, <2>1, <2>2 DEF HInv, Increasing
  <2>3. CASE at[j] = at[k] /\ off[j] < off[k]
    <3>1. TextsAre(at[k], History!ItemsOf(at[k])) /\ off[j] \in DOMAIN History!ItemsOf(at[k])
            /\ off[k] \in DOMAIN History!ItemsOf(at[k])
      BY <1>2, <1>4, <2>1, <2>3
    <3>2. items[j] = History!ItemsOf(at[k])[off[j]] /\ items[k] = History!ItemsOf(at[k])[off[k]]
      BY <1>4, <2>3
    <3>3. off[j] = off[k]
      BY <2>1, <3>1, <3>2 DEF TextsAre
    <3>4. off[k] \in Nat
      <4>1. History!ItemsOf(at[k]) \in Seq(ItemSet)
        BY <3>1 DEF TextsAre
      <4>. QED  BY <3>1, <4>1
    <3>. QED  BY <2>3, <3>3, <3>4
  <2>. QED  BY <1>4, <1>7, <2>2, <2>3
<1>8. {<<m.role, m.text>> : m \in {n \in Elements(items) : n.text > 0}}
        = {<<History!Speaker(turn.who), turn.text>> : turn \in {u \in Elements(turns) : u.text > 0}}
  <2>1. ASSUME NEW m \in Elements(items), m.text > 0
        PROVE  \E u \in Elements(turns) : u.text > 0 /\ <<m.role, m.text>> = <<History!Speaker(u.who), u.text>>
    <3>1. PICK k \in DOMAIN items : m = items[k]
      BY DEF Elements
    <3>2. turns[at[k]] \in Elements(turns)
      BY <1>5, <2>1, <3>1 DEF Elements
    <3>. QED  BY <1>5, <2>1, <3>1, <3>2
  <2>2. ASSUME NEW u \in Elements(turns), u.text > 0
        PROVE  \E m \in Elements(items) : m.text > 0 /\ <<m.role, m.text>> = <<History!Speaker(u.who), u.text>>
    <3>1. PICK k \in DOMAIN turns : u = turns[k]
      BY DEF Elements
    <3>2. PICK i \in DOMAIN items : items[i].text = u.text /\ items[i].role = History!Speaker(u.who)
      BY <1>6, <2>2, <3>1
    <3>3. items[i] \in Elements(items)
      BY DEF Elements
    <3>. QED  BY <2>2, <3>2, <3>3
  <2>. QED  BY <2>1, <2>2
<1>9. History!NothingLost(items)
  BY <1>7, <1>8, SetIs DEF History!NothingLost
<1>. QED  BY <1>9 DEF items

\* Where the ids are the client's, an output comes behind its call, and neither
\* is there twice.
Linked(items) ==
  /\ \A k \in DOMAIN items : items[k].t = "call" =>
       items[k].id \in History!CallsMade /\ items[k].name = items[k].id
  /\ \A x \in History!CallsMade : \E k \in DOMAIN items : items[k].t = "call" /\ items[k].id = x
  /\ \A j, k \in DOMAIN items : items[j].t = "call" /\ items[k].t = "call" /\ items[j].id = items[k].id => j = k
  /\ \A k \in DOMAIN items : items[k].t = "output" =>
       items[k].name = items[k].id /\ \E m \in DOMAIN turns : turns[m].who = "tool"
         /\ turns[m].output.id = items[k].id
  /\ \A j, k \in DOMAIN items : items[j].t = "output" /\ items[k].t = "output"
       /\ items[j].id = items[k].id => j = k
  /\ \A j, k \in DOMAIN items : items[j].t = "call" /\ items[k].t = "output" /\ items[j].id = items[k].id => j < k
  /\ \A m \in DOMAIN turns : turns[m].who = "tool" =>
       \E k \in DOMAIN items : items[k].t = "output" /\ items[k].id = turns[m].output.id
  /\ \A k \in DOMAIN items : items[k].t = "call" /\ items[k].v # "none" =>
       \E m \in DOMAIN turns : turns[m].who = "inline" /\ turns[m].output.id = items[k].id
  /\ \A m \in DOMAIN turns : turns[m].who = "inline" =>
       \E k \in DOMAIN items : items[k].t = "call" /\ items[k].v # "none" /\ items[k].id = turns[m].output.id
  /\ \A m \in DOMAIN turns : m = Len(turns) /\ turns[m].calls # <<>> =>
       items # <<>> /\ items[Len(items)].t = "call"

LEMMA MadeIs ==
  ASSUME NEW x
  PROVE  x \in History!CallsMade <=> \E k \in DOMAIN turns : x \in Elements(turns[k].calls)
BY SetIs DEF History!CallsMade

LEMMA ItemsLinked == ASSUME History!BoundsAssumption, HInv, client # "gemini" PROVE Linked(History!Items)
<1>. DEFINE items == History!Items
<1>1. PICK at, off : items \in Seq(ItemSet) /\ Sourced(items, at, off)
  BY ItemsSourced
<1>2. \A m \in DOMAIN turns : CallItems(m, History!ItemsOf(m)) /\ OutputsAre(m, History!ItemsOf(m))
        /\ History!ItemsOf(m) \in Seq(ItemSet)
  BY ItemsOfIs DEF PartIs, TextsAre
<1>. HIDE DEF items
<1>3. ASSUME NEW k \in DOMAIN items
      PROVE  at[k] \in DOMAIN turns /\ off[k] \in DOMAIN History!ItemsOf(at[k])
               /\ items[k] = History!ItemsOf(at[k])[off[k]]
  BY <1>1 DEF Sourced
<1>4. ASSUME NEW m \in DOMAIN turns, NEW i \in DOMAIN History!ItemsOf(m)
      PROVE  \E k \in DOMAIN items : at[k] = m /\ off[k] = i /\ items[k] = History!ItemsOf(m)[i]
  BY <1>1 DEF Sourced
<1>5. /\ DOMAIN items = 1..Len(items) /\ Len(items) \in Nat /\ DOMAIN turns = 1..Len(turns) /\ Len(turns) \in Nat
      /\ turns \in Seq(TurnSet)
  BY <1>1 DEF HInv, Counted
<1>6. ASSUME NEW j \in DOMAIN items, NEW k \in DOMAIN items, at[j] = at[k], off[j] = off[k] PROVE j = k
  <2>1. \A h \in DOMAIN items : at[h] \in Nat /\ off[h] \in Nat
    BY <1>2, <1>3, <1>5
  <2>2. ~(j < k) /\ ~(k < j)
    BY <1>1, <1>6, <2>1 DEF Sourced
  <2>. QED  BY <1>5, <2>2
<1>11. ASSUME NEW k \in DOMAIN items, items[k].t = "call"
       PROVE  /\ items[k].id \in Elements(turns[at[k]].calls) /\ items[k].name = items[k].id
              /\ items[k].v # "none" => turns[at[k]].who = "inline" /\ items[k].id = turns[at[k]].output.id
  BY <1>2, <1>3, <1>11 DEF CallItems
<1>12. ASSUME NEW k \in DOMAIN items, items[k].t = "output"
       PROVE  turns[at[k]].who = "tool" /\ items[k].id = turns[at[k]].output.id /\ items[k].name = items[k].id
  BY <1>2, <1>3, <1>12 DEF OutputsAre
<1>13. ASSUME NEW x \in History!CallsMade PROVE \E k \in DOMAIN items : items[k].t = "call" /\ items[k].id = x
  <2>1. PICK m \in DOMAIN turns : x \in Elements(turns[m].calls)
    BY MadeIs
  <2>2. PICK i \in DOMAIN History!ItemsOf(m) : History!ItemsOf(m)[i].t = "call" /\ History!ItemsOf(m)[i].id = x
    BY <1>2, <2>1 DEF CallItems
  <2>3. PICK k \in DOMAIN items : items[k] = History!ItemsOf(m)[i]
    BY <1>4
  <2>. QED  BY <2>2, <2>3
<1>14. ASSUME NEW j \in DOMAIN items, NEW k \in DOMAIN items, items[j].t = "call", items[k].t = "call",
              items[j].id = items[k].id
       PROVE  j = k
  <2>1. at[j] = at[k]
    <3>1. /\ items[k].id \in Elements(turns[at[j]].calls) \cap Elements(turns[at[k]].calls)
          /\ at[j] \in DOMAIN turns /\ at[k] \in DOMAIN turns
      BY <1>3, <1>11, <1>14
    <3>. QED  BY <3>1 DEF HInv, CallsOnce
  <2>2. off[j] = off[k]
    BY <1>2, <1>3, <1>14, <2>1 DEF CallItems
  <2>. QED  BY <1>6, <2>1, <2>2
<1>15. ASSUME NEW j \in DOMAIN items, NEW k \in DOMAIN items, items[j].t = "output", items[k].t = "output",
              items[j].id = items[k].id
       PROVE  j = k
  <2>1. at[j] = at[k]
    <3>1. /\ turns[at[j]].output.id = turns[at[k]].output.id /\ turns[at[j]].who = "tool"
          /\ at[j] \in DOMAIN turns /\ at[k] \in DOMAIN turns
      BY <1>3, <1>12, <1>15
    <3>2. turns[at[j]].output.id # 0
      BY <3>1 DEF HInv, Turned, SoundTurn
    <3>. QED  BY <3>1, <3>2 DEF HInv, OutputsOnce
  <2>2. off[j] = off[k]
    BY <1>2, <1>3, <1>15, <2>1 DEF OutputsAre
  <2>. QED  BY <1>6, <2>1, <2>2
<1>16. ASSUME NEW j \in DOMAIN items, NEW k \in DOMAIN items, items[j].t = "call", items[k].t = "output",
              items[j].id = items[k].id
       PROVE  j < k
  <2>1. /\ turns[at[k]].who = "tool" /\ turns[at[k]].output.id \in Elements(turns[at[j]].calls)
        /\ at[j] \in DOMAIN turns /\ at[k] \in DOMAIN turns
    BY <1>3, <1>11, <1>12, <1>16
  <2>2. at[j] < at[k]
    BY <2>1 DEF HInv, Follows
  <2>3. at[j] \in Nat /\ at[k] \in Nat
    BY <1>5, <2>1
  <2>4. ~(k < j) /\ j # k
    BY <1>1, <1>16, <2>2, <2>3 DEF Sourced
  <2>. QED  BY <1>5, <2>4
<1>17. ASSUME NEW m \in DOMAIN turns, turns[m].who = "tool"
       PROVE  \E k \in DOMAIN items : items[k].t = "output" /\ items[k].id = turns[m].output.id
  <2>1. PICK i \in DOMAIN History!ItemsOf(m) : History!ItemsOf(m)[i].t = "output"
    BY <1>2, <1>17 DEF OutputsAre
  <2>2. PICK k \in DOMAIN items : items[k] = History!ItemsOf(m)[i]
    BY <1>4
  <2>. QED  BY <1>2, <2>1, <2>2 DEF OutputsAre
<1>18. ASSUME NEW m \in DOMAIN turns, turns[m].who = "inline"
       PROVE  \E k \in DOMAIN items : items[k].t = "call" /\ items[k].v # "none"
                /\ items[k].id = turns[m].output.id
  <2>1. turns[m].calls = <<turns[m].output.id>>
    BY <1>18 DEF HInv, Turned, SoundTurn
  <2>2. turns[m].output.id \in Elements(turns[m].calls)
    BY <2>1 DEF Elements
  <2>3. PICK i \in DOMAIN History!ItemsOf(m) : History!ItemsOf(m)[i].t = "call"
          /\ History!ItemsOf(m)[i].id = turns[m].output.id
    BY <1>2, <2>2 DEF CallItems
  <2>4. History!ItemsOf(m)[i].v # "none"
    BY <1>2, <1>18, <2>3 DEF CallItems
  <2>5. PICK k \in DOMAIN items : items[k] = History!ItemsOf(m)[i]
    BY <1>4
  <2>. QED  BY <2>3, <2>4, <2>5
<1>19. ASSUME NEW m \in DOMAIN turns, m = Len(turns), turns[m].calls # <<>>
       PROVE  items # <<>> /\ items[Len(items)].t = "call"
  <2>. DEFINE p == History!ItemsOf(m)
  <2>1. p \in Seq(ItemSet) /\ p # <<>> /\ p[Len(p)].t = "call"
    BY <1>2, <1>19 DEF CallItems
  <2>2. Len(p) \in DOMAIN p /\ Len(p) \in Nat /\ DOMAIN p = 1..Len(p)
    BY <2>1
  <2>3. PICK k \in DOMAIN items : at[k] = m /\ off[k] = Len(p) /\ items[k] = p[Len(p)]
    BY <1>4, <2>2
  <2>4. k = Len(items)
    <3>1. SUFFICES ASSUME k # Len(items) PROVE FALSE
      OBVIOUS
    <3>2. Len(items) \in DOMAIN items /\ k < Len(items)
      BY <1>5, <3>1
    <3>. DEFINE l == Len(items)
    <3>3. at[l] \in DOMAIN turns /\ off[l] \in DOMAIN History!ItemsOf(at[l])
      BY <1>3, <3>2
    <3>4. at[k] < at[l] \/ (at[k] = at[l] /\ off[k] < off[l])
      BY <1>1, <3>2 DEF Sourced
    <3>5. ~(m < at[l])
      BY <1>5, <1>19, <3>3
    <3>6. at[l] = m /\ Len(p) < off[l]
      BY <2>3, <3>4, <3>5
    <3>. QED  BY <2>2, <3>3, <3>6
  <2>5. items # <<>>
    BY <2>3
  <2>. QED  BY <2>1, <2>3, <2>4, <2>5
<1>20. \A k \in DOMAIN items : items[k].t = "call" =>
         items[k].id \in History!CallsMade /\ items[k].name = items[k].id
  BY <1>3, <1>11, MadeIs
<1>21. \A k \in DOMAIN items : items[k].t = "output" =>
       items[k].name = items[k].id /\ \E m \in DOMAIN turns : turns[m].who = "tool"
         /\ turns[m].output.id = items[k].id
  BY <1>3, <1>12
<1>22. \A k \in DOMAIN items : items[k].t = "call" /\ items[k].v # "none" =>
       \E m \in DOMAIN turns : turns[m].who = "inline" /\ turns[m].output.id = items[k].id
  BY <1>3, <1>11
<1>23. Linked(items)
  BY <1>13, <1>14, <1>15, <1>16, <1>17, <1>18, <1>19, <1>20, <1>21, <1>22, Zenon DEF Linked
<1>. QED  BY <1>23 DEF items

\* Where they are not, no output has the id of a call.
Apart(items) ==
  \A j, k \in DOMAIN items : items[j].t = "call" /\ items[k].t = "output" => items[j].id # items[k].id

LEMMA ItemsApart == ASSUME History!BoundsAssumption, HInv, client = "gemini" PROVE Apart(History!Items)
<1>. DEFINE items == History!Items
<1>1. PICK at, off : items \in Seq(ItemSet) /\ Sourced(items, at, off)
  BY ItemsSourced
<1>2. \A m \in DOMAIN turns : Numbered(m, History!ItemsOf(m)) /\ m \in Nat
  <2>1. turns \in Seq(TurnSet)
    BY DEF HInv, Counted
  <2>. QED  BY <2>1, ItemsOfIs DEF PartIs
<1>. HIDE DEF items
<1>3. ASSUME NEW k \in DOMAIN items
      PROVE  at[k] \in DOMAIN turns /\ off[k] \in DOMAIN History!ItemsOf(at[k])
               /\ items[k] = History!ItemsOf(at[k])[off[k]]
  BY <1>1 DEF Sourced
<1>4. ASSUME NEW j \in DOMAIN items, NEW k \in DOMAIN items, items[j].t = "call", items[k].t = "output"
      PROVE  items[j].id # items[k].id
  <2>1. PICK n \in 1..2 : items[j].id = 1000 + 10 * at[j] + n
    BY <1>2, <1>3, <1>4 DEF Numbered
  <2>2. items[k].id = 1000 + 10 * at[k]
    BY <1>2, <1>3, <1>4 DEF Numbered
  <2>3. \A a, b \in Nat : \A c \in 1..2 : 1000 + 10 * a + c # 1000 + 10 * b
    OBVIOUS
  <2>4. at[j] \in Nat /\ at[k] \in Nat
    BY <1>2, <1>3
  <2>. QED  BY <2>1, <2>2, <2>3, <2>4
<1>. QED  BY <1>4 DEF Apart, items

\* Codex gets the items as they are.
LEMMA Codex == ASSUME History!BoundsAssumption, HInv PROVE History!CodexPairs
<1>. SUFFICES ASSUME client # "gemini", NEW k \in DOMAIN History!Items,
                       History!Items[k].name \in History!CallsMade, History!Items[k].t = "output"
              PROVE  \E j \in 1..(k - 1) : History!Items[j].t = "call"
                       /\ History!Items[j].id = History!Items[k].id
  BY DEF History!CodexPairs, History!PairsAt
<1>1. Linked(History!Items) /\ History!Items \in Seq(ItemSet)
  BY ItemsLinked, ItemsSourced
<1>2. History!Items[k].name = History!Items[k].id
  BY <1>1 DEF Linked
<1>3. PICK j \in DOMAIN History!Items : History!Items[j].t = "call" /\ History!Items[j].id = History!Items[k].id
  BY <1>1, <1>2 DEF Linked
<1>4. j < k
  BY <1>1, <1>3 DEF Linked
<1>5. j \in 1..(k - 1)
  BY <1>1, <1>4
<1>. QED  BY <1>3, <1>5

\* The texts of b are those of a: the one at k was at from[k].
Carries(a, b, from) ==
  /\ \A k \in DOMAIN b : b[k].text > 0 =>
       from[k] \in DOMAIN a /\ a[from[k]].text = b[k].text /\ a[from[k]].role = b[k].role
  /\ \A i \in DOMAIN a : a[i].text > 0 => \E k \in DOMAIN b : b[k].text = a[i].text /\ b[k].role = a[i].role
  /\ \A j, k \in DOMAIN b : j < k /\ b[j].text > 0 /\ b[k].text > 0 => from[j] < from[k]

LEMMA CarriesAll ==
  ASSUME NEW a, NEW b, NEW from, History!NothingLost(a), Carries(a, b, from)
  PROVE  History!NothingLost(b)
<1>. DEFINE T(s) == {<<m.role, m.text>> : m \in {n \in History!ToSet(s) : n.text > 0}}
<1>1. T(b) = T(a)
  <2>1. ASSUME NEW k \in DOMAIN b, b[k].text > 0
        PROVE  \E m \in Elements(a) : m.text > 0 /\ <<b[k].role, b[k].text>> = <<m.role, m.text>>
    <3>1. from[k] \in DOMAIN a /\ a[from[k]].text = b[k].text /\ a[from[k]].role = b[k].role
      BY <2>1 DEF Carries
    <3>2. a[from[k]] \in Elements(a)
      BY <3>1 DEF Elements
    <3>. QED  BY <2>1, <3>1, <3>2
  <2>2. ASSUME NEW i \in DOMAIN a, a[i].text > 0
        PROVE  \E m \in Elements(b) : m.text > 0 /\ <<a[i].role, a[i].text>> = <<m.role, m.text>>
    <3>1. PICK k \in DOMAIN b : b[k].text = a[i].text /\ b[k].role = a[i].role
      BY <2>2 DEF Carries
    <3>2. b[k] \in Elements(b)
      BY DEF Elements
    <3>. QED  BY <2>2, <3>1, <3>2
  <2>3. T(a) = {<<m.role, m.text>> : m \in {n \in Elements(a) : n.text > 0}}
    BY SetIs
  <2>4. T(b) = {<<m.role, m.text>> : m \in {n \in Elements(b) : n.text > 0}}
    BY SetIs
  <2>5. ASSUME NEW m \in Elements(b), m.text > 0 PROVE <<m.role, m.text>> \in T(a)
    <3>1. PICK k \in DOMAIN b : m = b[k]
      BY DEF Elements
    <3>2. PICK h \in Elements(a) : h.text > 0 /\ <<m.role, m.text>> = <<h.role, h.text>>
      BY <2>1, <2>5, <3>1
    <3>. QED  BY <2>3, <3>2
  <2>6. ASSUME NEW m \in Elements(a), m.text > 0 PROVE <<m.role, m.text>> \in T(b)
    <3>1. PICK k \in DOMAIN a : m = a[k]
      BY DEF Elements
    <3>2. PICK h \in Elements(b) : h.text > 0 /\ <<m.role, m.text>> = <<h.role, h.text>>
      BY <2>2, <2>6, <3>1
    <3>. QED  BY <2>4, <3>2
  <2>. HIDE DEF T
  <2>7. T(b) \subseteq T(a)
    BY <2>4, <2>5
  <2>8. T(a) \subseteq T(b)
    BY <2>3, <2>6
  <2>. QED  BY <2>7, <2>8
<1>2. ASSUME NEW j \in DOMAIN b, NEW k \in DOMAIN b, j < k, b[j].text > 0, b[k].text > 0
      PROVE  b[j].text < b[k].text
  <2>1. from[j] < from[k]
    BY <1>2 DEF Carries
  <2>2. /\ from[j] \in DOMAIN a /\ a[from[j]].text = b[j].text
        /\ from[k] \in DOMAIN a /\ a[from[k]].text = b[k].text
    BY <1>2 DEF Carries
  <2>. QED  BY <1>2, <2>1, <2>2 DEF History!NothingLost
<1>3. T(a) = {<<History!Speaker(turn.who), turn.text>> : turn \in {u \in History!ToSet(turns) : u.text > 0}}
  BY DEF History!NothingLost
<1>. QED  BY <1>1, <1>2, <1>3 DEF History!NothingLost

\* Only messages say something.
LEMMA ItemsPlain ==
  ASSUME History!BoundsAssumption, HInv
  PROVE  \A k \in DOMAIN History!Items : History!Items[k] \in ItemSet
           /\ (History!Items[k].t # "message" => History!Items[k].text = 0)
<1>1. PICK at, off : History!Items \in Seq(ItemSet) /\ Sourced(History!Items, at, off)
  BY ItemsSourced
<1>2. \A m \in DOMAIN turns : TextsAre(m, History!ItemsOf(m))
  BY ItemsOfIs DEF PartIs
<1>3. ASSUME NEW k \in DOMAIN History!Items PROVE History!Items[k].t # "message" => History!Items[k].text = 0
  <2>1. at[k] \in DOMAIN turns /\ off[k] \in DOMAIN History!ItemsOf(at[k])
          /\ History!Items[k] = History!ItemsOf(at[k])[off[k]]
    BY <1>1 DEF Sourced
  <2>. QED  BY <1>2, <2>1 DEF TextsAre
<1>4. \A k \in DOMAIN History!Items : History!Items[k] \in ItemSet
  BY <1>1
<1>. QED  BY <1>3, <1>4

\* WorkBuddy gets a message for every item.
LEMMA Workbuddy == ASSUME History!BoundsAssumption, HInv PROVE History!WorkbuddyKeeps
<1>. DEFINE items == History!Items sent == History!ToWorkbuddy
<1>1. /\ items \in Seq(ItemSet) /\ DOMAIN items = 1..Len(items) /\ Len(items) \in Nat
      /\ \A k \in DOMAIN items : items[k] \in ItemSet /\ (items[k].t # "message" => items[k].text = 0)
  BY ItemsPlain, ItemsSourced
<1>2. DOMAIN sent = DOMAIN items
  BY DEF History!ToWorkbuddy
<1>3. ASSUME NEW k \in DOMAIN items
      PROVE  /\ items[k].t = "message" => sent[k].text = items[k].text /\ sent[k].role = items[k].role
             /\ items[k].t = "call" => sent[k].text = 0 /\ sent[k].calls = {items[k].id}
             /\ items[k].t = "output" => sent[k].text = 0 /\ sent[k].id = items[k].id
             /\ items[k].t \in {"message", "call", "output"}
  <2>1. items[k].t \in {"message", "call", "output"}
    BY <1>1 DEF ItemSet
  <2>2. CASE items[k].t = "message"
    BY <2>2 DEF History!ToWorkbuddy
  <2>3. CASE items[k].t = "call"
    BY <2>3 DEF History!ToWorkbuddy
  <2>4. CASE items[k].t = "output"
    BY <2>4 DEF History!ToWorkbuddy
  <2>. QED  BY <2>1, <2>2, <2>3, <2>4
<1>4. History!NothingLost(items)
  BY ItemsTexts
<1>5. History!NothingLost(sent)
  <2>. HIDE DEF items, sent
  <2>1. \A k \in DOMAIN items : sent[k].text = items[k].text
          /\ (items[k].text > 0 => sent[k].role = items[k].role)
    BY <1>1, <1>3
  <2>2. PICK from : from = [k \in DOMAIN items |-> k]
    OBVIOUS
  <2>3. Carries(items, sent, from)
    BY <1>2, <2>1, <2>2 DEF Carries
  <2>. QED  BY <1>4, <2>3, CarriesAll
<1>6. ASSUME client \in {"chat", "anthropic"}, NEW k \in DOMAIN turns,
             turns[k].output.id \in History!CallsMade \ {0}
      PROVE  \E i, j \in DOMAIN sent : i < j /\ turns[k].output.id \in sent[i].calls
               /\ sent[j].id = turns[k].output.id
  <2>1. Linked(items)
    BY <1>6, ItemsLinked
  <2>. HIDE DEF items, sent
  <2>2. turns[k].who = "tool"
    <3>1. turns[k].who \in Speakers
      <4>1. turns[k] \in TurnSet
        BY DEF HInv, Counted
      <4>. QED  BY <4>1 DEF TurnSet
    <3>2. SoundTurn(turns[k], called) /\ (turns[k].who = "inline" => client = "responses")
      BY DEF HInv, Turned
    <3>. QED  BY <1>6, <3>1, <3>2 DEF SoundTurn, Speakers
  <2>3. PICK j \in DOMAIN items : items[j].t = "output" /\ items[j].id = turns[k].output.id
    BY <2>1, <2>2 DEF Linked
  <2>4. PICK i \in DOMAIN items : items[i].t = "call" /\ items[i].id = turns[k].output.id
    BY <1>6, <2>1 DEF Linked
  <2>5. i < j
    BY <2>1, <2>3, <2>4 DEF Linked
  <2>. QED  BY <1>2, <1>3, <2>3, <2>4, <2>5
<1>. QED  BY <1>5, <1>6 DEF History!WorkbuddyKeeps

-----------------------------------------------------------------------------
(* What GrokSent is sent.                                                      *)

Plain(s) == s \in Seq(ItemSet) /\ \A k \in DOMAIN s : s[k].t # "message" => s[k].text = 0

\* What an item is expanded to.
ExpansionIs(x, p) ==
  /\ Plain(p) /\ p # <<>>
  /\ \A i \in DOMAIN p :
       /\ p[i].text > 0 => i = 1 /\ p[i].text = x.text /\ p[i].role = x.role
       /\ p[i].t = "call" => i = 1 /\ x.t = "call" /\ p[i].id = x.id
       /\ p[i].t = "output" =>
            p[i].id = x.id /\ ((x.t = "output" /\ i = 1) \/ (x.t = "call" /\ x.v # "none" /\ i = 2))
  /\ p[1].text = x.text /\ p[1].role = x.role /\ p[1].t = x.t /\ p[1].id = x.id
  /\ x.t = "call" /\ x.v # "none" => 2 \in DOMAIN p /\ p[2].t = "output" /\ p[2].id = x.id

LEMMA TuplesOf ==
  ASSUME NEW T, NEW a \in T, NEW b \in T, NEW c \in T
  PROVE  /\ <<a>> \in Seq(T) /\ DOMAIN <<a>> = {1} /\ <<a>>[1] = a /\ <<a>> # <<>>
         /\ <<a, b>> \in Seq(T) /\ DOMAIN <<a, b>> = {1, 2} /\ <<a, b>>[1] = a /\ <<a, b>>[2] = b /\ <<a,
              b>> # <<>>
         /\ <<a, b, c>> \in Seq(T) /\ DOMAIN <<a, b, c>> = {1, 2, 3}
         /\ <<a, b, c>>[1] = a /\ <<a, b, c>>[2] = b /\ <<a, b, c>>[3] = c /\ <<a, b, c>> # <<>>
OBVIOUS

LEMMA TuplesJoined ==
  ASSUME NEW T, NEW a \in T, NEW b \in T, NEW c \in T
  PROVE  /\ <<a>> \o <<>> = <<a>> /\ <<a>> \o <<b>> = <<a, b>>
         /\ <<a, b>> \o <<>> = <<a, b>> /\ <<a, b>> \o <<c>> = <<a, b, c>>
<1>1. <<>> \in Seq(T) /\ <<a>> \in Seq(T) /\ <<b>> \in Seq(T) /\ <<a, b>> \in Seq(T) /\ <<c>> \in Seq(T)
  OBVIOUS
<1>2. <<a>> \o <<>> = <<a>>
  BY <1>1
<1>3. <<a>> \o <<b>> = <<a, b>>
  <2>1. PICK u : u = <<a>> \o <<b>>
    OBVIOUS
  <2>2. u \in Seq(T) /\ Len(u) = 2 /\ u[1] = a /\ u[2] = b
    BY <1>1, <2>1
  <2>3. u = <<a, b>>
    BY <2>2
  <2>. QED  BY <2>1, <2>3
<1>4. <<a, b>> \o <<>> = <<a, b>>
  BY <1>1
<1>5. <<a, b>> \o <<c>> = <<a, b, c>>
  <2>1. PICK u : u = <<a, b>> \o <<c>>
    OBVIOUS
  <2>2. u \in Seq(T) /\ Len(u) = 3 /\ u[1] = a /\ u[2] = b /\ u[3] = c
    BY <1>1, <2>1
  <2>3. u = <<a, b, c>>
    BY <2>2
  <2>. QED  BY <2>1, <2>3
<1>. QED  BY <1>2, <1>3, <1>4, <1>5

LEMMA ExpandIs ==
  ASSUME NEW x \in ItemSet, x.t # "message" => x.text = 0
  PROVE  ExpansionIs(x, History!Expand(x))
<1>1. PICK y : y = History!Said("user", 0)
  OBVIOUS
<1>2. y \in ItemSet /\ y.t = "message" /\ y.text = 0
  BY <1>1, SaidIs
<1>3. /\ x.t \in {"message", "call", "output"} /\ x.id \in Nat /\ x.text \in Nat
      /\ x.v \in {"none", "text", "image", "empty"}
  BY DEF ItemSet
<1>4. History!ImageMessage(x) = <<>> \/ History!ImageMessage(x) = <<y>>
  BY <1>1 DEF History!ImageMessage
<1>5. CASE x.t = "call" /\ x.v # "none"
  <2>1. PICK c : c = [x EXCEPT !.v = "none"]
    OBVIOUS
  <2>2. PICK o : o = History!Item("output", x.id, x.v)
    OBVIOUS
  <2>3. c \in ItemSet /\ c.t = x.t /\ c.id = x.id /\ c.text = x.text /\ c.role = x.role
    BY <2>1 DEF ItemSet
  <2>4. o \in ItemSet /\ o.t = "output" /\ o.id = x.id /\ o.text = 0
    BY <1>3, <2>2, ItemIs
  <2>5. History!Expand(x) = <<c, o>> \o History!ImageMessage(x)
    BY <1>5, <2>1, <2>2 DEF History!Expand
  <2>6. History!Expand(x) = <<c, o>> \/ History!Expand(x) = <<c, o, y>>
    <3>1. <<c, o>> \o <<>> = <<c, o>> /\ <<c, o>> \o <<y>> = <<c, o, y>>
      BY <1>2, <2>3, <2>4, TuplesJoined
    <3>. QED  BY <1>4, <2>5, <3>1
  <2>7. ExpansionIs(x, <<c, o>>)
    <3>1. /\ <<c, o>> \in Seq(ItemSet) /\ DOMAIN <<c, o>> = {1, 2} /\ <<c, o>>[1] = c /\ <<c, o>>[2] = o
          /\ <<c, o>> # <<>>
      BY <2>3, <2>4, TuplesOf
    <3>2. PICK p : p = <<c, o>>
      OBVIOUS
    <3>3. ExpansionIs(x, p)
      <4>1. p \in Seq(ItemSet) /\ DOMAIN p = {1, 2} /\ p[1] = c /\ p[2] = o /\ p # <<>>
        BY <3>1, <3>2
      <4>2. c.text = 0
        BY <1>5, <2>3
      <4>. QED  BY ONLY <1>5, <2>3, <2>4, <4>1, <4>2 DEF ExpansionIs, Plain
    <3>. QED  BY <3>2, <3>3
  <2>8. ExpansionIs(x, <<c, o, y>>)
    <3>1. /\ <<c, o, y>> \in Seq(ItemSet) /\ DOMAIN <<c, o, y>> = {1, 2, 3} /\ <<c, o, y>>[1] = c
          /\ <<c, o, y>>[2] = o /\ <<c, o, y>>[3] = y /\ <<c, o, y>> # <<>>
      BY <1>2, <2>3, <2>4, TuplesOf
    <3>2. PICK p : p = <<c, o, y>>
      OBVIOUS
    <3>3. ExpansionIs(x, p)
      <4>1. p \in Seq(ItemSet) /\ DOMAIN p = {1, 2, 3} /\ p[1] = c /\ p[2] = o /\ p[3] = y /\ p # <<>>
        BY <3>1, <3>2
      <4>2. c.text = 0
        BY <1>5, <2>3
      <4>. QED  BY ONLY <1>2, <1>5, <2>3, <2>4, <4>1, <4>2 DEF ExpansionIs, Plain
    <3>. QED  BY <3>2, <3>3
  <2>. QED  BY <2>6, <2>7, <2>8
<1>6. ExpansionIs(x, <<x>>) \/ (x.t = "call" /\ x.v # "none")
  <2>1. PICK p : p = <<x>>
    OBVIOUS
  <2>2. p \in Seq(ItemSet) /\ DOMAIN p = {1} /\ p[1] = x /\ p # <<>>
    BY <2>1, TuplesOf
  <2>3. ExpansionIs(x, p) \/ (x.t = "call" /\ x.v # "none")
    BY ONLY x.t # "message" => x.text = 0, <2>2 DEF ExpansionIs, Plain
  <2>. QED  BY <2>1, <2>3
<1>7. CASE x.t = "output"
  <2>1. History!Expand(x) = <<x>> \o History!ImageMessage(x)
    BY <1>7 DEF History!Expand
  <2>2. History!Expand(x) = <<x>> \/ History!Expand(x) = <<x, y>>
    <3>1. <<x>> \o <<>> = <<x>> /\ <<x>> \o <<y>> = <<x, y>>
      BY <1>2, TuplesJoined
    <3>. QED  BY <1>4, <2>1, <3>1
  <2>3. ExpansionIs(x, <<x, y>>)
    <3>1. PICK p : p = <<x, y>>
      OBVIOUS
    <3>2. p \in Seq(ItemSet) /\ DOMAIN p = {1, 2} /\ p[1] = x /\ p[2] = y /\ p # <<>>
      BY <1>2, <3>1, TuplesOf
    <3>3. ExpansionIs(x, p)
      BY ONLY <1>2, <1>7, x.t # "message" => x.text = 0, <3>2 DEF ExpansionIs, Plain
    <3>. QED  BY <3>1, <3>3
  <2>. QED  BY <1>6, <1>7, <2>2, <2>3
<1>8. CASE ~(x.t = "call" /\ x.v # "none") /\ x.t # "output"
  <2>1. History!Expand(x) = <<x>>
    BY <1>8 DEF History!Expand
  <2>. QED  BY <1>6, <1>8, <2>1
<1>. QED  BY <1>5, <1>7, <1>8

\* Where the expanded items come from.
Spread(items, e, at, off) ==
  /\ \A k \in DOMAIN e :
       at[k] \in DOMAIN items /\ off[k] \in DOMAIN History!Expand(items[at[k]])
         /\ e[k] = History!Expand(items[at[k]])[off[k]]
  /\ \A j, k \in DOMAIN e : j < k => at[j] < at[k] \/ (at[j] = at[k] /\ off[j] < off[k])
  /\ \A m \in DOMAIN items : \A i \in DOMAIN History!Expand(items[m]) : \E k \in DOMAIN e : at[k] = m
       /\ off[k] = i

LEMMA ExpandedSpread ==
  ASSUME NEW items, Plain(items)
  PROVE  Plain(History!Expanded(items)) /\ \E at, off : Spread(items, History!Expanded(items), at, off)
<1>. DEFINE parts == [k \in DOMAIN items |-> History!Expand(items[k])]
<1>1. /\ items \in Seq(ItemSet) /\ DOMAIN items = 1..Len(items) /\ Len(items) \in Nat
      /\ \A k \in DOMAIN items : items[k] \in ItemSet /\ (items[k].t # "message" => items[k].text = 0)
  BY DEF Plain
<1>2. \A k \in DOMAIN items : ExpansionIs(items[k], History!Expand(items[k]))
  BY <1>1, ExpandIs
<1>3. \A k \in DOMAIN items : History!Expand(items[k]) \in Seq(ItemSet)
  BY <1>2 DEF ExpansionIs, Plain
<1>4. parts \in Seq(Seq(ItemSet)) /\ Len(parts) = Len(items)
        /\ \A k \in DOMAIN items : parts[k] = History!Expand(items[k])
  BY <1>1, <1>3
<1>5. PICK e : e = History!Expanded(items)
  OBVIOUS
<1>6. e = History!FlattenSeq(parts)
  BY <1>5 DEF History!Expanded
<1>. HIDE DEF parts
<1>7. e \in Seq(ItemSet) /\ \E at, off : PlacedAt(parts, Len(items), e, at, off)
  BY <1>4, <1>6, FlatPlaces
<1>8. PICK at, off : PlacedAt(parts, Len(items), e, at, off)
  BY <1>7
<1>. DEFINE D == 1..Len(items)
<1>9. D = DOMAIN items
  BY <1>1
<1>10. /\ \A k \in DOMAIN e : at[k] \in D /\ off[k] \in DOMAIN parts[at[k]] /\ e[k] = parts[at[k]][off[k]]
       /\ \A j, k \in DOMAIN e : j < k => at[j] < at[k] \/ (at[j] = at[k] /\ off[j] < off[k])
       /\ \A m \in D : \A i \in DOMAIN parts[m] : \E k \in DOMAIN e : at[k] = m /\ off[k] = i
  BY <1>8, Zenon DEF PlacedAt
<1>. HIDE DEF D
<1>11. Spread(items, e, at, off)
  <2>1. ASSUME NEW k \in DOMAIN e
        PROVE  at[k] \in DOMAIN items /\ off[k] \in DOMAIN History!Expand(items[at[k]])
                 /\ e[k] = History!Expand(items[at[k]])[off[k]]
    <3>1. at[k] \in DOMAIN items /\ off[k] \in DOMAIN parts[at[k]] /\ e[k] = parts[at[k]][off[k]]
      BY <1>9, <1>10, Zenon
    <3>2. parts[at[k]] = History!Expand(items[at[k]])
      BY <1>4, <3>1, Zenon
    <3>. QED  BY <3>1, <3>2, Zenon
  <2>2. ASSUME NEW m \in DOMAIN items, NEW i \in DOMAIN History!Expand(items[m])
        PROVE  \E k \in DOMAIN e : at[k] = m /\ off[k] = i
    <3>1. parts[m] = History!Expand(items[m]) /\ m \in D
      BY <1>4, <1>9, Zenon
    <3>. QED  BY <1>10, <3>1, Zenon
  <2>. QED  BY <1>10, <2>1, <2>2, Zenon DEF Spread
<1>12. Plain(e)
  <2>1. ASSUME NEW k \in DOMAIN e, e[k].t # "message" PROVE e[k].text = 0
    <3>1. at[k] \in DOMAIN items /\ off[k] \in DOMAIN History!Expand(items[at[k]])
            /\ e[k] = History!Expand(items[at[k]])[off[k]]
      BY <1>11 DEF Spread
    <3>2. Plain(History!Expand(items[at[k]]))
      BY <1>2, <3>1 DEF ExpansionIs
    <3>. QED  BY <2>1, <3>1, <3>2 DEF Plain
  <2>. QED  BY <1>7, <2>1 DEF Plain
<1>. QED  BY <1>5, <1>11, <1>12

\* An expanded item at its place.
Spot(items, e, at, off, k) ==
  at[k] \in DOMAIN items /\ off[k] \in Nat /\ off[k] \in DOMAIN History!Expand(items[at[k]])
  /\ e[k] = History!Expand(items[at[k]])[off[k]] /\ ExpansionIs(items[at[k]], History!Expand(items[at[k]]))
       /\ at[k] \in Nat

LEMMA SpotIs ==
  ASSUME NEW items, Plain(items), NEW e, NEW at, NEW off, Spread(items, e, at, off), NEW k \in DOMAIN e
  PROVE  Spot(items, e, at, off, k)
<1>1. at[k] \in DOMAIN items /\ off[k] \in DOMAIN History!Expand(items[at[k]])
        /\ e[k] = History!Expand(items[at[k]])[off[k]]
  BY DEF Spread
<1>2. items[at[k]] \in ItemSet /\ (items[at[k]].t # "message" => items[at[k]].text = 0) /\ at[k] \in Nat
  BY <1>1 DEF Plain
<1>3. ExpansionIs(items[at[k]], History!Expand(items[at[k]]))
  BY <1>2, ExpandIs
<1>4. off[k] \in Nat
  <2>1. History!Expand(items[at[k]]) \in Seq(ItemSet)
    BY <1>3 DEF ExpansionIs, Plain
  <2>. QED  BY <1>1, <2>1
<1>. QED  BY <1>1, <1>2, <1>3, <1>4 DEF Spot

LEMMA ExpandedTexts ==
  ASSUME NEW items, Plain(items), History!NothingLost(items)
  PROVE  History!NothingLost(History!Expanded(items))
<1>1. PICK e : e = History!Expanded(items)
  OBVIOUS
<1>2. PICK at, off : Spread(items, e, at, off)
  BY <1>1, ExpandedSpread
<1>3. \A k \in DOMAIN e : Spot(items, e, at, off, k)
  BY <1>2, SpotIs
<1>4. ASSUME NEW k \in DOMAIN e, e[k].text > 0
      PROVE  at[k] \in DOMAIN items /\ off[k] = 1 /\ items[at[k]].text = e[k].text
               /\ items[at[k]].role = e[k].role
  <2>1. Spot(items, e, at, off, k)
    BY <1>3
  <2>2. PICK x : x = items[at[k]]
    OBVIOUS
  <2>3. PICK p : p = History!Expand(x)
    OBVIOUS
  <2>4. ExpansionIs(x, p) /\ e[k] = p[off[k]] /\ off[k] \in DOMAIN p /\ at[k] \in DOMAIN items
    BY <2>1, <2>2, <2>3 DEF Spot
  <2>5. off[k] = 1 /\ x.text = e[k].text /\ x.role = e[k].role
    BY ONLY <1>4, <2>4 DEF ExpansionIs
  <2>. QED  BY <2>2, <2>4, <2>5
<1>5. ASSUME NEW i \in DOMAIN items, items[i].text > 0
      PROVE  \E k \in DOMAIN e : e[k].text = items[i].text /\ e[k].role = items[i].role
  <2>1. items[i] \in ItemSet /\ (items[i].t # "message" => items[i].text = 0)
    BY DEF Plain
  <2>2. ExpansionIs(items[i], History!Expand(items[i]))
    BY <2>1, ExpandIs
  <2>. DEFINE p == History!Expand(items[i])
  <2>3. p \in Seq(ItemSet) /\ p # <<>> /\ p[1].text = items[i].text /\ p[1].role = items[i].role
    BY <2>2 DEF ExpansionIs, Plain
  <2>4. 1 \in DOMAIN p
    <3>. HIDE DEF p
    <3>. QED  BY <2>3
  <2>5. PICK k \in DOMAIN e : at[k] = i /\ off[k] = 1
    BY <1>2, <2>4 DEF Spread
  <2>6. e[k] = p[1]
    BY <1>3, <2>5 DEF Spot
  <2>. QED  BY <2>3, <2>6
<1>6. ASSUME NEW j \in DOMAIN e, NEW k \in DOMAIN e, j < k, e[j].text > 0, e[k].text > 0 PROVE at[j] < at[k]
  <2>1. at[j] < at[k] \/ (at[j] = at[k] /\ off[j] < off[k])
    BY <1>2, <1>6 DEF Spread
  <2>2. off[j] = 1 /\ off[k] = 1
    BY <1>4, <1>6
  <2>. QED  BY <2>1, <2>2
<1>7. Carries(items, e, at)
  BY <1>4, <1>5, <1>6, Zenon DEF Carries
<1>. QED  BY <1>1, <1>7, CarriesAll

\* The calls and outputs that Grok's history is made of.
Once(e) ==
  /\ \A j, k \in DOMAIN e : e[j].t = "call" /\ e[k].t = "call" /\ e[j].id = e[k].id => j = k
  /\ \A j, k \in DOMAIN e :
       e[j].t = "output" /\ e[k].t = "output" /\ e[j].id = e[k].id /\ e[k].id \notin History!CallNames(e) => j = k
  /\ \A m \in DOMAIN turns : turns[m].output.id # 0 =>
       \E k \in DOMAIN e : e[k].t = "output" /\ e[k].id = turns[m].output.id

LEMMA SameSpot ==
  ASSUME NEW items, NEW e \in Seq(ItemSet), NEW at, NEW off, Spread(items, e, at, off), NEW j \in DOMAIN e,
         NEW k \in DOMAIN e,
         at[j] = at[k], off[j] = off[k], at[j] \in Nat, off[j] \in Nat
  PROVE  j = k
<1>1. ~(j < k) /\ ~(k < j)
  BY DEF Spread
<1>2. j \in Nat /\ k \in Nat
  OBVIOUS
<1>. QED  BY <1>1, <1>2

LEMMA ExpandedOnce ==
  ASSUME History!BoundsAssumption, HInv, NEW items, Plain(items), Linked(items)
  PROVE  Once(History!Expanded(items))
<1>1. PICK e : e = History!Expanded(items)
  OBVIOUS
<1>2. Plain(e) /\ \E at, off : Spread(items, e, at, off)
  BY <1>1, ExpandedSpread
<1>3. PICK at, off : Spread(items, e, at, off)
  BY <1>2
<1>4. \A k \in DOMAIN e : Spot(items, e, at, off, k)
  BY <1>3, SpotIs
<1>5. e \in Seq(ItemSet)
  BY <1>2 DEF Plain
<1>6. ASSUME NEW k \in DOMAIN e, e[k].t = "call"
      PROVE  at[k] \in DOMAIN items /\ items[at[k]].t = "call" /\ items[at[k]].id = e[k].id /\ off[k] = 1
             /\ at[k] \in Nat
  <2>1. Spot(items, e, at, off, k)
    BY <1>4
  <2>2. PICK x : x = items[at[k]]
    OBVIOUS
  <2>3. PICK p : p = History!Expand(x)
    OBVIOUS
  <2>4. ExpansionIs(x, p) /\ e[k] = p[off[k]] /\ off[k] \in DOMAIN p /\ at[k] \in DOMAIN items /\ at[k] \in Nat
    BY <2>1, <2>2, <2>3 DEF Spot
  <2>5. off[k] = 1 /\ x.t = "call" /\ x.id = e[k].id
    BY ONLY <1>6, <2>4 DEF ExpansionIs
  <2>. QED  BY <2>2, <2>4, <2>5
<1>7. ASSUME NEW k \in DOMAIN e, e[k].t = "output"
      PROVE  /\ at[k] \in DOMAIN items /\ items[at[k]].id = e[k].id /\ at[k] \in Nat
             /\ \/ items[at[k]].t = "output" /\ off[k] = 1
                \/ items[at[k]].t = "call" /\ items[at[k]].v # "none" /\ off[k] = 2
  <2>1. Spot(items, e, at, off, k)
    BY <1>4
  <2>2. PICK x : x = items[at[k]]
    OBVIOUS
  <2>3. PICK p : p = History!Expand(x)
    OBVIOUS
  <2>4. ExpansionIs(x, p) /\ e[k] = p[off[k]] /\ off[k] \in DOMAIN p /\ at[k] \in DOMAIN items /\ at[k] \in Nat
    BY <2>1, <2>2, <2>3 DEF Spot
  <2>5. x.id = e[k].id /\ ((x.t = "output" /\ off[k] = 1) \/ (x.t = "call" /\ x.v # "none" /\ off[k] = 2))
    BY ONLY <1>7, <2>4 DEF ExpansionIs
  <2>. QED  BY <2>2, <2>4, <2>5
<1>8. ASSUME NEW i \in DOMAIN items
      PROVE  /\ ExpansionIs(items[i], History!Expand(items[i])) /\ 1 \in DOMAIN History!Expand(items[i])
             /\ \A n \in DOMAIN History!Expand(items[i]) : \E k \in DOMAIN e : e[k] = History!Expand(items[i])[n]
  <2>1. items[i] \in ItemSet /\ (items[i].t # "message" => items[i].text = 0)
    BY DEF Plain
  <2>2. ExpansionIs(items[i], History!Expand(items[i]))
    BY <2>1, ExpandIs
  <2>. DEFINE p == History!Expand(items[i])
  <2>3. p \in Seq(ItemSet) /\ p # <<>>
    BY <2>2 DEF ExpansionIs, Plain
  <2>4. 1 \in DOMAIN p
    <3>. HIDE DEF p
    <3>. QED  BY <2>3
  <2>5. ASSUME NEW n \in DOMAIN p PROVE \E k \in DOMAIN e : e[k] = p[n]
    <3>1. PICK k \in DOMAIN e : at[k] = i /\ off[k] = n
      BY <1>3 DEF Spread
    <3>. QED  BY <1>4, <3>1 DEF Spot
  <2>. QED  BY <2>2, <2>4, <2>5
<1>9. ASSUME NEW i \in DOMAIN items, items[i].t = "call" PROVE items[i].id \in History!CallNames(e)
  <2>1. PICK k \in DOMAIN e : e[k] = History!Expand(items[i])[1]
    BY <1>8
  <2>2. e[k].t = "call" /\ e[k].id = items[i].id
    BY <1>8, <1>9, <2>1 DEF ExpansionIs
  <2>. QED  BY <2>2 DEF History!CallNames
<1>10. ASSUME NEW j \in DOMAIN e, NEW k \in DOMAIN e, e[j].t = "call", e[k].t = "call",
              e[j].id = e[k].id PROVE j = k
  <2>1. at[j] = at[k]
    <3>1. /\ at[j] \in DOMAIN items /\ items[at[j]].t = "call" /\ at[k] \in DOMAIN items
               /\ items[at[k]].t = "call"
          /\ items[at[j]].id = items[at[k]].id
      BY <1>6, <1>10
    <3>. QED  BY <3>1 DEF Linked
  <2>2. off[j] = off[k] /\ at[j] \in Nat /\ off[j] \in Nat
    BY <1>6, <1>10
  <2>. QED  BY <1>3, <1>5, <2>1, <2>2, SameSpot
<1>11. ASSUME NEW j \in DOMAIN e, NEW k \in DOMAIN e, e[j].t = "output", e[k].t = "output",
              e[j].id = e[k].id,
              e[k].id \notin History!CallNames(e)
       PROVE  j = k
  <2>1. /\ at[j] \in DOMAIN items /\ items[at[j]].t = "output" /\ off[j] = 1 /\ items[at[j]].id = e[j].id
             /\ at[j] \in Nat
        /\ at[k] \in DOMAIN items /\ items[at[k]].t = "output" /\ off[k] = 1 /\ items[at[k]].id = e[k].id
    BY <1>7, <1>9, <1>11
  <2>2. at[j] = at[k]
    BY <1>11, <2>1 DEF Linked
  <2>3. off[j] \in Nat /\ off[j] = off[k] /\ at[j] \in Nat
    BY <2>1
  <2>. QED  BY ONLY <1>3, <1>5, <2>2, <2>3, SameSpot, j \in DOMAIN e, k \in DOMAIN e
<1>12. ASSUME NEW m \in DOMAIN turns, turns[m].output.id # 0
       PROVE  \E k \in DOMAIN e : e[k].t = "output" /\ e[k].id = turns[m].output.id
  <2>1. turns[m].who \in {"tool", "inline"}
    <3>1. turns[m].who \in Speakers
      <4>1. turns[m] \in TurnSet
        BY DEF HInv, Counted
      <4>. QED  BY <4>1 DEF TurnSet
    <3>2. SoundTurn(turns[m], called)
      BY DEF HInv, Turned
    <3>. QED  BY <1>12, <3>1, <3>2 DEF SoundTurn, Speakers
  <2>2. CASE turns[m].who = "tool"
    <3>1. PICK i \in DOMAIN items : items[i].t = "output" /\ items[i].id = turns[m].output.id
      BY <2>2 DEF Linked
    <3>2. PICK k \in DOMAIN e : e[k] = History!Expand(items[i])[1]
      BY <1>8
    <3>. QED  BY <1>8, <3>1, <3>2 DEF ExpansionIs
  <2>3. CASE turns[m].who = "inline"
    <3>1. PICK i \in DOMAIN items : items[i].t = "call" /\ items[i].v # "none" /\ items[i].id = turns[m].output.id
      BY <2>3 DEF Linked
    <3>2. 2 \in DOMAIN History!Expand(items[i]) /\ History!Expand(items[i])[2].t = "output"
            /\ History!Expand(items[i])[2].id = items[i].id
      BY <1>8, <3>1 DEF ExpansionIs
    <3>3. PICK k \in DOMAIN e : e[k] = History!Expand(items[i])[2]
      BY <1>8, <3>2
    <3>. QED  BY <3>1, <3>2, <3>3
  <2>. QED  BY <2>1, <2>2, <2>3
<1>. QED  BY <1>1, <1>10, <1>11, <1>12, Zenon DEF Once

LEMMA NamesAre ==
  ASSUME NEW e, NEW id
  PROVE  id \in History!CallNames(e) <=> \E k \in DOMAIN e : e[k].t = "call" /\ e[k].id = id
BY DEF History!CallNames

LEMMA OutputsOfAre ==
  ASSUME NEW e \in Seq(ItemSet)
  PROVE  History!OutputsOf(e) \in Seq(ItemSet)
           /\ Elements(History!OutputsOf(e)) = {x \in Elements(e) : x.t = "output"}
<1>1. History!ToSet(e) = Elements(e)
  BY SetIs
<1>. DEFINE S == {x \in Elements(e) : x.t = "output"}
<1>2. History!OutputsOf(e) = Only(e, S)
  BY <1>1, PickedFrom DEF History!OutputsOf
<1>. HIDE DEF S
<1>3. Only(e, S) \in Seq(ItemSet) /\ Elements(Only(e, S)) = Elements(e) \cap S
  BY OnlyElements
<1>4. Elements(e) \cap S = S
  BY DEF S
<1>. QED  BY <1>2, <1>3, <1>4 DEF S

LEMMA FirstOutputIs ==
  ASSUME NEW e \in Seq(ItemSet), NEW id
  PROVE  \/ History!FirstOutput(e, id) = <<>> /\ \A k \in DOMAIN e : ~(e[k].t = "output" /\ e[k].id = id)
         \/ \E k \in DOMAIN e : e[k].t = "output" /\ e[k].id = id /\ History!FirstOutput(e, id) = <<e[k]>>
<1>1. History!ToSet(e) = Elements(e)
  BY SetIs
<1>. DEFINE S == {x \in Elements(e) : x.id = id}
            found == Only(History!OutputsOf(e), S)
<1>2. History!OutputsOf(e) \in Seq(ItemSet)
        /\ Elements(History!OutputsOf(e)) = {x \in Elements(e) : x.t = "output"}
  BY OutputsOfAre
<1>3. History!FirstOutput(e, id) = IF found = <<>> THEN <<>> ELSE <<found[1]>>
  BY <1>1, PickedFrom DEF History!FirstOutput
<1>4. found \in Seq(ItemSet) /\ Elements(found) = Elements(History!OutputsOf(e)) \cap S
  <2>. HIDE DEF S
  <2>. QED  BY <1>2, OnlyElements
<1>5. Elements(found) = {x \in Elements(e) : x.t = "output" /\ x.id = id}
  BY <1>2, <1>4
<1>. HIDE DEF found, S
<1>6. CASE found = <<>>
  <2>1. Elements(found) = {}
    BY <1>6, EmptyIs
  <2>2. \A k \in DOMAIN e : e[k] \in Elements(e)
    BY DEF Elements
  <2>. QED  BY <1>3, <1>5, <1>6, <2>1, <2>2
<1>7. CASE found # <<>>
  <2>1. 1 \in DOMAIN found
    BY <1>4, <1>7
  <2>2. found[1] \in Elements(found)
    BY <2>1 DEF Elements
  <2>3. found[1] \in Elements(e) /\ found[1].t = "output" /\ found[1].id = id
    BY <1>5, <2>2
  <2>4. PICK k \in DOMAIN e : found[1] = e[k]
    BY <2>3 DEF Elements
  <2>. QED  BY <1>3, <1>7, <2>3, <2>4
<1>. QED  BY <1>6, <1>7

\* An item and, behind a call, its output.
PairIs(e, x, p) ==
  /\ p \in Seq(ItemSet) /\ 1 \in DOMAIN p /\ p[1] = x
  /\ \A i \in DOMAIN p : i # 1 => i = 2 /\ p[i].t = "output" /\ p[i].id = x.id /\ x.t = "call" /\ p[i].text = 0
  /\ x.t = "call" /\ (\E k \in DOMAIN e : e[k].t = "output" /\ e[k].id = x.id) => 2 \in DOMAIN p

LEMMA PairedIs ==
  ASSUME NEW e, Plain(e), NEW x \in ItemSet
  PROVE  PairIs(e, x, History!Paired(e, x))
<1>0. e \in Seq(ItemSet) /\ \A k \in DOMAIN e : e[k] \in ItemSet
  BY DEF Plain
<1>1. CASE History!Paired(e, x) = <<x>>
             /\ ~(x.t = "call" /\ \E k \in DOMAIN e : e[k].t = "output" /\ e[k].id = x.id)
  <2>1. PICK p : p = <<x>>
    OBVIOUS
  <2>2. p \in Seq(ItemSet) /\ DOMAIN p = {1} /\ p[1] = x
    BY <2>1, TuplesOf
  <2>3. PairIs(e, x, p)
    BY ONLY <1>1, <2>2 DEF PairIs
  <2>. QED  BY <1>1, <2>1, <2>3
<1>2. ASSUME x.t = "call", NEW k \in DOMAIN e, e[k].t = "output", e[k].id = x.id,
             History!Paired(e, x) = <<x, e[k]>>
      PROVE  PairIs(e, x, History!Paired(e, x))
  <2>1. PICK o : o = e[k]
    OBVIOUS
  <2>2. PICK p : p = <<x, o>>
    OBVIOUS
  <2>3. o \in ItemSet /\ o.text = 0 /\ o.t = "output" /\ o.id = x.id
    BY <1>0, <1>2, <2>1 DEF Plain
  <2>4. p \in Seq(ItemSet) /\ DOMAIN p = {1, 2} /\ p[1] = x /\ p[2] = o
    BY <2>2, <2>3, TuplesOf
  <2>5. PairIs(e, x, p)
    BY ONLY <1>2, <2>3, <2>4 DEF PairIs
  <2>. QED  BY <1>2, <2>1, <2>2, <2>5
<1>3. CASE x.t # "call"
  <2>1. History!Paired(e, x) = <<x>>
    BY <1>3 DEF History!Paired
  <2>. QED  BY <1>1, <1>3, <2>1
<1>4. CASE x.t = "call"
  <2>1. History!Paired(e, x) = <<x>> \o History!FirstOutput(e, x.id)
    BY <1>4 DEF History!Paired
  <2>2. CASE History!FirstOutput(e, x.id) = <<>> /\ \A k \in DOMAIN e : ~(e[k].t = "output" /\ e[k].id = x.id)
    <3>1. <<x>> \o <<>> = <<x>>
      BY TuplesJoined
    <3>2. History!Paired(e, x) = <<x>>
      BY <2>1, <2>2, <3>1
    <3>3. ~(x.t = "call" /\ \E k \in DOMAIN e : e[k].t = "output" /\ e[k].id = x.id)
      BY <2>2
    <3>. QED  BY <1>1, <3>2, <3>3, Zenon
  <2>3. ASSUME NEW k \in DOMAIN e, e[k].t = "output", e[k].id = x.id,
               History!FirstOutput(e, x.id) = <<e[k]>>
        PROVE  PairIs(e, x, History!Paired(e, x))
    <3>1. e[k] \in ItemSet
      BY <1>0
    <3>2. <<x>> \o <<e[k]>> = <<x, e[k]>>
      BY <3>1, TuplesJoined
    <3>3. History!Paired(e, x) = <<x, e[k]>>
      BY <2>1, <2>3, <3>2
    <3>. QED  BY <1>2, <1>4, <2>3, <3>3, Zenon
  <2>4. \/ History!FirstOutput(e, x.id) = <<>> /\ \A k \in DOMAIN e : ~(e[k].t = "output" /\ e[k].id = x.id)
        \/ \E k \in DOMAIN e : e[k].t = "output" /\ e[k].id = x.id /\ History!FirstOutput(e, x.id) = <<e[k]>>
    BY <1>0, FirstOutputIs
  <2>. QED  BY <2>2, <2>3, <2>4, Zenon
<1>. QED  BY <1>3, <1>4

\* What is not an output keeps its place, with the outputs of the calls.
OthersAre(e, kept, from) ==
  /\ kept \in Seq(ItemSet)
  /\ \A k \in DOMAIN kept : from[k] \in DOMAIN e /\ kept[k] = e[from[k]] /\ kept[k].t # "output"
  /\ \A j, k \in DOMAIN kept : j < k => from[j] < from[k]
  /\ \A i \in DOMAIN e : e[i].t # "output" => \E k \in DOMAIN kept : from[k] = i

LEMMA OthersOfAre ==
  ASSUME NEW e \in Seq(ItemSet)
  PROVE  \E from : OthersAre(e, History!OthersOf(e), from)
<1>1. History!ToSet(e) = Elements(e)
  BY SetIs
<1>. DEFINE S == {x \in Elements(e) : x.t # "output"}
<1>2. History!OthersOf(e) = Only(e, S)
  BY <1>1, PickedFrom DEF History!OthersOf
<1>3. PICK kept : kept = Only(e, S)
  OBVIOUS
<1>. HIDE DEF S
<1>4. kept \in Seq(ItemSet) /\ \E at : Picked(e, S, Len(e), kept, at)
  BY <1>3, OnlyPlaces
<1>5. PICK from : Picked(e, S, Len(e), kept, from)
  BY <1>4
<1>. DEFINE D == 1..Len(e)
<1>6. D = DOMAIN e
  OBVIOUS
<1>7. /\ \A k \in DOMAIN kept : from[k] \in D /\ kept[k] = e[from[k]] /\ kept[k] \in S
      /\ \A j, k \in DOMAIN kept : j < k => from[j] < from[k]
      /\ \A i \in D : e[i] \in S => \E k \in DOMAIN kept : from[k] = i
  BY <1>5, Zenon DEF Picked
<1>. HIDE DEF D
<1>8. \A k \in DOMAIN kept : from[k] \in DOMAIN e /\ kept[k] = e[from[k]] /\ kept[k].t # "output"
  BY <1>6, <1>7 DEF S
<1>9. ASSUME NEW i \in DOMAIN e, e[i].t # "output" PROVE \E k \in DOMAIN kept : from[k] = i
  <2>1. e[i] \in S
    BY <1>9 DEF S, Elements
  <2>. QED  BY <1>6, <1>7, <2>1
<1>10. OthersAre(e, kept, from)
  BY <1>4, <1>7, <1>8, <1>9 DEF OthersAre
<1>. QED  BY <1>2, <1>3, <1>10

\* The list that the pairs make.
PairsAre(e, kept, u, at, off) ==
  /\ u \in Seq(ItemSet)
  /\ \A k \in DOMAIN u :
       /\ at[k] \in DOMAIN kept /\ off[k] \in DOMAIN History!Paired(e, kept[at[k]])
            /\ u[k] = History!Paired(e, kept[at[k]])[off[k]]
       /\ PairIs(e, kept[at[k]], History!Paired(e, kept[at[k]]))
  /\ \A j, k \in DOMAIN u : j < k => at[j] < at[k] \/ (at[j] = at[k] /\ off[j] < off[k])
  /\ \A m \in DOMAIN kept : \A i \in DOMAIN History!Paired(e, kept[m]) : \E k \in DOMAIN u : at[k] = m
       /\ off[k] = i
  /\ \A k \in DOMAIN u : off[k] = 1 \/ (k - 1 \in DOMAIN u /\ at[k - 1] = at[k] /\ off[k - 1] = off[k] - 1)

LEMMA PairsMake ==
  ASSUME NEW e, Plain(e), NEW kept \in Seq(ItemSet), NEW u,
         u = History!FlattenSeq([k \in DOMAIN kept |-> History!Paired(e, kept[k])])
  PROVE  \E at, off : PairsAre(e, kept, u, at, off)
<1>. DEFINE parts == [k \in DOMAIN kept |-> History!Paired(e, kept[k])]
<1>1. /\ DOMAIN kept = 1..Len(kept) /\ Len(kept) \in Nat /\ \A k \in DOMAIN kept : kept[k] \in ItemSet
  OBVIOUS
<1>2. \A k \in DOMAIN kept : PairIs(e, kept[k], History!Paired(e, kept[k]))
  BY <1>1, PairedIs
<1>3. \A k \in DOMAIN kept : History!Paired(e, kept[k]) \in Seq(ItemSet)
  BY <1>2 DEF PairIs
<1>4. parts \in Seq(Seq(ItemSet)) /\ Len(parts) = Len(kept)
        /\ \A k \in DOMAIN kept : parts[k] = History!Paired(e, kept[k])
  BY <1>1, <1>3
<1>6. u = History!FlattenSeq(parts)
  OBVIOUS
<1>. HIDE DEF parts
<1>7. u \in Seq(ItemSet) /\ \E at, off : PlacedAt(parts, Len(kept), u, at, off)
  BY <1>4, <1>6, FlatPlaces
<1>8. PICK at, off : PlacedAt(parts, Len(kept), u, at, off)
  BY <1>7
<1>. DEFINE D == 1..Len(kept)
<1>9. D = DOMAIN kept
  BY <1>1
<1>10. /\ \A k \in DOMAIN u : at[k] \in D /\ off[k] \in DOMAIN parts[at[k]] /\ u[k] = parts[at[k]][off[k]]
       /\ \A j, k \in DOMAIN u : j < k => at[j] < at[k] \/ (at[j] = at[k] /\ off[j] < off[k])
       /\ \A m \in D : \A i \in DOMAIN parts[m] : \E k \in DOMAIN u : at[k] = m /\ off[k] = i
       /\ \A k \in DOMAIN u : off[k] = 1 \/ (k - 1 \in DOMAIN u /\ at[k - 1] = at[k] /\ off[k - 1] = off[k] - 1)
  BY <1>8, Zenon DEF PlacedAt
<1>. HIDE DEF D
<1>11. ASSUME NEW k \in DOMAIN u
       PROVE  /\ at[k] \in DOMAIN kept /\ off[k] \in DOMAIN History!Paired(e, kept[at[k]])
                   /\ u[k] = History!Paired(e, kept[at[k]])[off[k]]
              /\ PairIs(e, kept[at[k]], History!Paired(e, kept[at[k]]))
  <2>1. at[k] \in DOMAIN kept /\ off[k] \in DOMAIN parts[at[k]] /\ u[k] = parts[at[k]][off[k]]
    BY <1>9, <1>10, Zenon
  <2>2. parts[at[k]] = History!Paired(e, kept[at[k]])
    BY <1>4, <2>1, Zenon
  <2>. QED  BY <1>2, <2>1, <2>2, Zenon
<1>12. ASSUME NEW m \in DOMAIN kept, NEW i \in DOMAIN History!Paired(e, kept[m])
       PROVE  \E k \in DOMAIN u : at[k] = m /\ off[k] = i
  <2>1. parts[m] = History!Paired(e, kept[m]) /\ m \in D
    BY <1>4, <1>9, Zenon
  <2>2. i \in DOMAIN parts[m]
    BY <2>1
  <2>3. \A j \in DOMAIN parts[m] : \E k \in DOMAIN u : at[k] = m /\ off[k] = j
    BY <1>10, <2>1, Zenon
  <2>. QED  BY <2>2, <2>3, Zenon
<1>13. PairsAre(e, kept, u, at, off)
  BY <1>7, <1>10, <1>11, <1>12, Zenon DEF PairsAre
<1>. QED  BY <1>13

\* The two halves of what Grok is sent.
Halves(e, sent, kept, from, u, at, off, r) ==
  /\ OthersAre(e, kept, from) /\ PairsAre(e, kept, u, at, off) /\ sent \in Seq(ItemSet) /\ Joined(u, r, sent)
  /\ \A k \in DOMAIN r : r[k].t = "output" /\ r[k].text = 0 /\ r[k].id \notin History!CallNames(e)
  /\ \A k \in DOMAIN e : e[k].t = "output" /\ e[k].id \notin History!CallNames(e) =>
       \E j \in DOMAIN r : r[j] = e[k]
  /\ \A j, k \in DOMAIN r : j # k =>
       \E i, h \in DOMAIN e : i # h /\ e[i] = r[j] /\ e[h] = r[k]

LEMMA OrphansAre ==
  ASSUME NEW e, Plain(e), NEW r, r = History!Orphans(e)
  PROVE  /\ r \in Seq(ItemSet)
         /\ \A k \in DOMAIN r : r[k].t = "output" /\ r[k].text = 0 /\ r[k].id \notin History!CallNames(e)
         /\ \A k \in DOMAIN e : e[k].t = "output" /\ e[k].id \notin History!CallNames(e) =>
              \E j \in DOMAIN r : r[j] = e[k]
         /\ \A j, k \in DOMAIN r : j # k => \E i, h \in DOMAIN e : i # h /\ e[i] = r[j] /\ e[h] = r[k]
<1>0. e \in Seq(ItemSet) /\ History!ToSet(e) = Elements(e)
  BY SetIs DEF Plain
<1>. DEFINE S == {x \in Elements(e) : x.id \notin History!CallNames(e)}
            O == {x \in Elements(e) : x.t = "output"}
<1>1. PICK o : o = History!OutputsOf(e)
  OBVIOUS
<1>2. r = Only(o, S) /\ o = Only(e, O)
  BY <1>0, <1>1, PickedFrom DEF History!Orphans, History!OutputsOf
<1>3. o \in Seq(ItemSet) /\ Elements(o) = O
  BY <1>0, <1>1, OutputsOfAre
<1>. HIDE DEF S, O
<1>4. r \in Seq(ItemSet) /\ Elements(r) = O \cap S
  BY <1>2, <1>3, OnlyElements
<1>5. \E at : Picked(e, O, Len(e), o, at)
  BY <1>0, <1>2, OnlyPlaces
<1>6. \E at : Picked(o, S, Len(o), r, at)
  BY <1>2, <1>3, OnlyPlaces
<1>7. PICK a : Picked(e, O, Len(e), o, a)
  BY <1>5
<1>8. PICK b : Picked(o, S, Len(o), r, b)
  BY <1>6
<1>9. DOMAIN e = 1..Len(e) /\ DOMAIN o = 1..Len(o) /\ DOMAIN r \subseteq Nat /\ Len(e) \in Nat /\ Len(o) \in Nat
  BY <1>0, <1>3, <1>4
<1>10. ASSUME NEW k \in DOMAIN r PROVE r[k].t = "output" /\ r[k].text = 0 /\ r[k].id \notin History!CallNames(e)
  <2>1. r[k] \in O /\ r[k] \in S
    BY <1>4 DEF Elements
  <2>2. PICK i \in DOMAIN e : r[k] = e[i]
    BY <2>1 DEF O, Elements
  <2>. QED  BY <2>1, <2>2 DEF O, S, Plain
<1>11. ASSUME NEW k \in DOMAIN e, e[k].t = "output",
              e[k].id \notin History!CallNames(e) PROVE \E j \in DOMAIN r : r[j] = e[k]
  <2>1. e[k] \in O \cap S
    BY <1>11 DEF O, S, Elements
  <2>. QED  BY <1>4, <2>1 DEF Elements
<1>12. ASSUME NEW j \in DOMAIN r, NEW k \in DOMAIN r, j < k
       PROVE  \E i, h \in DOMAIN e : i # h /\ e[i] = r[j] /\ e[h] = r[k]
  <2>1. b[j] \in DOMAIN o /\ b[k] \in DOMAIN o /\ b[j] < b[k] /\ r[j] = o[b[j]] /\ r[k] = o[b[k]]
    BY <1>8, <1>9, <1>12 DEF Picked
  <2>2. /\ a[b[j]] \in DOMAIN e /\ a[b[k]] \in DOMAIN e /\ a[b[j]] < a[b[k]]
        /\ o[b[j]] = e[a[b[j]]] /\ o[b[k]] = e[a[b[k]]]
    BY <1>7, <1>9, <2>1 DEF Picked
  <2>3. a[b[j]] # a[b[k]]
    BY <1>9, <2>2
  <2>. QED  BY <2>1, <2>2, <2>3
<1>13. ASSUME NEW j \in DOMAIN r, NEW k \in DOMAIN r, j # k
       PROVE  \E i, h \in DOMAIN e : i # h /\ e[i] = r[j] /\ e[h] = r[k]
  <2>1. j < k \/ k < j
    BY <1>9, <1>13
  <2>. QED  BY <1>12, <2>1
<1>. QED  BY <1>4, <1>10, <1>11, <1>13

LEMMA PairCallsHalves ==
  ASSUME NEW e, Plain(e)
  PROVE  \E kept, from, u, at, off, r : Halves(e, History!PairCalls(e), kept, from, u, at, off, r)
<1>0. e \in Seq(ItemSet)
  BY DEF Plain
<1>1. PICK kept : kept = History!OthersOf(e)
  OBVIOUS
<1>2. PICK from : OthersAre(e, kept, from)
  BY <1>0, <1>1, OthersOfAre
<1>3. kept \in Seq(ItemSet)
  BY <1>2 DEF OthersAre
<1>4. PICK u : u = History!FlattenSeq([k \in DOMAIN kept |-> History!Paired(e, kept[k])])
  OBVIOUS
<1>5. PICK at, off : PairsAre(e, kept, u, at, off)
  BY <1>3, <1>4, PairsMake
<1>6. PICK r : r = History!Orphans(e)
  OBVIOUS
<1>7. PICK sent : sent = u \o r
  OBVIOUS
<1>8. History!PairCalls(e) = sent
  BY <1>1, <1>4, <1>6, <1>7 DEF History!PairCalls
<1>9. /\ r \in Seq(ItemSet)
      /\ \A k \in DOMAIN r : r[k].t = "output" /\ r[k].text = 0 /\ r[k].id \notin History!CallNames(e)
      /\ \A k \in DOMAIN e : e[k].t = "output" /\ e[k].id \notin History!CallNames(e) =>
           \E j \in DOMAIN r : r[j] = e[k]
      /\ \A j, k \in DOMAIN r : j # k => \E i, h \in DOMAIN e : i # h /\ e[i] = r[j] /\ e[h] = r[k]
  BY <1>6, OrphansAre
<1>10. u \in Seq(ItemSet)
  BY <1>5 DEF PairsAre
<1>11. sent \in Seq(ItemSet) /\ Joined(u, r, sent)
  BY <1>7, <1>9, <1>10, ConcatIs
<1>12. Halves(e, sent, kept, from, u, at, off, r)
  BY <1>2, <1>5, <1>9, <1>11, Zenon DEF Halves
<1>. QED  BY <1>8, <1>12

\* What is at a place of a list that pairs make.
InPairs(kept, u, at, off, k) ==
  /\ at[k] \in DOMAIN kept /\ kept[at[k]].t # "output" /\ at[k] \in Nat
  /\ \/ off[k] = 1 /\ u[k] = kept[at[k]] /\ u[k].t # "output"
     \/ /\ off[k] = 2 /\ u[k].t = "output" /\ u[k].id = kept[at[k]].id /\ kept[at[k]].t = "call" /\ u[k].text = 0
        /\ k - 1 \in DOMAIN u /\ u[k - 1] = kept[at[k]]

LEMMA InPairsIs ==
  ASSUME NEW e \in Seq(ItemSet), NEW kept, NEW from, OthersAre(e, kept, from), NEW u, NEW at, NEW off,
         PairsAre(e, kept, u, at, off),
         NEW k \in DOMAIN u
  PROVE  InPairs(kept, u, at, off, k)
<1>1. PICK x : x = kept[at[k]]
  OBVIOUS
<1>2. PICK p : p = History!Paired(e, x)
  OBVIOUS
<1>3. /\ at[k] \in DOMAIN kept /\ off[k] \in DOMAIN p /\ u[k] = p[off[k]] /\ PairIs(e, x, p)
      /\ off[k] = 1 \/ (k - 1 \in DOMAIN u /\ at[k - 1] = at[k] /\ off[k - 1] = off[k] - 1)
  BY <1>1, <1>2 DEF PairsAre
<1>4. x.t # "output" /\ at[k] \in Nat
  <2>1. kept \in Seq(ItemSet)
    BY DEF OthersAre
  <2>. QED  BY <1>1, <1>3, <2>1 DEF OthersAre
<1>5. CASE off[k] = 1
  <2>1. u[k] = x
    BY <1>3, <1>5 DEF PairIs
  <2>. QED  BY <1>1, <1>3, <1>4, <1>5, <2>1 DEF InPairs
<1>6. CASE off[k] # 1
  <2>1. off[k] = 2 /\ u[k].t = "output" /\ u[k].id = x.id /\ x.t = "call" /\ u[k].text = 0
    BY <1>3, <1>6 DEF PairIs
  <2>2. k - 1 \in DOMAIN u /\ at[k - 1] = at[k] /\ off[k - 1] = 1
    BY <1>3, <2>1
  <2>3. u[k - 1] = History!Paired(e, kept[at[k - 1]])[off[k - 1]]
    BY <2>2 DEF PairsAre
  <2>4. u[k - 1] = p[1]
    BY <1>1, <1>2, <2>2, <2>3
  <2>5. u[k - 1] = x
    BY <1>3, <2>4 DEF PairIs
  <2>. QED  BY <1>1, <1>3, <1>4, <2>1, <2>2, <2>5 DEF InPairs
<1>. QED  BY <1>5, <1>6

\* An output behind its call.
LEMMA SentPairs ==
  ASSUME NEW e, Plain(e), NEW sent, NEW kept, NEW from, NEW u, NEW at, NEW off, NEW r,
         Halves(e, sent, kept, from, u, at, off, r),
         NEW k \in DOMAIN sent, sent[k].t = "output", sent[k].id \in History!CallNames(sent)
  PROVE  k > 1 /\ sent[k - 1].t = "call" /\ sent[k - 1].id = sent[k].id
<1>0. e \in Seq(ItemSet)
  BY DEF Plain
<1>1. OthersAre(e, kept, from) /\ PairsAre(e, kept, u, at, off) /\ Joined(u, r, sent)
      /\ \A i \in DOMAIN r : r[i].t = "output" /\ r[i].id \notin History!CallNames(e)
  BY DEF Halves
<1>2. /\ Len(u) \in Nat /\ Len(r) \in Nat /\ DOMAIN u = 1..Len(u) /\ DOMAIN r = 1..Len(r)
      /\ DOMAIN sent = 1..(Len(u) + Len(r))
      /\ \A i \in 1..Len(u) : sent[i] = u[i]
      /\ \A i \in 1..Len(r) : sent[Len(u) + i] = r[i]
      /\ \A i \in DOMAIN sent : i \in 1..Len(u) \/ \E j \in 1..Len(r) : i = Len(u) + j
  BY <1>1 DEF Joined
<1>3. \A i \in DOMAIN u : InPairs(kept, u, at, off, i)
  BY <1>0, <1>1, InPairsIs
<1>4. ASSUME NEW i \in DOMAIN sent, sent[i].t = "call" PROVE sent[i].id \in History!CallNames(e)
  <2>1. i \in DOMAIN u /\ sent[i] = u[i]
    BY <1>1, <1>2, <1>4
  <2>2. sent[i] = kept[at[i]] /\ at[i] \in DOMAIN kept
    BY <1>3, <1>4, <2>1 DEF InPairs
  <2>3. from[at[i]] \in DOMAIN e /\ e[from[at[i]]] = sent[i]
    BY <1>1, <2>2 DEF OthersAre
  <2>. QED  BY <1>4, <2>3 DEF History!CallNames
<1>5. sent[k].id \in History!CallNames(e)
  BY <1>4, NamesAre
<1>6. k \in DOMAIN u /\ sent[k] = u[k]
  BY <1>1, <1>2, <1>5
<1>7. /\ u[k].id = kept[at[k]].id /\ kept[at[k]].t = "call" /\ k - 1 \in DOMAIN u /\ u[k - 1] = kept[at[k]]
  BY <1>3, <1>6 DEF InPairs
<1>8. k > 1 /\ sent[k - 1] = u[k - 1]
  BY <1>2, <1>6, <1>7
<1>. QED  BY <1>6, <1>7, <1>8

\* An output once.
LEMMA SentOnce ==
  ASSUME NEW e, Plain(e), NEW sent, NEW kept, NEW from, NEW u, NEW at, NEW off, NEW r,
         Halves(e, sent, kept, from, u, at, off, r), Once(e),
         NEW x, \E k \in DOMAIN e : e[k].t = "output" /\ e[k].id = x
  PROVE  \E j \in DOMAIN sent : {i \in DOMAIN sent : sent[i].t = "output" /\ sent[i].id = x} = {j}
<1>0. e \in Seq(ItemSet)
  BY DEF Plain
<1>1. /\ OthersAre(e, kept, from) /\ PairsAre(e, kept, u, at, off) /\ Joined(u, r, sent)
      /\ \A i \in DOMAIN r : r[i].t = "output" /\ r[i].id \notin History!CallNames(e)
      /\ \A k \in DOMAIN e : e[k].t = "output" /\ e[k].id \notin History!CallNames(e) =>
           \E j \in DOMAIN r : r[j] = e[k]
      /\ \A j, k \in DOMAIN r : j # k => \E i, h \in DOMAIN e : i # h /\ e[i] = r[j] /\ e[h] = r[k]
  BY DEF Halves
<1>2. /\ Len(u) \in Nat /\ Len(r) \in Nat /\ DOMAIN u = 1..Len(u) /\ DOMAIN r = 1..Len(r)
      /\ DOMAIN sent = 1..(Len(u) + Len(r))
      /\ \A i \in 1..Len(u) : sent[i] = u[i]
      /\ \A i \in 1..Len(r) : sent[Len(u) + i] = r[i]
      /\ \A i \in DOMAIN sent : i \in 1..Len(u) \/ \E j \in 1..Len(r) : i = Len(u) + j
  BY <1>1 DEF Joined
<1>3. \A i \in DOMAIN u : InPairs(kept, u, at, off, i)
  BY <1>0, <1>1, InPairsIs
<1>4. \A k \in DOMAIN kept : from[k] \in DOMAIN e /\ kept[k] = e[from[k]] /\ kept[k].t # "output" /\ k \in Nat
  <2>1. kept \in Seq(ItemSet)
    BY <1>1 DEF OthersAre
  <2>. QED  BY <1>1, <2>1 DEF OthersAre
<1>5. ASSUME NEW i \in DOMAIN u, u[i].t = "output"
      PROVE  /\ off[i] = 2 /\ at[i] \in DOMAIN kept /\ kept[at[i]].t = "call" /\ kept[at[i]].id = u[i].id
             /\ u[i].id \in History!CallNames(e)
  <2>1. off[i] = 2 /\ at[i] \in DOMAIN kept /\ kept[at[i]].t = "call" /\ kept[at[i]].id = u[i].id
    BY <1>3, <1>5 DEF InPairs
  <2>2. from[at[i]] \in DOMAIN e /\ kept[at[i]] = e[from[at[i]]]
    BY <1>4, <2>1
  <2>3. u[i].id \in History!CallNames(e)
    BY <2>1, <2>2, NamesAre
  <2>. QED  BY <2>1, <2>3
<1>6. ASSUME NEW i \in DOMAIN sent, NEW j \in DOMAIN sent, sent[i].t = "output", sent[i].id = x,
             sent[j].t = "output",
             sent[j].id = x
      PROVE  i = j
  <2>1. CASE x \in History!CallNames(e)
    <3>1. i \in DOMAIN u /\ j \in DOMAIN u /\ sent[i] = u[i] /\ sent[j] = u[j]
      <4>1. ASSUME NEW h \in DOMAIN sent, sent[h].id = x PROVE h \in DOMAIN u /\ sent[h] = u[h]
        <5>1. ASSUME NEW n \in DOMAIN r, sent[h] = r[n] PROVE FALSE
          BY <1>1, <2>1, <4>1, <5>1
        <5>. QED  BY <1>2, <5>1
      <4>. QED  BY <1>6, <4>1
    <3>2. /\ off[i] = 2 /\ at[i] \in DOMAIN kept /\ kept[at[i]].t = "call" /\ kept[at[i]].id = x
          /\ off[j] = 2 /\ at[j] \in DOMAIN kept /\ kept[at[j]].t = "call" /\ kept[at[j]].id = x
      BY <1>5, <1>6, <3>1
    <3>3. from[at[i]] = from[at[j]]
      BY <1>4, <3>2 DEF Once
    <3>4. at[i] = at[j]
      <4>1. ~(at[i] < at[j]) /\ ~(at[j] < at[i])
        <5>1. ASSUME NEW a \in DOMAIN kept, NEW b \in DOMAIN kept, from[a] = from[b] PROVE ~(a < b)
          <6>1. \A h \in DOMAIN kept : from[h] \in Nat
            BY <1>0, <1>4
          <6>. QED  BY <1>1, <5>1, <6>1 DEF OthersAre
        <5>. QED  BY <3>2, <3>3, <5>1
      <4>. QED  BY <1>4, <3>2, <4>1
    <3>5. ~(i < j) /\ ~(j < i)
      <4>1. at[i] \in Nat
        BY <1>4, <3>2
      <4>. QED  BY <1>1, <3>1, <3>2, <3>4, <4>1 DEF PairsAre
    <3>. QED  BY <1>2, <3>1, <3>5
  <2>2. CASE x \notin History!CallNames(e)
    <3>1. PICK a \in 1..Len(r) : i = Len(u) + a
      BY <1>2, <1>5, <1>6, <2>2
    <3>2. PICK b \in 1..Len(r) : j = Len(u) + b
      BY <1>2, <1>5, <1>6, <2>2
    <3>3. r[a].t = "output" /\ r[a].id = x /\ r[b].t = "output" /\ r[b].id = x
      BY <1>2, <1>6, <3>1, <3>2
    <3>4. a = b
      <4>1. SUFFICES ASSUME a # b PROVE FALSE
        OBVIOUS
      <4>2. a \in DOMAIN r /\ b \in DOMAIN r
        BY <1>2
      <4>3. PICK g, h \in DOMAIN e : g # h /\ e[g] = r[a] /\ e[h] = r[b]
        BY <1>1, <4>1, <4>2
      <4>. QED  BY <2>2, <3>3, <4>3 DEF Once
    <3>. QED  BY <3>1, <3>2, <3>4
  <2>. QED  BY <2>1, <2>2
<1>7. PICK k \in DOMAIN e : e[k].t = "output" /\ e[k].id = x
  OBVIOUS
<1>8. \E j \in DOMAIN sent : sent[j].t = "output" /\ sent[j].id = x
  <2>1. CASE x \in History!CallNames(e)
    <3>1. PICK c \in DOMAIN e : e[c].t = "call" /\ e[c].id = x
      BY <2>1, NamesAre
    <3>2. PICK m \in DOMAIN kept : from[m] = c
      BY <1>1, <3>1 DEF OthersAre
    <3>3. kept[m].t = "call" /\ kept[m].id = x
      BY <1>4, <3>1, <3>2
    <3>. DEFINE p == History!Paired(e, kept[m])
    <3>4. PairIs(e, kept[m], p)
      <4>1. kept[m] \in ItemSet
        BY <1>1 DEF OthersAre
      <4>. QED  BY <4>1, PairedIs
    <3>5. 2 \in DOMAIN p /\ p[2].t = "output" /\ p[2].id = x
      <4>. HIDE DEF p
      <4>1. 2 \in DOMAIN p
        BY <1>7, <3>3, <3>4 DEF PairIs
      <4>2. 2 # 1
        OBVIOUS
      <4>. QED  BY <3>3, <3>4, <4>1, <4>2 DEF PairIs
    <3>6. PICK i \in DOMAIN u : at[i] = m /\ off[i] = 2
      BY <1>1, <3>5 DEF PairsAre
    <3>7. u[i] = p[2]
      BY <1>1, <3>6 DEF PairsAre
    <3>8. i \in DOMAIN sent /\ sent[i] = u[i]
      BY <1>2
    <3>. QED  BY <3>5, <3>7, <3>8
  <2>2. CASE x \notin History!CallNames(e)
    <3>1. PICK j \in DOMAIN r : r[j] = e[k]
      BY <1>1, <1>7, <2>2
    <3>2. Len(u) + j \in DOMAIN sent /\ sent[Len(u) + j] = r[j]
      BY <1>2
    <3>. QED  BY <1>7, <3>1, <3>2
  <2>. QED  BY <2>1, <2>2
<1>9. PICK j \in DOMAIN sent : sent[j].t = "output" /\ sent[j].id = x
  BY <1>8
<1>10. {i \in DOMAIN sent : sent[i].t = "output" /\ sent[i].id = x} = {j}
  BY <1>6, <1>9
<1>. QED  BY <1>10

\* What was said is there.
LEMMA SentTexts ==
  ASSUME NEW e, Plain(e), NEW sent, NEW kept, NEW from, NEW u, NEW at, NEW off, NEW r,
         Halves(e, sent, kept, from, u, at, off, r), History!NothingLost(e)
  PROVE  History!NothingLost(sent)
<1>0. e \in Seq(ItemSet)
  BY DEF Plain
<1>1. OthersAre(e, kept, from) /\ PairsAre(e, kept, u, at, off) /\ Joined(u, r, sent)
        /\ \A k \in DOMAIN r : r[k].text = 0
  BY DEF Halves
<1>2. \A i \in DOMAIN u : InPairs(kept, u, at, off, i)
  BY <1>0, <1>1, InPairsIs
<1>3. History!NothingLost(kept)
  <2>1. \A k \in DOMAIN kept : from[k] \in DOMAIN e /\ kept[k] = e[from[k]]
    BY <1>1 DEF OthersAre
  <2>2. ASSUME NEW i \in DOMAIN e, e[i].text > 0
        PROVE  \E k \in DOMAIN kept : kept[k].text = e[i].text /\ kept[k].role = e[i].role
    <3>1. e[i].t # "output"
      BY <2>2 DEF Plain
    <3>2. PICK k \in DOMAIN kept : from[k] = i
      BY <1>1, <3>1 DEF OthersAre
    <3>. QED  BY <2>1, <3>2
  <2>3. \A j, k \in DOMAIN kept : j < k => from[j] < from[k]
    BY <1>1 DEF OthersAre
  <2>4. Carries(e, kept, from)
    BY <2>1, <2>2, <2>3 DEF Carries
  <2>. QED  BY <2>4, CarriesAll
<1>4. History!NothingLost(u)
  <2>1. ASSUME NEW k \in DOMAIN u,
               u[k].text > 0 PROVE at[k] \in DOMAIN kept /\ kept[at[k]] = u[k] /\ off[k] = 1
    BY <1>2, <2>1 DEF InPairs
  <2>2. ASSUME NEW i \in DOMAIN kept PROVE \E k \in DOMAIN u : u[k] = kept[i]
    <3>1. kept[i] \in ItemSet
      BY <1>1 DEF OthersAre
    <3>. DEFINE p == History!Paired(e, kept[i])
    <3>2. 1 \in DOMAIN p /\ p[1] = kept[i]
      BY <3>1, PairedIs DEF PairIs
    <3>3. PICK k \in DOMAIN u : at[k] = i /\ off[k] = 1
      BY <1>1, <3>2 DEF PairsAre
    <3>4. u[k] = p[1]
      BY <1>1, <3>3 DEF PairsAre
    <3>. QED  BY <3>2, <3>4
  <2>3. ASSUME NEW j \in DOMAIN u, NEW k \in DOMAIN u, j < k, u[j].text > 0,
               u[k].text > 0 PROVE at[j] < at[k]
    <3>1. at[j] < at[k] \/ (at[j] = at[k] /\ off[j] < off[k])
      BY <1>1, <2>3 DEF PairsAre
    <3>2. off[j] = 1 /\ off[k] = 1
      BY <2>1, <2>3
    <3>. QED  BY <3>1, <3>2
  <2>4. Carries(kept, u, at)
    BY <2>1, <2>2, <2>3 DEF Carries
  <2>. QED  BY <1>3, <2>4, CarriesAll
<1>5. /\ Len(u) \in Nat /\ Len(r) \in Nat /\ DOMAIN u = 1..Len(u) /\ DOMAIN r = 1..Len(r)
      /\ DOMAIN sent = 1..(Len(u) + Len(r))
      /\ \A i \in 1..Len(u) : sent[i] = u[i]
      /\ \A i \in 1..Len(r) : sent[Len(u) + i] = r[i]
      /\ \A i \in DOMAIN sent : i \in 1..Len(u) \/ \E j \in 1..Len(r) : i = Len(u) + j
  BY <1>1 DEF Joined
<1>6. PICK id : id = [k \in DOMAIN sent |-> k]
  OBVIOUS
<1>7. Carries(u, sent, id)
  <2>1. ASSUME NEW k \in DOMAIN sent, sent[k].text > 0 PROVE k \in DOMAIN u /\ sent[k] = u[k]
    BY <1>1, <1>5, <2>1
  <2>2. \A k \in DOMAIN u : k \in DOMAIN sent /\ sent[k] = u[k]
    BY <1>5
  <2>3. \A k \in DOMAIN sent : id[k] = k
    BY <1>6
  <2>. QED  BY <2>1, <2>2, <2>3 DEF Carries
<1>. QED  BY <1>4, <1>7, CarriesAll

LEMMA GrokSent == ASSUME History!BoundsAssumption, HInv PROVE History!GrokPairs
<1>1. Plain(History!Items)
  BY ItemsPlain, ItemsSourced DEF Plain
<1>2. PICK e : e = History!Expanded(History!Items)
  OBVIOUS
<1>3. Plain(e) /\ History!NothingLost(e)
  BY <1>1, <1>2, ItemsTexts, ExpandedTexts, ExpandedSpread
<1>4. PICK sent : sent = History!PairCalls(e)
  OBVIOUS
<1>5. PICK kept, from, u, at, off, r : Halves(e, sent, kept, from, u, at, off, r)
  BY <1>3, <1>4, PairCallsHalves
<1>6. \A k \in DOMAIN sent : sent[k].t = "output" /\ sent[k].id \in History!CallNames(sent) =>
           k > 1 /\ sent[k - 1].t = "call" /\ sent[k - 1].id = sent[k].id
  BY <1>3, <1>5, SentPairs
<1>7. History!NothingLost(sent)
  BY <1>3, <1>5, SentTexts
<1>8. ASSUME client # "gemini", NEW k \in DOMAIN turns, turns[k].output.id # 0
      PROVE  \E j \in DOMAIN sent : {i \in DOMAIN sent : sent[i].t = "output"
               /\ sent[i].id = turns[k].output.id} = {j}
  <2>1. Linked(History!Items)
    BY <1>8, ItemsLinked
  <2>2. Once(e)
    BY <1>1, <1>2, <2>1, ExpandedOnce
  <2>3. \E i \in DOMAIN e : e[i].t = "output" /\ e[i].id = turns[k].output.id
    BY <1>8, <2>2 DEF Once
  <2>. QED  BY <1>3, <1>5, <2>2, <2>3, SentOnce
<1>9. History!ToGrok = sent
  BY <1>2, <1>4 DEF History!ToGrok
<1>. QED  BY <1>6, <1>7, <1>8, <1>9 DEF History!GrokPairs

-----------------------------------------------------------------------------
(* What Antigravity is sent.                                               *)

Roles == {"user", "model"}
PartSet == [p : {"text", "call", "response", "image"}, id : Nat, name : Nat, v : {"none", "text", "ok",
  "Continue."}]
PieceSet == [role : Roles, part : PartSet]
ContentSet == [role : Roles, parts : Seq(PartSet)]

\* The contents u are the contents c with a part more, the last of the last.
Wider(c, role, part, u, l, q) ==
  /\ u \in Seq(ContentSet) /\ l = Len(u) /\ l \in Nat /\ l \in DOMAIN u /\ DOMAIN u = 1..l
  /\ \A k \in DOMAIN c : /\ k \in DOMAIN u /\ u[k].role = c[k].role
                         /\ \A m \in DOMAIN c[k].parts : m \in DOMAIN u[k].parts /\ u[k].parts[m] = c[k].parts[m]
  /\ u[l].role = role /\ q \in DOMAIN u[l].parts /\ u[l].parts[q] = part
  /\ \A k \in DOMAIN u : \A m \in DOMAIN u[k].parts : (k \in DOMAIN c /\ m \in DOMAIN c[k].parts) \/ (k = l
       /\ m = q)
  /\ (\A k \in 1..(Len(c) - 1) : c[k].role # c[k + 1].role) => (\A k \in 1..(l - 1) : u[k].role # u[k + 1].role)

LEMMA PartJoins ==
  ASSUME NEW c \in Seq(ContentSet), NEW role \in Roles, NEW part \in PartSet, c # <<>>,
         c[Len(c)].role = role,
         NEW u, u = [c EXCEPT ![Len(c)].parts = Append(@, part)]
  PROVE  \E l, q : Wider(c, role, part, u, l, q)
<1>1. PICK l : l = Len(c)
  OBVIOUS
<1>2. l \in Nat /\ DOMAIN c = 1..l /\ l \in DOMAIN c /\ \A k \in DOMAIN c : c[k] \in ContentSet
  BY <1>1
<1>3. PICK s : s = c[l].parts
  OBVIOUS
<1>4. s \in Seq(PartSet)
  BY <1>2, <1>3 DEF ContentSet
<1>5. PICK t : t = Append(s, part)
  OBVIOUS
<1>6. t \in Seq(PartSet) /\ Longer(s, part, t)
  BY <1>4, <1>5, AppendIs
<1>7. PICK q : q = Len(s) + 1
  OBVIOUS
<1>8. q \in DOMAIN t /\ t[q] = part /\ DOMAIN t = DOMAIN s \cup {q} /\ \A m \in DOMAIN s : t[m] = s[m]
  BY <1>6, <1>7 DEF Longer
<1>9. PICK x : x = [c[l] EXCEPT !.parts = t]
  OBVIOUS
<1>10. x \in ContentSet /\ x.role = c[l].role /\ x.parts = t
  BY <1>2, <1>6, <1>9 DEF ContentSet
<1>11. u = [c EXCEPT ![l] = x]
  BY <1>1, <1>3, <1>5, <1>9
<1>12. /\ u \in Seq(ContentSet) /\ DOMAIN u = 1..l /\ Len(u) = l /\ u[l] = x
       /\ \A k \in DOMAIN c : k # l => u[k] = c[k]
  <2>1. u \in Seq(ContentSet)
    <3>1. u = [k \in 1..l |-> IF k = l THEN x ELSE c[k]]
      BY ONLY <1>2, <1>11
    <3>2. \A k \in 1..l : (IF k = l THEN x ELSE c[k]) \in ContentSet
      BY ONLY <1>2, <1>10
    <3>. QED  BY ONLY <1>2, <3>1, <3>2
  <2>2. DOMAIN u = 1..l
    BY <1>2, <1>11
  <2>3. Len(u) = l
    BY <1>2, <2>1, <2>2
  <2>. QED  BY <1>2, <1>11, <2>1, <2>2, <2>3
<1>13. \A k \in DOMAIN c : u[k].role = c[k].role
  BY <1>10, <1>12
<1>14. ASSUME NEW k \in DOMAIN c, NEW m \in DOMAIN c[k].parts
       PROVE  m \in DOMAIN u[k].parts /\ u[k].parts[m] = c[k].parts[m]
  <2>1. CASE k = l
    <3>1. u[k].parts = t /\ c[k].parts = s
      BY <1>3, <1>10, <1>12, <2>1
    <3>. QED  BY ONLY <1>8, <3>1, m \in DOMAIN c[k].parts
  <2>2. CASE k # l
    BY <1>12, <2>2
  <2>. QED  BY <2>1, <2>2
<1>15. ASSUME NEW k \in DOMAIN u, NEW m \in DOMAIN u[k].parts
       PROVE  (k \in DOMAIN c /\ m \in DOMAIN c[k].parts) \/ (k = l /\ m = q)
  <2>0. k \in DOMAIN c
    BY <1>2, <1>12
  <2>1. CASE k = l
    <3>1. u[k].parts = t /\ c[k].parts = s
      BY <1>3, <1>10, <1>12, <2>1
    <3>. QED  BY ONLY <1>8, <2>0, <2>1, <3>1, m \in DOMAIN u[k].parts
  <2>2. CASE k # l
    BY <1>12, <2>0, <2>2
  <2>. QED  BY <2>1, <2>2
<1>16. ASSUME \A k \in 1..(Len(c) - 1) : c[k].role # c[k + 1].role, NEW k \in 1..(l - 1)
       PROVE  u[k].role # u[k + 1].role
  <2>1. k \in DOMAIN c /\ k + 1 \in DOMAIN c /\ k \in 1..(Len(c) - 1)
    BY <1>1, <1>2
  <2>. QED  BY <1>13, <1>16, <2>1
<1>17. u[l].role = role /\ q \in DOMAIN u[l].parts /\ u[l].parts[q] = part
  BY <1>1, <1>8, <1>10, <1>12
<1>18. Wider(c, role, part, u, l, q)
  BY <1>2, <1>12, <1>13, <1>14, <1>15, <1>16, <1>17 DEF Wider
<1>. QED  BY <1>18

LEMMA PartStarts ==
  ASSUME NEW c \in Seq(ContentSet), NEW role \in Roles, NEW part \in PartSet,
         c = <<>> \/ c[Len(c)].role # role,
         NEW u, u = Append(c, [role |-> role, parts |-> <<part>>])
  PROVE  \E l, q : Wider(c, role, part, u, l, q)
<1>1. PICK s : s = <<part>>
  OBVIOUS
<1>2. s \in Seq(PartSet) /\ DOMAIN s = {1} /\ s[1] = part
  BY <1>1, TuplesOf
<1>3. PICK x : x = [role |-> role, parts |-> s]
  OBVIOUS
<1>4. x \in ContentSet /\ x.role = role /\ x.parts = s
  BY <1>2, <1>3 DEF ContentSet
<1>5. u = Append(c, x)
  BY <1>1, <1>3
<1>6. u \in Seq(ContentSet) /\ Longer(c, x, u)
  BY <1>4, <1>5, AppendIs
<1>7. PICK l : l = Len(c) + 1
  OBVIOUS
<1>8. /\ l \in Nat /\ DOMAIN c = 1..Len(c) /\ Len(c) \in Nat /\ DOMAIN u = DOMAIN c \cup {l} /\ u[l] = x
      /\ \A k \in DOMAIN c : u[k] = c[k]
  BY <1>6, <1>7 DEF Longer
<1>9. Len(u) = l /\ DOMAIN u = 1..l /\ l \in DOMAIN u
  BY <1>5, <1>6, <1>7, <1>8
<1>10. \A k \in DOMAIN u : \A m \in DOMAIN u[k].parts : (k \in DOMAIN c
         /\ m \in DOMAIN c[k].parts) \/ (k = l /\ m = 1)
  BY <1>2, <1>4, <1>8
<1>11. ASSUME \A k \in 1..(Len(c) - 1) : c[k].role # c[k + 1].role, NEW k \in 1..(l - 1)
       PROVE  u[k].role # u[k + 1].role
  <2>1. CASE k = Len(c)
    <3>1. k + 1 = l /\ k \in DOMAIN c
      BY <1>7, <1>8, <2>1
    <3>2. c # <<>>
      BY <3>1
    <3>. QED  BY <1>4, <1>8, <2>1, <3>1, <3>2
  <2>2. CASE k # Len(c)
    <3>1. k \in 1..(Len(c) - 1) /\ k \in 1..Len(c) /\ k + 1 \in 1..Len(c)
      <4>1. Len(c) \in Nat
        BY <1>8
      <4>. QED  BY ONLY <1>7, <2>2, <4>1, k \in 1..(l - 1)
    <3>2. k \in DOMAIN c /\ k + 1 \in DOMAIN c
      BY <1>8, <3>1
    <3>. QED  BY <1>8, <1>11, <3>1, <3>2
  <2>. QED  BY <2>1, <2>2
<1>12. u[l].role = role /\ 1 \in DOMAIN u[l].parts /\ u[l].parts[1] = part
  BY <1>2, <1>4, <1>8
<1>13. Wider(c, role, part, u, l, 1)
  BY <1>6, <1>8, <1>9, <1>10, <1>11, <1>12 DEF Wider
<1>. QED  BY <1>13

LEMMA LastIs == ASSUME NEW T, NEW s \in Seq(T), s # <<>> PROVE History!Last(s) = s[Len(s)] /\ Len(s) \in DOMAIN s
BY DEF History!Last

LEMMA JoinPartIs ==
  ASSUME NEW c \in Seq(ContentSet), NEW x \in PieceSet
  PROVE  /\ History!JoinPart(c, x.role, x.part) \in Seq(ContentSet)
         /\ \E l, q : Wider(c, x.role, x.part, History!JoinPart(c, x.role, x.part), l, q)
<1>1. x.role \in Roles /\ x.part \in PartSet
  BY DEF PieceSet
<1>2. PICK u : u = History!JoinPart(c, x.role, x.part)
  OBVIOUS
<1>3. \E l, q : Wider(c, x.role, x.part, u, l, q)
  <2>1. CASE c # <<>> /\ c[Len(c)].role = x.role
    <3>1. u = [c EXCEPT ![Len(c)].parts = Append(@, x.part)]
      BY <1>2, <2>1, LastIs DEF History!JoinPart
    <3>. QED  BY <1>1, <2>1, <3>1, PartJoins
  <2>2. CASE c = <<>> \/ c[Len(c)].role # x.role
    <3>1. u = Append(c, [role |-> x.role, parts |-> <<x.part>>])
      BY <1>2, <2>2, LastIs DEF History!JoinPart
    <3>. QED  BY <1>1, <2>2, <3>1, PartStarts
  <2>. QED  BY <2>1, <2>2
<1>4. u \in Seq(ContentSet)
  BY <1>3 DEF Wider
<1>. QED  BY <1>2, <1>3, <1>4

\* The first n of the parts are in the contents c: the k-th is the off[k]-th of
\* the content at[k].
Woven(parts, n, c, at, off) ==
  /\ c \in Seq(ContentSet)
  /\ \A k \in 1..n : at[k] \in DOMAIN c /\ off[k] \in DOMAIN c[at[k]].parts /\ c[at[k]].role = parts[k].role
                     /\ c[at[k]].parts[off[k]] = parts[k].part
  /\ \A k \in DOMAIN c : \A m \in DOMAIN c[k].parts : \E i \in 1..n : at[i] = k /\ off[i] = m
  /\ \A j, k \in 1..n : j < k => at[j] <= at[k]
  /\ \A k \in 1..(Len(c) - 1) : c[k].role # c[k + 1].role
  /\ n > 0 => c # <<>> /\ at[n] = Len(c)

LEMMA WovenMore ==
  ASSUME NEW parts, NEW n \in Nat, NEW m, m = n + 1, NEW c, NEW at, NEW off, Woven(parts, n, c, at, off),
         NEW u, NEW l, NEW q, Wider(c, parts[m].role, parts[m].part, u, l, q)
  PROVE  \E a, o : Woven(parts, m, u, a, o)
<1>1. PICK a : a = [k \in 1..m |-> IF k = m THEN l ELSE at[k]]
  OBVIOUS
<1>2. PICK o : o = [k \in 1..m |-> IF k = m THEN q ELSE off[k]]
  OBVIOUS
<1>3. m \in 1..m /\ m \notin 1..n /\ \A k \in 1..m : k = m \/ k \in 1..n
  OBVIOUS
<1>4. \A k \in 1..n : k \in 1..m /\ k # m /\ k < m
  OBVIOUS
<1>5. a[m] = l /\ o[m] = q /\ \A k \in 1..n : a[k] = at[k] /\ o[k] = off[k]
  BY <1>1, <1>2, <1>3, <1>4
<1>6. /\ u \in Seq(ContentSet) /\ l = Len(u) /\ l \in Nat /\ l \in DOMAIN u /\ DOMAIN u = 1..l
      /\ u[l].role = parts[m].role /\ q \in DOMAIN u[l].parts /\ u[l].parts[q] = parts[m].part
  BY DEF Wider
<1>7. ASSUME NEW k \in 1..m
      PROVE  a[k] \in DOMAIN u /\ o[k] \in DOMAIN u[a[k]].parts /\ u[a[k]].role = parts[k].role
             /\ u[a[k]].parts[o[k]] = parts[k].part
  <2>1. CASE k = m
    BY <1>5, <1>6, <2>1
  <2>2. CASE k \in 1..n
    <3>1. at[k] \in DOMAIN c /\ off[k] \in DOMAIN c[at[k]].parts /\ c[at[k]].role = parts[k].role
          /\ c[at[k]].parts[off[k]] = parts[k].part
      BY <2>2 DEF Woven
    <3>2. at[k] \in DOMAIN u /\ u[at[k]].role = c[at[k]].role /\ off[k] \in DOMAIN u[at[k]].parts
          /\ u[at[k]].parts[off[k]] = c[at[k]].parts[off[k]]
      BY <3>1 DEF Wider
    <3>. QED  BY <1>5, <2>2, <3>1, <3>2
  <2>. QED  BY <1>3, <2>1, <2>2
<1>8. ASSUME NEW k \in DOMAIN u, NEW h \in DOMAIN u[k].parts PROVE \E i \in 1..m : a[i] = k /\ o[i] = h
  <2>1. CASE k = l /\ h = q
    BY <1>3, <1>5, <2>1
  <2>2. CASE k \in DOMAIN c /\ h \in DOMAIN c[k].parts
    <3>1. PICK i \in 1..n : at[i] = k /\ off[i] = h
      BY <2>2 DEF Woven
    <3>. QED  BY <1>4, <1>5, <3>1
  <2>3. (k \in DOMAIN c /\ h \in DOMAIN c[k].parts) \/ (k = l /\ h = q)
    BY DEF Wider
  <2>. QED  BY <2>1, <2>2, <2>3
<1>9. ASSUME NEW j \in 1..m, NEW k \in 1..m, j < k PROVE a[j] <= a[k]
  <2>1. CASE k = m
    <3>1. a[j] \in 1..l
      BY <1>6, <1>7
    <3>. QED  BY <1>5, <1>6, <2>1, <3>1
  <2>2. CASE k # m
    <3>1. j \in 1..n /\ k \in 1..n
      BY <1>9, <2>2
    <3>2. at[j] <= at[k]
      BY <1>9, <3>1 DEF Woven
    <3>. QED  BY <1>5, <3>1, <3>2
  <2>. QED  BY <2>1, <2>2
<1>10. \A k \in 1..(Len(u) - 1) : u[k].role # u[k + 1].role
  BY <1>6 DEF Wider, Woven
<1>11. u # <<>> /\ a[m] = Len(u)
  BY <1>5, <1>6
<1>12. Woven(parts, m, u, a, o)
  BY <1>6, <1>7, <1>8, <1>9, <1>10, <1>11, Zenon DEF Woven
<1>. QED  BY <1>12

Weaves(parts, f) ==
  f = [n \in 0..Len(parts) |-> IF n = 0 THEN <<>> ELSE History!JoinPart(f[n - 1], parts[n].role, parts[n].part)]

LEMMA WeavesExist ==
  ASSUME NEW parts \in Seq(PieceSet)
  PROVE  \E f : Weaves(parts, f) /\ History!CloudContents(parts) = f[Len(parts)]
<1>. DEFINE N == Len(parts) T == Seq(ContentSet)
<1>. DEFINE Step == [n \in 1..N |-> [x \in T |-> History!JoinPart(x, parts[n].role, parts[n].part)]]
<1>0. N \in Nat /\ \A n \in 1..N : parts[n] \in PieceSet
  OBVIOUS
<1>1. Step \in [1..N -> [T -> T]]
  <2>1. \A n \in 1..N : \A x \in T : History!JoinPart(x, parts[n].role, parts[n].part) \in T
    BY <1>0, JoinPartIs
  <2>. HIDE DEF T
  <2>. QED  BY <2>1
<1>2. <<>> \in T
  OBVIOUS
<1>. HIDE DEF Step, T
<1>3. PICK f : Unrolls(f, N, <<>>, Step)
  BY <1>0, <1>1, <1>2, Recursion
<1>. DEFINE P == {n \in 0..N : f[n] \in T}
<1>4. 0 \in P
  <2>1. f[0] = <<>>
    BY <1>3 DEF Unrolls
  <2>2. 0 \in 0..N /\ f[0] \in T
    BY <1>0, <1>2, <2>1
  <2>. QED  BY <2>2
<1>5. \A n \in 0..N : n < N /\ n \in P => n + 1 \in P
  <2>. SUFFICES ASSUME NEW n \in 0..N, n < N, n \in P PROVE n + 1 \in P
    OBVIOUS
  <2>1. n + 1 \in 1..N /\ (n + 1) - 1 = n
    BY <1>0
  <2>2. f[n + 1] = Step[n + 1][f[n]]
    BY <1>3, <2>1 DEF Unrolls
  <2>3. f[n + 1] \in T
    BY <1>1, <2>1, <2>2
  <2>. QED  BY <2>1, <2>3
<1>6. \A n \in 0..N : f[n] \in T
  <2>. HIDE DEF P
  <2>1. 0..N \subseteq P
    BY <1>0, <1>4, <1>5, CountingTo
  <2>. QED  BY <2>1 DEF P
<1>7. \A n \in 1..N : f[n] = History!JoinPart(f[n - 1], parts[n].role, parts[n].part)
  <2>. SUFFICES ASSUME NEW n \in 1..N PROVE f[n] = History!JoinPart(f[n - 1], parts[n].role, parts[n].part)
    OBVIOUS
  <2>1. n - 1 \in 0..N
    BY <1>0
  <2>2. f[n] = Step[n][f[n - 1]]
    BY <1>3 DEF Unrolls
  <2>3. f[n - 1] \in T
    BY <1>6, <2>1
  <2>. QED  BY <2>2, <2>3 DEF Step
<1>8. Weaves(parts, f)
  <2>1. f = [n \in 0..N |-> f[n]] /\ f[0] = <<>>
    BY <1>3 DEF Unrolls
  <2>2. \A n \in 0..N : f[n] = IF n = 0 THEN <<>> ELSE History!JoinPart(f[n - 1], parts[n].role, parts[n].part)
    <3>1. \A n \in 0..N : n = 0 \/ n \in 1..N
      BY <1>0
    <3>. QED  BY <1>7, <2>1, <3>1
  <2>. QED  BY <2>1, <2>2, Zenon DEF Weaves
<1>. DEFINE g == CHOOSE g : Weaves(parts, g)
<1>9. Weaves(parts, g)
  BY <1>8
<1>10. History!CloudContents(parts) = g[Len(parts)]
  BY <1>9 DEF History!CloudContents, Weaves
<1>. QED  BY <1>9, <1>10

LEMMA ContentsWoven ==
  ASSUME NEW parts \in Seq(PieceSet)
  PROVE  \E at, off : Woven(parts, Len(parts), History!CloudContents(parts), at, off)
<1>1. PICK f : Weaves(parts, f) /\ History!CloudContents(parts) = f[Len(parts)]
  BY WeavesExist
<1>2. Len(parts) \in Nat
  OBVIOUS
<1>. DEFINE P == {n \in 0..Len(parts) : \E at, off : Woven(parts, n, f[n], at, off)}
<1>3. 0 \in P
  <2>1. f[0] = <<>> /\ 0 \in 0..Len(parts)
    BY <1>1, <1>2 DEF Weaves
  <2>2. DOMAIN <<>> = {} /\ 1..0 = {} /\ <<>> \in Seq(ContentSet) /\ Len(<<>>) = 0 /\ 1..(0 - 1) = {}
    OBVIOUS
  <2>3. Woven(parts, 0, <<>>, <<>>, <<>>)
    BY <2>2 DEF Woven
  <2>. QED  BY <2>1, <2>3
<1>4. \A n \in 0..Len(parts) : n < Len(parts) /\ n \in P => n + 1 \in P
  <2>. SUFFICES ASSUME NEW n \in 0..Len(parts), n < Len(parts), n \in P PROVE n + 1 \in P
    OBVIOUS
  <2>1. n + 1 \in 1..Len(parts) /\ (n + 1) - 1 = n /\ n + 1 \in 0..Len(parts) /\ n + 1 # 0 /\ n \in Nat
    BY <1>2
  <2>2. f[n + 1] = History!JoinPart(f[n], parts[n + 1].role, parts[n + 1].part)
    BY <1>1, <2>1 DEF Weaves
  <2>3. parts[n + 1] \in PieceSet
    BY <2>1
  <2>4. PICK at, off : Woven(parts, n, f[n], at, off)
    OBVIOUS
  <2>5. PICK m : m = n + 1
    OBVIOUS
  <2>6. PICK c : c = f[n]
    OBVIOUS
  <2>7. PICK u : u = f[m]
    OBVIOUS
  <2>8. Woven(parts, n, c, at, off) /\ c \in Seq(ContentSet)
    BY <2>4, <2>6 DEF Woven
  <2>9. u = History!JoinPart(c, parts[m].role, parts[m].part)
    BY <2>2, <2>5, <2>6, <2>7
  <2>10. \E l, q : Wider(c, parts[m].role, parts[m].part, u, l, q)
    BY <2>3, <2>5, <2>8, <2>9, JoinPartIs
  <2>11. \E a, o : Woven(parts, m, u, a, o)
    BY <2>1, <2>5, <2>8, <2>10, WovenMore, Zenon
  <2>. QED  BY <2>1, <2>5, <2>7, <2>11
<1>. HIDE DEF P
<1>5. 0..Len(parts) \subseteq P
  BY <1>2, <1>3, <1>4, CountingTo, Zenon
<1>6. Len(parts) \in P
  BY <1>2, <1>5
<1>. QED  BY <1>1, <1>6 DEF P

\* What an item becomes.
PiecesAre(items, x, p) ==
  /\ p \in Seq(PieceSet)
  /\ \A i \in DOMAIN p :
       /\ p[i].part.p = "call" =>
            x.t = "call" /\ p[i].part.id = x.id /\ p[i].part.name = x.name /\ p[i].role = "model"
       /\ p[i].part.p = "response" =>
            /\ x.t = "output" /\ x.id \in History!CallNames(items) /\ p[i].part.id = x.id /\ p[i].role = "user"
            /\ p[i].part.name = History!NameOf(items, x.id)
       /\ p[i].part.v # "ok"
  /\ x.t = "call" => DOMAIN p = {1} /\ p[1].part.p = "call" /\ p[1].part.id = x.id
  /\ x.t = "output" /\ x.id \in History!CallNames(items) =>
       1 \in DOMAIN p /\ p[1].part.p = "response" /\ p[1].part.id = x.id

LEMMA NameOfIs ==
  ASSUME NEW items \in Seq(ItemSet), NEW id, id \in History!CallNames(items)
  PROVE  \E k \in DOMAIN items : items[k].t = "call" /\ items[k].id = id
           /\ History!NameOf(items, id) = items[k].name
<1>1. PICK k \in DOMAIN items : items[k].t = "call" /\ items[k].id = id
  BY NamesAre
<1>2. History!ToSet(items) = Elements(items)
  BY SetIs
<1>. DEFINE x == CHOOSE item \in Elements(items) : item.t = "call" /\ item.id = id
<1>3. x \in Elements(items) /\ x.t = "call" /\ x.id = id
  <2>1. items[k] \in Elements(items)
    BY DEF Elements
  <2>. QED  BY <1>1, <2>1
<1>4. History!NameOf(items, id) = x.name
  BY <1>2 DEF History!NameOf
<1>. HIDE DEF x
<1>5. PICK j \in DOMAIN items : x = items[j]
  BY <1>3 DEF Elements
<1>. QED  BY <1>3, <1>4, <1>5

LEMMA CloudPartsAre ==
  ASSUME NEW items \in Seq(ItemSet), NEW x \in ItemSet
  PROVE  PiecesAre(items, x, History!CloudParts(items, x))
<1>1. /\ x.t \in {"message", "call", "output"} /\ x.id \in Nat /\ x.name \in Nat /\ 0 \in Nat
      /\ "user" \in Roles /\ "model" \in Roles
  BY DEF ItemSet, Roles
<1>2. CASE x.t = "message"
  <2>1. PICK y : y = [role |-> IF x.role = "assistant" THEN "model" ELSE "user",
          part |-> History!Part("text", 0, 0, "none")]
    OBVIOUS
  <2>2. History!CloudParts(items, x) = <<y>>
    BY <1>2, <2>1 DEF History!CloudParts
  <2>3. y \in PieceSet /\ y.part.p = "text" /\ y.part.v = "none"
    BY <2>1, <1>1 DEF PieceSet, PartSet, History!Part, Roles
  <2>4. PICK p : p = <<y>>
    OBVIOUS
  <2>5. p \in Seq(PieceSet) /\ DOMAIN p = {1} /\ p[1] = y
    BY <2>3, <2>4, TuplesOf
  <2>6. PiecesAre(items, x, p)
    BY ONLY <1>2, <2>3, <2>5 DEF PiecesAre
  <2>. QED  BY <2>2, <2>4, <2>6
<1>3. CASE x.t = "call"
  <2>1. PICK y : y = [role |-> "model", part |-> History!Part("call", x.id, x.name, "none")]
    OBVIOUS
  <2>2. History!CloudParts(items, x) = <<y>>
    BY <1>3, <2>1 DEF History!CloudParts
  <2>3. y \in PieceSet /\ y.role = "model" /\ y.part.p = "call" /\ y.part.v = "none" /\ y.part.id = x.id
          /\ y.part.name = x.name
    BY <2>1, <1>1 DEF PieceSet, PartSet, History!Part, Roles
  <2>4. PICK p : p = <<y>>
    OBVIOUS
  <2>5. p \in Seq(PieceSet) /\ DOMAIN p = {1} /\ p[1] = y
    BY <2>3, <2>4, TuplesOf
  <2>6. PiecesAre(items, x, p)
    BY ONLY <1>3, <2>3, <2>5 DEF PiecesAre
  <2>. QED  BY <2>2, <2>4, <2>6
<1>4. CASE x.t = "output" /\ x.id \notin History!CallNames(items)
  <2>1. History!CloudParts(items, x) = <<>>
    BY <1>4 DEF History!CloudParts
  <2>2. <<>> \in Seq(PieceSet) /\ DOMAIN <<>> = {}
    OBVIOUS
  <2>3. PiecesAre(items, x, <<>>)
    BY <1>4, <2>2 DEF PiecesAre
  <2>. QED  BY <2>1, <2>3
<1>5. CASE x.t = "output" /\ x.id \in History!CallNames(items)
  <2>0. History!NameOf(items, x.id) \in Nat
    <3>1. PICK k \in DOMAIN items : History!NameOf(items, x.id) = items[k].name
      BY <1>5, NameOfIs
    <3>2. items[k] \in ItemSet
      OBVIOUS
    <3>. QED  BY <3>1, <3>2 DEF ItemSet
  <2>1. PICK y : y = [role |-> "user", part |-> History!Part("response", x.id, History!NameOf(items, x.id),
          "text")]
    OBVIOUS
  <2>2. PICK z : z = [role |-> "user", part |-> History!Part("image", 0, 0, "none")]
    OBVIOUS
  <2>3. /\ y \in PieceSet /\ y.role = "user" /\ y.part.p = "response" /\ y.part.v = "text" /\ y.part.id = x.id
        /\ y.part.name = History!NameOf(items, x.id)
    BY <2>0, <2>1, <1>1 DEF PieceSet, PartSet, History!Part, Roles
  <2>4. z \in PieceSet /\ z.part.p = "image" /\ z.part.v = "none"
    BY <2>2, <1>1 DEF PieceSet, PartSet, History!Part, Roles
  <2>5. History!CloudParts(items, x) = <<y>> \o (IF x.v = "image" THEN <<z>> ELSE <<>>)
    BY <1>5, <2>1, <2>2 DEF History!CloudParts
  <2>6. History!CloudParts(items, x) = <<y, z>> \/ History!CloudParts(items, x) = <<y>>
    BY <2>3, <2>4, <2>5, TuplesJoined
  <2>7. ASSUME NEW p, p = <<y>> \/ p = <<y, z>> PROVE PiecesAre(items, x, p)
    <3>1. CASE p = <<y>>
      <4>1. p \in Seq(PieceSet) /\ DOMAIN p = {1} /\ p[1] = y
        BY <2>3, <3>1, TuplesOf
      <4>. QED  BY ONLY <1>5, <2>3, <4>1 DEF PiecesAre
    <3>2. CASE p = <<y, z>>
      <4>1. p \in Seq(PieceSet) /\ DOMAIN p = {1, 2} /\ p[1] = y /\ p[2] = z
        BY <2>3, <2>4, <3>2, TuplesOf
      <4>. QED  BY ONLY <1>5, <2>3, <2>4, <4>1 DEF PiecesAre
    <3>. QED  BY <2>7, <3>1, <3>2
  <2>. QED  BY <2>6, <2>7, Zenon
<1>. QED  BY <1>1, <1>2, <1>3, <1>4, <1>5

\* The parts of all the items.
Parts(items, parts, at, off) ==
  /\ parts \in Seq(PieceSet)
  /\ \A k \in DOMAIN parts :
       /\ at[k] \in DOMAIN items /\ at[k] \in Nat /\ off[k] \in DOMAIN History!CloudParts(items, items[at[k]])
       /\ parts[k] = History!CloudParts(items, items[at[k]])[off[k]]
  /\ \A j, k \in DOMAIN parts : at[j] < at[k] => j < k
  /\ \A j, k \in DOMAIN parts : j < k => at[j] <= at[k]
  /\ \A m \in DOMAIN items : \A i \in DOMAIN History!CloudParts(items,
       items[m]) : \E k \in DOMAIN parts : at[k] = m /\ off[k] = i

LEMMA PartsAre ==
  ASSUME NEW items \in Seq(ItemSet), NEW parts,
         parts = History!FlattenSeq([k \in DOMAIN items |-> History!CloudParts(items, items[k])])
  PROVE  \E at, off : Parts(items, parts, at, off)
<1>. DEFINE all == [k \in DOMAIN items |-> History!CloudParts(items, items[k])]
<1>1. /\ DOMAIN items = 1..Len(items) /\ Len(items) \in Nat /\ \A k \in DOMAIN items : items[k] \in ItemSet
  OBVIOUS
<1>2. \A k \in DOMAIN items : History!CloudParts(items, items[k]) \in Seq(PieceSet)
  BY <1>1, CloudPartsAre DEF PiecesAre
<1>3. all \in Seq(Seq(PieceSet)) /\ Len(all) = Len(items)
        /\ \A k \in DOMAIN items : all[k] = History!CloudParts(items, items[k])
  BY <1>1, <1>2
<1>4. parts = History!FlattenSeq(all)
  OBVIOUS
<1>. HIDE DEF all
<1>5. parts \in Seq(PieceSet) /\ \E at, off : PlacedAt(all, Len(items), parts, at, off)
  BY <1>3, <1>4, FlatPlaces
<1>6. PICK at, off : PlacedAt(all, Len(items), parts, at, off)
  BY <1>5
<1>. DEFINE D == 1..Len(items)
<1>7. D = DOMAIN items
  BY <1>1
<1>8. /\ \A k \in DOMAIN parts : at[k] \in D /\ off[k] \in DOMAIN all[at[k]] /\ parts[k] = all[at[k]][off[k]]
      /\ \A j, k \in DOMAIN parts : j < k => at[j] < at[k] \/ (at[j] = at[k] /\ off[j] < off[k])
      /\ \A m \in D : \A i \in DOMAIN all[m] : \E k \in DOMAIN parts : at[k] = m /\ off[k] = i
  BY <1>6, Zenon DEF PlacedAt
<1>9. \A k \in DOMAIN parts : at[k] \in Nat
  BY <1>8
<1>. HIDE DEF D
<1>10. ASSUME NEW k \in DOMAIN parts
       PROVE  /\ at[k] \in DOMAIN items /\ at[k] \in Nat
                   /\ off[k] \in DOMAIN History!CloudParts(items, items[at[k]])
              /\ parts[k] = History!CloudParts(items, items[at[k]])[off[k]]
  <2>1. at[k] \in DOMAIN items /\ off[k] \in DOMAIN all[at[k]] /\ parts[k] = all[at[k]][off[k]]
    BY <1>7, <1>8, Zenon
  <2>2. all[at[k]] = History!CloudParts(items, items[at[k]])
    BY <1>3, <2>1, Zenon
  <2>. QED  BY <1>9, <2>1, <2>2, Zenon
<1>11. ASSUME NEW j \in DOMAIN parts, NEW k \in DOMAIN parts, j < k PROVE at[j] <= at[k]
  BY <1>8, <1>9, <1>11
<1>12. ASSUME NEW j \in DOMAIN parts, NEW k \in DOMAIN parts, at[j] < at[k] PROVE j < k
  <2>1. ~(k < j)
    <3>1. SUFFICES ASSUME k < j PROVE FALSE
      OBVIOUS
    <3>2. at[k] <= at[j]
      BY <1>11, <3>1
    <3>. QED  BY <1>9, <1>12, <3>2
  <2>2. j # k
    BY <1>9, <1>12
  <2>3. j \in Nat /\ k \in Nat
    BY <1>5
  <2>. QED  BY ONLY <2>1, <2>2, <2>3
<1>13. ASSUME NEW m \in DOMAIN items, NEW i \in DOMAIN History!CloudParts(items, items[m])
       PROVE  \E k \in DOMAIN parts : at[k] = m /\ off[k] = i
  <2>1. all[m] = History!CloudParts(items, items[m]) /\ m \in D
    BY <1>3, <1>7, Zenon
  <2>2. i \in DOMAIN all[m]
    BY <2>1
  <2>3. \A j \in DOMAIN all[m] : \E k \in DOMAIN parts : at[k] = m /\ off[k] = j
    BY <1>8, <2>1, Zenon
  <2>. QED  BY <2>2, <2>3, Zenon
<1>14. Parts(items, parts, at, off)
  BY <1>5, <1>10, <1>11, <1>12, <1>13, Zenon DEF Parts
<1>. QED  BY <1>14

\* The contents end with the user's, if it takes one more.
Ended(c, sent) ==
  /\ c \in Seq(ContentSet)
  /\ \/ sent = c /\ (c # <<>> => c[Len(c)].role = "user")
     \/ /\ c # <<>> /\ c[Len(c)].role = "model"
        /\ \E t : /\ sent = Append(c, t) /\ Longer(c, t, sent) /\ t.role = "user"
                  /\ \A m \in DOMAIN t.parts : t.parts[m].p # "call"
                       /\ (t.parts[m].p = "response" => t.parts[m].v = "ok")
                  /\ \A m \in DOMAIN c[Len(c)].parts : c[Len(c)].parts[m].p = "call" =>
                       \E j \in DOMAIN t.parts : t.parts[j].p = "response"
                         /\ t.parts[j].id = c[Len(c)].parts[m].id

Pending(said, pending) ==
  /\ pending \in Seq(PartSet) /\ \A n \in DOMAIN pending : pending[n].p = "call"
  /\ \A m \in DOMAIN said : said[m].p = "call" => \E n \in DOMAIN pending : pending[n] = said[m]

LEMMA PendingAre ==
  ASSUME NEW said \in Seq(PartSet)
  PROVE  Pending(said, Only(said, {part \in History!ToSet(said) : part.p = "call"}))
<1>. DEFINE S == {part \in Elements(said) : part.p = "call"}
<1>1. Only(said, {part \in History!ToSet(said) : part.p = "call"}) = Only(said, S)
  BY SetIs
<1>. HIDE DEF S
<1>0. Only(said, S) \in Seq(PartSet) /\ Elements(Only(said, S)) = Elements(said) \cap S
  BY OnlyElements
<1>. DEFINE pending == Only(said, S)
<1>2. pending \in Seq(PartSet) /\ Elements(pending) = Elements(said) \cap S
  BY <1>0
<1>. HIDE DEF pending
<1>3. \A n \in DOMAIN pending : pending[n].p = "call"
  <2>1. \A n \in DOMAIN pending : pending[n] \in S
    BY <1>2 DEF Elements
  <2>. QED  BY <2>1 DEF S
<1>4. ASSUME NEW m \in DOMAIN said, said[m].p = "call" PROVE \E n \in DOMAIN pending : pending[n] = said[m]
  <2>1. said[m] \in Elements(said) /\ said[m] \in S
    BY <1>4 DEF S, Elements
  <2>. QED  BY <1>2, <2>1 DEF Elements
<1>5. Pending(said, pending)
  BY <1>2, <1>3, <1>4 DEF Pending
<1>. QED  BY <1>1, <1>5 DEF pending

LEMMA EndsIs ==
  ASSUME NEW c \in Seq(ContentSet)
  PROVE  Ended(c, History!EndsWithUser(c))
<1>1. ASSUME c # <<>>
      PROVE  History!Last(c) = c[Len(c)] /\ c[Len(c)].role \in {"user",
               "model"} /\ c[Len(c)].parts \in Seq(PartSet)
  <2>1. History!Last(c) = c[Len(c)] /\ Len(c) \in DOMAIN c
    BY <1>1, LastIs
  <2>2. c[Len(c)] \in ContentSet
    BY <2>1
  <2>. QED  BY <2>1, <2>2 DEF ContentSet, Roles
<1>2. CASE c = <<>> \/ c[Len(c)].role # "model"
  <2>1. History!EndsWithUser(c) = c
    BY <1>1, <1>2 DEF History!EndsWithUser
  <2>2. c # <<>> => c[Len(c)].role = "user"
    BY <1>1, <1>2
  <2>. QED  BY <2>1, <2>2 DEF Ended
<1>3. CASE c # <<>> /\ c[Len(c)].role = "model"
  <2>1. PICK said : said = c[Len(c)].parts
    OBVIOUS
  <2>2. PICK pending : pending = Only(said, {part \in History!ToSet(said) : part.p = "call"})
    OBVIOUS
  <2>3. said \in Seq(PartSet)
    BY <1>1, <1>3, <2>1
  <2>4. /\ pending \in Seq(PartSet) /\ \A n \in DOMAIN pending : pending[n].p = "call"
        /\ \A m \in DOMAIN said : said[m].p = "call" => \E n \in DOMAIN pending : pending[n] = said[m]
    <3>1. Pending(said, pending)
      BY <2>2, <2>3, PendingAre
    <3>. QED  BY <3>1 DEF Pending
  <2>5. PICK oks : oks = [n \in DOMAIN pending |-> History!Part("response", pending[n].id, pending[n].name, "ok")]
    OBVIOUS
  <2>6. /\ DOMAIN oks = DOMAIN pending
        /\ \A n \in DOMAIN pending : oks[n].p = "response" /\ oks[n].v = "ok" /\ oks[n].id = pending[n].id
    BY <2>5 DEF History!Part
  <2>7. \A n \in DOMAIN pending : oks[n] \in PartSet
    <3>1. \A n \in DOMAIN pending : pending[n] \in PartSet
      BY <2>4
    <3>. QED  BY <2>5, <3>1 DEF History!Part, PartSet
  <2>8. PICK go : go = History!Part("text", 0, 0, "Continue.")
    OBVIOUS
  <2>9. go \in PartSet /\ go.p = "text"
    <3>1. 0 \in Nat
      OBVIOUS
    <3>. QED  BY <2>8, <3>1 DEF History!Part, PartSet
  <2>10. PICK q : q = IF pending = <<>> THEN <<go>> ELSE oks
    OBVIOUS
  <2>11. /\ q \in Seq(PartSet)
         /\ \A m \in DOMAIN q : q[m].p # "call" /\ (q[m].p = "response" => q[m].v = "ok")
         /\ \A m \in DOMAIN said : said[m].p = "call" =>
              \E j \in DOMAIN q : q[j].p = "response" /\ q[j].id = said[m].id
    <3>1. CASE pending = <<>>
      <4>1. q \in Seq(PartSet) /\ DOMAIN q = {1} /\ q[1] = go
        BY <2>9, <2>10, <3>1, TuplesOf
      <4>2. DOMAIN pending = {}
        BY <3>1
      <4>. QED  BY ONLY <2>4, <2>9, <4>1, <4>2
    <3>2. CASE pending # <<>>
      <4>1. q = oks
        BY <2>10, <3>2
      <4>2. oks \in Seq(PartSet)
        <5>1. DOMAIN pending = 1..Len(pending) /\ Len(pending) \in Nat
          BY <2>4
        <5>2. oks = [n \in DOMAIN pending |-> oks[n]]
          BY <2>5
        <5>. QED  BY <2>7, <5>1, <5>2
      <4>3. ASSUME NEW m \in DOMAIN said, said[m].p = "call"
            PROVE  \E j \in DOMAIN oks : oks[j].p = "response" /\ oks[j].id = said[m].id
        <5>1. PICK n \in DOMAIN pending : pending[n] = said[m]
          BY <2>4, <4>3
        <5>. QED  BY <2>6, <5>1
      <4>. QED  BY <2>6, <4>1, <4>2, <4>3
    <3>. QED  BY <3>1, <3>2
  <2>12. PICK t : t = [role |-> "user", parts |-> q]
    OBVIOUS
  <2>13. t \in ContentSet /\ t.role = "user" /\ t.parts = q
    BY <2>11, <2>12 DEF ContentSet, Roles
  <2>14. History!EndsWithUser(c) = Append(c, t)
    BY <1>1, <1>3, <2>1, <2>2, <2>5, <2>8, <2>10, <2>12, PickedFrom DEF History!EndsWithUser
  <2>15. Longer(c, t, Append(c, t))
    BY <2>13, AppendIs
  <2>16. \E x : /\ Append(c, t) = Append(c, x) /\ Longer(c, x, Append(c, t)) /\ x.role = "user"
                /\ \A m \in DOMAIN x.parts : x.parts[m].p # "call"
                     /\ (x.parts[m].p = "response" => x.parts[m].v = "ok")
                /\ \A m \in DOMAIN c[Len(c)].parts : c[Len(c)].parts[m].p = "call" =>
                     \E j \in DOMAIN x.parts : x.parts[j].p = "response" /\ x.parts[j].id = c[Len(c)].parts[m].id
    BY <2>1, <2>11, <2>13, <2>15
  <2>17. Ended(c, Append(c, t))
    BY <1>3, <2>16, Zenon DEF Ended
  <2>. QED  BY <2>14, <2>17
<1>. QED  BY <1>2, <1>3

\* Where the parts of the contents come from.
Cloud(items, parts, at, off, c, to, in) ==
  /\ items \in Seq(ItemSet) /\ Parts(items, parts, at, off) /\ Woven(parts, Len(parts), c, to, in)

LEMMA CloudIs ==
  ASSUME History!BoundsAssumption, HInv
  PROVE  \E parts, at, off, c, to,
           in : Cloud(History!Items, parts, at, off, c, to, in) /\ Ended(c, History!ToCloud)
<1>1. PICK items : items = History!Items
  OBVIOUS
<1>2. items \in Seq(ItemSet)
  BY <1>1, ItemsSourced
<1>3. PICK parts : parts = History!FlattenSeq([k \in DOMAIN items |-> History!CloudParts(items, items[k])])
  OBVIOUS
<1>4. PICK at, off : Parts(items, parts, at, off)
  BY <1>2, <1>3, PartsAre
<1>5. parts \in Seq(PieceSet)
  BY <1>4 DEF Parts
<1>6. PICK c : c = History!CloudContents(parts)
  OBVIOUS
<1>7. PICK to, in : Woven(parts, Len(parts), c, to, in)
  BY <1>5, <1>6, ContentsWoven
<1>8. Cloud(items, parts, at, off, c, to, in)
  BY <1>2, <1>4, <1>7 DEF Cloud
<1>9. History!ToCloud = History!EndsWithUser(c)
  BY <1>1, <1>3, <1>6 DEF History!ToCloud
<1>10. Ended(c, History!ToCloud)
  <2>1. c \in Seq(ContentSet)
    BY <1>7 DEF Woven
  <2>. QED  BY <1>9, <2>1, EndsIs
<1>. QED  BY <1>1, <1>8, <1>10

\* Each part is a part of an item, of a role.
PieceOf(items, parts, at, i) ==
  /\ at[i] \in DOMAIN items /\ at[i] \in Nat
  /\ parts[i].part.p = "call" =>
       items[at[i]].t = "call" /\ parts[i].part.id = items[at[i]].id /\ parts[i].part.name = items[at[i]].name
       /\ parts[i].role = "model"
  /\ parts[i].part.p = "response" =>
       /\ items[at[i]].t = "output" /\ items[at[i]].id \in History!CallNames(items)
            /\ parts[i].part.id = items[at[i]].id
       /\ parts[i].role = "user" /\ parts[i].part.name = History!NameOf(items, items[at[i]].id)
  /\ parts[i].part.v # "ok"

LEMMA PieceOfIs ==
  ASSUME NEW items \in Seq(ItemSet), NEW parts, NEW at, NEW off, Parts(items, parts, at, off),
         NEW i \in DOMAIN parts
  PROVE  PieceOf(items, parts, at, i)
<1>1. /\ at[i] \in DOMAIN items /\ at[i] \in Nat /\ off[i] \in DOMAIN History!CloudParts(items, items[at[i]])
      /\ parts[i] = History!CloudParts(items, items[at[i]])[off[i]]
  BY DEF Parts
<1>2. PICK x : x = items[at[i]]
  OBVIOUS
<1>3. PICK p : p = History!CloudParts(items, x)
  OBVIOUS
<1>4. x \in ItemSet
  BY <1>1, <1>2
<1>5. PiecesAre(items, x, p)
  BY <1>3, <1>4, CloudPartsAre
<1>6. off[i] \in DOMAIN p /\ parts[i] = p[off[i]]
  BY <1>1, <1>2, <1>3
<1>7. /\ parts[i].part.p = "call" =>
           x.t = "call" /\ parts[i].part.id = x.id /\ parts[i].part.name = x.name /\ parts[i].role = "model"
      /\ parts[i].part.p = "response" =>
           /\ x.t = "output" /\ x.id \in History!CallNames(items) /\ parts[i].part.id = x.id
           /\ parts[i].role = "user" /\ parts[i].part.name = History!NameOf(items, x.id)
      /\ parts[i].part.v # "ok"
  BY ONLY <1>5, <1>6 DEF PiecesAre
<1>. QED  BY <1>1, <1>2, <1>7 DEF PieceOf

\* An item's first part.
LEMMA PieceFound ==
  ASSUME NEW items \in Seq(ItemSet), NEW parts, NEW at, NEW off, Parts(items, parts, at, off),
         NEW m \in DOMAIN items
  PROVE  /\ items[m].t = "call" =>
              \E i \in DOMAIN parts : at[i] = m /\ parts[i].part.p = "call" /\ parts[i].part.id = items[m].id
         /\ items[m].t = "output" /\ items[m].id \in History!CallNames(items) =>
              \E i \in DOMAIN parts : at[i] = m /\ parts[i].part.p = "response" /\ parts[i].part.id = items[m].id
<1>1. PICK x : x = items[m]
  OBVIOUS
<1>2. PICK p : p = History!CloudParts(items, x)
  OBVIOUS
<1>3. x \in ItemSet
  BY <1>1
<1>4. PiecesAre(items, x, p)
  BY <1>2, <1>3, CloudPartsAre
<1>5. ASSUME 1 \in DOMAIN p PROVE \E i \in DOMAIN parts : at[i] = m /\ parts[i] = p[1]
  <2>1. PICK i \in DOMAIN parts : at[i] = m /\ off[i] = 1
    BY <1>1, <1>2, <1>5 DEF Parts
  <2>2. parts[i] = p[1]
    BY <1>1, <1>2, <2>1 DEF Parts
  <2>. QED  BY <2>1, <2>2
<1>6. ASSUME x.t = "call"
      PROVE  \E i \in DOMAIN parts : at[i] = m /\ parts[i].part.p = "call" /\ parts[i].part.id = x.id
  <2>1. 1 \in DOMAIN p /\ p[1].part.p = "call" /\ p[1].part.id = x.id
    BY <1>4, <1>6 DEF PiecesAre
  <2>. QED  BY <1>5, <2>1
<1>7. ASSUME x.t = "output", x.id \in History!CallNames(items)
      PROVE  \E i \in DOMAIN parts : at[i] = m /\ parts[i].part.p = "response" /\ parts[i].part.id = x.id
  <2>1. 1 \in DOMAIN p /\ p[1].part.p = "response" /\ p[1].part.id = x.id
    BY <1>4, <1>7 DEF PiecesAre
  <2>. QED  BY <1>5, <2>1
<1>. QED  BY <1>1, <1>6, <1>7

\* A part of the contents is a part of an item.
LEMMA WovenFrom ==
  ASSUME NEW parts \in Seq(PieceSet), NEW c, NEW to, NEW in, Woven(parts, Len(parts), c, to, in),
         NEW k \in DOMAIN c, NEW m \in DOMAIN c[k].parts
  PROVE  \E i \in DOMAIN parts : to[i] = k /\ in[i] = m /\ c[k].role = parts[i].role
           /\ c[k].parts[m] = parts[i].part
<1>1. DOMAIN parts = 1..Len(parts)
  OBVIOUS
<1>2. PICK i \in 1..Len(parts) : to[i] = k /\ in[i] = m
  BY DEF Woven
<1>3. c[to[i]].role = parts[i].role /\ c[to[i]].parts[in[i]] = parts[i].part
  BY <1>2 DEF Woven
<1>. QED  BY <1>1, <1>2, <1>3

LEMMA WovenTo ==
  ASSUME NEW parts \in Seq(PieceSet), NEW c, NEW to, NEW in, Woven(parts, Len(parts), c, to, in)
  PROVE  /\ DOMAIN c = 1..Len(c) /\ Len(c) \in Nat
         /\ \A i \in DOMAIN parts : to[i] \in DOMAIN c /\ in[i] \in DOMAIN c[to[i]].parts
                                    /\ c[to[i]].role = parts[i].role /\ c[to[i]].parts[in[i]] = parts[i].part
         /\ \A i, j \in DOMAIN parts : i < j => to[i] <= to[j]
         /\ \A i \in DOMAIN parts : i = Len(parts) => to[i] = Len(c)
<1>1. DOMAIN parts = 1..Len(parts) /\ Len(parts) \in Nat
  OBVIOUS
<1>2. DOMAIN c = 1..Len(c) /\ Len(c) \in Nat
  BY DEF Woven
<1>3. Len(parts) \in DOMAIN parts => to[Len(parts)] = Len(c)
  BY <1>1 DEF Woven
<1>. DEFINE D == 1..Len(parts)
<1>4. /\ \A k \in D : to[k] \in DOMAIN c /\ in[k] \in DOMAIN c[to[k]].parts /\ c[to[k]].role = parts[k].role
                     /\ c[to[k]].parts[in[k]] = parts[k].part
      /\ \A j, k \in D : j < k => to[j] <= to[k]
  BY Zenon DEF Woven
<1>5. D = DOMAIN parts
  BY <1>1
<1>. HIDE DEF D
<1>. QED  BY <1>2, <1>3, <1>4, <1>5, Zenon

\* Where the end is, behind the contents of the parts.
EndIs(c, sent) ==
  \/ sent = c /\ (c # <<>> => c[Len(c)].role = "user")
  \/ /\ c # <<>> /\ c[Len(c)].role = "model" /\ Len(sent) = Len(c) + 1 /\ DOMAIN sent = DOMAIN c \cup {Len(c) + 1}
     /\ \A k \in DOMAIN c : sent[k] = c[k]
     /\ sent[Len(c) + 1].role = "user"
     /\ \A m \in DOMAIN sent[Len(c) + 1].parts :
          /\ sent[Len(c) + 1].parts[m].p # "call"
          /\ sent[Len(c) + 1].parts[m].p = "response" => sent[Len(c) + 1].parts[m].v = "ok"
     /\ \A m \in DOMAIN c[Len(c)].parts : c[Len(c)].parts[m].p = "call" =>
          \E j \in DOMAIN sent[Len(c) + 1].parts :
            sent[Len(c) + 1].parts[j].p = "response" /\ sent[Len(c) + 1].parts[j].id = c[Len(c)].parts[m].id

LEMMA EndedIs ==
  ASSUME NEW c, NEW sent, Ended(c, sent)
  PROVE  EndIs(c, sent) /\ c \in Seq(ContentSet) /\ Len(c) \in Nat /\ DOMAIN c = 1..Len(c)
           /\ DOMAIN sent = 1..Len(sent)
         /\ Len(sent) \in Nat
<1>1. c \in Seq(ContentSet) /\ Len(c) \in Nat /\ DOMAIN c = 1..Len(c)
  BY DEF Ended
<1>2. CASE sent = c /\ (c # <<>> => c[Len(c)].role = "user")
  BY <1>1, <1>2 DEF EndIs
<1>3. CASE ~(sent = c /\ (c # <<>> => c[Len(c)].role = "user"))
  <2>1. /\ c # <<>> /\ c[Len(c)].role = "model"
        /\ \E t : /\ sent = Append(c, t) /\ Longer(c, t, sent) /\ t.role = "user"
                  /\ \A m \in DOMAIN t.parts : t.parts[m].p # "call"
                       /\ (t.parts[m].p = "response" => t.parts[m].v = "ok")
                  /\ \A m \in DOMAIN c[Len(c)].parts : c[Len(c)].parts[m].p = "call" =>
                       \E j \in DOMAIN t.parts : t.parts[j].p = "response"
                         /\ t.parts[j].id = c[Len(c)].parts[m].id
    BY <1>3, Zenon DEF Ended
  <2>2. PICK t : /\ sent = Append(c, t) /\ Longer(c, t, sent) /\ t.role = "user"
                 /\ \A m \in DOMAIN t.parts : t.parts[m].p # "call"
                      /\ (t.parts[m].p = "response" => t.parts[m].v = "ok")
                 /\ \A m \in DOMAIN c[Len(c)].parts : c[Len(c)].parts[m].p = "call" =>
                      \E j \in DOMAIN t.parts : t.parts[j].p = "response" /\ t.parts[j].id = c[Len(c)].parts[m].id
    BY <2>1
  <2>3. DOMAIN sent = DOMAIN c \cup {Len(c) + 1} /\ sent[Len(c) + 1] = t /\ \A k \in DOMAIN c : sent[k] = c[k]
    BY <2>2 DEF Longer
  <2>4. Len(sent) = Len(c) + 1 /\ DOMAIN sent = 1..Len(sent)
    <3>1. Len(Append(c, t)) = Len(c) + 1
      BY <1>1
    <3>2. DOMAIN sent = 1..(Len(c) + 1)
      BY <1>1, <2>3
    <3>. QED  BY <2>2, <3>1, <3>2
  <2>5. EndIs(c, sent)
    <3>1. PICK e : e = Len(c) + 1
      OBVIOUS
    <3>2. sent[e] = t /\ Len(sent) = e /\ DOMAIN sent = DOMAIN c \cup {e}
      BY <2>3, <2>4, <3>1
    <3>3. /\ sent[e].role = "user"
          /\ \A m \in DOMAIN sent[e].parts :
               sent[e].parts[m].p # "call" /\ (sent[e].parts[m].p = "response" => sent[e].parts[m].v = "ok")
      BY <2>2, <3>2
    <3>4. \A m \in DOMAIN c[Len(c)].parts : c[Len(c)].parts[m].p = "call" =>
            \E j \in DOMAIN sent[e].parts :
              sent[e].parts[j].p = "response" /\ sent[e].parts[j].id = c[Len(c)].parts[m].id
      BY <2>2, <3>2
    <3>5. sent[Len(c) + 1] = sent[e] /\ Len(sent) = Len(c) + 1 /\ DOMAIN sent = DOMAIN c \cup {Len(c) + 1}
      BY <3>1, <3>2
    <3>. DEFINE u == sent[Len(c) + 1]
    <3>6. u = sent[e]
      BY <3>5
    <3>. HIDE DEF u
    <3>7. /\ u.role = "user"
          /\ \A m \in DOMAIN u.parts : u.parts[m].p # "call" /\ (u.parts[m].p = "response" => u.parts[m].v = "ok")
          /\ \A m \in DOMAIN c[Len(c)].parts : c[Len(c)].parts[m].p = "call" =>
               \E j \in DOMAIN u.parts : u.parts[j].p = "response" /\ u.parts[j].id = c[Len(c)].parts[m].id
      BY ONLY <3>3, <3>4, <3>6
    <3>. USE DEF u
    <3>8. \A k \in DOMAIN c : sent[k] = c[k]
      BY <2>3
    <3>. QED  BY ONLY <2>1, <3>5, <3>7, <3>8, Zenon DEF EndIs
  <2>. QED  BY <1>1, <2>4, <2>5
<1>. QED  BY <1>2, <1>3

\* Roles alternate.
LEMMA Alternate ==
  ASSUME NEW parts, NEW c, NEW to, NEW in, Woven(parts, Len(parts), c, to, in), NEW sent, Ended(c, sent)
  PROVE  /\ \A k \in 1..(Len(sent) - 1) : sent[k].role # sent[k + 1].role
         /\ sent # <<>> => History!Last(sent).role = "user"
<1>1. /\ EndIs(c, sent) /\ c \in Seq(ContentSet) /\ Len(c) \in Nat /\ DOMAIN c = 1..Len(c)
           /\ DOMAIN sent = 1..Len(sent)
      /\ Len(sent) \in Nat
  BY EndedIs
<1>2. \A k \in 1..(Len(c) - 1) : c[k].role # c[k + 1].role
  BY DEF Woven
<1>3. CASE sent = c /\ (c # <<>> => c[Len(c)].role = "user")
  BY <1>1, <1>2, <1>3, LastIs
<1>4. CASE ~(sent = c /\ (c # <<>> => c[Len(c)].role = "user"))
  <2>1. PICK l : l = Len(c)
    OBVIOUS
  <2>2. /\ c # <<>> /\ c[l].role = "model" /\ Len(sent) = l + 1
        /\ \A k \in DOMAIN c : sent[k] = c[k]
        /\ sent[l + 1].role = "user"
    BY <1>1, <1>4, <2>1 DEF EndIs
  <2>3. ASSUME NEW k \in 1..(Len(sent) - 1) PROVE sent[k].role # sent[k + 1].role
    <3>1. k \in 1..l
      BY <1>1, <2>1, <2>2
    <3>2. CASE k = l
      BY <1>1, <2>1, <2>2, <3>1, <3>2
    <3>3. CASE k # l
      <4>. l \in Nat
        BY <1>1, <2>1
      <4>1. k \in 1..(l - 1) /\ k + 1 \in 1..l
        BY ONLY l \in Nat, <3>1, <3>3
      <4>. QED  BY <1>1, <1>2, <2>1, <2>2, <3>1, <4>1
    <3>. QED  BY <3>2, <3>3
  <2>4. History!Last(sent).role = "user"
    BY <2>2 DEF History!Last
  <2>. QED  BY <2>3, <2>4
<1>. QED  BY <1>3, <1>4

\* A response is behind its call.
LEMMA Responses ==
  ASSUME NEW items, NEW parts, NEW at, NEW off, NEW c, NEW to, NEW in,
         Cloud(items, parts, at, off, c, to, in),
         Apart(items) \/ Linked(items),
         NEW k \in DOMAIN c, NEW n \in DOMAIN c[k].parts, c[k].parts[n].p = "response"
  PROVE  \E j \in 1..(k - 1) : \E m \in DOMAIN c[j].parts :
           c[j].parts[m].p = "call" /\ c[j].parts[m].id = c[k].parts[n].id
             /\ c[j].parts[m].name = c[k].parts[n].name
<1>1. items \in Seq(ItemSet) /\ Parts(items, parts, at, off) /\ Woven(parts, Len(parts), c, to, in)
  BY DEF Cloud
<1>2. parts \in Seq(PieceSet)
  BY <1>1 DEF Parts
<1>3. PICK i \in DOMAIN parts : to[i] = k /\ c[k].role = parts[i].role /\ c[k].parts[n] = parts[i].part
  BY <1>1, <1>2, WovenFrom
<1>4. PieceOf(items, parts, at, i)
  BY <1>1, PieceOfIs
<1>5. PICK x : x = items[at[i]].id
  OBVIOUS
<1>6. /\ at[i] \in DOMAIN items /\ at[i] \in Nat /\ items[at[i]].t = "output"
           /\ x \in History!CallNames(items) /\ parts[i].part.id = x
      /\ parts[i].role = "user" /\ parts[i].part.name = History!NameOf(items, x)
  BY <1>3, <1>4, <1>5 DEF PieceOf
<1>7. PICK y \in DOMAIN items : items[y].t = "call" /\ items[y].id = x /\ History!NameOf(items, x) = items[y].name
  BY <1>1, <1>6, NameOfIs
<1>8. Linked(items)
  BY <1>5, <1>6, <1>7 DEF Apart
<1>9. y < at[i]
  BY <1>5, <1>6, <1>7, <1>8 DEF Linked
<1>10. PICK h \in DOMAIN parts : at[h] = y /\ parts[h].part.p = "call" /\ parts[h].part.id = x
  BY <1>1, <1>7, PieceFound
<1>11. PieceOf(items, parts, at, h)
  BY <1>1, PieceOfIs
<1>12. parts[h].role = "model" /\ parts[h].part.name = items[y].name
  BY <1>10, <1>11 DEF PieceOf
<1>13. h < i
  BY <1>1, <1>9, <1>10 DEF Parts
<1>14. /\ DOMAIN c = 1..Len(c) /\ Len(c) \in Nat
       /\ to[h] \in DOMAIN c /\ in[h] \in DOMAIN c[to[h]].parts
       /\ c[to[h]].role = parts[h].role /\ c[to[h]].parts[in[h]] = parts[h].part
       /\ to[h] <= to[i]
  BY <1>1, <1>2, <1>13, WovenTo
<1>15. to[h] # k
  BY <1>3, <1>6, <1>12, <1>14
<1>16. to[h] \in 1..(k - 1)
  BY <1>3, <1>14, <1>15
<1>17. c[k].parts[n].id = x /\ c[k].parts[n].name = items[y].name
  BY <1>3, <1>6, <1>7
<1>. QED  BY <1>10, <1>12, <1>14, <1>16, <1>17

\* Nothing of the contents was made up.
LEMMA NotOk ==
  ASSUME NEW items, NEW parts, NEW at, NEW off, NEW c, NEW to, NEW in,
         Cloud(items, parts, at, off, c, to, in),
         NEW k \in DOMAIN c, NEW n \in DOMAIN c[k].parts
  PROVE  c[k].parts[n].v # "ok" /\ (c[k].parts[n].p = "call" => c[k].role = "model")
<1>1. items \in Seq(ItemSet) /\ Parts(items, parts, at, off) /\ Woven(parts, Len(parts), c, to, in)
  BY DEF Cloud
<1>2. parts \in Seq(PieceSet)
  BY <1>1 DEF Parts
<1>3. PICK i \in DOMAIN parts : to[i] = k /\ c[k].role = parts[i].role /\ c[k].parts[n] = parts[i].part
  BY <1>1, <1>2, WovenFrom
<1>4. PieceOf(items, parts, at, i)
  BY <1>1, PieceOfIs
<1>. QED  BY <1>3, <1>4 DEF PieceOf

LEMMA Alternates == ASSUME History!BoundsAssumption, HInv PROVE History!CloudAlternates
<1>1. PICK parts, at, off, c, to,
        in : Cloud(History!Items, parts, at, off, c, to, in) /\ Ended(c, History!ToCloud)
  BY CloudIs
<1>2. Woven(parts, Len(parts), c, to, in)
  BY <1>1 DEF Cloud
<1>3. PICK sent : sent = History!ToCloud
  OBVIOUS
<1>4. /\ EndIs(c, sent) /\ c \in Seq(ContentSet) /\ Len(c) \in Nat /\ DOMAIN c = 1..Len(c)
           /\ DOMAIN sent = 1..Len(sent)
      /\ Len(sent) \in Nat
  BY <1>1, <1>3, EndedIs
<1>5. Apart(History!Items) \/ Linked(History!Items)
  BY ItemsApart, ItemsLinked
<1>6. ASSUME NEW k \in DOMAIN sent, NEW n \in DOMAIN sent[k].parts, sent[k].parts[n].p = "response",
             sent[k].parts[n].v # "ok"
      PROVE  \E j \in 1..(k - 1) : \E m \in DOMAIN sent[j].parts :
               /\ sent[j].parts[m].p = "call" /\ sent[j].parts[m].id = sent[k].parts[n].id
               /\ sent[j].parts[m].name = sent[k].parts[n].name
  <2>1. k \in DOMAIN c /\ sent[k] = c[k]
    BY <1>4, <1>6 DEF EndIs
  <2>2. \E j \in 1..(k - 1) : \E m \in DOMAIN c[j].parts :
          c[j].parts[m].p = "call" /\ c[j].parts[m].id = c[k].parts[n].id
            /\ c[j].parts[m].name = c[k].parts[n].name
    BY <1>1, <1>5, <1>6, <2>1, Responses
  <2>3. PICK j \in 1..(k - 1) : \E m \in DOMAIN c[j].parts :
          c[j].parts[m].p = "call" /\ c[j].parts[m].id = c[k].parts[n].id
            /\ c[j].parts[m].name = c[k].parts[n].name
    BY <2>2
  <2>4. j \in DOMAIN c
    BY <1>4, <2>1
  <2>5. sent[j] = c[j]
    BY <1>4, <2>4 DEF EndIs
  <2>. QED  BY <2>1, <2>3, <2>5
<1>7. /\ \A k \in 1..(Len(sent) - 1) : sent[k].role # sent[k + 1].role
      /\ sent # <<>> => History!Last(sent).role = "user"
  BY <1>1, <1>2, <1>3, Alternate
<1>. QED  BY <1>3, <1>6, <1>7 DEF History!CloudAlternates

\* When no call waits but those the history ends with, none is unanswered.
LEMMA AllAnswered ==
  ASSUME History!BoundsAssumption, HInv, client # "gemini", \A n \in DOMAIN turns : turns[n].who # "inline",
         History!Outstanding = {},
         NEW x \in History!CallsMade
  PROVE  \E k \in DOMAIN History!Items : History!Items[k].t = "output" /\ History!Items[k].id = x
<1>1. PICK m \in DOMAIN turns : x \in Elements(turns[m].calls)
  BY MadeIs
<1>2. turns[m] \in TurnSet /\ SoundTurn(turns[m], called) /\ called \in Nat
  BY DEF HInv, Counted, Turned, History!BoundsAssumption
<1>3. x \in 1..called
  BY <1>1, <1>2 DEF SoundTurn
<1>4. History!Contains(turns[m].calls, x)
  <2>1. turns[m].calls \in Seq(Nat)
    BY <1>2 DEF TurnSet
  <2>. QED  BY <1>1, <2>1, ContainsIs
<1>5. History!Answered(x)
  BY <1>3, <1>4 DEF History!Outstanding
<1>6. PICK k \in DOMAIN turns : turns[k].output.id = x
  BY <1>5 DEF History!Answered
<1>7. turns[k].who = "tool"
  <2>1. turns[k] \in TurnSet /\ SoundTurn(turns[k], called)
    BY DEF HInv, Counted, Turned
  <2>2. turns[k].who \in Speakers /\ turns[k].output.id # 0
    BY <1>3, <1>6, <2>1 DEF TurnSet
  <2>. QED  BY <2>1, <2>2 DEF SoundTurn, Speakers
<1>8. Linked(History!Items)
  BY ItemsLinked
<1>. QED  BY <1>6, <1>7, <1>8 DEF Linked

\* The contents end with the model's when the history ends with calls.
LEMMA EndsCalling ==
  ASSUME NEW items, NEW parts, NEW at, NEW off, NEW c, NEW to, NEW in,
         Cloud(items, parts, at, off, c, to, in),
         items # <<>>, items[Len(items)].t = "call"
  PROVE  c[Len(c)].role = "model"
<1>1. items \in Seq(ItemSet) /\ Parts(items, parts, at, off) /\ Woven(parts, Len(parts), c, to, in)
  BY DEF Cloud
<1>2. parts \in Seq(PieceSet)
  BY <1>1 DEF Parts
<1>3. PICK m : m = Len(items)
  OBVIOUS
<1>4. m \in DOMAIN items /\ m \in Nat /\ DOMAIN items = 1..m
  BY <1>1, <1>3
<1>5. PICK i \in DOMAIN parts : at[i] = m /\ parts[i].part.p = "call"
  BY <1>1, <1>3, <1>4, PieceFound
<1>6. PICK l : l = Len(parts)
  OBVIOUS
<1>7. l \in DOMAIN parts /\ l \in Nat /\ DOMAIN parts = 1..l
  BY <1>2, <1>5, <1>6
<1>8. PieceOf(items, parts, at, l) /\ PieceOf(items, parts, at, i)
  BY <1>1, <1>7, PieceOfIs
<1>9. at[l] = m
  <2>1. i = l \/ i < l
    BY <1>5, <1>7
  <2>2. i < l => at[i] <= at[l]
    BY <1>1, <1>7 DEF Parts
  <2>3. at[l] \in 1..m
    BY <1>4, <1>8 DEF PieceOf
  <2>. QED  BY <1>4, <1>5, <2>1, <2>2, <2>3
<1>10. parts[l].role = "model"
  <2>1. parts[l] = History!CloudParts(items, items[m])[off[l]]
          /\ off[l] \in DOMAIN History!CloudParts(items, items[m])
    BY <1>1, <1>7, <1>9 DEF Parts
  <2>2. items[m] \in ItemSet
    BY <1>1, <1>4
  <2>3. PiecesAre(items, items[m], History!CloudParts(items, items[m]))
    BY <1>1, <2>2, CloudPartsAre
  <2>4. parts[l].part.p = "call"
    <3>1. DOMAIN History!CloudParts(items, items[m]) = {1}
            /\ History!CloudParts(items, items[m])[1].part.p = "call"
      BY <1>3, <2>3 DEF PiecesAre
    <3>. QED  BY <2>1, <3>1
  <2>. QED  BY <1>8, <2>4 DEF PieceOf
<1>11. to[l] = Len(c) /\ c[to[l]].role = parts[l].role
  BY <1>1, <1>2, <1>6, <1>7, WovenTo
<1>. QED  BY <1>10, <1>11

LEMMA CloudAnswered == ASSUME History!BoundsAssumption, HInv PROVE History!CloudAnswers
<1>1. PICK parts, at, off, c, to,
        in : Cloud(History!Items, parts, at, off, c, to, in) /\ Ended(c, History!ToCloud)
  BY CloudIs
<1>2. PICK sent : sent = History!ToCloud
  OBVIOUS
<1>3. /\ EndIs(c, sent) /\ c \in Seq(ContentSet) /\ Len(c) \in Nat /\ DOMAIN c = 1..Len(c)
           /\ DOMAIN sent = 1..Len(sent)
      /\ Len(sent) \in Nat
  BY <1>1, <1>2, EndedIs
<1>4. PICK items : items = History!Items
  OBVIOUS
<1>5. /\ items \in Seq(ItemSet) /\ Parts(items, parts, at, off) /\ Woven(parts, Len(parts), c, to, in)
      /\ parts \in Seq(PieceSet) /\ Cloud(items, parts, at, off, c, to, in)
  BY <1>1, <1>4 DEF Cloud, Parts
<1>6. ASSUME client # "gemini", \A n \in DOMAIN turns : turns[n].who # "inline",
             History!Outstanding = {} \/ (History!Last(turns).who = "model"
               /\ History!Outstanding = History!ToSet(History!Last(turns).calls)),
             NEW k \in {Len(sent) - 1, Len(sent)} \cap DOMAIN sent, NEW n \in DOMAIN sent[k].parts,
             sent[k].parts[n].p = "call"
      PROVE  /\ k < Len(sent)
             /\ \E m \in DOMAIN sent[k + 1].parts :
                  sent[k + 1].parts[m].p = "response" /\ sent[k + 1].parts[m].id = sent[k].parts[n].id
  <2>1. CASE ~(sent = c /\ (c # <<>> => c[Len(c)].role = "user"))
    <3>1. PICK l : l = Len(c)
      OBVIOUS
    <3>2. /\ Len(sent) = l + 1 /\ DOMAIN sent = DOMAIN c \cup {l + 1}
          /\ \A h \in DOMAIN c : sent[h] = c[h]
          /\ \A m \in DOMAIN sent[l + 1].parts : sent[l + 1].parts[m].p # "call"
          /\ \A m \in DOMAIN c[l].parts : c[l].parts[m].p = "call" =>
               \E j \in DOMAIN sent[l + 1].parts :
                 sent[l + 1].parts[j].p = "response" /\ sent[l + 1].parts[j].id = c[l].parts[m].id
      BY <1>3, <2>1, <3>1 DEF EndIs
    <3>3. k # l + 1
      BY <1>6, <3>2
    <3>4. k = l /\ l \in DOMAIN c /\ l < l + 1
      <4>1. l \in Nat
        BY <1>3, <3>1
      <4>2. k \in {Len(sent) - 1, Len(sent)} /\ Len(sent) = l + 1
        <5>1. k \in {Len(sent) - 1, Len(sent)}
          OBVIOUS
        <5>. QED  BY <3>2, <5>1
      <4>3. k = l
        BY ONLY <4>1, <4>2, <3>3
      <4>4. k \in DOMAIN c
        BY <1>6, <3>2, <3>3
      <4>5. l < l + 1
        BY ONLY <4>1
      <4>. QED  BY <4>3, <4>4, <4>5
    <3>5. sent[k] = c[l]
      BY ONLY <3>2, <3>4
    <3>6. n \in DOMAIN c[l].parts /\ c[l].parts[n].p = "call"
      BY <1>6, <3>5
    <3>7. PICK j \in DOMAIN sent[l + 1].parts :
            sent[l + 1].parts[j].p = "response" /\ sent[l + 1].parts[j].id = c[l].parts[n].id
      BY <3>2, <3>6
    <3>8. k < Len(sent)
      BY ONLY <3>2, <3>4
    <3>. QED  BY <3>4, <3>5, <3>7, <3>8
  <2>2. CASE sent = c /\ (c # <<>> => c[Len(c)].role = "user")
    <3>1. k \in DOMAIN c /\ n \in DOMAIN c[k].parts /\ c[k].parts[n].p = "call" /\ c # <<>>
            /\ c[Len(c)].role = "user"
      <4>1. k \in DOMAIN c /\ n \in DOMAIN c[k].parts /\ c[k].parts[n].p = "call"
        BY <1>6, <2>2
      <4>2. c # <<>>
        BY <4>1
      <4>. QED  BY <2>2, <4>1, <4>2
    <3>2. c[k].role = "model"
      BY <1>5, <3>1, NotOk
    <3>3. k # Len(c)
      BY <3>1, <3>2
    <3>4. k = Len(c) - 1 /\ k + 1 = Len(c) /\ k \in Nat
      <4>1. PICK l : l = Len(c)
        OBVIOUS
      <4>2. l \in Nat /\ k \in 1..l /\ k # l
        BY <1>3, <3>1, <3>3, <4>1
      <4>3. k \in {l - 1, l}
        BY <1>6, <2>2, <4>1
      <4>4. k = l - 1 /\ k + 1 = l /\ k \in Nat
        BY ONLY <4>2, <4>3
      <4>. QED  BY <4>1, <4>4
    <3>5. PICK i \in DOMAIN parts : to[i] = k /\ c[k].parts[n] = parts[i].part
      BY <1>5, <3>1, WovenFrom
    <3>6. PieceOf(items, parts, at, i)
      BY <1>5, PieceOfIs
    <3>7. PICK x : x = parts[i].part.id
      OBVIOUS
    <3>8. at[i] \in DOMAIN items /\ items[at[i]].t = "call" /\ items[at[i]].id = x
      BY <3>1, <3>5, <3>6, <3>7 DEF PieceOf
    <3>9. Linked(items)
      BY <1>4, <1>6, ItemsLinked
    <3>10. x \in History!CallsMade /\ x \in History!CallNames(items)
      BY <3>8, <3>9, NamesAre DEF Linked
    <3>11. History!Outstanding = {}
      <4>1. SUFFICES ASSUME History!Outstanding # {} PROVE FALSE
        OBVIOUS
      <4>2. History!Outstanding = History!ToSet(History!Last(turns).calls)
        BY <1>6, <4>1
      <4>3. turns \in Seq(TurnSet)
        BY DEF HInv, Counted
      <4>4. turns # <<>>
        <5>1. PICK m \in DOMAIN turns : x \in Elements(turns[m].calls)
          BY <3>10, MadeIs
        <5>. QED  BY <5>1
      <4>5. History!Last(turns) = turns[Len(turns)] /\ Len(turns) \in DOMAIN turns
        BY <4>3, <4>4, LastIs
      <4>6. turns[Len(turns)].calls # <<>>
        <5>1. History!ToSet(turns[Len(turns)].calls) # {}
          BY <4>1, <4>2, <4>5
        <5>2. Elements(turns[Len(turns)].calls) # {}
          BY <5>1, SetIs
        <5>. QED  BY <5>2, EmptyIs
      <4>7. items # <<>> /\ items[Len(items)].t = "call"
        BY <3>9, <4>5, <4>6 DEF Linked
      <4>8. c[Len(c)].role = "model"
        BY <1>5, <4>7, EndsCalling
      <4>. QED  BY <3>1, <4>8
    <3>12. PICK y \in DOMAIN items : items[y].t = "output" /\ items[y].id = x
      BY <1>4, <1>6, <3>10, <3>11, AllAnswered
    <3>13. at[i] < y
      BY <3>8, <3>9, <3>12 DEF Linked
    <3>14. PICK h \in DOMAIN parts : at[h] = y /\ parts[h].part.p = "response" /\ parts[h].part.id = x
      BY <1>5, <3>10, <3>12, PieceFound
    <3>15. i < h
      BY <1>5, <3>13, <3>14 DEF Parts
    <3>16. PieceOf(items, parts, at, h)
      BY <1>5, PieceOfIs
    <3>17. parts[h].role = "user"
      BY <3>14, <3>16 DEF PieceOf
    <3>18. /\ to[h] \in DOMAIN c /\ in[h] \in DOMAIN c[to[h]].parts
           /\ c[to[h]].role = parts[h].role /\ c[to[h]].parts[in[h]] = parts[h].part
           /\ to[i] <= to[h]
      BY <1>5, <3>15, WovenTo
    <3>19. to[h] # k
      BY <3>2, <3>17, <3>18
    <3>20. to[h] = k + 1
      <4>1. k <= to[h]
        BY <3>5, <3>18
      <4>2. to[h] \in 1..(k + 1)
        BY <1>3, <3>4, <3>18
      <4>3. k \in Nat /\ to[h] # k
        BY <3>4, <3>19
      <4>. QED  BY ONLY <4>1, <4>2, <4>3
    <3>21. k < Len(sent)
      <4>1. Len(sent) = k + 1 /\ k \in Nat
        BY <2>2, <3>4
      <4>. QED  BY ONLY <4>1
    <3>22. c[k + 1].parts[in[h]].p = "response" /\ c[k + 1].parts[in[h]].id = c[k].parts[n].id
             /\ in[h] \in DOMAIN c[k + 1].parts
      BY <3>5, <3>7, <3>14, <3>18, <3>20
    <3>. QED  BY <2>2, <3>21, <3>22
  <2>. QED  BY <2>1, <2>2
<1>7. SUFFICES ASSUME client # "gemini", \A n \in DOMAIN turns : turns[n].who # "inline",
                      History!Outstanding = {} \/ (History!Last(turns).who = "model"
                        /\ History!Outstanding = History!ToSet(History!Last(turns).calls)),
                      NEW k \in {Len(History!ToCloud) - 1, Len(History!ToCloud)} \cap DOMAIN History!ToCloud,
                      NEW n \in DOMAIN History!ToCloud[k].parts, History!ToCloud[k].parts[n].p = "call"
               PROVE  /\ k < Len(History!ToCloud)
                      /\ \E m \in DOMAIN History!ToCloud[k + 1].parts :
                           /\ History!ToCloud[k + 1].parts[m].p = "response"
                           /\ History!ToCloud[k + 1].parts[m].id = History!ToCloud[k].parts[n].id
  BY Zenon DEF History!CloudAnswers
<1>8. k \in {Len(sent) - 1,
        Len(sent)} \cap DOMAIN sent /\ n \in DOMAIN sent[k].parts /\ sent[k].parts[n].p = "call"
  BY <1>2, <1>7
<1>9. /\ k < Len(sent)
      /\ \E m \in DOMAIN sent[k + 1].parts :
           sent[k + 1].parts[m].p = "response" /\ sent[k + 1].parts[m].id = sent[k].parts[n].id
  BY <1>6, <1>7, <1>8, Zenon
<1>. QED  BY <1>2, <1>9

THEOREM HistoriesPairAlways ==
  History!BoundsAssumption =>
    (History!Spec => [](/\ History!TypeOK /\ History!CodexPairs /\ History!GrokPairs
      /\ History!CloudAlternates /\ History!CloudAnswers /\ History!WorkbuddyKeeps))
<1>. SUFFICES ASSUME History!BoundsAssumption
              PROVE  History!Spec => [](/\ History!TypeOK /\ History!CodexPairs /\ History!GrokPairs
                       /\ History!CloudAlternates /\ History!CloudAnswers /\ History!WorkbuddyKeeps)
  OBVIOUS
<1>1. History!Init => HInv
  BY HInit
<1>2. HInv /\ [History!Next]_(History!vars) => HInv'
  <2>1. ASSUME HInv, UNCHANGED History!vars PROVE HInv'
    BY <2>1 DEF History!vars, HInv, Counted, Turned, Increasing, OutputsOnce, CallsOnce, Follows
  <2>. QED  BY <2>1, HStep
<1>3. HInv => /\ History!TypeOK /\ History!CodexPairs /\ History!GrokPairs /\ History!CloudAlternates
                   /\ History!CloudAnswers /\ History!WorkbuddyKeeps
  BY HTypes, Codex, GrokSent, Alternates, CloudAnswered, Workbuddy
<1>. QED  BY <1>1, <1>2, <1>3, PTL DEF History!Spec
=============================================================================
