--------------------------------- MODULE Cards ---------------------------------
(***************************************************************************)
(* Two ways to be credited: a card that a user redeems, and a signed       *)
(* message of the partner (src/app/billing.py).                            *)
(*                                                                         *)
(* redeem_card() takes its clock when it is called, counts the attempt in  *)
(* one transaction and redeems in a second one; credit_from_hmac() looks   *)
(* at the time stamp when it is called and at the nonce in a transaction.  *)
(* Between the call and its transaction anything may happen, and the clock *)
(* goes on: it counts half seconds, since a time stamp has whole ones and  *)
(* a nonce does not.                                                       *)
(***************************************************************************)
EXTENDS Integers, Sequences, FiniteSets, Collections

CONSTANTS Cards, Expiries, Never,  \* the cards, when they may expire, or not
          Users, Nets,             \* who redeems, and from which network
          Limit, NetLimit,         \* REDEEM_DAILY_LIMIT, REDEEM_IP_DAILY_LIMIT
          DayLength,
          Messages,                \* [stamp, nonce, idem, user], each well signed
          Skew,                    \* HMAC_MAX_SKEW_SECONDS
          MaxTime, MaxCalls, MaxTries   \* bounds: the clock, the calls at work, the attempts

Idems == {m.idem : m \in Messages}

ASSUME BoundsAssumption ==
  /\ {Limit, NetLimit, Skew, MaxTime, MaxCalls, MaxTries} \subseteq Nat /\ DayLength \in Nat \ {0}
  /\ Never \in Nat /\ Never > MaxTime /\ Expiries \subseteq Nat

\* The ledger keeps the credits of cards and of idempotency keys apart.
ASSUME NamesAssumption ==
  /\ IsFiniteSet(Users) /\ IsFiniteSet(Nets) /\ Cards \cap Idems = {}
  /\ \A m \in Messages : m.stamp \in Nat /\ m.user \in Users

VARIABLES
  clock,
  card,      \* card_keys: status, expires_at
  tried,     \* card_redeem_attempts: the rows of each user, network and day
  looked,    \* how many codes each user had looked up, by day of the call
  calls,     \* redeem_card() at work: its clock, and whether it is counted
  mail,      \* credit_from_hmac() between its checks and its transaction
  nonces,    \* billing_nonces: nonce and created_at
  taken,     \* the times at which a message was taken, by message
  owned,     \* users who have a wallet
  paid       \* wallet_ledger: the credits of each card and idempotency key

vars == <<clock, card, tried, looked, calls, mail, nonces, taken, owned, paid>>

Wrong == "wrong"                       \* a code that is no card's
Day(t) == t \div DayLength
Days == 0..Day(MaxTime)
Second(t) == t \div 2
Credit(user, at) == [user |-> user, at |-> at]
Calls == [user : Users, net : Nets, code : Cards \cup {Wrong}, at : 0..MaxTime, counted : BOOLEAN]

TypeOK ==
  /\ clock \in 0..MaxTime
  /\ card \in [Cards -> [st : {"none", "unused", "redeemed", "disabled", "expired"}, expiry : Expiries \cup {Never}]]
  /\ tried \in [Users \X Nets \X Days -> 0..MaxTries] /\ looked \in [Users \X Days -> 0..MaxTries]
  /\ calls \subseteq Calls /\ Cardinality(calls) <= MaxCalls
  /\ mail \subseteq Messages /\ nonces \subseteq [nonce : {m.nonce : m \in Messages}, at : 0..MaxTime]
  /\ taken \in [Messages -> Seq(0..MaxTime)] /\ owned \subseteq Users
  /\ paid \in [Cards \cup Idems -> Seq([user : Users, at : 0..MaxTime])]

Init ==
  /\ clock = 0 /\ card = [c \in Cards |-> [st |-> "none", expiry |-> Never]]
  /\ tried = [x \in Users \X Nets \X Days |-> 0] /\ looked = [x \in Users \X Days |-> 0]
  /\ calls = {} /\ mail = {} /\ nonces = {} /\ taken = [m \in Messages |-> <<>>]
  /\ owned = Users /\ paid = [x \in Cards \cup Idems |-> <<>>]

Tick == clock < MaxTime /\ clock' = clock + 1
        /\ UNCHANGED <<card, tried, looked, calls, mail, nonces, taken, owned, paid>>

\* The console: a batch of unused cards, and the switch that turns one off.
CreateBatch(batch, expiry) ==
  /\ batch # {} /\ \A c \in batch : card[c].st = "none"
  /\ card' = [c \in Cards |-> IF c \in batch THEN [st |-> "unused", expiry |-> expiry] ELSE card[c]]
  /\ UNCHANGED <<clock, tried, looked, calls, mail, nonces, taken, owned, paid>>
MayDisable(c) == card[c].st \notin {"none", "redeemed", "disabled"}
Disable(c) ==
  /\ MayDisable(c) /\ card' = [card EXCEPT ![c].st = "disabled"]
  /\ UNCHANGED <<clock, tried, looked, calls, mail, nonces, taken, owned, paid>>

\* The key that holds the user's wallet is deleted (ApiKeys).
LoseWallet(user) ==
  /\ user \in owned /\ owned' = owned \ {user}
  /\ UNCHANGED <<clock, card, tried, looked, calls, mail, nonces, taken, paid>>

-----------------------------------------------------------------------------
(* redeem_card().                                                          *)

Redeem(user, net, code) ==
  LET call == [user |-> user, net |-> net, code |-> code, at |-> clock, counted |-> FALSE]
  IN /\ Cardinality(calls) < MaxCalls /\ call \notin calls /\ calls' = calls \cup {call}
     /\ UNCHANGED <<clock, card, tried, looked, mail, nonces, taken, owned, paid>>

\* The attempts since the day of the call began, of the user and of the network.
Since(call) == {d \in Days : d >= Day(call.at)}
UserAttempts(call) == Total(tried, {call.user} \X Nets \X Since(call))
NetAttempts(call) == Total(tried, Users \X {call.net} \X Since(call))
Refuses(call) == UserAttempts(call) >= Limit \/ NetAttempts(call) >= NetLimit
Stays(call) == (calls \ {call}) \cup {[call EXCEPT !.counted = TRUE]}

\* reserve_attempt(): refused, or one more row that the second part keeps
\* whatever becomes of it.
Reserve(call) ==
  /\ call \in calls /\ ~call.counted
  /\ IF Refuses(call) THEN calls' = calls \ {call} /\ UNCHANGED tried
     ELSE /\ tried[<<call.user, call.net, Day(call.at)>>] < MaxTries
          /\ tried' = [tried EXCEPT ![<<call.user, call.net, Day(call.at)>>] = @ + 1]
          /\ calls' = Stays(call)
  /\ UNCHANGED <<clock, card, looked, mail, nonces, taken, owned, paid>>

PayableOff(call) ==
  call.code \in Cards /\ card[call.code].st \in {"unused", "disabled"} /\ card[call.code].expiry > call.at
Payable(call) ==
  /\ call.code \in Cards /\ card[call.code].st = "unused"
  /\ card[call.code].expiry > call.at /\ call.user \in owned
Looks(call) == looked' = [looked EXCEPT ![<<call.user, Day(call.at)>>] = @ + 1]
Ends(call) ==
  call \in calls /\ call.counted /\ calls' = calls \ {call} /\ looked[<<call.user, Day(call.at)>>] < MaxTries

\* operation(): the card and the wallet change in one transaction.  Every
\* refusal, and a write that fails, rolls all of it back: the card that is
\* found expired is not marked either.
Pays(call) ==
  /\ Ends(call) /\ Looks(call) /\ Payable(call)
  /\ card' = [card EXCEPT ![call.code].st = "redeemed"]
  /\ paid' = [paid EXCEPT ![call.code] = Append(@, Credit(call.user, call.at))]
  /\ UNCHANGED <<clock, tried, mail, nonces, taken, owned>>
RolledBack(call) == UNCHANGED <<clock, card, tried, mail, nonces, taken, owned, paid>>
Fails(call) == Ends(call) /\ Looks(call) /\ RolledBack(call)

\* The process stops: a call that was counted stays counted.
Restart ==
  /\ calls \cup mail # {} /\ calls' = {} /\ mail' = {}
  /\ UNCHANGED <<clock, card, tried, looked, nonces, taken, owned, paid>>

-----------------------------------------------------------------------------
(* credit_from_hmac(): the partner may send any of its messages again.     *)

InTime(m) == LET gap == Second(clock) - m.stamp IN gap <= Skew /\ -gap <= Skew
Receive(m) ==
  /\ m \notin mail /\ InTime(m) /\ mail' = mail \cup {m}
  /\ UNCHANGED <<clock, card, tried, looked, calls, nonces, taken, owned, paid>>

Known(m) == \E n \in nonces : n.nonce = m.nonce
ForgetsSoon(n) == n.at < clock - 2 * Skew
Forgets(n) == n.at < clock - 4 * Skew            \* twice the skew, in half seconds
Repeats(m) == paid[m.idem] # <<>>
Refuse(m) ==
  /\ m \in mail /\ mail' = mail \ {m}
  /\ Known(m) \/ (m.user \notin owned /\ ~Repeats(m))
  /\ UNCHANGED <<clock, card, tried, looked, calls, nonces, taken, owned, paid>>
Take(m) ==
  /\ m \in mail /\ mail' = mail \ {m} /\ ~Known(m) /\ (Repeats(m) \/ m.user \in owned)
  /\ nonces' = {n \in nonces : ~Forgets(n)} \cup {[nonce |-> m.nonce, at |-> clock]}
  /\ taken' = [taken EXCEPT ![m] = Append(@, clock)]
  /\ paid' = IF Repeats(m) THEN paid ELSE [paid EXCEPT ![m.idem] = Append(@, Credit(m.user, clock))]
  /\ UNCHANGED <<clock, card, tried, looked, calls, owned>>

Next ==
  \/ Tick \/ Restart
  \/ \E batch \in SUBSET Cards, expiry \in Expiries \cup {Never} : CreateBatch(batch, expiry)
  \/ \E c \in Cards : Disable(c)
  \/ \E user \in Users : LoseWallet(user)
  \/ \E user \in Users, net \in Nets, code \in Cards \cup {Wrong} : Redeem(user, net, code)
  \/ \E call \in calls : Reserve(call) \/ Pays(call) \/ Fails(call)
  \/ \E m \in Messages : Receive(m) \/ Refuse(m) \/ Take(m)

Spec == Init /\ [][Next]_vars

-----------------------------------------------------------------------------
(* What must hold.                                                         *)

\* A card's money and its status go together: the card is redeemed exactly
\* when one wallet was credited for it, whoever raced, failed or switched the
\* card off, and it was not expired when its user asked.
CardPaysOnce ==
  \A c \in Cards :
    /\ Len(paid[c]) = IF card[c].st = "redeemed" THEN 1 ELSE 0
    /\ \A i \in DOMAIN paid[c] : paid[c][i].at < card[c].expiry

\* "Ten a day, good or bad" (l. 1159): no more codes of a user are ever looked
\* up than that, whatever the calls cross, fail or repeat, midnight included.
GuessesBounded == \A user \in Users, d \in Days : looked[<<user, d>>] <= Limit

\* All the users of a network together have their limit as well.
NetworkBounded == \A net \in Nets, d \in Days : Total(tried, Users \X {net} \X {d}) <= NetLimit

\* However often, late or reworded the partner repeats itself, an idempotency
\* key is credited once.
CreditOnce == \A idem \in Idems : Len(paid[idem]) <= 1

\* A message that is taken twice was taken twice a whole window apart: sent
\* again as it was, it is refused for as long as its stamp is any good.
NonceHolds == \A m \in Messages : \A i, j \in DOMAIN taken[m] : i < j => taken[m][j] - taken[m][i] > 4 * Skew

\* Every credit that comes in is due, and comes in once (redeem_card,
\* credit_from_hmac).
CreditsAreTrue == CardPaysOnce /\ GuessesBounded /\ NetworkBounded /\ CreditOnce /\ NonceHolds

\* A switched-off card never pays again, not to a call that was already counted.
OffStaysOff == [][\A c \in Cards : card[c].st = "disabled" => card'[c].st = "disabled" /\ paid'[c] = paid[c]]_vars
=============================================================================
