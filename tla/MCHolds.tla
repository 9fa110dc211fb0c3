-------------------------------- MODULE MCHolds --------------------------------
(* What comes in once and what goes out only for a while: cards and the        *)
(* partner's credits (Cards), the hold of a request on its wallet, and its     *)
(* seat on an account.  As in MCMoney they share no variable, and "part" is    *)
(* the one that moves.  Requests that differ in nothing stand for each other:  *)
(* the first of them is watched.                                               *)
EXTENDS Cards

VARIABLES part,
  keyStatus, credit, bill, record, ledger, reserving, boot,        \* Purse
  pc, context, ask, lease, binding, producer, tracked, round       \* Lease

\* The partner sends a message, its retry under a new nonce, and another.
Message(stamp, nonce, idem) == [stamp |-> stamp, nonce |-> nonce, idem |-> idem, user |-> "u1"]
ThreeMessages == {Message(1, "n1", "i1"), Message(2, "n2", "i1"), Message(2, "n3", "i2")}

Purse == INSTANCE Wallet WITH
  Keys <- {"k1"}, Requests <- {"r1", "r2"}, GrantIds <- {}, Amounts <- {2}, Budgets <- {1}, Quotes <- {1},
  Minimum <- 1, MaxCredit <- 2, SkipRecovery <- FALSE, NoKey <- "nobody", NoRef <- "none", call <- record

Lease == INSTANCE RoutingLeases WITH
  Accounts <- {"a1", "a2"}, Requests <- {"r1", "r2"}, Conversations <- {}, Limit <- 1,
  LeaseLife <- 2, MaxSilence <- 1, MaxFailures <- 1, Continued <- {}, LegacyAccounts <- {"nobody"},
  NoAccount <- "nobody", NoToken <- "none", account <- context

purse == <<keyStatus, credit, bill, record, ledger, reserving, boot>>
leases == <<pc, context, ask, lease, binding, producer, tracked, round>>
allVars == <<part, vars, purse, leases>>

AllInit == part \in {"cards", "guesses", "mail", "purse", "leases"} /\ Init /\ Purse!Init /\ Lease!Init

Moves(p) ==
  /\ part = p /\ part' = part
  /\ IF p \in {"cards", "guesses", "mail"} THEN TRUE ELSE UNCHANGED vars
  /\ IF p = "purse" THEN TRUE ELSE UNCHANGED purse
  /\ IF p = "leases" THEN TRUE ELSE UNCHANGED leases

\* Two users redeem a card, over one midnight; three users of one network, whose
\* limit is two, look for codes; and the partner sends its messages.
AllNext ==
  \/ Moves("cards") /\ Next /\ UNCHANGED mail /\ clock' <= 2
                    /\ owned \ owned' \subseteq {"u1"} /\ \A call \in calls' : call.user # "u3"
  \/ Moves("guesses") /\ Next /\ UNCHANGED <<card, mail, owned>> /\ clock' <= 2
                      /\ \A call \in calls' : call.code = Wrong
  \/ Moves("mail") /\ Next /\ UNCHANGED <<card, calls>> /\ owned \ owned' \subseteq {"u1"}
  \/ Moves("purse") /\ Purse!Next
  \/ Moves("leases") /\ Lease!Next

\* The fairness of each component (its own FairSpec).
AllFairSpec ==
  /\ AllInit /\ [][AllNext]_allVars
  /\ WF_purse(part = "purse" /\ Purse!ExpireReservations)
  /\ WF_leases(part = "leases" /\ Lease!BeatStart)
  /\ WF_leases(part = "leases" /\ Lease!BeatSweep)
  /\ WF_leases(part = "leases" /\ Lease!Tick)
  /\ \A r \in {"r1", "r2"} :
       /\ WF_purse(part = "purse" /\ Purse!TimePasses(r))
       /\ WF_leases(part = "leases" /\ Lease!BeatOne(r))
       /\ WF_leases(part = "leases" /\ Lease!Track(r))

-----------------------------------------------------------------------------
(* What is taken is given back; and what comes in, comes in once: the          *)
(* properties of Cards.                                                        *)

\* No hold freezes a wallet for ever, though the process that took it is gone
\* (expire_reservations).
EveryHoldEnds == Purse!IsHeld(bill["r1"]) ~> ~Purse!IsHeld(bill["r1"])

\* Whatever way a request ended, its seat and its entry in _active_routing are
\* given back (_routing_heartbeat).
SeatGivenBack == Lease!Ended("r1") ~> lease["r1"] = Lease!NoLease /\ "r1" \notin tracked
=============================================================================
