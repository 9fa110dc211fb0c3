-------------------------------- MODULE MCMoney --------------------------------
(* Everything that spends a wallet's money, side by side: prices (PriceBook),  *)
(* videos, pictures, and a wallet of two keys.                                 *)
(*                                                                             *)
(* The components share no variable, so what one of them keeps it keeps among  *)
(* the others.  "part" is the one that moves in a behaviour: their states add  *)
(* up instead of multiplying.                                                  *)
EXTENDS PriceBook

VARIABLES part,
  keyStatus, credit, purseBill, record, ledger, reserving, boot,             \* Purse
  render, submit, videoBill, jobs, poll, round, account, early,              \* Video
  picturePc, picture, pictureHold, pictureBill, permits, lost                \* Picture

-----------------------------------------------------------------------------
(* The instances.                                                          *)

\* A model that is also asked for under its provider's name, which the shipped
\* file does not price.
TwoNames == [m \in {"m1", "m2"} |-> IF m = "m1" THEN <<"m1", "m2">> ELSE <<"m2">>]
OnePrice == [m \in {"m1", "m2"} |-> IF m = "m1" THEN 1 ELSE 0]

\* Two keys, one of which may be deleted while the other is paid in.
Purse == INSTANCE Wallet WITH
  Keys <- {"k1", "k2"}, Requests <- {"r1"}, GrantIds <- {"g1"}, Amounts <- {2}, Budgets <- {2}, Quotes <- {1, 3},
  Minimum <- 1, MaxCredit <- 2, SkipRecovery <- TRUE, NoKey <- "nobody", NoRef <- "none",
  bill <- purseBill, call <- record

\* Two jobs that the loop polls in turn; one that two users poll as well.
Video == INSTANCE VideoJobs WITH
  Videos <- {"v1", "v2"}, Timed <- {"v1"}, Metered <- {"v2"}, Pollers <- {}, Limit <- 1, call <- submit, bill <- videoBill
Polled == INSTANCE VideoJobs WITH
  Videos <- {"v1"}, Timed <- {"v1"}, Metered <- {}, Pollers <- {"p1", "p2"}, Limit <- 1, call <- submit, bill <- videoBill

Picture == INSTANCE Pictures WITH
  Requests <- {"r1", "r2"}, Accounts <- {"a1"}, NoAccount <- "nobody", Limit <- 2, Afford <- 1, MaxData <- 2,
  Kinds <- {"endpoint", "synthetic", "hosted"}, Turns <- {<<>>, <<"image", "image">>, <<"image", "search">>},
  pc <- picturePc, call <- picture, hold <- pictureHold, bill <- pictureBill, free <- permits

ASSUME Video!LimitAssumption /\ Picture!PictureNames /\ Picture!PictureBounds /\ Picture!PictureTurns

-----------------------------------------------------------------------------
(* One of them moves.                                                      *)

purse == <<keyStatus, credit, purseBill, record, ledger, reserving, boot>>
videos == <<render, submit, videoBill, jobs, poll, round, account, early>>
pictures == <<picturePc, picture, pictureHold, pictureBill, permits, lost>>
allVars == <<part, vars, purse, videos, pictures>>

Prices == {"prices", "flat", "edits"}
AllInit ==
  /\ part \in Prices \cup {"purse", "videos", "polled", "pictures"}
  /\ Init /\ bills["r1"].model = "m1" /\ Purse!Init /\ Picture!Init
  /\ IF part = "polled" THEN Polled!Init ELSE Video!Init

Moves(p) ==
  /\ part = p /\ part' = part
  /\ IF p \in Prices THEN TRUE ELSE UNCHANGED vars
  /\ IF p = "purse" THEN TRUE ELSE UNCHANGED purse
  /\ IF p \in {"videos", "polled"} THEN TRUE ELSE UNCHANGED videos
  /\ IF p = "pictures" THEN TRUE ELSE UNCHANGED pictures

\* One name and one administrator; two names without factors; two
\* administrators at the settings.
AllNext ==
  \/ Moves("prices") /\ Next /\ price'["m2"] = NoRow /\ ~edits'["d2"].on
  \/ Moves("flat") /\ Next /\ UNCHANGED <<conf, edits>> /\ \A m \in Models : price'[m].factor = 0
  \/ Moves("edits") /\ Next /\ UNCHANGED <<price, bills>>
  \/ Moves("purse") /\ Purse!Next
  \/ Moves("videos") /\ Video!Next
  \/ Moves("polled") /\ Polled!Next
  \/ Moves("pictures") /\ Picture!Next

AllSpec == AllInit /\ [][AllNext]_allVars

-----------------------------------------------------------------------------
(* What they keep, besides PricesHold of PriceBook.                        *)

\* Pictures: permits are free, held by a call under way or lost for good, and
\* lost only by a step that passes pictures on ahead of an open follow-up; one is
\* asked for only under a hold that still stands; a call of the endpoints that
\* fails pays nothing, and what a client was shown within a response is on its
\* bill (_post_image, finish_call).  A video is charged for a result whose length
\* is known or for the usage of a failed one, and its row says that it is finished
\* while its bill still waits only if it was written so or polled before it was
\* linked, though the loop and two users poll it (_get_grok_video).  The ledger
\* of two keys tells the truth of both (_credit_key_balance, grant_credit).
PaidAndRecorded ==
  /\ [](part = "videos" => Video!TypeOK /\ Video!VideosCharged)
  /\ [](part = "polled" => Polled!TypeOK /\ Polled!VideosCharged)
  /\ [](part = "pictures" => /\ Picture!TypeOK /\ Picture!PermitsBack
                            /\ Picture!FailedPaysNothing /\ Picture!ShownArePaid)
  /\ [](part = "purse" => Purse!LedgerIsTrue)
  /\ [](part \in Prices => TypeOK)
  /\ Picture!AskedUnderHold /\ Picture!LostOnlyAhead
=============================================================================
