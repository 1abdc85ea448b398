------------------------------- MODULE Boards -------------------------------
(***************************************************************************)
(* Three pages that write what they know as it arrives, so that two polls  *)
(* may leave the head of one and the body of the other: points             *)
(* (site/assets/points.js), vault (site/assets/vault.js) and the explorer  *)
(* (explorer/app.js).                                                      *)
(***************************************************************************)
EXTENDS Pages, FiniteSetsExt

CONSTANTS
  Marks,     \* Marks[t]: the words scoreTx looks for that t contains
  Mentions,  \* Mentions[t]: the addresses in the bytes of t
  Scored,    \* the addresses
  PtWindow   \* WINDOW

ASSUME BoardsAssumption == PtWindow \in Nat

NoScores == [a \in Scored |-> 0]

ScoreTx(t) == 1 + (IF "IREINSCRIBE1" \in Marks[t] THEN 5 ELSE 0)
                + (IF "ire-bet" \in Marks[t] THEN 10 ELSE 0)
                + (IF "CommunityPool" \in Marks[t] THEN 20 ELSE 0)
                + (IF "IREVAL1" \in Marks[t] THEN 25 ELSE 0)
ScoreIn(a, heights) ==
  MapThenSumSet(ScoreTx, {t \in TxsIn(heights) : a \in ToSet(Mentions[t])})

BdTick(s) == Free(s) /\ Goto(s, Waiting) /\ UNCHANGED <<shown, page>>
-----------------------------------------------------------------------------
(* Points. shown.scan is the height the board is about; the page has no    *)
(* such text.                                                              *)
ptBlank == [live |-> FALSE, h |-> 0, rows |-> NoScores, scan |-> 0]

\* A defect: the sums of the board are carried on instead of begun anew.
FaultyPtStatus(s) ==
  /\ At(s, "status") /\ up
  /\ shown' = [shown EXCEPT !.live = TRUE, !.h = tip]
  /\ Goto(s, [pc |-> "scan", h |-> tip, left |-> Window(tip, PtWindow),
              scores |-> shown.rows])
  /\ UNCHANGED page

\* The head of the page is written before the blocks are asked for.
PtStatus(s) ==
  /\ At(s, "status") /\ up
  /\ shown' = [shown EXCEPT !.live = TRUE, !.h = tip]
  /\ Goto(s, [pc |-> "scan", h |-> tip, left |-> Window(tip, PtWindow),
              scores |-> NoScores])
  /\ UNCHANGED page

\* A block, or an error document, which counts as a block without
\* transactions: the answer's status is not looked at.
PtBlock(s) ==
  /\ At(s, "scan") /\ polls[s].left # {}
  /\ LET k == Min(polls[s].left)
         add == [a \in Scored |-> polls[s].scores[a] + ScoreIn(a, {k})]
     IN  Goto(s, [polls[s] EXCEPT !.left = @ \ {k},
                                  !.scores = IF up THEN add ELSE @])
  /\ UNCHANGED <<shown, page>>

PtWrite(s) ==
  /\ At(s, "scan") /\ polls[s].left = {}
  /\ shown' = [shown EXCEPT !.rows = polls[s].scores, !.scan = polls[s].h]
  /\ Goto(s, Idle)
  /\ UNCHANGED page

PtFails(s) ==
  /\ ~up /\ (At(s, "status") \/ (At(s, "scan") /\ polls[s].left # {}))
  /\ shown' = [shown EXCEPT !.live = FALSE, !.rows = NoScores]
  /\ Goto(s, Idle)
  /\ UNCHANGED page

PtStep(s) == PtStatus(s) \/ PtBlock(s) \/ PtWrite(s) \/ PtFails(s)
-----------------------------------------------------------------------------
(* Vault. A balance is known by the height it was read at.                 *)
vtBlank == [live |-> FALSE, h |-> 0, balance |-> 0, tax |-> "none"]

VtStatus(s) ==
  /\ At(s, "status") /\ up
  /\ shown' = [shown EXCEPT !.live = TRUE, !.h = tip]
  /\ Goto(s, [pc |-> "balance"])
  /\ UNCHANGED page

VtBalance(s) ==
  /\ At(s, "balance") /\ up
  /\ shown' = [shown EXCEPT !.balance = tip]
  /\ Goto(s, [pc |-> "tax"])
  /\ UNCHANGED page

\* Without an answer the genesis value is shown, and said to be that.
VtTax(s) ==
  /\ At(s, "tax")
  /\ shown' = [shown EXCEPT !.tax = IF up THEN "on-chain" ELSE "genesis"]
  /\ Goto(s, Idle)
  /\ UNCHANGED page

VtFails(s) ==
  /\ ~up /\ polls[s].pc \in {"status", "balance"}
  /\ shown' = [shown EXCEPT !.live = FALSE]
  /\ Goto(s, Idle)
  /\ UNCHANGED page

VtStep(s) == VtStatus(s) \/ VtBalance(s) \/ VtTax(s) \/ VtFails(s)
-----------------------------------------------------------------------------
(* Explorer. The refresh button starts a poll as the timer does.           *)
exBlank == [live |-> FALSE, h |-> 0, pending |-> 0, blocks |-> {}]

ExStatus(s) ==
  /\ At(s, "status") /\ up
  /\ shown' = [shown EXCEPT !.live = TRUE, !.h = tip,
                            !.pending = Cardinality(pool)]
  /\ Goto(s, [pc |-> "blocks", h |-> tip])
  /\ UNCHANGED page

ExBlocks(s) ==
  /\ At(s, "blocks") /\ up /\ polls[s].h > 0
  /\ shown' = [shown EXCEPT !.blocks = Window(polls[s].h, 6)]
  /\ Goto(s, Idle)
  /\ UNCHANGED page

ExFails(s) ==
  /\ polls[s] # Idle
  /\ ~up \/ (At(s, "blocks") /\ polls[s].h = 0)
  /\ shown' = [shown EXCEPT !.live = FALSE]
  /\ Goto(s, Idle)
  /\ UNCHANGED page

ExStep(s) == ExStatus(s) \/ ExBlocks(s) \/ ExFails(s)
-----------------------------------------------------------------------------
\* "Will not invent points": nobody is credited with more than the window of
\* one height holds, whatever polls overlap and whatever blocks are missing.
PtNoInvention ==
  page = "points" =>
    \A a \in Scored : shown.rows[a] <= ScoreIn(a, Window(shown.scan, PtWindow))
=============================================================================
