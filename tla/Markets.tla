------------------------------ MODULE Markets -------------------------------
(***************************************************************************)
(* The prediction-market page (site/assets/markets.js). There is no market *)
(* on the chain: a market is what the page reconstructs, on every poll,    *)
(* from memos of recent blocks and of the pending pool, which it asks for  *)
(* in separate requests.                                                   *)
(***************************************************************************)
EXTENDS Pages, FiniteSetsExt

CONSTANTS
  Bet,       \* Bet[t]: the ire-bet memo of a transaction, or op "none"
  MkWindow,  \* BLOCK_WINDOW
  MetaCap    \* how many block metas /rpc/blockchain returns at most

ASSUME MarketsAssumption ==
  /\ MkWindow \in Nat /\ MetaCap \in Nat \ {0}
  /\ \A t \in Txs : Bet[t].op = "buy" => Bet[t].a \in Nat

mkBlank == [online |-> FALSE, h |-> 0, windowMin |-> 0, evs |-> <<>>]

Event(t, h) == [tx |-> t, height |-> h, pending |-> h = 0]
NoEvent == [tx |-> "none", height |-> 0, pending |-> FALSE]
\* The events of a list of transactions: those with a well-formed memo.
Bets == {t \in Txs : Bet[t].op # "none"}
DecodeBets(txs, h) ==
  LET bets == Kept(txs, Bets) IN [i \in DOMAIN bets |-> Event(bets[i], h)]
LoadBlock(h) == DecodeBets(chain[h], h)

\* The blocks in the order of /rpc/blockchain: newest first, the newest ones.
MkSpan == IF MkWindow < MetaCap THEN MkWindow ELSE MetaCap
Heights(h) == [i \in 1..Cardinality(Window(h, MkSpan)) |-> h + 1 - i]

Events(h, P) == FlattenSeq([i \in DOMAIN Heights(h) |-> LoadBlock(Heights(h)[i])])
                \o DecodeBets(SetToSeq(P), 0)
-----------------------------------------------------------------------------
(* reconstruct: all markets first, then everything about them in the order *)
(* of the events.                                                          *)
About(evs, op, m) ==
  Kept(evs, {e \in ToSet(evs) : Bet[e.tx].op = op /\ Bet[e.tx].m = m})
Amount(evs) == MapThenSumSet(LAMBDA i : Bet[evs[i].tx].a, DOMAIN evs)
LastOf(evs) == IF evs = <<>> THEN NoEvent ELSE Last(evs)

Market(evs, m) ==
  LET buys       == About(evs, "buy", m)
      side(s)    == Kept(buys, {e \in ToSet(buys) : Bet[e.tx].s = s})
      waiting(s) == Kept(side(s), {e \in ToSet(evs) : e.pending})
      notes      == About(evs, "analyze", m)
  IN  [yes |-> Amount(side("y")), no |-> Amount(side("n")),
       pendingVol  |-> Amount(waiting("y")) + Amount(waiting("n")),
       pendingBuys |-> Len(waiting("y")) + Len(waiting("n")),
       pending     |-> LastOf(Kept(evs, {e \in ToSet(evs) : e.tx = m})).pending,
       resolve     |-> LastOf(About(evs, "resolve", m)),
       \* pending ones first, then the newest
       latest      |-> IF notes = <<>> THEN NoEvent
                       ELSE CHOOSE e \in ToSet(notes) : \A d \in ToSet(notes) :
                              e.pending \/ (~d.pending /\ e.height >= d.height)]

\* A defect: one pass, which meets a bet in a newer block before its market.
FaultyReconstruct(evs) ==
  [m \in {e.tx : e \in {e \in ToSet(evs) : Bet[e.tx].op = "open"}} |->
     Market(SubSeq(evs, CHOOSE i \in DOMAIN evs : evs[i].tx = m, Len(evs)), m)]

Reconstruct(evs) ==
  [m \in {e.tx : e \in {e \in ToSet(evs) : Bet[e.tx].op = "open"}} |->
     Market(evs, m)]

\* odds: whole percents, and 50/50 that says it is a placeholder.
Odds(mk) ==
  LET total == mk.yes + mk.no
      pct   == IF total = 0 THEN 50 ELSE (mk.yes * 100) \div total
  IN  [yes |-> pct, no |-> 100 - pct, known |-> total # 0, vol |-> total]

Card(mk) == [odds |-> Odds(mk), inPool |-> mk.pending,
             poolVol |-> mk.pendingVol, poolBuys |-> mk.pendingBuys,
             resolve |-> mk.resolve, latest |-> mk.latest]

\* renderBoard: the cards by market id, none while offline.
Board ==
  LET markets == Reconstruct(shown.evs)
  IN  IF shown.online THEN [m \in DOMAIN markets |-> Card(markets[m])] ELSE <<>>
-----------------------------------------------------------------------------
\* A defect: only the first poll is ever begun.
FaultyMkTick(s) ==
  shown = mkBlank /\ Free(s) /\ Goto(s, Waiting) /\ UNCHANGED <<shown, page>>

MkTick(s) == Free(s) /\ Goto(s, Waiting) /\ UNCHANGED <<shown, page>>

MkStatus(s) ==
  /\ At(s, "status") /\ up /\ tip > 0
  /\ Goto(s, [pc |-> "lists", h |-> tip])
  /\ UNCHANGED <<shown, page>>

\* Promise.all of /rpc/blockchain, whose blocks no longer change, and
\* /rpc/unconfirmed_txs, the pool at the moment of the answer.
MkLists(s) ==
  /\ At(s, "lists") /\ up
  /\ Goto(s, [pc |-> "blocks", h |-> polls[s].h, P |-> pool])
  /\ UNCHANGED <<shown, page>>

\* minH: where the window of the page starts, for the request and for the
\* reader ("Scan window #minH-#height"), whatever the node returned of it.
MinH(h) == IF h > MkWindow THEN h - MkWindow + 1 ELSE 1

\* A defect: the height of now, not the one the lists were asked for.
FaultyMkWrite(s) ==
  shown' = [online |-> TRUE, h |-> tip, windowMin |-> MinH(polls[s].h),
            evs |-> Events(polls[s].h, polls[s].P)]

\* The page is written in one go, after the last await.
MkWrite(s) ==
  shown' = [online |-> TRUE, h |-> polls[s].h, windowMin |-> MinH(polls[s].h),
            evs |-> Events(polls[s].h, polls[s].P)]

\* The blocks may all be in blockCache: no answer is needed then.
MkBlocks(s) ==
  /\ At(s, "blocks")
  /\ MkWrite(s) /\ Goto(s, Idle)
  /\ UNCHANGED page

\* catch: the markets go, height and window of the last good poll stay.
MkFails(s) ==
  /\ StatusFails(s) \/ RequestFails(s)
  /\ shown' = [shown EXCEPT !.online = FALSE, !.evs = <<>>]
  /\ Goto(s, Idle)
  /\ UNCHANGED page

MkStep(s) == MkStatus(s) \/ MkLists(s) \/ MkBlocks(s) \/ MkFails(s)
-----------------------------------------------------------------------------
\* The transactions of a list, those it has from a block, those it has from
\* the pool, and those it has twice: as events, with nothing to tell that they
\* are one transaction.
TxsOf(evs) == {e.tx : e \in ToSet(evs)}
Settled(evs) == {e.tx : e \in {e \in ToSet(evs) : ~e.pending}}
Pooled(evs) == {e.tx : e \in {e \in ToSet(evs) : e.pending}}
Twice(evs) == Settled(evs) \cap Pooled(evs)
Of(evs, op, m) == {t \in TxsOf(evs) : Bet[t].op = op /\ Bet[t].m = m}
Backing(evs, m, s) == {t \in Of(evs, "buy", m) : Bet[t].s = s}
Backers(evs, m) == Backing(evs, m, "y") \cup Backing(evs, m, "n")
Staked(S) == MapThenSumSet(LAMBDA t : Bet[t].a, S)
\* What the page adds up for a set of bets.
Tallied(evs, S) == Staked(S) + Staked(S \cap Twice(evs))
BlockOf(t) == CHOOSE h \in 1..tip : t \in ToSet(chain[h])

\* What is tallied for both sides and the share of "yes" in percent, rounded
\* down.
VolumeExact(evs, m, odds) ==
  LET yes == Tallied(evs, Backing(evs, m, "y"))
  IN  /\ odds.vol = Tallied(evs, Backers(evs, m))
      /\ odds.known => /\ odds.yes * odds.vol <= 100 * yes
                       /\ (odds.yes + 1) * odds.vol > 100 * yes

\* What of the stakes is pending.
PoolExact(evs, m, vol) == vol = Staked(Backers(evs, m) \cap Pooled(evs))

\* No confirmed resolve of an older block loses to a newer one.
OldestResolve(evs, m, resolve) ==
  /\ resolve = NoEvent <=> Of(evs, "resolve", m) = {}
  /\ resolve # NoEvent /\ ~resolve.pending =>
       \A t \in Of(evs, "resolve", m) :
         t \in Settled(evs) /\ BlockOf(resolve.tx) <= BlockOf(t)

\* Every card agrees with the memos it was made from: each bet counts once,
\* one that the index and the pool both reported counts twice, and only one of
\* the newest block read can be such. About reconstruct, which has to find the
\* market of a bet in an older block that it reads later.
MkTallyExact ==
  LET evs == shown.evs
  IN  page = "markets" /\ shown.online =>
        /\ Twice(evs) \subseteq ToSet(chain[shown.h])
        /\ DOMAIN Board = {t \in TxsOf(evs) : Bet[t].op = "open"}
        /\ \A m \in DOMAIN Board : /\ VolumeExact(evs, m, Board[m].odds)
                                   /\ PoolExact(evs, m, Board[m].poolVol)
                                   /\ OldestResolve(evs, m, Board[m].resolve)
=============================================================================
