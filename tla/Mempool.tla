------------------------------ MODULE Mempool -------------------------------
(***************************************************************************)
(* The mempool page (site/assets/mempool.js): pending transactions, the    *)
(* newest blocks, and the detail of the transaction or block last clicked, *)
(* which a second request completes later.                                 *)
(***************************************************************************)
EXTENDS Pages

CONSTANTS
  MpWindow,   \* BLOCK_WINDOW
  Nothing,    \* no detail is open
  MaxEnrich   \* bound: enrichTx requests in flight

\* Transactions, heights, details and no detail are told apart.
ASSUME MempoolAssumption ==
  /\ MpWindow \in Nat /\ MaxEnrich \in Nat
  /\ Txs \cap 0..MaxHeight = {} /\ Nothing \notin Txs \cup 0..MaxHeight
  /\ \A w \in Txs \cup 1..MaxHeight, h \in 0..MaxHeight :
       Nothing # [what |-> w, h |-> h]

VARIABLES
  selected,   \* state.selected and the detail box: what, and its block if any
  clicked,    \* history: what was clicked last
  enriching   \* the enrichTx in flight: a transaction and its block if known

mempoolVars == <<selected, clicked, enriching>>

mpBlank == [online |-> FALSE, h |-> 0, unconfirmed |-> {}, blocks |-> <<>>]
MpInit == selected = Nothing /\ clicked = Nothing /\ enriching = {}

Detail(what, h) == [what |-> what, h |-> h]
MpBlock(h) == [height |-> h, txs |-> chain[h]]
ShownBlock(h) == CHOOSE b \in ToSet(shown.blocks) : b.height = h
-----------------------------------------------------------------------------
MpTick(s) == Free(s) /\ Goto(s, Waiting) /\ UNCHANGED <<shown, page, mempoolVars>>

MpStatus(s) ==
  /\ At(s, "status") /\ up /\ tip > 0
  /\ Goto(s, [pc |-> "lists", h |-> tip])
  /\ UNCHANGED <<shown, page, mempoolVars>>

\* num_unconfirmed_txs, unconfirmed_txs, supply and validators: all or none.
MpLists(s) ==
  /\ At(s, "lists") /\ up
  /\ Goto(s, [pc |-> "blocks", h |-> polls[s].h, P |-> pool])
  /\ UNCHANGED <<shown, page, mempoolVars>>

\* /rpc/blockchain, then each block that state.blocks does not hold already.
MpBlocks(s) ==
  /\ At(s, "blocks") /\ up
  /\ LET h == polls[s].h
         n == Cardinality(Window(h, MpWindow))
         cached == {b.height : b \in ToSet(shown.blocks)}
     IN  shown' = [online |-> TRUE, h |-> h, unconfirmed |-> polls[s].P,
                   blocks |-> [i \in 1..n |-> IF h + 1 - i \in cached
                                              THEN ShownBlock(h + 1 - i)
                                              ELSE MpBlock(h + 1 - i)]]
  /\ Goto(s, Idle)
  /\ UNCHANGED <<page, mempoolVars>>

\* The page says offline and keeps what it shows.
MpFails(s) ==
  /\ StatusFails(s) \/ RequestFails(s)
  /\ shown' = [shown EXCEPT !.online = FALSE]
  /\ Goto(s, Idle)
  /\ UNCHANGED <<page, mempoolVars>>

MpStep(s) == MpStatus(s) \/ MpLists(s) \/ MpBlocks(s) \/ MpFails(s)
-----------------------------------------------------------------------------
\* findTx: a pending cube first, then the first block that holds it. (A cube
\* enriched before may name its block at once; it is enriched again anyway.)
FindTx(t) ==
  IF t \in shown.unconfirmed THEN Detail(t, 0)
  ELSE Detail(t, (CHOOSE b \in ToSet(shown.blocks) : t \in ToSet(b.txs)).height)

MpClickTx ==
  \E t \in shown.unconfirmed \cup UNION {ToSet(b.txs) : b \in ToSet(shown.blocks)} :
    /\ Cardinality(enriching \cup {FindTx(t)}) <= MaxEnrich
    /\ selected' = FindTx(t) /\ clicked' = t
    /\ enriching' = enriching \cup {FindTx(t)}
    /\ UNCHANGED <<polls, shown, page>>

MpClickBlock ==
  /\ \E b \in ToSet(shown.blocks) :
       selected' = Detail(b.height, b.height) /\ clicked' = b.height
  /\ UNCHANGED <<polls, shown, page, enriching>>

\* enrichTx: the node knows the block of a transaction once it has one.
Enriched(d) ==
  IF up /\ d.what \in Committed
  THEN {Detail(d.what, IF d.h # 0 THEN d.h
                       ELSE CHOOSE h \in 1..tip : d.what \in ToSet(chain[h]))}
  ELSE {d}

\* A defect: the answer is shown whatever was clicked meanwhile.
FaultyMpEnrich ==
  \E d \in enriching : \E e \in Enriched(d) :
    /\ selected' = e
    /\ enriching' = enriching \ {d}
    /\ UNCHANGED <<polls, shown, page, clicked>>

\* The answer is shown only if the same transaction is still selected.
MpEnrich ==
  \E d \in enriching : \E e \in Enriched(d) :
    /\ selected' = IF selected # Nothing /\ selected.what = d.what
                   THEN e ELSE selected
    /\ enriching' = enriching \ {d}
    /\ UNCHANGED <<polls, shown, page, clicked>>

MpUser == MpClickTx \/ MpClickBlock \/ MpEnrich
-----------------------------------------------------------------------------
\* The detail box is about what was clicked last, whichever answer came last,
\* and the block it names holds the transaction.
DetailHonest ==
  page = "mempool" =>
    /\ selected = Nothing <=> clicked = Nothing
    /\ selected # Nothing =>
         /\ selected.what = clicked
         /\ selected.h # 0 /\ selected.what \in Txs =>
              selected.what \in ToSet(chain[selected.h])
=============================================================================
