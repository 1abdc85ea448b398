-------------------------------- MODULE Node --------------------------------
(***************************************************************************)
(* The ire-1 node as the pages of site/ and the sentinel see it through    *)
(* GET /rpc and /api: blocks, a pool of pending transactions, answers or   *)
(* none. The node is not code of this repository; what is assumed of it is *)
(* what the pages use. Blocks never change (no reorganisation). A block is *)
(* saved, and reported by /status, before its transactions leave the pool. *)
(***************************************************************************)
EXTENDS Naturals, Sequences, FiniteSets, SequencesExt

CONSTANTS
  Txs,       \* transactions; the hash of one is its identity
  MaxHeight  \* bound: blocks

ASSUME NodeAssumption == MaxHeight \in Nat /\ IsFiniteSet(Txs)

VARIABLES
  chain,  \* blocks in order, each a sequence of transactions
  pool,   \* pending transactions
  sent,   \* history: transactions ever submitted
  up      \* do requests get an answer

nodeVars == <<chain, pool, sent, up>>

tip == Len(chain)
TxsIn(heights) == UNION {ToSet(chain[h]) : h \in heights}
Committed == TxsIn(1..tip)

NodeTypeOK ==
  /\ chain \in Seq(Seq(Txs)) /\ tip <= MaxHeight
  /\ pool \subseteq sent /\ sent \subseteq Txs
  /\ up \in BOOLEAN

NodeInit(blocks) ==
  chain = blocks /\ pool = {} /\ sent = Committed /\ up = TRUE

Submit(t) ==
  /\ t \notin sent
  /\ sent' = sent \cup {t} /\ pool' = pool \cup {t}
  /\ UNCHANGED <<chain, up>>

\* A block of some pending transactions is saved.
SaveBlock ==
  /\ tip < MaxHeight /\ pool \cap Committed = {}
  /\ \E block \in SetToAllKPermutations(pool) : chain' = Append(chain, block)
  /\ UNCHANGED <<pool, sent, up>>

\* The pool is updated after the block: until then it still has its
\* transactions.
UpdatePool ==
  /\ pool \cap Committed # {}
  /\ pool' = pool \ Committed
  /\ UNCHANGED <<chain, sent, up>>

\* A transaction is dropped: the node restarts or rejects it on recheck.
Drop ==
  /\ \E t \in pool \ Committed : pool' = pool \ {t}
  /\ UNCHANGED <<chain, sent, up>>

Outage ==
  /\ up' = ~up
  /\ UNCHANGED <<chain, pool, sent>>

\* The heights of a page's window of n blocks that ends at h.
Window(h, n) == (IF h > n THEN h - n + 1 ELSE 1)..h
=============================================================================
