----------------------------- MODULE HonestView -----------------------------
(***************************************************************************)
(* What markets, wallet and mempool promise together: a page that looks at *)
(* the chain once in a while. In one look it sees a prefix of the chain as *)
(* long as it says, everything in the last n blocks of that prefix, and as *)
(* pending only what was submitted and is in no block below that height.   *)
(* It may look at an older prefix than the last time, when answers         *)
(* overtake each other.                                                    *)
(*                                                                         *)
(* Two things it does not promise. The n blocks are those the page reads,  *)
(* which may be fewer than it announces. And a transaction of the block at *)
(* that height may be seen both ways, for the node saves a block before it *)
(* takes its transactions from the pool.                                   *)
(***************************************************************************)
EXTENDS Naturals, Sequences, SequencesExt

VARIABLES
  chain,  \* blocks
  sent,   \* transactions submitted
  view    \* transactions confirmed and pending at height h; fixed for a page:
          \* the number n of blocks and lenses, the sets of transactions to one
          \* of which it restricts itself

vars == <<chain, sent, view>>

In(heights) == UNION {ToSet(chain[k]) : k \in heights}
Recent(h, n) == (IF h > n THEN h - n + 1 ELSE 1)..h

Init ==
  /\ In(1..Len(chain)) \subseteq sent
  /\ view.h = 0 /\ view.confirmed = {} /\ view.pending = {}

Submitted == sent \subseteq sent' /\ UNCHANGED <<chain, view>>

BlockSaved == Len(chain') = Len(chain) + 1 /\ IsPrefix(chain, chain')
              /\ UNCHANGED <<sent, view>>

Look ==
  /\ view'.h \in 1..Len(chain)
  /\ \E L \in view.lenses :
       /\ view'.confirmed = L \cap In(Recent(view'.h, view.n))
       /\ view'.pending \subseteq (L \cap sent) \ In(1..(view'.h - 1))
  /\ view'.n = view.n /\ view'.lenses = view.lenses
  /\ UNCHANGED <<chain, sent>>

\* Offline, or another address: nothing is shown.
Clear ==
  /\ view' = [view EXCEPT !.confirmed = {}, !.pending = {}]
  /\ UNCHANGED <<chain, sent>>

Next == Submitted \/ BlockSaved \/ Look \/ Clear

Spec == Init /\ [][Next]_vars
=============================================================================
