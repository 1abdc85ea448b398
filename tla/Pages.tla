------------------------------- MODULE Pages --------------------------------
(***************************************************************************)
(* What the pages of site/ have in common: a timer (setInterval) starts a  *)
(* poll whether or not the last one ended, fetch has no deadline, and the  *)
(* answers of the polls in flight write the same page in any order. One    *)
(* page is open; its polls are in slots.                                   *)
(***************************************************************************)
EXTENDS Node

CONSTANTS
  MaxPolls  \* bound: polls in flight

ASSUME PagesAssumption == MaxPolls \in Nat \ {0}

VARIABLES
  page,   \* the open page
  polls,  \* what each poll in flight keeps across its awaits
  shown   \* what the page shows of the chain

pageVars == <<page, polls, shown>>

Slots == 1..MaxPolls
Idle  == [pc |-> "idle"]

\* The first free slot takes the next poll.
Free(s)    == polls[s] = Idle /\ \A r \in 1..(s - 1) : polls[r] # Idle
At(s, pc)  == polls[s].pc = pc
Goto(s, p) == polls' = [polls EXCEPT ![s] = p]

\* filter: the elements of a list that are in S, in their order.
Kept(seq, S) ==
  LET kept[i \in 0..Len(seq)] ==
        IF i = 0 THEN <<>>
        ELSE IF seq[i] \in S THEN Append(kept[i - 1], seq[i]) ELSE kept[i - 1]
  IN  kept[Len(seq)]

Waiting == [pc |-> "status"]

\* await /rpc/status fails: no answer, or no block yet ("bad height").
StatusFails(s) == At(s, "status") /\ (~up \/ tip = 0)
\* A later await fails.
RequestFails(s) == polls[s].pc \notin {"idle", "status"} /\ ~up
=============================================================================
