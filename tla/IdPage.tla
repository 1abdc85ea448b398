------------------------------- MODULE IdPage -------------------------------
(***************************************************************************)
(* The profile page (site/assets/id.js): for the address entered it scans  *)
(* the blocks, newest first, for an ire-id memo and copies its fields into *)
(* the form, from which the user copies a command. A scan is a request per *)
(* block; entering another address does not stop it.                       *)
(***************************************************************************)
EXTENDS Pages

CONSTANTS
  Profile,     \* Profile[t]: the fields of the ire-id memo of t, {} if none
  Named,       \* Named[t]: the addresses in the bytes of t
  Sender,      \* Sender[t]: who signed t, of which the page reads nothing
  IdAddrs,     \* what ireOk accepts
  IdEntered,   \* what the user enters, or ?a= holds
  Fields,      \* the fields of the form
  IdWindow     \* WINDOW

\* No transaction is one of the texts that stand for none.
ASSUME IdAssumption == IdWindow \in Nat /\ {"", "typed", "none"} \cap Txs = {}

VARIABLES
  form,     \* where each field's text comes from: "", "typed" or transactions
  idAddr,   \* the text of the address field
  entered   \* history: the addresses entered

idVars == <<form, idAddr, entered>>

NoProfile == "none"
IdInit == form = [f \in Fields |-> ""] /\ idAddr = "" /\ entered = {}

\* A defect: any profile memo is taken for the address's.
FaultyMatches(t, a) == Profile[t] # {}

Matches(t, a) == a \in ToSet(Named[t]) /\ Profile[t] # {}

\* The profile a block has for an address: its first one that names it.
FirstIn(h, a) ==
  LET i == SelectInSeq(chain[h], LAMBDA t : Matches(t, a))
  IN  IF i = 0 THEN NoProfile ELSE chain[h][i]
-----------------------------------------------------------------------------
IdType ==
  /\ \E f \in Fields : form' = [form EXCEPT ![f] = "typed"]
  /\ UNCHANGED <<polls, shown, page, idAddr, entered>>

\* The address field changes, or the page is opened with ?a=.
IdEnter(s, a) ==
  /\ Free(s) /\ idAddr' = a /\ entered' = entered \cup {a}
  /\ \/ a \in IdAddrs /\ Goto(s, [pc |-> "status", addr |-> a])
     \/ a \notin IdAddrs /\ UNCHANGED polls
  /\ UNCHANGED <<shown, page, form>>

IdStatus(s) ==
  /\ At(s, "status") /\ up
  /\ Goto(s, [pc |-> "scan", addr |-> polls[s].addr, at |-> tip, h |-> tip])
  /\ UNCHANGED <<shown, page, idVars>>

IdFill(t) == form' = [f \in Fields |-> IF f \in Profile[t] THEN t ELSE form[f]]

\* The fields the memo has are filled in, the others keep their text.
IdFound(s) ==
  LET p == polls[s]
      t == FirstIn(p.h, p.addr)
  IN  /\ At(s, "scan") /\ p.h \in Window(p.at, IdWindow) /\ up /\ t # NoProfile
      /\ IdFill(t)
      /\ Goto(s, Idle)
      /\ UNCHANGED <<shown, page, idAddr, entered>>

\* The next block; an error document counts as a block without a profile.
IdNext(s) ==
  LET p == polls[s]
  IN  /\ At(s, "scan") /\ p.h \in Window(p.at, IdWindow)
      /\ ~up \/ FirstIn(p.h, p.addr) = NoProfile
      /\ Goto(s, [p EXCEPT !.h = @ - 1])
      /\ UNCHANGED <<shown, page, idVars>>

IdNotFound(s) ==
  /\ At(s, "scan") /\ polls[s].h \notin Window(polls[s].at, IdWindow)
  /\ Goto(s, Idle)
  /\ UNCHANGED <<shown, page, idVars>>

IdFails(s) ==
  /\ ~up /\ \/ At(s, "status")
            \/ At(s, "scan") /\ polls[s].h \in Window(polls[s].at, IdWindow)
  /\ Goto(s, Idle)
  /\ UNCHANGED <<shown, page, idVars>>

IdStep(s) == \/ IdStatus(s) \/ IdFound(s) \/ IdNext(s)
             \/ IdNotFound(s) \/ IdFails(s)
IdUser == IdType \/ \E s \in Slots, a \in IdEntered : IdEnter(s, a)
-----------------------------------------------------------------------------
\* "Will not invent a profile": every text in the form was typed or inscribed
\* in a transaction that names an address the user entered, whichever scans
\* overlap and whatever blocks were missing.
HonestForm ==
  page = "id" => \A f \in Fields : form[f] \in Txs =>
    entered \cap ToSet(Named[form[f]]) # {} /\ f \in Profile[form[f]]

\* "Latest op:set from that address in the scan window is what /id/ shows":
\* once no scan is in flight, what the form has from the chain was signed by
\* the address in the address field. (The page looks for the address anywhere
\* in a transaction, and leaves the fields that a profile does not have.)
ProfileOfSender ==
  page = "id" /\ idAddr \in IdAddrs /\ (\A s \in Slots : polls[s] = Idle) =>
    \A f \in Fields : form[f] \in Txs => Sender[form[f]] = idAddr
=============================================================================
