---------------------- MODULE BrokersActivationProofs -----------------------
(***************************************************************************)
(* Machine-checked proofs about BrokersActivation, for every set of        *)
(* wallets and agents, every bound and, where no hypothesis says           *)
(* otherwise, every mode. The first part proves the inductive invariant    *)
(* IInv and what follows from it; each later part adds what holds only in  *)
(* a mode: a node that does not lag, a page without recoveries, no switch  *)
(* of account under the page.                                              *)
(***************************************************************************)
EXTENDS BrokersActivation, TLAPS

\* The kinds of the payments on the chain, which never gets longer than its
\* bound.
Payment == [from : Wallets, id : Ids, status : {"pending", "ok", "reverted"}]

Chain(ps) == ps \in Seq(Payment) /\ Len(ps) <= MaxPayments

\* What later steps may do to the payments sent so far.
Grows(ps, qs) ==
  /\ DOMAIN ps \subseteq DOMAIN qs
  /\ \A t \in DOMAIN ps :
       /\ qs[t].from = ps[t].from /\ qs[t].id = ps[t].id
       /\ ps[t].status # "pending" => qs[t].status = ps[t].status

\* A record filed under wallet k[1] and agent k[2] names that agent and a
\* payment of the chain; a confirmed one names a mined payment, a pending one
\* the payment this wallet made for this agent.
Filed(r, k, ps) ==
  Exists(r) =>
    /\ r \in Records /\ r.id = k[2] /\ r.tx \in DOMAIN ps
    /\ r.confirmed => ps[r.tx].status # "pending"
    /\ ~r.confirmed => ps[r.tx].from = k[1] /\ ps[r.tx].id = k[2]

\* What a verification under way carries: the pending record it was started
\* for.
InFlight(v, ps) ==
  v.rec \in Records /\ v.id \in Ids /\ v.rec.id = v.id /\ v.rec.tx \in DOMAIN ps

\* Where the activate handler can be between two of its awaits, and what it
\* knows there: from its payment on, the transaction is its own; at verify,
\* mined.
Paying(p, ps) ==
  \/ p = Idle
  \/ p \in [pc : {"owner", "accounts", "send"}, id : Ids, address : Wallets]
  \/ /\ p \in [pc : {"sent", "receipt", "verify"}, id : Ids, address : Wallets,
               tx : DOMAIN ps]
     /\ ps[p.tx].from = p.address /\ ps[p.tx].id = p.id
     /\ p.pc = "verify" => ps[p.tx].status # "pending"
  \/ p \in [pc : {"desk"}, id : Ids, prev : Ids]

\* Where the recover handler can be between two of its awaits.
Recovering(p, ps) ==
  \/ p = Idle
  \/ p \in [pc : {"owner"}, tx : DOMAIN ps, id : Ids]
  \/ p \in [pc : {"verify"}, tx : DOMAIN ps, id : Ids, from : Wallets]
  \/ p = [pc |-> "desk"]

\* Every record of localStorage is filed right.
StoreOk(st, ps) ==
  /\ st = [k \in Accounts \X Ids |-> st[k]]
  /\ \A k \in Accounts \X Ids : Filed(st[k], k, ps)

\* Every verification under way carries a record of the chain it runs on.
FlightOk(b, ps) == \A v \in BagToSet(b) : InFlight(v, ps)

\* The inductive invariant. The type alone does not survive a step: what a
\* handler writes after an await is right because of what it looked at
\* before.
IInv ==
  /\ mode \in Modes
  /\ owner \in [Ids -> Wallets] /\ everOwned \subseteq Wallets \X Ids
  /\ Chain(payments)
  /\ wallet \in Accounts /\ address \in Accounts /\ id \in Ids
  /\ StoreOk(store, payments)
  /\ FlightOk(verifying, payments)
  /\ Paying(act, payments)
  /\ Recovering(recover, payments)
-----------------------------------------------------------------------------
\* Starting one verification more: exactly it joins those under way.
LEMMA BagAdd ==
  ASSUME NEW b, NEW v
  PROVE  BagToSet(b (+) SetToBag({v})) = BagToSet(b) \cup {v}
  BY DEF (+), BagToSet, SetToBag

\* Ending a verification brings no other under way.
LEMMA BagTake ==
  ASSUME NEW b, NEW c
  PROVE  BagToSet(b (-) c) \subseteq BagToSet(b)
  BY DEF (-), BagToSet

\* A page just opened has no verification under way.
LEMMA BagNone == BagToSet(EmptyBag) = {}
  BY DEF EmptyBag, BagToSet, SetToBag

\* Records stay well filed while payments are sent and mined.
LEMMA GrowsFiled ==
  ASSUME NEW ps, NEW qs, Grows(ps, qs), NEW st, StoreOk(st, ps)
  PROVE  StoreOk(st, qs)
  BY DEF StoreOk, Filed, Grows, Records

\* Verifications under way stay right while payments are sent and mined.
LEMMA GrowsInFlight ==
  ASSUME NEW ps, NEW qs, Grows(ps, qs), NEW b, FlightOk(b, ps)
  PROVE  FlightOk(b, qs)
  BY DEF FlightOk, InFlight, Grows

\* The activate handler stays right while payments are sent and mined.
LEMMA GrowsPaying ==
  ASSUME NEW ps, NEW qs, Grows(ps, qs), NEW p, Paying(p, ps)
  PROVE  Paying(p, qs)
  BY DEF Paying, Grows

\* The recover handler stays right while payments are sent and mined.
LEMMA GrowsRecovering ==
  ASSUME NEW ps, NEW qs, Grows(ps, qs), NEW p, Recovering(p, ps)
  PROVE  Recovering(p, qs)
  BY DEF Recovering, Grows

\* refreshActivation starts a verification of the pending record stored for
\* the token on show, and that record is well filed.
LEMMA RefreshInFlight ==
  ASSUME NEW ps, NEW st, StoreOk(st, ps), NEW b, FlightOk(b, ps),
         NEW addr \in Accounts, NEW i \in Ids
  PROVE  FlightOk(Refresh(b, addr, i, st), ps)
<1> DEFINE v == [rec |-> st[<<addr, i>>], id |-> i]
<1>1. CASE Pending(st[<<addr, i>>])
  <2>1. Filed(st[<<addr, i>>], <<addr, i>>, ps)
    BY DEF StoreOk
  <2>2. InFlight(v, ps)
    BY <1>1, <2>1 DEF Filed, InFlight, Pending
  <2>3. BagToSet(b (+) SetToBag({v})) = BagToSet(b) \cup {v}
    BY BagAdd
  <2> HIDE DEF v
  <2>4. FlightOk(b (+) SetToBag({v}), ps)
    BY <2>2, <2>3 DEF FlightOk
  <2> QED BY <2>4 DEF Refresh, v
<1>2. CASE ~Pending(st[<<addr, i>>])
  BY <1>2 DEF Refresh
<1> QED BY <1>1, <1>2

\* Writing one well filed record keeps localStorage right.
LEMMA FileKeeps ==
  ASSUME NEW ps, NEW st, StoreOk(st, ps),
         NEW a \in Accounts, NEW i \in Ids, NEW r, Filed(r, <<a, i>>, ps)
  PROVE  StoreOk([st EXCEPT ![<<a, i>>] = r], ps)
  BY DEF StoreOk

\* Ending a verification keeps those under way right.
LEMMA TakeKeeps ==
  ASSUME NEW ps, NEW b, NEW c, FlightOk(b, ps)
  PROVE  FlightOk(b (-) c, ps)
  BY BagTake DEF FlightOk
-----------------------------------------------------------------------------
\* An empty localStorage and an idle page satisfy the invariant.
LEMMA InitIInv == Init => IInv
<1> SUFFICES ASSUME Init PROVE IInv
  OBVIOUS
<1>1. \A k \in Accounts \X Ids : store[k] = NoRec
  BY DEF Init
<1>2. StoreOk(store, payments)
  BY <1>1 DEF Init, StoreOk, Filed, Exists
<1>3. FlightOk(verifying, payments)
  BY BagNone DEF Init, FlightOk
<1>4. Chain(payments)
  BY BoundsAssumption DEF Init, Chain
<1> QED BY <1>2, <1>3, <1>4 DEF Init, IInv, Accounts, Paying, Recovering

\* A block decides one pending payment and touches nothing else of the chain.
LEMMA MineGrows ==
  ASSUME IInv, Mine
  PROVE  Chain(payments') /\ Grows(payments, payments')
<1> PICK tx \in DOMAIN payments, s \in {"ok", "reverted"} :
      /\ payments[tx].status = "pending"
      /\ payments' = [payments EXCEPT ![tx].status = s]
  BY DEF Mine
<1>0. payments[tx] \in Payment
  BY DEF IInv, Chain
<1>1. payments[tx] \in Payment /\ [payments[tx] EXCEPT !.status = s] \in Payment
  BY <1>0 DEF Payment
<1>2. payments' = [payments EXCEPT ![tx] = [payments[tx] EXCEPT !.status = s]]
  OBVIOUS
<1> DEFINE q == [payments[tx] EXCEPT !.status = s]
<1>5. q.from = payments[tx].from /\ q.id = payments[tx].id
  BY <1>1 DEF Payment
<1> HIDE DEF q
<1>3. payments' \in Seq(Payment) /\ Len(payments') = Len(payments)
  BY <1>1, <1>2 DEF IInv, Chain, q
<1>4. ASSUME NEW t \in DOMAIN payments
      PROVE  /\ payments'[t].from = payments[t].from
             /\ payments'[t].id = payments[t].id
             /\ payments[t].status # "pending" =>
                  payments'[t].status = payments[t].status
  BY <1>2, <1>5 DEF IInv, Chain, q
<1> QED BY <1>2, <1>3, <1>4 DEF IInv, Chain, Grows

\* The steps of the chain and the wallet keep the invariant.
LEMMA ChainStep ==
  ASSUME IInv, Mine \/ Transfer \/ SwitchAccount
  PROVE  IInv'
<1>1. CASE Mine
  <2>1. Chain(payments') /\ Grows(payments, payments')
    BY <1>1, MineGrows
  <2>2. /\ StoreOk(store, payments') /\ FlightOk(verifying, payments')
        /\ Paying(act, payments') /\ Recovering(recover, payments')
    BY <2>1, GrowsFiled, GrowsInFlight, GrowsPaying, GrowsRecovering DEF IInv
  <2> QED BY <1>1, <2>1, <2>2 DEF Mine, IInv
<1>2. CASE Transfer
  BY <1>2 DEF Transfer, IInv
<1>3. CASE SwitchAccount
  BY <1>3 DEF SwitchAccount, chainVars, IInv
<1> QED BY <1>1, <1>2, <1>3

\* Opening the page, taking its account and the answers of the verifications
\* under way keep the invariant.
LEMMA PageStep ==
  ASSUME IInv,
         \/ TakeAccount \/ DeskPassEnds
         \/ \E w \in Wallets, i \in Ids : Open(w, i)
         \/ \E v \in BagToSet(verifying) : VerificationConfirms(v) \/ VerificationFails(v)
  PROVE  IInv'
<1>1. CASE TakeAccount
  <2>1. FlightOk(verifying', payments)
    BY <1>1, RefreshInFlight DEF TakeAccount, RefreshActivation, chainVars, IInv
  <2> QED BY <1>1, <2>1 DEF TakeAccount, chainVars, IInv
<1>2. CASE DeskPassEnds
  <2>1. FlightOk(verifying', payments)
    BY <1>2, RefreshInFlight DEF DeskPassEnds, RefreshActivation, chainVars, IInv
  <2> QED BY <1>2, <2>1 DEF DeskPassEnds, chainVars, IInv
<1>3. ASSUME NEW w \in Wallets, NEW i \in Ids, Open(w, i)
      PROVE  IInv'
  <2>1. FlightOk(verifying', payments)
    BY <1>3, BagNone DEF Open, FlightOk
  <2> QED BY <1>3, <2>1 DEF Open, chainVars, IInv, Accounts, Paying, Recovering
<1>4. ASSUME NEW v \in BagToSet(verifying), VerificationConfirms(v)
      PROVE  IInv'
  <2> DEFINE r == [v.rec EXCEPT !.confirmed = TRUE]
  <2>1. InFlight(v, payments)
    BY DEF IInv, FlightOk
  <2>2. payments[v.rec.tx].status # "pending"
    BY <1>4 DEF VerificationConfirms, Verified, VerifyActivationPayment
  <2>3. r \in Records /\ r.id = v.id /\ r.tx = v.rec.tx /\ r.confirmed
    BY <2>1 DEF InFlight, Records
  <2> HIDE DEF r
  <2>4. Filed(r, <<address, v.id>>, payments)
    BY <2>1, <2>2, <2>3 DEF Filed, InFlight
  <2>5. store' = [store EXCEPT ![<<address, v.id>>] = r]
    BY <1>4 DEF VerificationConfirms, r
  <2>6. StoreOk(store', payments)
    BY <2>1, <2>4, <2>5, FileKeeps DEF IInv, InFlight
  <2>7. FlightOk(verifying (-) SetToBag({v}), payments)
    BY TakeKeeps DEF IInv
  <2>8. FlightOk(verifying', payments)
    BY <1>4, <2>6, <2>7, RefreshInFlight DEF VerificationConfirms, IInv
  <2> QED BY <1>4, <2>6, <2>8 DEF VerificationConfirms, chainVars, IInv
<1>5. ASSUME NEW v \in BagToSet(verifying), VerificationFails(v)
      PROVE  IInv'
  <2>1. FlightOk(verifying', payments)
    BY <1>5, TakeKeeps DEF VerificationFails, IInv
  <2> QED BY <1>5, <2>1 DEF VerificationFails, chainVars, IInv
<1> QED BY <1>1, <1>2, <1>3, <1>4, <1>5

\* The activate handler keeps the invariant up to the receipt.
LEMMA PayStep ==
  ASSUME IInv,
         \/ Activate \/ ActivateOwnerOf \/ ActivateAccounts \/ ActivateSend
         \/ ActivateReceipt
  PROVE  IInv'
<1>1. CASE Activate
  <2>1. Paying(act', payments)
    BY <1>1 DEF Activate, Paying, Accounts, IInv
  <2> QED BY <1>1, <2>1 DEF Activate, chainVars, IInv
<1>2. CASE ActivateOwnerOf
  <2>1. Paying(act', payments)
    BY <1>2 DEF ActivateOwnerOf, Paying, IInv, Idle
  <2>2. FlightOk(verifying', payments)
    BY <1>2, RefreshInFlight
    DEF ActivateOwnerOf, RefreshActivation, chainVars, IInv
  <2> QED BY <1>2, <2>1, <2>2 DEF ActivateOwnerOf, chainVars, IInv
<1>3. CASE ActivateAccounts
  <2>1. Paying(act', payments)
    BY <1>3 DEF ActivateAccounts, Paying, IInv, Idle
  <2> QED BY <1>3, <2>1 DEF ActivateAccounts, chainVars, IInv
<1>4. CASE ActivateSend
  <2>1. CASE act' = Idle /\ UNCHANGED payments
    BY <1>4, <2>1 DEF ActivateSend, IInv, Paying
  <2>2. CASE ~(act' = Idle /\ UNCHANGED payments)
    <3> DEFINE p == [from |-> act.address, id |-> act.id, status |-> "pending"]
    <3>1. /\ Len(payments) < MaxPayments /\ payments' = Append(payments, p)
          /\ act' = [pc |-> "sent", id |-> act.id, address |-> act.address,
                     tx |-> Len(payments')]
      BY <1>4, <2>2 DEF ActivateSend
    <3>2. act.address \in Wallets /\ act.id \in Ids
      BY <1>4 DEF ActivateSend, IInv, Paying, Idle
    <3>3. p \in Payment
      BY <3>2 DEF Payment
    <3>4. p.from = act.address /\ p.id = act.id
      OBVIOUS
    <3> HIDE DEF p
    <3>5. /\ Chain(payments') /\ Grows(payments, payments')
          /\ Len(payments') \in DOMAIN payments' /\ payments'[Len(payments')] = p
      BY <3>1, <3>3, BoundsAssumption DEF IInv, Chain, Grows
    <3>6. Paying(act', payments')
      BY <3>1, <3>2, <3>4, <3>5 DEF Paying
    <3>7. /\ StoreOk(store, payments') /\ FlightOk(verifying, payments')
          /\ Recovering(recover, payments')
      BY <3>5, GrowsFiled, GrowsInFlight, GrowsRecovering DEF IInv
    <3> QED BY <1>4, <3>5, <3>6, <3>7 DEF ActivateSend, IInv
  <2> QED BY <2>1, <2>2
<1>5. CASE ActivateReceipt
  <2>1. Paying(act', payments)
    BY <1>5 DEF ActivateReceipt, Paying, IInv, Idle
  <2> QED BY <1>5, <2>1 DEF ActivateReceipt, chainVars, IInv
<1> QED BY <1>1, <1>2, <1>3, <1>4, <1>5

\* The activate handler keeps the invariant when it files its record: the
\* pending one before the receipt, the confirmed one after it.
LEMMA RecordStep ==
  ASSUME IInv, ActivateRecord \/ ActivateConfirm \/ ActivateDone
  PROVE  IInv'
<1>1. CASE ActivateRecord
  <2>1. /\ act \in [pc : {"sent", "receipt", "verify"}, id : Ids,
                    address : Wallets, tx : DOMAIN payments]
        /\ payments[act.tx].from = act.address /\ payments[act.tx].id = act.id
    BY <1>1 DEF ActivateRecord, IInv, Paying, Idle
  <2>2. Filed(ActRecord(FALSE), <<act.address, act.id>>, payments)
    BY <2>1, BoundsAssumption
    DEF Filed, ActRecord, Records, Accounts, Hashes, IInv, Chain
  <2>3. StoreOk(store', payments)
    BY <1>1, <2>1, <2>2, FileKeeps DEF ActivateRecord, Accounts, IInv
  <2>4. FlightOk(verifying', payments)
    BY <1>1, <2>3, RefreshInFlight
    DEF ActivateRecord, RefreshActivation, chainVars, IInv
  <2>5. Paying(act', payments)
    BY <1>1, <2>1 DEF ActivateRecord, Paying
  <2> QED BY <1>1, <2>3, <2>4, <2>5 DEF ActivateRecord, chainVars, IInv
<1>2. CASE ActivateConfirm
  <2>1. /\ act \in [pc : {"sent", "receipt", "verify"}, id : Ids,
                    address : Wallets, tx : DOMAIN payments]
        /\ payments[act.tx].status # "pending"
    BY <1>2 DEF ActivateConfirm, IInv, Paying, Idle
  <2>2. Filed(ActRecord(TRUE), <<act.address, act.id>>, payments)
    BY <2>1, BoundsAssumption
    DEF Filed, ActRecord, Records, Accounts, Hashes, IInv, Chain
  <2>3. CASE act' = Idle /\ UNCHANGED <<store, id>>
    BY <1>2, <2>3 DEF ActivateConfirm, chainVars, IInv, Paying
  <2>4. CASE ~(act' = Idle /\ UNCHANGED <<store, id>>)
    <3>1. PICK verdict \in Verified(act.tx, act.address) :
            /\ store' = [store EXCEPT ![<<act.address, act.id>>] = ActRecord(TRUE)]
            /\ id' = IF IsActivated(store', act.id) THEN act.id ELSE id
            /\ act' = [pc |-> "desk", id |-> act.id,
                       prev |-> IF IsActivated(store', act.id) THEN id ELSE act.id]
      BY <1>2, <2>4 DEF ActivateConfirm
    <3>2. StoreOk(store', payments)
      BY <2>1, <2>2, <3>1, FileKeeps DEF Accounts, IInv
    <3>3. id' \in Ids /\ Paying(act', payments)
      BY <2>1, <3>1 DEF Paying, IInv
    <3> QED BY <1>2, <3>2, <3>3 DEF ActivateConfirm, chainVars, IInv
  <2> QED BY <2>3, <2>4
<1>3. CASE ActivateDone
  <2>1. act.prev \in Ids
    BY <1>3 DEF ActivateDone, IInv, Paying, Idle
  <2>2. id' \in Ids
    BY <1>3, <2>1 DEF ActivateDone, IInv
  <2>3. FlightOk(verifying', payments)
    BY <1>3, <2>2, RefreshInFlight DEF ActivateDone, RefreshActivation, chainVars, IInv
  <2> QED BY <1>3, <2>2, <2>3 DEF ActivateDone, chainVars, IInv, Paying
<1> QED BY <1>1, <1>2, <1>3

\* The recover handler keeps the invariant, the id prefilled from a URL and
\* the transaction hash being whatever the user has.
LEMMA RecoverStep ==
  ASSUME IInv, Recover \/ RecoverOwnerOf \/ RecoverConfirm \/ RecoverDone
  PROVE  IInv'
<1>1. CASE Recover
  <2>1. Recovering(recover', payments)
    BY <1>1 DEF Recover, Recovering
  <2> QED BY <1>1, <2>1 DEF Recover, chainVars, IInv
<1>2. CASE RecoverOwnerOf
  <2>1. Recovering(recover', payments)
    BY <1>2 DEF RecoverOwnerOf, Recovering, IInv, Idle
  <2> QED BY <1>2, <2>1 DEF RecoverOwnerOf, chainVars, IInv
<1>3. CASE RecoverConfirm
  <2>1. recover \in [pc : {"verify"}, tx : DOMAIN payments, id : Ids, from : Wallets]
    BY <1>3 DEF RecoverConfirm, IInv, Recovering, Idle
  <2>2. CASE recover' = Idle /\ UNCHANGED <<store, id>>
    BY <1>3, <2>2 DEF RecoverConfirm, chainVars, IInv, Recovering
  <2>3. CASE ~(recover' = Idle /\ UNCHANGED <<store, id>>)
    <3> DEFINE r == [address |-> address, id |-> recover.id,
                     tx |-> recover.tx, confirmed |-> TRUE]
    <3>0. PICK verdict \in Verified(recover.tx, recover.from) :
            /\ verdict = "true"
            /\ store' = [store EXCEPT ![<<address, recover.id>>] = r]
            /\ id' = recover.id /\ recover' = [pc |-> "desk"]
      BY <1>3, <2>3 DEF RecoverConfirm
    <3>1. /\ "true" \in Verified(recover.tx, recover.from)
          /\ store' = [store EXCEPT ![<<address, recover.id>>] = r]
          /\ id' = recover.id /\ recover' = [pc |-> "desk"]
      BY <3>0
    <3>2. payments[recover.tx].status # "pending"
      BY <3>1 DEF Verified, VerifyActivationPayment
    <3>3. Filed(r, <<address, recover.id>>, payments)
      BY <2>1, <3>2, BoundsAssumption DEF Filed, Records, Hashes, IInv, Chain
    <3>4. StoreOk(store', payments)
      BY <2>1, <3>1, <3>3, FileKeeps DEF IInv
    <3> QED BY <1>3, <2>1, <3>1, <3>4 DEF RecoverConfirm, chainVars, IInv, Recovering
  <2> QED BY <2>2, <2>3
<1>4. CASE RecoverDone
  <2>1. FlightOk(verifying', payments)
    BY <1>4, RefreshInFlight DEF RecoverDone, RefreshActivation, chainVars, IInv
  <2> QED BY <1>4, <2>1 DEF RecoverDone, chainVars, IInv, Recovering
<1> QED BY <1>1, <1>2, <1>3, <1>4

\* Every step keeps the invariant.
LEMMA NextIInv == IInv /\ [Next]_vars => IInv'
<1> SUFFICES ASSUME IInv, [Next]_vars PROVE IInv'
  OBVIOUS
<1>1. CASE UNCHANGED vars
  BY <1>1 DEF vars, IInv
<1>2. CASE Next
  BY <1>2, ChainStep, PageStep, PayStep, RecordStep, RecoverStep DEF Next, Page
<1> QED BY <1>1, <1>2

(***************************************************************************)
(* The inductive invariant holds in every reachable state, whatever        *)
(* wallets, agents, bounds and modes: a page reopened at any moment,       *)
(* accounts switched under a handler, a node that lags, recoveries of any  *)
(* transaction.                                                            *)
(***************************************************************************)
THEOREM Invariant == Spec => []IInv
<1>1. QED BY InitIInv, NextIInv, PTL DEF Spec
-----------------------------------------------------------------------------
(***************************************************************************)
(* The page, its localStorage and its handlers are always of the right     *)
(* kind: no handler resumes in a state it does not know, and no record     *)
(* names an agent other than the one it is filed under.                    *)
(***************************************************************************)
THEOREM TypeCorrect == Spec => []TypeOK
<1>1. IInv => TypeOK
  <2> SUFFICES ASSUME IInv PROVE TypeOK
    OBVIOUS
  <2>1. \A tx \in DOMAIN payments : payments[tx] \in Payment
    BY DEF IInv, Chain
  <2>2. \A k \in Accounts \X Ids :
          Exists(store[k]) => store[k] \in Records /\ store[k].id = k[2]
    BY DEF IInv, StoreOk, Filed
  <2>3. act.pc \in {"idle", "owner", "accounts", "send", "sent", "receipt",
                   "verify", "desk"}
    BY DEF IInv, Paying, Idle
  <2>4. recover.pc \in {"idle", "owner", "verify", "desk"}
    BY DEF IInv, Recovering, Idle
  <2> QED BY <2>1, <2>2, <2>3, <2>4 DEF IInv, TypeOK, Payment, FlightOk, InFlight
<1> QED BY <1>1, Invariant, PTL

(***************************************************************************)
(* A record is confirmed only once its payment is mined: no interleaving   *)
(* of the handler, the verifications of other records and the recovery     *)
(* confirms a payment still pending.                                       *)
(***************************************************************************)
THEOREM ReceiptFirst == Spec => []ConfirmedHasReceipt
<1>1. IInv => ConfirmedHasReceipt
  BY DEF IInv, ConfirmedHasReceipt, StoreOk, Filed, Confirmed
<1> QED BY <1>1, Invariant, PTL

(***************************************************************************)
(* A pending record always names a payment the wallet it is filed under    *)
(* made for that agent, so resuming it after a reload verifies the right   *)
(* payment.                                                                *)
(***************************************************************************)
THEOREM PendingNamesItsPayment == Spec => []PendingIsOwn
<1>1. IInv => PendingIsOwn
  <2> SUFFICES ASSUME IInv, NEW w \in Accounts, NEW i \in Ids,
                      Pending(store[<<w, i>>])
               PROVE  /\ payments[store[<<w, i>>].tx].from = w
                      /\ payments[store[<<w, i>>].tx].id = i
    BY DEF PendingIsOwn
  <2>1. Filed(store[<<w, i>>], <<w, i>>, payments)
    BY DEF IInv, StoreOk
  <2> QED BY <2>1 DEF Filed, Pending
<1> QED BY <1>1, Invariant, PTL
-----------------------------------------------------------------------------
\* Payments are appended and mined, never dropped, redirected or undone.
LEMMA PaymentsGrow == IInv /\ [Next]_vars => Grows(payments, payments')
<1> SUFFICES ASSUME IInv, [Next]_vars PROVE Grows(payments, payments')
  OBVIOUS
<1>1. CASE UNCHANGED payments
  BY <1>1 DEF Grows
<1>2. CASE Mine
  BY <1>2, MineGrows
<1>3. CASE ActivateSend /\ ~UNCHANGED payments
  <2>1. Len(payments) \in Nat /\ \E p : payments' = Append(payments, p)
    BY <1>3 DEF ActivateSend, IInv, Chain
  <2> QED BY <2>1 DEF Grows, IInv, Chain
<1> QED BY <1>1, <1>2, <1>3
  DEF Next, Page, vars, chainVars, Transfer, SwitchAccount, TakeAccount, Open,
      VerificationConfirms, VerificationFails, DeskPassEnds, Activate,
      ActivateOwnerOf, ActivateAccounts, ActivateRecord, ActivateReceipt,
      ActivateConfirm, ActivateDone, Recover, RecoverOwnerOf, RecoverConfirm,
      RecoverDone

\* What the page meets is settled when it is first opened.
LEMMA ModeStays == [Next]_vars => mode' = mode
  BY DEF Next, Page, vars, chainVars, Mine, Transfer, SwitchAccount, TakeAccount,
      Open, VerificationConfirms, VerificationFails, DeskPassEnds, Activate,
      ActivateOwnerOf, ActivateAccounts, ActivateSend, ActivateRecord,
      ActivateReceipt, ActivateConfirm, ActivateDone, Recover, RecoverOwnerOf,
      RecoverConfirm, RecoverDone

\* localStorage is written by four steps only.
LEMMA StoreMoves ==
  ASSUME [Next]_vars
  PROVE  \/ UNCHANGED store
         \/ ActivateRecord \/ ActivateConfirm \/ RecoverConfirm
         \/ \E v \in BagToSet(verifying) : VerificationConfirms(v)
  BY DEF Next, Page, vars, chainVars, Mine, Transfer, SwitchAccount, TakeAccount,
      Open, VerificationFails, DeskPassEnds, Activate,
      ActivateOwnerOf, ActivateAccounts, ActivateSend, ActivateReceipt,
      ActivateDone, Recover, RecoverOwnerOf, RecoverDone

\* Verifications end, and are started only by refreshActivation at the token
\* on show.
LEMMA VerifyingMoves ==
  ASSUME [Next]_vars
  PROVE  \E b : /\ BagToSet(b) \subseteq BagToSet(verifying)
                /\ verifying' \in {b, Refresh(b, address', id', store')}
<1>1. CASE UNCHANGED verifying
  BY <1>1
<1>2. CASE RefreshActivation
  BY <1>2 DEF RefreshActivation
<1>3. ASSUME NEW w \in Wallets, NEW i \in Ids, Open(w, i)
      PROVE  verifying' = EmptyBag /\ BagToSet(EmptyBag) = {}
  BY <1>3, BagNone DEF Open
<1>4. ASSUME NEW v \in BagToSet(verifying), VerificationConfirms(v)
      PROVE  verifying' = Refresh(verifying (-) SetToBag({v}), address', id', store')
  BY <1>4 DEF VerificationConfirms
<1>5. ASSUME NEW v \in BagToSet(verifying), VerificationFails(v)
      PROVE  verifying' = verifying (-) SetToBag({v})
  BY <1>5 DEF VerificationFails
<1>6. \A v : BagToSet(verifying (-) SetToBag({v})) \subseteq BagToSet(verifying)
  BY BagTake
<1>7. \/ UNCHANGED verifying \/ RefreshActivation
      \/ \E w \in Wallets, i \in Ids : Open(w, i)
      \/ \E v \in BagToSet(verifying) : VerificationConfirms(v) \/ VerificationFails(v)
  BY DEF Next, Page, vars, chainVars, Mine, Transfer, SwitchAccount, TakeAccount,
      DeskPassEnds, Activate, ActivateOwnerOf, ActivateAccounts, ActivateSend,
      ActivateRecord, ActivateReceipt, ActivateConfirm, ActivateDone, Recover,
      RecoverOwnerOf, RecoverConfirm, RecoverDone
<1> QED BY <1>1, <1>2, <1>3, <1>4, <1>5, <1>6, <1>7

\* One record is written, what it stands on is what the action looked at.
LEMMA ConfirmWrites ==
  ASSUME IInv, ActivateConfirm
  PROVE  \/ act' = Idle /\ UNCHANGED <<store, id>>
         \/ /\ act \in [pc : {"sent", "receipt", "verify"}, id : Ids,
                        address : Wallets, tx : DOMAIN payments]
            /\ payments[act.tx].from = act.address
            /\ payments[act.tx].id = act.id
            /\ payments[act.tx].status # "pending"
            /\ ~RpcLags => payments[act.tx].status = "ok"
            /\ store' = [store EXCEPT ![<<act.address, act.id>>] = ActRecord(TRUE)]
            /\ act'.pc = "desk"
<1>1. /\ act \in [pc : {"sent", "receipt", "verify"}, id : Ids,
                  address : Wallets, tx : DOMAIN payments]
      /\ payments[act.tx].from = act.address
      /\ payments[act.tx].id = act.id
      /\ payments[act.tx].status # "pending"
  BY DEF ActivateConfirm, IInv, Paying, Idle
<1>2. payments[act.tx] \in Payment
  BY <1>1 DEF IInv, Chain
<1>3. CASE ~(act' = Idle /\ UNCHANGED <<store, id>>)
  <2>1. PICK verdict \in Verified(act.tx, act.address) :
          /\ verdict # "throws"
          /\ store' = [store EXCEPT ![<<act.address, act.id>>] = ActRecord(TRUE)]
          /\ act' = [pc |-> "desk", id |-> act.id,
                     prev |-> IF IsActivated(store', act.id) THEN id ELSE act.id]
    BY <1>3 DEF ActivateConfirm
  <2>2. ~RpcLags => payments[act.tx].status = "ok"
    BY <1>1, <1>2, <2>1 DEF Verified, VerifyActivationPayment, Payment
  <2> QED BY <1>1, <2>1, <2>2
<1> QED BY <1>3

\* What a recovery files: a successful payment of the owner it read, under
\* the address of the page.
LEMMA RecoverWrites ==
  ASSUME IInv, RecoverConfirm
  PROVE  \/ recover' = Idle /\ UNCHANGED <<store, id>>
         \/ /\ recover \in [pc : {"verify"}, tx : DOMAIN payments, id : Ids,
                            from : Wallets]
            /\ payments[recover.tx].from = recover.from
            /\ payments[recover.tx].status = "ok"
            /\ store' = [store EXCEPT ![<<address, recover.id>>] =
                           [address |-> address, id |-> recover.id,
                            tx |-> recover.tx, confirmed |-> TRUE]]
            /\ recover' = [pc |-> "desk"]
<1>1. recover \in [pc : {"verify"}, tx : DOMAIN payments, id : Ids, from : Wallets]
  BY DEF RecoverConfirm, IInv, Recovering, Idle
<1>2. payments[recover.tx] \in Payment
  BY <1>1 DEF IInv, Chain
<1>3. CASE ~(recover' = Idle /\ UNCHANGED <<store, id>>)
  <2>1. /\ "true" \in Verified(recover.tx, recover.from)
        /\ store' = [store EXCEPT ![<<address, recover.id>>] =
                       [address |-> address, id |-> recover.id,
                        tx |-> recover.tx, confirmed |-> TRUE]]
        /\ recover' = [pc |-> "desk"]
    BY <1>3 DEF RecoverConfirm
  <2>2. payments[recover.tx].from = recover.from /\ payments[recover.tx].status = "ok"
    BY <1>2, <2>1 DEF Verified, VerifyActivationPayment, Payment
  <2> QED BY <1>1, <2>1, <2>2
<1> QED BY <1>3

\* What a verification under way files: its own record, confirmed, under the
\* address the page has by then.
LEMMA VerificationWrites ==
  ASSUME IInv, NEW v \in BagToSet(verifying), VerificationConfirms(v)
  PROVE  /\ InFlight(v, payments)
         /\ payments[v.rec.tx].from = v.rec.address
         /\ payments[v.rec.tx].status = "ok"
         /\ store' = [store EXCEPT ![<<address, v.id>>] =
                        [v.rec EXCEPT !.confirmed = TRUE]]
<1>1. InFlight(v, payments)
  BY DEF IInv, FlightOk
<1>2. payments[v.rec.tx] \in Payment
  BY <1>1 DEF IInv, Chain, InFlight
<1>3. "true" \in Verified(v.rec.tx, v.rec.address)
  BY DEF VerificationConfirms
<1>4. /\ payments[v.rec.tx].from = v.rec.address
      /\ payments[v.rec.tx].status = "ok"
  BY <1>2, <1>3 DEF Verified, VerifyActivationPayment, Payment
<1> QED BY <1>1, <1>4 DEF VerificationConfirms
-----------------------------------------------------------------------------
\* Every confirmed record stands on a successful payment.
MinedAll(st, ps) ==
  \A k \in Accounts \X Ids :
    Confirmed(st[k]) => st[k].tx \in DOMAIN ps /\ ps[st[k].tx].status = "ok"

\* With a node that does not lag, every step keeps confirmed records on
\* successful payments.
LEMMA NextMined ==
  ASSUME ~RpcLags, IInv, MinedAll(store, payments), [Next]_vars
  PROVE  MinedAll(store', payments')
<1>1. Grows(payments, payments')
  BY PaymentsGrow
<1>2. ASSUME NEW k0 \in Accounts \X Ids, NEW r,
             store' = [store EXCEPT ![k0] = r], r.tx \in DOMAIN payments,
             payments[r.tx].status = "ok"
      PROVE  MinedAll(store', payments)
  BY <1>2 DEF IInv, StoreOk, MinedAll
<1>3. MinedAll(store', payments)
  <2>1. CASE UNCHANGED store
    BY <2>1
  <2>2. CASE ActivateRecord
    <3>1. ~Confirmed(ActRecord(FALSE)) /\ <<act.address, act.id>> \in Accounts \X Ids
      BY <2>2 DEF Confirmed, ActRecord, ActivateRecord, IInv, Paying, Idle, Accounts
    <3> QED BY <2>2, <3>1 DEF ActivateRecord, MinedAll, IInv, StoreOk
  <2>3. CASE ActivateConfirm
    BY <1>2, <2>3, ConfirmWrites DEF ActRecord, Accounts
  <2>4. CASE RecoverConfirm
    BY <1>2, <2>4, RecoverWrites DEF IInv
  <2>5. ASSUME NEW v \in BagToSet(verifying), VerificationConfirms(v)
        PROVE  MinedAll(store', payments)
    BY <1>2, <2>5, VerificationWrites DEF InFlight, Records, IInv
  <2> QED BY <2>1, <2>2, <2>3, <2>4, <2>5, StoreMoves
<1> QED BY <1>1, <1>3 DEF MinedAll, Grows

(***************************************************************************)
(* With a node that answers from its newest block, a record is confirmed   *)
(* only for a payment that was mined and succeeded; a reverted payment     *)
(* activates nobody.                                                       *)
(***************************************************************************)
THEOREM OnlyMinedConfirmed == Spec => []ConfirmedIsMined
<1> DEFINE Inv == ~RpcLags => MinedAll(store, payments)
<1>1. Init => Inv
  BY DEF Init, MinedAll, Confirmed, Exists
<1>2. IInv /\ Inv /\ [Next]_vars => Inv'
  <2>1. [Next]_vars => (RpcLags' <=> RpcLags)
    BY ModeStays DEF RpcLags
  <2> QED BY <2>1, NextMined
<1>3. IInv /\ Inv => ConfirmedIsMined
  BY DEF MinedAll, ConfirmedIsMined, IInv, StoreOk
<1> HIDE DEF Inv
<1> QED BY <1>1, <1>2, <1>3, Invariant, PTL DEF Spec
-----------------------------------------------------------------------------
\* Every record names a payment made for its own agent.
OwnStore(st, ps) ==
  \A k \in Accounts \X Ids : Exists(st[k]) => st[k].tx \in DOMAIN ps /\ ps[st[k].tx].id = k[2]

\* Every verification under way is of a payment made for its own agent.
OwnFlight(b, ps) ==
  \A v \in BagToSet(b) : v.rec.tx \in DOMAIN ps /\ ps[v.rec.tx].id = v.id

\* As long as nobody recovers, no payment is put to the account of another
\* agent.
OwnInv == OwnStore(store, payments) /\ OwnFlight(verifying, payments) /\ recover = Idle

\* Payments sent and mined leave the agents of earlier ones alone.
LEMMA GrowsOwn ==
  ASSUME NEW ps, NEW qs, Grows(ps, qs), NEW st, NEW b, OwnStore(st, ps), OwnFlight(b, ps)
  PROVE  OwnStore(st, qs) /\ OwnFlight(b, qs)
  BY DEF Grows, OwnStore, OwnFlight

\* A verification started from localStorage is of a payment for its own
\* agent.
LEMMA RefreshOwn ==
  ASSUME NEW ps, NEW st, OwnStore(st, ps), NEW b, OwnFlight(b, ps),
         NEW addr \in Accounts, NEW i \in Ids
  PROVE  OwnFlight(Refresh(b, addr, i, st), ps)
<1> DEFINE v == [rec |-> st[<<addr, i>>], id |-> i]
<1>1. CASE Pending(st[<<addr, i>>])
  <2>2. v.rec.tx \in DOMAIN ps /\ ps[v.rec.tx].id = v.id
    BY <1>1 DEF OwnStore, Pending
  <2>3. BagToSet(b (+) SetToBag({v})) = BagToSet(b) \cup {v}
    BY BagAdd
  <2> HIDE DEF v
  <2>4. OwnFlight(b (+) SetToBag({v}), ps)
    BY <2>2, <2>3 DEF OwnFlight
  <2> QED BY <2>4 DEF Refresh, v
<1>2. CASE ~Pending(st[<<addr, i>>])
  BY <1>2 DEF Refresh
<1> QED BY <1>1, <1>2

\* Every step but a recovery keeps each payment with its agent.
LEMMA NextOwn ==
  ASSUME ~Recovers, IInv, OwnInv, [Next]_vars
  PROVE  OwnInv'
<1>1. Grows(payments, payments')
  BY PaymentsGrow
<1>2. IInv'
  BY NextIInv
<1>3. OwnStore(store', payments)
  <2>1. ASSUME NEW k0 \in Accounts \X Ids, NEW r,
               store' = [store EXCEPT ![k0] = r], r.tx \in DOMAIN payments,
               payments[r.tx].id = k0[2]
        PROVE  OwnStore(store', payments)
    BY <2>1 DEF IInv, StoreOk, OwnInv, OwnStore
  <2>2. CASE UNCHANGED store
    BY <2>2 DEF OwnInv
  <2>3. CASE ActivateRecord
    <3>1. /\ <<act.address, act.id>> \in Accounts \X Ids
          /\ act.tx \in DOMAIN payments /\ payments[act.tx].id = act.id
      BY <2>3 DEF ActivateRecord, IInv, Paying, Idle, Accounts
    <3>2. ActRecord(FALSE).tx = act.tx
      BY DEF ActRecord
    <3> QED BY <2>1, <2>3, <3>1, <3>2 DEF ActivateRecord
  <2>4. CASE ActivateConfirm
    BY <2>1, <2>2, <2>4, ConfirmWrites DEF ActRecord, Accounts
  <2>5. ASSUME NEW v \in BagToSet(verifying), VerificationConfirms(v)
        PROVE  OwnStore(store', payments)
    <3> DEFINE r == [v.rec EXCEPT !.confirmed = TRUE]
    <3>1. r.tx = v.rec.tx /\ v.id \in Ids /\ r.tx \in DOMAIN payments
      BY <2>5, VerificationWrites DEF InFlight, Records
    <3>2. payments[r.tx].id = v.id
      BY <3>1 DEF OwnInv, OwnFlight
    <3>3. store' = [store EXCEPT ![<<address, v.id>>] = r]
      BY <2>5, VerificationWrites
    <3> HIDE DEF r
    <3> QED BY <2>1, <3>1, <3>2, <3>3 DEF IInv
  <2>6. ~RecoverConfirm
    BY DEF RecoverConfirm, OwnInv, Idle
  <2> QED BY <2>2, <2>3, <2>4, <2>5, <2>6, StoreMoves
<1>4. OwnFlight(verifying', payments)
  <2>1. PICK b : /\ BagToSet(b) \subseteq BagToSet(verifying)
                 /\ verifying' \in {b, Refresh(b, address', id', store')}
    BY VerifyingMoves
  <2>2. OwnFlight(b, payments)
    BY <2>1 DEF OwnInv, OwnFlight
  <2> QED BY <1>2, <1>3, <2>1, <2>2, RefreshOwn DEF IInv
<1>5. recover' = Idle
  BY DEF OwnInv, Idle, Next, Page, vars, chainVars, Mine, Transfer, SwitchAccount,
      TakeAccount, Open, VerificationConfirms, VerificationFails, DeskPassEnds,
      Activate, ActivateOwnerOf, ActivateAccounts, ActivateSend, ActivateRecord,
      ActivateReceipt, ActivateConfirm, ActivateDone, Recover, RecoverOwnerOf,
      RecoverConfirm, RecoverDone
<1> QED BY <1>1, <1>3, <1>4, <1>5, GrowsOwn DEF OwnInv

(***************************************************************************)
(* Without the recovery form one payment never activates two agents,       *)
(* whatever is switched, reopened or delayed: the reuse found by the run   *)
(* of recoveries is due to the recovery alone.                             *)
(***************************************************************************)
THEOREM OnlyRecoveryReuses == Spec => []OnePaymentUnlessRecovered
<1> DEFINE Inv == ~Recovers => OwnInv
<1>1. Init => Inv
  BY BagNone DEF Init, OwnInv, OwnStore, OwnFlight, Exists
<1>2. IInv /\ Inv /\ [Next]_vars => Inv'
  <2>1. [Next]_vars => (Recovers' <=> Recovers)
    BY ModeStays DEF Recovers
  <2> QED BY <2>1, NextOwn
<1>3. OwnInv => OnePaymentPerAgent
  <2> SUFFICES ASSUME OwnInv, NEW w \in Accounts, NEW x \in Accounts,
                      NEW i \in Ids, NEW j \in Ids, i # j,
                      Confirmed(store[<<w, i>>]), Confirmed(store[<<x, j>>])
               PROVE  store[<<w, i>>].tx # store[<<x, j>>].tx
    BY DEF OnePaymentPerAgent
  <2>1. /\ payments[store[<<w, i>>].tx].id = i
        /\ payments[store[<<x, j>>].tx].id = j
    BY DEF OwnInv, OwnStore, Confirmed
  <2> QED BY <2>1
<1>4. Inv => OnePaymentUnlessRecovered
  BY <1>3 DEF OnePaymentUnlessRecovered
<1> HIDE DEF Inv
<1> QED BY <1>1, <1>2, <1>4, Invariant, PTL DEF Spec
-----------------------------------------------------------------------------
\* Every payment was made by somebody who owned the agent at some time.
SteadyPaid(ps, eo) == \A tx \in DOMAIN ps : <<ps[tx].from, ps[tx].id>> \in eo

\* A record is filed under its own address, by an owner of the agent, and a
\* confirmed one was paid by that address.
SteadyStore(st, ps, eo) ==
  \A w \in Accounts, i \in Ids :
    Exists(st[<<w, i>>]) =>
      /\ <<w, i>> \in eo /\ st[<<w, i>>].address = w
      /\ st[<<w, i>>].tx \in DOMAIN ps
      /\ st[<<w, i>>].confirmed => ps[st[<<w, i>>].tx].from = w

\* Every verification under way is of a record of the address on the page.
SteadyFlight(b, addr, eo) ==
  \A v \in BagToSet(b) :
    addr # NoAddr /\ v.rec.address = addr /\ <<addr, v.id>> \in eo

\* The activate handler pays from the address on the page; past ownerOf, that
\* address owned the agent.
SteadyAct(p, addr, eo) ==
  /\ p.pc \in {"owner", "accounts", "send", "sent", "receipt", "verify"} =>
       p.address = addr
  /\ p.pc \in {"accounts", "send", "sent", "receipt", "verify"} =>
       <<p.address, p.id>> \in eo

\* A recovery verifies against an owner that is the address on the page.
SteadyRecover(p, addr, eo) ==
  p.pc = "verify" => p.from = addr /\ <<p.from, p.id>> \in eo

\* What holds as long as the wallet is switched only between two visits to
\* the page: handlers, verifications and records share one address.
SteadyInv ==
  /\ wallet \in Wallets /\ address \in {NoAddr, wallet}
  /\ \A i \in Ids : <<owner[i], i>> \in everOwned
  /\ SteadyPaid(payments, everOwned)
  /\ SteadyStore(store, payments, everOwned)
  /\ SteadyFlight(verifying, address, everOwned)
  /\ SteadyAct(act, address, everOwned)
  /\ SteadyRecover(recover, address, everOwned)

\* A verification started from localStorage is of a record of the address on
\* the page.
LEMMA RefreshSteady ==
  ASSUME NEW ps, NEW eo, NEW st, SteadyStore(st, ps, eo),
         NEW addr \in Accounts, NEW i \in Ids, NEW b, SteadyFlight(b, addr, eo)
  PROVE  SteadyFlight(Refresh(b, addr, i, st), addr, eo)
<1> DEFINE v == [rec |-> st[<<addr, i>>], id |-> i]
<1>1. CASE addr # NoAddr /\ Pending(st[<<addr, i>>])
  <2>2. v.rec.address = addr /\ <<addr, v.id>> \in eo
    BY <1>1 DEF SteadyStore, Pending
  <2>3. BagToSet(b (+) SetToBag({v})) = BagToSet(b) \cup {v}
    BY BagAdd
  <2> HIDE DEF v
  <2>4. SteadyFlight(b (+) SetToBag({v}), addr, eo)
    BY <1>1, <2>2, <2>3 DEF SteadyFlight
  <2> QED BY <1>1, <2>4 DEF Refresh, v
<1>2. CASE ~(addr # NoAddr /\ Pending(st[<<addr, i>>]))
  BY <1>2 DEF Refresh
<1> QED BY <1>1, <1>2

\* Without a switch in the page its address changes only when it is opened
\* anew, which ends every handler, or when it takes its first one.
LEMMA AddressMoves ==
  ASSUME ~SwitchesInPage, IInv, SteadyInv, [Next]_vars
  PROVE  \/ UNCHANGED <<wallet, address>>
         \/ \E w \in Wallets, i \in Ids : Open(w, i)
         \/ /\ address = NoAddr /\ address' = wallet
            /\ UNCHANGED <<wallet, act, recover, everOwned>>
<1>1. CASE UNCHANGED <<wallet, address>> \/ \E w \in Wallets, i \in Ids : Open(w, i)
  BY <1>1
<1>2. CASE TakeAccount
  BY <1>2 DEF TakeAccount, chainVars, SteadyInv
<1> QED BY <1>1, <1>2
  DEF Next, Page, vars, chainVars, Mine, Transfer, SwitchAccount,
      VerificationConfirms, VerificationFails, DeskPassEnds,
      Activate, ActivateOwnerOf, ActivateAccounts, ActivateSend, ActivateRecord,
      ActivateReceipt, ActivateConfirm, ActivateDone, Recover, RecoverOwnerOf,
      RecoverConfirm, RecoverDone

\* The history of owners only grows and holds the present ones.
LEMMA OwnersStay ==
  ASSUME SteadyInv, IInv, [Next]_vars
  PROVE  /\ everOwned \subseteq everOwned'
         /\ \A i \in Ids : <<owner'[i], i>> \in everOwned'
<1>1. CASE UNCHANGED <<owner, everOwned>>
  BY <1>1 DEF SteadyInv
<1>2. CASE Transfer
  BY <1>2 DEF Transfer, SteadyInv, IInv
<1> QED BY <1>1, <1>2
  DEF Next, Page, vars, chainVars, Mine, SwitchAccount, TakeAccount, Open,
      VerificationConfirms, VerificationFails, DeskPassEnds,
      Activate, ActivateOwnerOf, ActivateAccounts, ActivateSend, ActivateRecord,
      ActivateReceipt, ActivateConfirm, ActivateDone, Recover, RecoverOwnerOf,
      RecoverConfirm, RecoverDone

\* Only an address found to own the agent pays for it.
LEMMA NextSteadyPaid ==
  ASSUME SteadyInv, IInv, [Next]_vars
  PROVE  SteadyPaid(payments', everOwned')
<1>1. everOwned \subseteq everOwned'
  BY OwnersStay
<1>2. CASE UNCHANGED payments
  BY <1>1, <1>2 DEF SteadyInv, SteadyPaid
<1>3. CASE Mine
  BY <1>1, <1>3, MineGrows DEF Mine, SteadyInv, SteadyPaid, Grows
<1>4. CASE ActivateSend /\ ~UNCHANGED payments
  <2> DEFINE p == [from |-> act.address, id |-> act.id, status |-> "pending"]
  <2>1. payments' = Append(payments, p)
    BY <1>4 DEF ActivateSend
  <2>2. <<p.from, p.id>> \in everOwned
    BY <1>4 DEF ActivateSend, SteadyInv, SteadyAct
  <2> HIDE DEF p
  <2> QED BY <1>1, <2>1, <2>2 DEF SteadyInv, SteadyPaid, IInv, Chain
<1> QED BY <1>2, <1>3, <1>4
  DEF Next, Page, vars, chainVars, Transfer, SwitchAccount, TakeAccount, Open,
      VerificationConfirms, VerificationFails, DeskPassEnds, Activate,
      ActivateOwnerOf, ActivateAccounts, ActivateRecord, ActivateReceipt,
      ActivateConfirm, ActivateDone, Recover, RecoverOwnerOf, RecoverConfirm,
      RecoverDone

\* The four steps that write localStorage file under the address they
\* verified.
LEMMA NextSteadyStore ==
  ASSUME SteadyInv, IInv, [Next]_vars
  PROVE  SteadyStore(store', payments', everOwned')
<1>1. everOwned \subseteq everOwned' /\ Grows(payments, payments')
  BY OwnersStay, PaymentsGrow
<1>2. SteadyStore(store', payments, everOwned)
  <2>1. ASSUME NEW w \in Accounts, NEW i \in Ids, NEW r,
               store' = [store EXCEPT ![<<w, i>>] = r],
               <<w, i>> \in everOwned, r.address = w, r.tx \in DOMAIN payments,
               r.confirmed => payments[r.tx].from = w
        PROVE  SteadyStore(store', payments, everOwned)
    BY <2>1 DEF IInv, StoreOk, SteadyInv, SteadyStore
  <2>2. CASE UNCHANGED store
    BY <2>2 DEF SteadyInv
  <2>3. CASE ActivateRecord
    <3>1. /\ act.address \in Accounts /\ act.id \in Ids
          /\ act.tx \in DOMAIN payments /\ <<act.address, act.id>> \in everOwned
      BY <2>3 DEF ActivateRecord, IInv, Paying, Idle, Accounts, SteadyInv, SteadyAct
    <3>2. /\ ActRecord(FALSE).tx = act.tx /\ ActRecord(FALSE).address = act.address
          /\ ActRecord(FALSE).confirmed = FALSE
      BY DEF ActRecord
    <3> QED BY <2>1, <2>3, <3>1, <3>2 DEF ActivateRecord
  <2>4. CASE ActivateConfirm
    <3>1. act.address \in Wallets => act.address \in Accounts
      BY DEF Accounts
    <3>2. <<act.address, act.id>> \in everOwned
      BY <2>4 DEF ActivateConfirm, SteadyInv, SteadyAct
    <3> QED BY <2>1, <2>2, <2>4, <3>1, <3>2, ConfirmWrites DEF ActRecord
  <2>5. ASSUME NEW v \in BagToSet(verifying), VerificationConfirms(v)
        PROVE  SteadyStore(store', payments, everOwned)
    <3> DEFINE r == [v.rec EXCEPT !.confirmed = TRUE]
    <3>1. r.address = v.rec.address /\ r.tx = v.rec.tx
      BY <2>5, VerificationWrites DEF InFlight, Records
    <3>2. v.rec.address = address /\ <<address, v.id>> \in everOwned
      BY DEF SteadyInv, SteadyFlight
    <3> HIDE DEF r
    <3>3. store' = [store EXCEPT ![<<address, v.id>>] = r]
      BY <2>5, VerificationWrites DEF r
    <3> QED BY <2>1, <2>5, <3>1, <3>2, <3>3, VerificationWrites DEF InFlight, IInv
  <2>6. CASE RecoverConfirm
    <3>1. recover.from = address /\ <<address, recover.id>> \in everOwned
      BY <2>6 DEF RecoverConfirm, SteadyInv, SteadyRecover
    <3> QED BY <2>1, <2>2, <2>6, <3>1, RecoverWrites DEF IInv
  <2> QED BY <2>2, <2>3, <2>4, <2>5, <2>6, StoreMoves
<1> QED BY <1>1, <1>2 DEF SteadyStore, Grows

\* Verifications under way stay with the address on the page.
LEMMA NextSteadyFlight ==
  ASSUME ~SwitchesInPage, SteadyInv, IInv, [Next]_vars
  PROVE  SteadyFlight(verifying', address', everOwned')
<1>1. IInv'
  BY NextIInv
<1>2. PICK b : /\ BagToSet(b) \subseteq BagToSet(verifying)
               /\ verifying' \in {b, Refresh(b, address', id', store')}
  BY VerifyingMoves
<1>3. CASE UNCHANGED address \/ address = NoAddr
  <2>1. SteadyFlight(b, address', everOwned')
    BY <1>2, <1>3, OwnersStay DEF SteadyInv, SteadyFlight
  <2>2. SteadyStore(store', payments', everOwned')
    BY NextSteadyStore
  <2> QED BY <1>1, <1>2, <2>1, <2>2, RefreshSteady DEF IInv
<1>4. ASSUME NEW w \in Wallets, NEW i \in Ids, Open(w, i)
      PROVE  SteadyFlight(verifying', address', everOwned')
  BY <1>4, BagNone DEF Open, SteadyFlight
<1> QED BY <1>3, <1>4, AddressMoves

\* The activate handler keeps the address it took from the page.
LEMMA NextSteadyAct ==
  ASSUME ~SwitchesInPage, SteadyInv, IInv, [Next]_vars
  PROVE  SteadyAct(act', address', everOwned')
<1>1. everOwned \subseteq everOwned'
  BY OwnersStay
<1>2. CASE UNCHANGED act
  <2>1. CASE UNCHANGED address
    BY <1>1, <1>2, <2>1 DEF SteadyInv, SteadyAct
  <2>2. CASE address = NoAddr
    BY <1>2, <2>2, BoundsAssumption DEF SteadyInv, SteadyAct, IInv, Paying, Idle
  <2>3. ASSUME NEW w \in Wallets, NEW i \in Ids, Open(w, i)
        PROVE  SteadyAct(act', address', everOwned')
    BY <2>3 DEF Open, SteadyAct, Idle
  <2> QED BY <2>1, <2>2, <2>3, AddressMoves
<1>3. ASSUME NEW w \in Wallets, NEW i \in Ids, Open(w, i)
      PROVE  SteadyAct(act', address', everOwned')
  BY <1>3 DEF Open, SteadyAct, Idle
<1>4. CASE Activate
  BY <1>4 DEF Activate, SteadyAct, chainVars
<1>5. CASE ActivateOwnerOf
  <2>1. CASE act' = Idle
    BY <2>1 DEF SteadyAct, Idle
  <2>2. CASE act' = [act EXCEPT !.pc = "accounts"] /\ owner[act.id] = address
    <3>1. act.id \in Ids /\ act.address = address /\ act.pc = "owner"
      BY <1>5 DEF ActivateOwnerOf, SteadyInv, SteadyAct, IInv, Paying, Idle
    <3>2. act'.address = address /\ act'.id = act.id
      BY <2>2, <3>1 DEF IInv, Paying, Idle
    <3>3. <<act'.address, act'.id>> \in everOwned
      BY <2>2, <3>1, <3>2 DEF SteadyInv
    <3> QED BY <1>5, <3>2, <3>3 DEF ActivateOwnerOf, SteadyAct, chainVars
  <2> QED BY <1>5, <2>1, <2>2 DEF ActivateOwnerOf
<1>6. CASE ActivateAccounts
  <2>1. CASE act' = Idle
    BY <2>1 DEF SteadyAct, Idle
  <2>2. CASE act' = [act EXCEPT !.pc = "send"]
    <3>1. /\ act'.address = act.address /\ act'.id = act.id
          /\ act.address = address /\ <<act.address, act.id>> \in everOwned
      BY <1>6, <2>2 DEF ActivateAccounts, SteadyInv, SteadyAct, IInv, Paying, Idle
    <3> QED BY <1>6, <3>1 DEF ActivateAccounts, SteadyAct, chainVars
  <2> QED BY <1>6, <2>1, <2>2 DEF ActivateAccounts
<1>7. CASE ActivateSend
  BY <1>7 DEF ActivateSend, SteadyInv, SteadyAct, Idle
<1>8. CASE ActivateRecord \/ ActivateReceipt
  <2>1. CASE act' = Idle
    BY <2>1 DEF SteadyAct, Idle
  <2>2. CASE act' # Idle
    <3>1. /\ act.pc \in {"sent", "receipt"}
          /\ act' = [act EXCEPT !.pc = "receipt"] \/ act' = [act EXCEPT !.pc = "verify"]
      BY <1>8, <2>2 DEF ActivateRecord, ActivateReceipt
    <3>2. /\ act \in [pc : {"sent", "receipt", "verify"}, id : Ids,
                      address : Wallets, tx : DOMAIN payments]
          /\ act.address = address /\ <<act.address, act.id>> \in everOwned
      BY <3>1 DEF SteadyInv, SteadyAct, IInv, Paying, Idle
    <3>3. act'.address = act.address /\ act'.id = act.id
      BY <3>1, <3>2
    <3> QED BY <1>8, <3>2, <3>3 DEF ActivateRecord, ActivateReceipt, SteadyAct, chainVars
  <2> QED BY <2>1, <2>2
<1>9. CASE ActivateConfirm
  <2>1. act'.pc \in {"idle", "desk"}
    <3>1. act' = Idle \/ act'.pc = "desk"
      BY <1>9, ConfirmWrites
    <3> QED BY <3>1 DEF Idle
  <2> QED BY <2>1 DEF SteadyAct
<1>10. CASE ActivateDone
  BY <1>10 DEF ActivateDone, SteadyAct, Idle
<1> QED BY <1>2, <1>3, <1>4, <1>5, <1>6, <1>7, <1>8, <1>9, <1>10
  DEF Next, Page, vars, Mine, Transfer, SwitchAccount, TakeAccount,
      VerificationConfirms, VerificationFails, DeskPassEnds, Recover,
      RecoverOwnerOf, RecoverConfirm, RecoverDone

\* The recover handler keeps the owner it compared with the page.
LEMMA NextSteadyRecover ==
  ASSUME ~SwitchesInPage, SteadyInv, IInv, [Next]_vars
  PROVE  SteadyRecover(recover', address', everOwned')
<1>1. everOwned \subseteq everOwned'
  BY OwnersStay
<1>2. CASE UNCHANGED recover
  <2>1. CASE UNCHANGED address
    BY <1>1, <1>2, <2>1 DEF SteadyInv, SteadyRecover
  <2>2. CASE address = NoAddr
    BY <1>2, <2>2, BoundsAssumption DEF SteadyInv, SteadyRecover, IInv, Recovering, Idle
  <2>3. ASSUME NEW w \in Wallets, NEW i \in Ids, Open(w, i)
        PROVE  SteadyRecover(recover', address', everOwned')
    BY <2>3 DEF Open, SteadyRecover, Idle
  <2> QED BY <2>1, <2>2, <2>3, AddressMoves
<1>3. CASE recover'.pc # "verify"
  BY <1>3 DEF SteadyRecover
<1>4. CASE RecoverOwnerOf /\ recover'.pc = "verify"
  <2>1. recover.id \in Ids
    BY <1>4 DEF RecoverOwnerOf, IInv, Recovering, Idle
  <2> QED BY <1>1, <1>4, <2>1
    DEF RecoverOwnerOf, SteadyInv, SteadyRecover, chainVars, Idle
<1>5. CASE RecoverConfirm
  BY <1>3, <1>5, RecoverWrites DEF Idle
<1>6. CASE Recover \/ RecoverDone
  BY <1>3, <1>6 DEF Recover, RecoverDone, Idle
<1>7. CASE RecoverOwnerOf
  BY <1>3, <1>4, <1>7
<1>8. ASSUME NEW w \in Wallets, NEW i \in Ids, Open(w, i)
      PROVE  SteadyRecover(recover', address', everOwned')
  BY <1>3, <1>8 DEF Open, Idle
<1> QED BY <1>2, <1>5, <1>6, <1>7, <1>8
  DEF Next, Page, vars, chainVars, Mine, Transfer, SwitchAccount, TakeAccount,
      VerificationConfirms, VerificationFails, DeskPassEnds, Activate,
      ActivateOwnerOf, ActivateAccounts, ActivateSend, ActivateRecord,
      ActivateReceipt, ActivateConfirm, ActivateDone

(***************************************************************************)
(* Unless the account is switched while the page is open, handlers,        *)
(* verifications and records never mix two addresses.                      *)
(***************************************************************************)
THEOREM SteadyWallet == Spec => [](~SwitchesInPage => SteadyInv)
<1>1. Init => SteadyInv
  BY BagNone DEF Init, SteadyInv, SteadyPaid, SteadyStore, SteadyFlight, SteadyAct,
    SteadyRecover, Idle, Exists
<1>2. IInv /\ ~SwitchesInPage /\ SteadyInv /\ [Next]_vars => SteadyInv'
  <2> SUFFICES ASSUME IInv, ~SwitchesInPage, SteadyInv, [Next]_vars PROVE SteadyInv'
    OBVIOUS
  <2>1. wallet' \in Wallets /\ address' \in {NoAddr, wallet'}
    BY AddressMoves DEF Open, SteadyInv
  <2> QED BY <2>1, OwnersStay, NextSteadyPaid, NextSteadyStore, NextSteadyFlight,
             NextSteadyAct, NextSteadyRecover DEF SteadyInv
<1>3. [Next]_vars => (SwitchesInPage' <=> SwitchesInPage)
  BY ModeStays DEF SwitchesInPage
<1> QED BY <1>1, <1>2, <1>3, Invariant, PTL DEF Spec

(***************************************************************************)
(* Unless the account is switched while the page is open, a confirmed      *)
(* record was paid by the address it is filed under.                       *)
(***************************************************************************)
THEOREM PaidFromItsAddress == Spec => []PaidUnlessSwitched
<1>1. (~SwitchesInPage => SteadyInv) => PaidUnlessSwitched
  BY DEF SteadyInv, SteadyStore, PaidUnlessSwitched, PaidByItsAddress, Confirmed
<1> QED BY <1>1, SteadyWallet, PTL

(***************************************************************************)
(* Unless the account is switched while the page is open, nobody pays for  *)
(* an agent it never owned, however ownership moves between ownerOf and    *)
(* the payment.                                                            *)
(***************************************************************************)
THEOREM OwnersPay == Spec => []PaymentsByOwners
<1>1. (~SwitchesInPage => SteadyInv) => PaymentsByOwners
  BY DEF SteadyInv, SteadyPaid, PaymentsByOwners
<1> QED BY <1>1, SteadyWallet, PTL

(***************************************************************************)
(* Unless the account is switched while the page is open, nobody holds a   *)
(* record for an agent it never owned.                                     *)
(***************************************************************************)
THEOREM OwnersKeepRecords == Spec => []RecordsOfOwners
<1>1. (~SwitchesInPage => SteadyInv) => RecordsOfOwners
  BY DEF SteadyInv, SteadyStore, RecordsOfOwners
<1> QED BY <1>1, SteadyWallet, PTL
=============================================================================
