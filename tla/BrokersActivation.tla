------------------------- MODULE BrokersActivation -------------------------
(***************************************************************************)
(* Paid activation of a Crypto Broker agent in the browser                 *)
(* (site/brokers/assets/brokers.js): connect a wallet, check ownerOf, pay  *)
(* 0.001 ETH, wait for the payment and keep a record in localStorage.      *)
(*                                                                         *)
(* The page is one thread, but every await gives way to the other          *)
(* handlers. Each action below is the code between two awaits of one       *)
(* handler; what a handler keeps in local variables across an await is in  *)
(* its own record, what it reads again afterwards is page state, which     *)
(* accountsChanged and the recover button change in between.               *)
(*                                                                         *)
(* Every payment is the site's own (recipient and value are right), so the *)
(* checks of verifyActivationPayment on them always pass and only sender   *)
(* and status are kept.                                                    *)
(***************************************************************************)
EXTENDS Naturals, Sequences, FiniteSets, Bags

CONSTANTS
  Wallets,        \* accounts of the injected wallet
  NoAddr,         \* null: no account is exposed; as a key, "unsigned"
  Ids,            \* broker token ids
  NoRec,          \* localStorage has no record under the key
  MaxPayments,    \* bound: payments sent
  MaxVerifying,   \* bound: verifications of refreshActivation in flight
  MaxTransfers,   \* bound: changes of a token's owner on chain
  Modes           \* the surroundings the page may run in, see mode

ASSUME BoundsAssumption ==
  /\ {MaxPayments, MaxVerifying, MaxTransfers} \subseteq Nat
  /\ Modes \subseteq SUBSET {"switches", "recovers", "lags"}
  /\ NoAddr \notin Wallets

VARIABLES
  mode,       \* what the page meets in this behaviour, fixed at its start
  owner,      \* chain: ownerOf
  everOwned,  \* history: pairs <<wallet, id>> that held on chain
  payments,   \* chain: payments in the order sent; a hash is an index
  wallet,     \* wallet: the exposed account, eth_accounts[0]
  address,    \* page: state.address
  id,         \* page: state.id
  store,      \* localStorage: activation records by address and id
  verifying,  \* page: verifications refreshActivation has in flight
  act,        \* page: the onActivate in progress
  recover     \* page: the recoverActivationFromTx in progress

vars == <<mode, owner, everOwned, payments, wallet, address, id, store,
          verifying, act, recover>>
chainVars == <<mode, owner, everOwned, payments>>

\* The wallet changes account while the page is open; the recover button is
\* used; the node that answers a call may lag behind another.
SwitchesInPage == "switches" \in mode
Recovers       == "recovers" \in mode
RpcLags        == "lags" \in mode

Hashes == 1..MaxPayments
Accounts == Wallets \cup {NoAddr}
Records == [address : Accounts, id : Ids, tx : Hashes, confirmed : BOOLEAN]
Idle == [pc |-> "idle"]

Exists(r)    == r # NoRec
Confirmed(r) == Exists(r) /\ r.confirmed
Pending(r)   == Exists(r) /\ ~r.confirmed
IsActivated(st, i) == address # NoAddr /\ Confirmed(st[<<address, i>>])

\* A record of a confirmed activation of another token holds this payment.
TxHashAlreadyUsed(tx, exceptId) ==
  \E k \in DOMAIN store :
    Confirmed(store[k]) /\ store[k].tx = tx /\ store[k].id # exceptId

\* Operators named Faulty... are defects a change of the code could bring in;
\* no specification uses them. Here: the receipt's status, or the payer, not
\* looked at.
FaultyVerifyStatus(tx, from) ==
  CASE payments[tx].status = "pending" -> {"false"}
    [] payments[tx].from # from        -> {"throws"}
    [] OTHER                           -> {"true"}

FaultyVerifyFrom(tx, from) ==
  CASE payments[tx].status = "pending"  -> {"false"}
    [] payments[tx].status = "reverted" -> {"throws"}
    [] OTHER                            -> {"true"}

\* What verifyActivationPayment can come back with: it throws for a reverted
\* payment and for another sender, is false while the payment is unknown.
VerifyActivationPayment(tx, from) ==
  CASE payments[tx].status = "pending"  -> {"false"}
    [] payments[tx].status = "reverted" -> {"throws"}
    [] payments[tx].from # from         -> {"throws"}
    [] OTHER                            -> {"true"}

\* The same call over a connection that may fail, answered by a node that may
\* lag.
Verified(tx, from) ==
  VerifyActivationPayment(tx, from) \cup {"throws"}
    \cup (IF RpcLags THEN {"false"} ELSE {})

\* Faulty: a pending record is shown, its payment never asked for again.
FaultyRefresh(inFlight, addr, i, st) == inFlight

\* Faulty: the record is looked for under the address only.
FaultyRefreshKey(inFlight, addr, i, st) ==
  LET found == {j \in Ids : addr # NoAddr /\ Pending(st[<<addr, j>>])}
  IN  inFlight (+) SetToBag({[rec |-> st[<<addr, j>>], id |-> i] : j \in found})

\* refreshActivation: a pending record of the shown token starts a verification,
\* which keeps the record it read.
Refresh(inFlight, addr, i, st) ==
  IF addr # NoAddr /\ Pending(st[<<addr, i>>])
  THEN inFlight (+) SetToBag({[rec |-> st[<<addr, i>>], id |-> i]})
  ELSE inFlight

RefreshActivation ==
  /\ verifying' = Refresh(verifying, address', id', store')
  /\ BagCardinality(verifying') <= MaxVerifying

-----------------------------------------------------------------------------
Init ==
  /\ mode \in Modes
  /\ owner \in [Ids -> Wallets]
  /\ everOwned = {<<owner[i], i>> : i \in Ids}
  /\ payments = <<>>
  /\ wallet \in Wallets
  /\ address = NoAddr
  /\ id \in Ids
  /\ store = [k \in Accounts \X Ids |-> NoRec]
  /\ verifying = EmptyBag
  /\ act = Idle
  /\ recover = Idle

(* The chain and the wallet (external). *)

Mine ==
  \E tx \in DOMAIN payments, s \in {"ok", "reverted"} :
    /\ payments[tx].status = "pending"
    /\ payments' = [payments EXCEPT ![tx].status = s]
    /\ UNCHANGED <<mode, owner, everOwned, wallet, address, id, store, verifying, act, recover>>

Transfer ==
  \E i \in Ids, w \in Wallets :
    /\ <<w, i>> \notin everOwned
    /\ Cardinality(everOwned) < Cardinality(Ids) + MaxTransfers
    /\ owner' = [owner EXCEPT ![i] = w]
    /\ everOwned' = everOwned \cup {<<w, i>>}
    /\ UNCHANGED <<mode, payments, wallet, address, id, store, verifying, act, recover>>

SwitchAccount ==
  \E w \in Accounts \ {wallet} :
    /\ SwitchesInPage
    /\ wallet' = w
    /\ UNCHANGED <<chainVars, address, id, store, verifying, act, recover>>

(* The page is opened or reopened at ?id=i: handlers in progress are gone,  *)
(* only localStorage and the chain stay.                                    *)
Open(w, i) ==
  /\ wallet' = w
  /\ address' = NoAddr
  /\ id' = i
  /\ verifying' = EmptyBag
  /\ act' = Idle
  /\ recover' = Idle
  /\ UNCHANGED <<chainVars, store>>

\* The accountsChanged event, the answer to eth_accounts after a load, and the
\* connect button: the page takes the wallet's account.
TakeAccount ==
  /\ address # wallet
  /\ address' = wallet
  /\ UNCHANGED <<chainVars, wallet, id, store, act, recover>>
  /\ RefreshActivation

-----------------------------------------------------------------------------
(* refreshActivation, continued: the verification of the record comes back. *)
(* The record is written under the address the page has NOW.                *)
VerificationConfirms(v) ==
  /\ BagIn(v, verifying)
  /\ "true" \in Verified(v.rec.tx, v.rec.address)
  /\ store' = [store EXCEPT ![<<address, v.id>>] = [v.rec EXCEPT !.confirmed = TRUE]]
  /\ verifying' = Refresh(verifying (-) SetToBag({v}), address, id, store')
  /\ UNCHANGED <<chainVars, wallet, address, id, act, recover>>

VerificationFails(v) ==
  /\ BagIn(v, verifying)
  /\ verifying' = verifying (-) SetToBag({v})
  /\ UNCHANGED <<chainVars, wallet, address, id, store, act, recover>>

\* The desk pass that refreshActivation or openConsole began for an activated
\* agent ends (its quotes touch no activation record), and refreshes again.
DeskPassEnds ==
  /\ \E k \in DOMAIN store : Confirmed(store[k])
  /\ UNCHANGED <<chainVars, wallet, address, id, store, act, recover>>
  /\ RefreshActivation

-----------------------------------------------------------------------------
(* onActivate. Its button is disabled while one is in progress.             *)

Activate ==
  /\ act = Idle
  /\ address # NoAddr
  /\ act' = [pc |-> "owner", id |-> id, address |-> address]
  /\ UNCHANGED <<chainVars, wallet, address, id, store, verifying, recover>>

\* Faulty: requireOwner not called.
FaultyActivateOwnerOf ==
  /\ act.pc = "owner"
  /\ act' = [act EXCEPT !.pc = "accounts"]
  /\ UNCHANGED <<chainVars, wallet, address, id, store, verifying, recover>>

\* requireOwner: the owner is compared with state.address after the await.
\* Then isActivated, the fee dialog, and eth_accounts is asked.
ActivateOwnerOf ==
  /\ act.pc = "owner"
  /\ UNCHANGED <<chainVars, wallet, address, id, store, recover>>
  /\ \/ /\ owner[act.id] = address
        /\ ~IsActivated(store, act.id)
        /\ act' = [act EXCEPT !.pc = "accounts"]
        /\ UNCHANGED verifying
     \/ /\ owner[act.id] = address
        /\ IsActivated(store, act.id)
        /\ act' = Idle
        /\ RefreshActivation
     \/ act' = Idle /\ UNCHANGED verifying  \* not the owner, or the fee declined

ActivateAccounts ==
  /\ act.pc = "accounts"
  /\ act' = IF wallet = act.address THEN [act EXCEPT !.pc = "send"] ELSE Idle
  /\ UNCHANGED <<chainVars, wallet, address, id, store, verifying, recover>>

\* The wallet sends the payment, or its user rejects it.
ActivateSend ==
  /\ act.pc = "send"
  /\ \/ /\ Len(payments) < MaxPayments
        /\ payments' = Append(payments, [from |-> act.address, id |-> act.id,
                                         status |-> "pending"])
        /\ act' = [pc |-> "sent", id |-> act.id, address |-> act.address,
                   tx |-> Len(payments')]
     \/ act' = Idle /\ UNCHANGED payments
  /\ UNCHANGED <<mode, owner, everOwned, wallet, address, id, store, verifying, recover>>

ActRecord(confirmed) ==
  [address |-> act.address, id |-> act.id, tx |-> act.tx, confirmed |-> confirmed]

\* Faulty: kept under storageKey, that is under the page's address of now.
FaultyActivateRecord ==
  /\ act.pc = "sent"
  /\ store' = [store EXCEPT ![<<address, act.id>>] = ActRecord(FALSE)]
  /\ act' = [act EXCEPT !.pc = "receipt"]
  /\ UNCHANGED <<chainVars, wallet, address, id, recover>>
  /\ RefreshActivation

ActivateRecord ==
  /\ act.pc = "sent"
  /\ store' = [store EXCEPT ![<<act.address, act.id>>] = ActRecord(FALSE)]
  /\ act' = [act EXCEPT !.pc = "receipt"]
  /\ UNCHANGED <<chainVars, wallet, address, id, recover>>
  /\ RefreshActivation

\* Faulty: going on at the deadline.
FaultyActivateReceipt ==
  /\ act.pc = "receipt"
  /\ act' = [act EXCEPT !.pc = "verify"]
  /\ UNCHANGED <<chainVars, wallet, address, id, store, verifying, recover>>

\* waitForReceipt: any receipt will do; the deadline may pass first.
ActivateReceipt ==
  /\ act.pc = "receipt"
  /\ \/ /\ payments[act.tx].status # "pending"
        /\ act' = [act EXCEPT !.pc = "verify"]
     \/ act' = Idle
  /\ UNCHANGED <<chainVars, wallet, address, id, store, verifying, recover>>

\* The result of verifyActivationPayment is not looked at: only a throw stops.
\* startAgentDesk then shows the paid token while it works, if it is activated
\* for the page's address; prev is the token to go back to.
ActivateConfirm ==
  /\ act.pc = "verify"
  /\ \E verdict \in Verified(act.tx, act.address) :
       IF verdict = "throws" \/ TxHashAlreadyUsed(act.tx, act.id)
       THEN act' = Idle /\ UNCHANGED <<store, id>>
       ELSE /\ store' = [store EXCEPT ![<<act.address, act.id>>] = ActRecord(TRUE)]
            /\ id' = IF IsActivated(store', act.id) THEN act.id ELSE id
            /\ act' = [pc |-> "desk", id |-> act.id,
                       prev |-> IF IsActivated(store', act.id) THEN id ELSE act.id]
  /\ UNCHANGED <<chainVars, wallet, address, verifying, recover>>

\* startAgentDesk came back.
ActivateDone ==
  /\ act.pc = "desk"
  /\ act' = Idle
  /\ id' = IF act.prev # act.id THEN act.prev ELSE id
  /\ UNCHANGED <<chainVars, wallet, address, store, recover>>
  /\ RefreshActivation

-----------------------------------------------------------------------------
(* recoverActivationFromTx: any payment hash, any token id. Bound: one at a *)
(* time (its button is not disabled).                                       *)

Recover ==
  \E tx \in DOMAIN payments, i \in Ids :
    /\ Recovers
    /\ recover = Idle
    /\ address # NoAddr
    /\ recover' = [pc |-> "owner", tx |-> tx, id |-> i]
    /\ UNCHANGED <<chainVars, wallet, address, id, store, verifying, act>>

\* Faulty: requireOwner not called.
FaultyRecoverOwnerOf ==
  /\ recover.pc = "owner"
  /\ recover' = [pc |-> "verify", tx |-> recover.tx, id |-> recover.id, from |-> address]
  /\ UNCHANGED <<chainVars, wallet, address, id, store, verifying, act>>

\* requireOwner came back; the payer to expect is the address of this moment.
RecoverOwnerOf ==
  /\ recover.pc = "owner"
  /\ \/ /\ owner[recover.id] = address
        /\ recover' = [pc |-> "verify", tx |-> recover.tx, id |-> recover.id,
                       from |-> address]
     \/ recover' = Idle  \* not the owner, or no answer
  /\ UNCHANGED <<chainVars, wallet, address, id, store, verifying, act>>

\* Faulty: kept under the token the page shows, not the one recovered.
FaultyRecoverConfirm ==
  /\ recover.pc = "verify"
  /\ \E verdict \in Verified(recover.tx, recover.from) :
       IF verdict # "true" \/ TxHashAlreadyUsed(recover.tx, recover.id)
       THEN recover' = Idle /\ UNCHANGED <<store, id>>
       ELSE /\ store' = [store EXCEPT ![<<address, id>>] =
                           [address |-> address, id |-> recover.id,
                            tx |-> recover.tx, confirmed |-> TRUE]]
            /\ id' = recover.id
            /\ recover' = [pc |-> "desk"]
  /\ UNCHANGED <<chainVars, wallet, address, verifying, act>>

\* The record is made out to the address of this later moment.
RecoverConfirm ==
  /\ recover.pc = "verify"
  /\ \E verdict \in Verified(recover.tx, recover.from) :
       IF verdict # "true" \/ TxHashAlreadyUsed(recover.tx, recover.id)
       THEN recover' = Idle /\ UNCHANGED <<store, id>>
       ELSE /\ store' = [store EXCEPT ![<<address, recover.id>>] =
                           [address |-> address, id |-> recover.id,
                            tx |-> recover.tx, confirmed |-> TRUE]]
            /\ id' = recover.id
            /\ recover' = [pc |-> "desk"]
  /\ UNCHANGED <<chainVars, wallet, address, verifying, act>>

RecoverDone ==
  /\ recover.pc = "desk"
  /\ recover' = Idle
  /\ UNCHANGED <<chainVars, wallet, address, id, store, act>>
  /\ RefreshActivation

-----------------------------------------------------------------------------
Page ==
  \/ \E v \in BagToSet(verifying) : VerificationConfirms(v) \/ VerificationFails(v)
  \/ DeskPassEnds
  \/ ActivateOwnerOf \/ ActivateAccounts \/ ActivateSend \/ ActivateRecord
  \/ ActivateReceipt \/ ActivateConfirm \/ ActivateDone
  \/ RecoverOwnerOf \/ RecoverConfirm \/ RecoverDone

Next ==
  \/ Mine \/ Transfer \/ SwitchAccount \/ TakeAccount
  \/ \E w \in Wallets, i \in Ids : Open(w, i)
  \/ Activate \/ Recover
  \/ Page

Spec == Init /\ [][Next]_vars

\* The owner of a pending activation does what waitForReceipt tells: "Reopen
\* this agent after it confirms", and some answer of the node arrives.
Reopened ==
  \A w \in Wallets, i \in Ids :
    /\ WF_vars(Open(w, i))
    /\ SF_vars(TakeAccount /\ wallet = w /\ id = i)
    /\ SF_vars(VerificationConfirms([rec |-> store[<<w, i>>], id |-> i]))

LiveSpec == Spec /\ Reopened

-----------------------------------------------------------------------------
\* The type of the state; a record is kept under its own token.
TypeOK ==
  /\ mode \in Modes
  /\ owner \in [Ids -> Wallets]
  /\ everOwned \subseteq Wallets \X Ids
  /\ \A tx \in DOMAIN payments :
       payments[tx] \in [from : Wallets, id : Ids, status : {"pending", "ok", "reverted"}]
  /\ wallet \in Accounts /\ address \in Accounts /\ id \in Ids
  /\ \A k \in Accounts \X Ids :
       Exists(store[k]) => store[k] \in Records /\ store[k].id = k[2]
  /\ \A v \in BagToSet(verifying) : v.rec \in Records /\ v.id \in Ids
  /\ act.pc \in {"idle", "owner", "accounts", "send", "sent", "receipt", "verify", "desk"}
  /\ recover.pc \in {"idle", "owner", "verify", "desk"}

\* A confirmed record stands on a payment that was mined and did not revert
\* (verifyActivationPayment: "The activation payment reverted. The agent was
\* not activated."), as long as the node that answers does not lag.
ConfirmedIsMined ==
  ~RpcLags =>
    \A k \in DOMAIN store : Confirmed(store[k]) => payments[store[k].tx].status = "ok"

\* No record is confirmed before its payment is mined, even when the node that
\* answers lags behind and whatever the wallet does meanwhile.
ConfirmedHasReceipt ==
  \A k \in DOMAIN store : Confirmed(store[k]) => payments[store[k].tx].status # "pending"

\* A confirmed record stands on a payment from the address it is kept under
\* (verifyActivationPayment: "Must pay from the owning wallet").
PaidByItsAddress ==
  \A w \in Accounts, i \in Ids :
    Confirmed(store[<<w, i>>]) => payments[store[<<w, i>>].tx].from = w

\* The same for a wallet that keeps one account while the page is open: the
\* address read again after an await is the one the handler began with.
PaidUnlessSwitched == ~SwitchesInPage => PaidByItsAddress

\* No payment activates two tokens (recoverActivationFromTx: "Each activation
\* needs its own 0.001 ETH payment.").
OnePaymentPerAgent ==
  \A w, x \in Accounts, i, j \in Ids :
    Confirmed(store[<<w, i>>]) /\ Confirmed(store[<<x, j>>]) /\ i # j =>
      store[<<w, i>>].tx # store[<<x, j>>].tx

\* The same as long as nobody recovers: paying and resuming alone never put
\* one payment to two tokens.
OnePaymentUnlessRecovered == ~Recovers => OnePaymentPerAgent

\* An address pays for a token only if it has owned it (requireOwner before
\* eth_sendTransaction), as long as the account is not switched under the page.
PaymentsByOwners ==
  ~SwitchesInPage =>
    \A tx \in DOMAIN payments : <<payments[tx].from, payments[tx].id>> \in everOwned

\* A record exists only under an address that has owned the token, whether
\* the record was made by paying, by a recovered hash or by a verification, as
\* long as the account is not switched under the page.
RecordsOfOwners ==
  ~SwitchesInPage =>
    \A w \in Accounts, i \in Ids : Exists(store[<<w, i>>]) => <<w, i>> \in everOwned

\* A record that waits for its payment names the payment of that very address
\* for that very token, whatever the wallet did while onActivate waited.
PendingIsOwn ==
  \A w \in Accounts, i \in Ids :
    Pending(store[<<w, i>>]) =>
      /\ payments[store[<<w, i>>].tx].from = w
      /\ payments[store[<<w, i>>].tx].id = i

Waits(w, i, tx) == Pending(store[<<w, i>>]) /\ store[<<w, i>>].tx = tx

\* A record whose payment was mined is confirmed in the end, also when
\* onActivate gave up at its deadline or the page was closed meanwhile, unless
\* a further payment took the record over.
PendingResolves ==
  \A w \in Wallets, i \in Ids, tx \in Hashes :
    Waits(w, i, tx) /\ payments[tx].status = "ok" ~> ~Waits(w, i, tx)

=============================================================================
