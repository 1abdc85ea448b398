------------------------------- MODULE Wallet -------------------------------
(***************************************************************************)
(* The wallet page (site/assets/wallet.js): the transactions of recent     *)
(* blocks and of the pool that mention an address, and its balance. The    *)
(* address may be submitted anew while a poll, or the lookup of an earlier *)
(* one, waits for an answer; the list is filtered before the last await    *)
(* and written after it.                                                   *)
(***************************************************************************)
EXTENDS Pages

CONSTANTS
  Addrs,     \* Addrs[t]: the addresses found in the bytes of a transaction
  IreAddrs,  \* what isIreAddr accepts
  Entered,   \* what the user types, or a link or localStorage holds
  Null,      \* no balance
  WaWindow   \* BLOCK_WINDOW

\* extractAddrs finds what isIreAddr accepts.
ASSUME WalletAssumption ==
  /\ WaWindow \in Nat /\ Null \notin IreAddrs
  /\ \A t \in Txs : ToSet(Addrs[t]) \subseteq IreAddrs

VARIABLES
  address,      \* state.address, also in localStorage and in the URL
  balance,      \* state.balance: the address it was looked up for, or Null
  balanceError  \* state.balanceError: "", "invalid" or "unavailable"

walletVars == <<address, balance, balanceError>>

waBlank == [online |-> FALSE, h |-> 0, txs |-> <<>>]

\* localStorage and ?a= survive a reload, nothing else does.
WaInit == address \in Entered /\ balance = Null /\ balanceError = ""

Entry(t, h) == [tx |-> t, height |-> h]
DecodeTxs(txs, h) == [i \in DOMAIN txs |-> Entry(txs[i], h)]

\* Confirmed transactions, newest block first.
ConfirmedList(h) ==
  LET n == Cardinality(Window(h, WaWindow))
  IN  FlattenSeq([i \in 1..n |-> DecodeTxs(chain[h + 1 - i], h + 1 - i)])

FaultyPendingOnly(h, P) == DecodeTxs(SetToSeq(P), 0)

\* Pending ones that no block of the window holds.
PendingOnly(h, P) ==
  DecodeTxs(SetToSeq(P \ {e.tx : e \in ToSet(ConfirmedList(h))}), 0)

Involves(e, a) == a \in ToSet(Addrs[e.tx])
ActivityOf(a, h, P) ==
  LET all == PendingOnly(h, P) \o ConfirmedList(h)
  IN  Kept(all, {e \in ToSet(all) : Involves(e, a)})
-----------------------------------------------------------------------------
\* The state changes of lookupBalance without a request, and with its answer.
LookupRefused(a) ==
  /\ balance' = Null
  /\ balanceError' = IF a = "" THEN "" ELSE "invalid"

\* A defect: the error of an earlier lookup is not taken back.
FaultyLookupAnswered(a) ==
  \/ up /\ balance' = a /\ UNCHANGED balanceError
  \/ ~up /\ balance' = Null /\ balanceError' = "unavailable"

LookupAnswered(a) ==
  \/ up /\ balance' = a /\ balanceError' = ""
  \/ ~up /\ balance' = Null /\ balanceError' = "unavailable"

WaTick(s) == Free(s) /\ Goto(s, Waiting) /\ UNCHANGED <<shown, page, walletVars>>

WaStatus(s) ==
  /\ At(s, "status") /\ up /\ tip > 0
  /\ Goto(s, [pc |-> "pool", h |-> tip])
  /\ UNCHANGED <<shown, page, walletVars>>

WaPool(s) ==
  /\ At(s, "pool") /\ up
  /\ Goto(s, [pc |-> "blocks", h |-> polls[s].h, P |-> pool])
  /\ UNCHANGED <<shown, page, walletVars>>

WaWrite(h, txs) == shown' = [online |-> TRUE, h |-> h, txs |-> txs]

\* A defect: the poll leaves the balance to the submit handler.
FaultyWaBlocks(s) ==
  /\ At(s, "blocks")
  /\ WaWrite(polls[s].h, IF address \in IreAddrs
                         THEN ActivityOf(address, polls[s].h, polls[s].P) ELSE <<>>)
  /\ Goto(s, Idle)
  /\ UNCHANGED <<page, walletVars>>

\* The list is made for the address of now; the balance is asked for, if the
\* address is one, before it is written.
WaBlocks(s) ==
  /\ At(s, "blocks")
  /\ \/ /\ address \in IreAddrs
        /\ Goto(s, [pc |-> "balance", h |-> polls[s].h, addr |-> address,
                    txs |-> ActivityOf(address, polls[s].h, polls[s].P)])
        /\ UNCHANGED shown
     \/ /\ address \notin IreAddrs
        /\ WaWrite(polls[s].h, <<>>) /\ Goto(s, Idle)
  /\ UNCHANGED <<page, walletVars>>

\* A balance that cannot be had is an error text, not an offline page.
WaBalance(s) ==
  /\ At(s, "balance")
  /\ LookupAnswered(polls[s].addr)
  /\ WaWrite(polls[s].h, polls[s].txs) /\ Goto(s, Idle)
  /\ UNCHANGED <<page, address>>

WaFails(s) ==
  /\ StatusFails(s) \/ (RequestFails(s) /\ polls[s].pc \in {"pool", "blocks"})
  /\ shown' = [shown EXCEPT !.online = FALSE, !.txs = <<>>]
  /\ Goto(s, Idle)
  /\ UNCHANGED <<page, walletVars>>

\* The submit handler, for what is not an address: it ends at once.
WaSubmitOther(a) ==
  /\ a \notin IreAddrs \cup {""}
  /\ address' = a /\ LookupRefused(a)
  /\ shown' = [shown EXCEPT !.txs = <<>>]
  /\ UNCHANGED <<polls, page>>

\* For an address: look its balance up, then poll. For none: poll.
WaSubmit(s, a) ==
  /\ Free(s) /\ a \in IreAddrs \cup {""} /\ address' = a
  /\ \/ /\ a # "" /\ Goto(s, [pc |-> "lookup", addr |-> a])
        /\ UNCHANGED <<balance, balanceError>>
     \/ a = "" /\ LookupRefused(a) /\ Goto(s, Waiting)
  /\ UNCHANGED <<shown, page>>

WaLookup(s) ==
  /\ At(s, "lookup")
  /\ LookupAnswered(polls[s].addr) /\ Goto(s, Waiting)
  /\ UNCHANGED <<shown, page, address>>

WaStep(s) == \/ WaStatus(s) \/ WaPool(s) \/ WaBlocks(s) \/ WaBalance(s)
             \/ WaFails(s) \/ WaLookup(s)
WaUser == \E a \in Entered : WaSubmitOther(a) \/ \E s \in Slots : WaSubmit(s, a)

\* renderBalance: whose balance stands on the page, if one does.
BalanceShown ==
  CASE address = ""       -> Null
    [] ~shown.online      -> balance
    [] balanceError # ""  -> Null
    [] OTHER              -> balance
-----------------------------------------------------------------------------
\* No transaction is listed twice, as pending and as confirmed, although the
\* pool is read after the height and may still hold what a block has.
WaListedOnce ==
  page = "wallet" => \A i, j \in DOMAIN shown.txs :
                       shown.txs[i].tx = shown.txs[j].tx => i = j

\* Whatever was submitted before and answers late, an address that stays gets
\* its own balance and its own list, neither older than the chain and the pool,
\* in the end, once requests are answered.
BalanceSettles ==
  \A a \in IreAddrs :
    <>[](page = "wallet" /\ up /\ tip > 0 /\ address = a) =>
      <>[](page = "wallet" => /\ BalanceShown = a
                              /\ shown.txs = ActivityOf(a, tip, pool))
=============================================================================
