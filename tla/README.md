# Verification of ire-blockchain

TLA+ models of the stateful parts of the `ire-1` chain and of its web pages,
checked with TLC and proved with TLAPS: every safety and action property that a
passing run checks, and both refinements, are also theorems, for all values of the
constants (some properties of the brokers' page exclude a mode, see section 5). All paths are below `src/`.

    tlc -config MCTokenFactory.cfg MCTokenFactory.tla      # any run of PROJECT.json
    tlapm FeedProofs.tla                                   # any of the *Proofs modules

## 1. The system

| Component | State | Operations | What is hard |
|---|---|---|---|
| **Token factory messages** `x/tokenfactory/keeper` | authority record and creator index (own store); balances, supply, metadata (bank) ; parameters | CreateDenom, Mint, Burn, ForceTransfer, ChangeAdmin, SetDenomMetadata, UpdateParams | four stores written by separate calls; partial failure; strings compared for authority, accounts for coins; module accounts; flags |
| **Genesis and migration** `keeper/genesis.go`, `keeper/migrator.go`, `migrations/v2` | the same, and the genesis file | ExportGenesis, InitGenesis, Migrate1to2 | order of the bank's import and this one; frozen denoms; halting |
| **App wiring and upgrade** `app/*.go` | module versions, upgrade info on disk | store loader, upgrade handler | restarts around the upgrade height |
| **Zero-height export** `app/export.go` | staking, distribution, slashing | prepForZeroHeightGenesis | long sequential rewrite of SDK state |
| **Brokers activation** `site/brokers/assets/brokers.js` | page state, `localStorage`, the wallet, the chain | connect, activate, recover, refresh, reopen | every `await` lets the other handlers run; account switches; closed pages; late receipts |
| **Brokers desk** (same file) | quotes, tickets, marks per account and token; heartbeat; the ticket on the page | runBrokerDesk, onPaper, startAgentDesk, onLive, heartbeat | runs overlap while the page's token and account change |
| **Skills and mandates** `skills.js`, `mandates.js` | none | id to skill and mandate | probe finds distinct skills |
| **Node** behind `/rpc` and `/api` | blocks, pool | commits, drops, stops | a block is saved before the pool is updated; two requests are two looks |
| **Markets page** `site/assets/markets.js` | last poll, block cache | poll, reconstruct, cards | markets exist only as what a poll adds up from blocks and pool |
| **Wallet page** `wallet.js` | address, balance, list | poll, address form, lookups | a poll filters before its last await and writes after it |
| **Mempool page** `mempool.js` | last poll, selection | poll, click, enrichTx | a late answer completes the detail of another click |
| **Points, vault** `points.js`, `vault.js`, **explorer** `explorer/app.js` | what was written last | poll | the page is written in stretches between awaits |
| **Profile page** `id.js` | the form | scan of the blocks | a second scan does not stop the first |
| **Sentinel** `agent/ire-sentinel.mjs` | report files | runCheck on an interval | overlapping checks; a report may be older than it looks |
| **LiquidityToken** `furbiworld-token/src` | balances, pair, lock | transfer with fee, liquify, launch | reentrancy through the router |
| **Others** | | cw20/cw721 wrappers, create page, brokers catalogue and waitlist, CLI, simulation, generated code | forwarders, file writers, test generators |

Interactions: the message server calls the bank, account and distribution
keepers synchronously inside one message; a message runs on a branch of the
store which baseapp writes or drops. Genesis and migration call the same
keeper. The broker pages talk to an injected wallet and through it to another
chain (id 4663); of `ire-1` they only ask public quotes. The other pages and the
sentinel read the node (through the explorer's proxy) and write nothing to it.

What makes each part correct:

- **Messages**: supply equals the balances; no coin stays in the module account;
  metadata, index and admin of a denom agree; coins leave an account and supply
  changes only by the hand that may; a denom keeps its creator and its admin
  hands over itself.
- **Genesis and migration**: the new chain is the old one.
- **Activation**: an activation stands on a mined payment, of the address and
  token it is kept for, one payment per agent; a payment made is not lost.
- **Desk**: what is kept under an agent is of its own skill and rests on a quote that
  was received; an activated agent gets to work.
- **Pages**: what a page shows is what one look at the node could have shown, and
  in the end it is the look of now; nothing is invented when answers are missing.
- **Sentinel**: healthy only if every endpoint was; an alarm is raised and stays.

The hazards are listed with their lines in PROJECT.json.

## 2. Modules

| Module | What it models |
|---|---|
| `TokenFactory` | one action per message handler, whole; the bank's MsgSend between them |
| `TokenFactoryTx` | the handlers call by call on a branch; implements `TokenFactory` |
| `TokenFactoryGenesis` | `TokenFactory` with export, import and migration |
| `FiniteSumsProofs` | lemmas: sums over finite sets, as the folds of the community modules compute them |
| `TokenFactoryProofs` | theorems of `TokenFactory`, and what its operations do to the sum of the balances |
| `TokenFactoryTxProofs` | theorems of `TokenFactoryTx`, the refinement of `TokenFactory` among them |
| `TokenFactoryGenesisProofs` | theorems of `TokenFactoryGenesis` |
| `BrokersActivation` | the activation of an agent, one action per stretch of code between awaits |
| `BrokersActivationProofs` | theorems of `BrokersActivation` |
| `BrokersDesk` | the desk of an activated agent: overlapping runs, heartbeat, intents |
| `BrokersDeskProofs` | theorems of `BrokersDesk` |
| `Node` | the chain, the pool and the network as the pages see them (external) |
| `Pages` | what the pages share: polls in slots, a timer that does not wait |
| `Markets`, `Wallet`, `Mempool`, `Boards`, `IdPage` | the pages, one action per stretch between awaits |
| `Sentinel` | the watchdog, whose checks are polls too |
| `HonestView` | abstract: a page that looks at the chain in one step |
| `Site` | composes node, pages and sentinel; the refinement to `HonestView` |
| `SiteProofs` | theorems of `Site`: sentinel, profile page, points page, the detail of the mempool page |
| `FeedProofs` | theorems of `Site` about lists: markets, wallet and mempool implement `HonestView`; the wallet's list, the cards of markets |
| `MC...` | instances of these for TLC |

### Token factory

`bal` and `supply` are the bank's, `meta` is its denom metadata (the handlers
use its presence as "the denom exists"), `admin` the authority records (a
missing record reads as an empty admin, as `GetAuthorityMetadata` returns it),
`index` the creator store, `params` the creation fee. `signer` is history: it
lets action properties speak about who moved what. Addresses exist twice in the
code, as bech32 strings (`msg.Sender != GetAdmin()` compares these) and as
accounts (coins are kept under these); one account has a lower-case and an
upper-case string. `Addrs` and `Accounts`, joined by `AccountOf`, keep them
apart, and the instance has a user with two strings. The flags a
keeper is built with never change: `enabledCapabilities` takes one of
`CapabilitySets` at the start. `app/tokenfactory.go` enables `enable_metadata` and
`enable_burn_from` for ire-1; the instances also take all four.

Failing messages change nothing and are no steps of `TokenFactory`.
`TokenFactoryTx` justifies this: there the calls run one by one on
`tx.branch`; a failing call leads to `Rollback`, success to `Commit`, and
`Abandon` stands for a node that stops or an optimistic execution that is thrown
away (`app/app.go`). The run checks `Spec` as a property of `TxSpec`: the mapping
is the identity on the committed store.

Abstractions: the creation fee has one denom; gas, events and queries are left
out (running out of gas is `Abandon`); a metadata record is a model value;
`ValidateBasic` is the shape of the messages that exist. Genesis states have no
coins of unlisted factory denoms and none in the module account, and the
messages are signed by users or, for governance, by the gov account.

`TokenFactoryGenesis` adds the exported `file` (with the exporter's index, which
the code does not export, as history), the module `version` a chain starts with,
and `halted` for a panicking upgrade handler. A chain at version 1 runs the same
handlers. The bank's genesis is external and restores what it exported.

### Brokers activation

`address` and `id` are `state.address` and `state.id`, `store` the activation
records in `localStorage` by the two parts of their key; `verifying` the
verifications that `refreshActivation` has started and whose answers are
outstanding (with the record each read); `act` and `recover` hold the local
variables of the one `onActivate` (its button is disabled meanwhile) and of
`recoverActivationFromTx`. Code that reads `state.address` after an `await` reads
`address` in that later action, code that captured it reads the handler's record:
the difference is what the module is about. `startAgentDesk` shows the paid
token while it works and returns to the previous one (`act.prev`).

`Open` reloads the page with any account and token: handlers die, storage and
chain stay. It is also the crash between two steps of a handler. Failed requests
are the `Idle` alternatives of each step and `VerificationFails`. The payments
are those the site makes, with the right recipient and value; a pasted hash is
one of them. Left out: chain ids, texts, the waitlist sign-up that follows, and
the desk, whose only effects here are a further refresh (`DeskPassEnds`) and the
shown token. `mode`, fixed at the start, says what the page meets: a wallet that changes
account under the open page (`SwitchesInPage`), a visitor who uses the recover button
(`Recovers`), nodes at different heights (`RpcLags`). A property that holds only without
one of them says so.

### Brokers desk

`desk` is one record: `opened` is the `?id=` of the console, `token` is `state.id`,
`account` `state.address`, `beat` the token of `state.deskTimer`'s closure,
`lastTicket` the ticket on the page. `paper`, `tickets` and `working` are the
`localStorage` records of these kinds by account (or `Null` for "unsigned") and
token; a quote is represented by the skill it was made for, a ticket (`Ticket`) by that
and the token id it bears, which is the page's when the ticket is made. `activated`
are the pairs with a confirmed record: how they come about is `BrokersActivation`,
here `Pay`/`Paid` and `Recovered` stand for the two ways.

Each handler that waits is a record in `polls`. `Run` is a desk run waiting for its
quote with the `id` that `runBrokerDesk` and `onPaper` captured; `kind` says who
waits for it (the button, `startAgentDesk`, the recovery, the intent) and `back` is
the `prev` that `startAgentDesk` restores, or the token of the intent. `QuoteAnswer`
does everything up to the handler's next await: quote and ticket filed (`Quoted`), ticket
from the newest stored quote (`Ticketed`), mark and heartbeat and `finally`
(`Started`), and `refreshActivation`, which begins another run while the agent is not
WORKING. `Key` reads the account at that time, as `storageKey` does. Left out:
openLanding, the activated and my-brokers pages, chain ids, and the renewed
`refreshActivation` between a payment's hash and its receipt (it would begin one
more run of the page's token).

### Pages and sentinel

One page is open (`page`) and its polls in flight are in `polls`; `shown` is what it
shows of the chain. `fetch` has no deadline and a timer does not wait, so each await is
a step of its own and polls overtake each other. A poll keeps in its record what
the code keeps in local variables: the height it read, the pool it read. The chain
has no reorganisations, so a block cached by height is the block. `Node` saves a block
first and updates the pool after it: between, `/unconfirmed_txs` still has what
the block has. `up` covers both the node and the network; every request asks it when
it is answered.

`Markets` keeps the events of the last poll in `shown.evs` and computes the board
from them as `reconstruct` does on every render; `shown.windowMin` is the first height
of the window it announces, which is longer than the one it reads. `Wallet` has `address`, `balance`
(the address it was asked for) and `balanceError`; `setAddress`, localStorage and
the URL are one variable. `Mempool` follows the selection and its `enrichTx` requests.
`Boards` has the pages that write in stretches. `IdPage` records per form field
where its text comes from; who signed a transaction (`Sender`) is known to the properties
only, because the page looks for the address anywhere in the bytes. `Sentinel` abstracts an endpoint's answer to whether
its check would pass; OpenAI's assessment changes no verdict and is a delay. While the
disk is not `writable` a verdict is lost, and with the first one the process
(`SnNotWritten`); a report is written whole or not at all.
Histories (`sent`, `clicked`, `entered`, `since`) are only for the properties.

Points are scored as the code does, by what the bytes contain: docs/POINTS.md:14 says "Memo
starts with `IREINSCRIBE1`", and `Marks` of a transaction is what `scoreTx` finds
anywhere in it.

Left out: layout, row selection and copy buttons, the highlight of a cube (it moves when
the request of its click ends, `mempool.js:272-273`, and the next poll sets it by the
selection again; the detail itself is modelled), the commands that forms put together,
the explorer's balance form, static files of `server.mjs`.

`HonestView` is the promise: in one step a page sees a prefix of the chain as long as it
says, all of its window, and as pending only what was submitted and is in no block
below that height. It does not promise two things that the texts of markets do: that
the window is the announced one, and that nothing is both pending and confirmed
(section 4). `Site` defines `Seen`, what markets, wallet and mempool show, and
`HonestViewSpec` is `HonestView!Spec` with that mapping. `HonestViewSpec` and
`EventuallyCurrent` therefore speak of the blocks a page reads (for markets at most
`MetaCap`); `BalanceSettles` of the wallet's balance and its whole list.

## 3. Runs

| Run | Question | Bounds |
|---|---|---|
| `tokenfactory` | do records, coins and authority stay right, with the flags of ire-1 and with all? | 2 users (3 strings) and gov, 2 denoms and uire, amount 1, supply limit 1, 3 fees |
| `tokenfactory_tx` | do the call-by-call handlers implement the atomic ones? | 1 user, gov, the module account's own string, 1 denom, limit 2, both flag sets |
| `genesis` | does a chain survive export and import at any time? | 1 user with 2 strings, 1 denom, any number of exports and imports |
| `genesis_metadata`, `migration_panic` | two statements of tests and comments the code does not keep | as `genesis` |
| `brokers_activation` | do activations stand on the right payments, with recoveries and one account per visit; and what survives account switches in an open page and a lagging node? | 2 wallets, 2 tokens, 2 payments, 1 transfer, 1 verification in flight, the modes `{"recovers"}` and `{"switches", "lags"}` |
| `brokers_reopened` | is a mined payment confirmed in the end? | 1 wallet, 2 tokens, 2 payments |
| `brokers_desk` | is everything filed under the right agent and on a quote, and does the agent get to work? | 2 tokens and consoles, 1 account, 2 handlers waiting |
| `site_pages` | do pages and sentinel tell the truth, and the present truth in the end? | 3 transactions, 3 blocks, 2 polls, windows of 2 or 3 blocks, 2 addresses and two texts that are none, 2 endpoints |
| `brokers_payer`, `brokers_reuse` | two statements of the page the code does not keep | 1 payment |
| `id_profile` | is the profile shown for an address of that address? (it is not) | 2 addresses, 3 profiles, two of them in one block |

Why the bounds suffice: a supply limit of one lets mint, burn and overflow all
happen, and two holders of one coin already distinguish every mover; the
call-by-call run has a limit of two. Two denoms let the fee be paid in a
factory denom while another is created. Each violated broker statement needs only
one payment; the passing runs have two payments over two tokens and two wallets,
enough to mix up any pair of them, and the model treats wallets alike, which makes
the symmetry sound (it is not used with liveness). Each mode of `brokers_activation` leaves
out what one of its properties excludes; the theorems are about every mode. Supply is exact only up to the
limit: `MaxInt` stands for 2^256 - 1.

Two polls are enough for one to overtake another, and a window of two
in a chain of three makes blocks leave it (for markets the limit is `MetaCap`, the
20 metas a node returns at most, which is the smaller one there too). The
transactions are an open, a bet and a resolve; each page gets those that matter to it
(`Posted`), so that they can be pending, in blocks in both orders, and dropped.
On the desk the account is unknown after a load and then reported, which is the
switch a run may be caught in; the other token comes by another console or by recovery,
and its runs overlap with the first one's. Further handlers only repeat what two do, and the proofs
of section 5 hold for any number.

No run turns deadlock checking off.

**Fairness.** `brokers_reopened`: the owner reopens the agent
(`waitForReceipt` asks for it: "Reopen this agent after it confirms"), the page takes
the wallet's account after the load, and not every answer of the node is lost. The
last two are strong fairness because reopening may cut them off each time. Nothing is
assumed of mining, of `onActivate` or of recovery.

`brokers_desk` and `site_pages`: timers fire (`setInterval`) and each handler that waits
goes on, that is, its request is answered or fails; weak fairness for each. Nothing is
assumed of users, commits or the network: the liveness properties say what happens
*if* requests succeed from some time on (`up`), and the address, the token or the
problem stays. `EventuallyCurrent`, `BalanceSettles`, `AlarmRaised` and
`EventuallyWorking` are of that form.

## 4. Where code and text disagree

The first five have a run with a counterexample, whose name they bear. The others were
met while modelling; each says what a passing property shows nevertheless.

- `genesis_metadata`: import overwrites the metadata that the bank has imported.
- `migration_panic`: the migration panics for denoms that exist (an inverted flag).
- `brokers_payer`: a verification that returns after an account switch confirms the
  agent for the new account. The record goes under `storageKey`, not under the
  address it was read for.
- `brokers_reuse`: a hash that is pending for one token can be recovered for another;
  both are confirmed.
- `id_profile`: docs/PROFILE.md:15 says "Latest `op:set` from that address in the scan
  window is what `/id/` shows" (so does site/id/index.html:65). `id.js:111` takes any
  transaction with the address in its bytes, whoever signed it. Two more points of that
  sentence fail: the scan goes from the newest block down but takes the first match
  within a block (116), which is the older one; and only the fields a profile has are
  written (121-125), so that what was found for one address stays when another is
  entered, also when nothing is found for that one. `HonestForm`, which the code keeps,
  says less than the text: a field was typed or is of a profile in whose transaction an
  entered address occurs.
- `markets.js:417-421` joins the events of blocks and pool without comparing hashes.
  While the node commits a block both have its transactions, and a bet is counted twice
  until the next poll; docs/MARKETS.md:107-108 (and site/markets/index.html:84, 101) speak
  of summed `a` on buy inscriptions and of no fake book. That the volume of a card is the
  sum over its inscriptions is therefore false. `MkTallyExact` says what is counted, with
  no exception: each bet once, one reported both ways twice, and only bets of the newest
  block can be such.
- The markets page asks for the metas of 80 heights, a node returns those of the newest 20,
  and only these blocks are read. docs/MARKETS.md:102, site/markets/index.html:87 and the
  page's own scan window (`markets.js:266-268`, 426; `windowMin` in `Markets`) announce all
  80. A market or bet of an older announced block is missing. `HonestViewSpec` and
  `EventuallyCurrent` are about the blocks read (`MkSpan`).
- `buildBrokerTicket` reads `state.id` (`brokers.js:1043`) after the await of the quote.
  When the page has turned to another token by then, the ticket that is filed under the
  agent (of its own skill: `FiledUnderOwnSkill`) bears the other's id.
- `buildSkillIntent` (`brokers.js:1586`) prefers the ticket on the page to the one stored for
  the token. After a recovery of another token `state.id` is that token while the page may
  still have the first one's ticket, so an intent of one agent is put up for signing with a
  ticket of another; site/brokers/activate.html:145 speaks of signing "that ticket", the
  agent's own. `NoInventedMark` shows what remains true.
- `ownerOf` (`brokers.js:268`) returns null on any failure, so that the retries of
  `ownerOfWithRetry`, which wait for an exception, never happen.
- `migrations/v2/migrate.go` sets fixed parameters where its comment says that it
  carries the stored ones over (the subspace is not read): action `Migrate1to2`.
- `onActivate` ignores a `false` verification after a receipt of any status. With
  `RpcLags`, two calls may be answered by nodes at different heights, and a record may
  be confirmed on a reverted payment; `ConfirmedIsMined` therefore speaks of nodes that do
  not lag, and the weaker `ConfirmedHasReceipt` of all.
- `requireOwner` compares with the account of after the await, `onActivate` pays from
  that of before; `PaymentsByOwners` therefore excludes `SwitchesInPage`.

Consequently the payer and ownership are claimed for visits with one account only
(`~SwitchesInPage` in `PaidUnlessSwitched`, `PaymentsByOwners`, `RecordsOfOwners`), and one
payment per agent without recoveries (`OnePaymentUnlessRecovered`).

## 5. Proofs

Eight modules hold proofs, all about the specifications that the runs check. Each main
theorem goes the same way: an inductive invariant, the lemma that the initial states
have it, one lemma per operation that keeps it, and the property as a consequence.

**Assumptions.** Most are the shapes of constants. `AccountsAssumption`, `AddrsAssumption`,
`DenomsAssumption`, `AmountsAssumption`: module accounts contain the blocked ones,
these contain the token factory and distribution accounts, the gov account is an
unblocked module account, strings decode to accounts. `DeskAssumption`,
`BoundsAssumption`, `SiteAssumption`: what is entered, posted and opened is of the right
kind, and the blocks a page opens on hold each transaction once, in one block.
`PagesAssumption`, `BoardsAssumption`, `MarketsAssumption`: windows are naturals,
amounts too (`parseAmount` takes digits only), and a node returns some metas.
`WalletAssumption`: the addresses found in a transaction are some that `isIreAddr` accepts
(`extractAddrs` matches the same pattern), and "no balance" is none of them.
Besides these, `Accounts` and `Txs` are
finite, because supplies and scores are sums over them (addresses are byte strings of
bounded length), and the texts and records which stand for "none" are no transaction
or number (`IdAssumption`, `MempoolAssumption`). TLC evaluates all of them on the
instances. The numbers of accounts, denoms, agents, payments, polls in flight and
blocks, and the amounts, are any.

**Sums** (`FiniteSumsProofs`). `Total`, `ScoreIn`, `Amount` and `Staked` are folds over
sets. The fold is a `CHOOSE` of a recursive function on subsets; that it exists, that
it does not depend on the set it starts from, and that one element may be taken out or
two parts joined, is proved by looking at a smallest subset for which it fails. From
that follow the totals before and after a send, mint, burn or fee, and that a sum over
the places of a list without duplicates is the sum over its elements (`SumMoved`).

**Token factory** (`TokenFactoryProofs`).
- `TypeCorrect`: no balance goes below zero. Every subtraction is guarded by a
  balance; `ChargeForCreateDenom` needs a lemma of its own.
- `RecordsAgree`, `ModuleAccountStaysEmpty`: they are proved together, with `TypeOK`:
  that a denom which does not exist has no coins needs that it has no admin (nobody
  can mint), and the case of `CreateDenom` needs that nobody can have become admin
  before.
- `SupplyBacked`: the supply of each denom is the sum of its balances.
- `NoTheftHolds`, `OwnershipHolds`, `SupplyAuthorityHolds`: the action properties. The
  last needs that a new denom was not in the index before.

**Call by call** (`TokenFactoryTxProofs`). `MessagesAreAtomic` is `TxSpec => Spec`:
every theorem above holds of the handlers executed keeper call by keeper call. `TxInv`
says, per program counter (`Stage`), that the branch is the committed store with
exactly the calls so far applied, and that the checks made so far hold of the
committed store; at `Commit` this is the atomic action. `TxTypeCorrect` and
`BranchBacked` follow: in the middle of a handler no balance is negative and no coin
is lost.

**Genesis** (`TokenFactoryGenesisProofs`). The invariant of a running chain does not
suffice: a start must know what the file holds. `GenesisInv` adds `FileOk`, the
invariant of the chain that wrote the file, said of the file. `ImportFaithful` and
`RecordsAgreeAcrossChains` hold over any number of exports, starts and migrations.

**Brokers activation** (`BrokersActivationProofs`). `IInv` relates records, handlers
and verifications in flight to the payments made: each names a payment on the chain, a
pending record its own wallet's payment for its own agent, a confirmed one a payment
with a receipt, and `onActivate` knows after its receipt that there is one.
`TypeCorrect`, `ReceiptFirst` and `PendingNamesItsPayment` hold without restriction.
Each of the others is about the modes that lack one
complication, as its property says; that `mode` never changes is `ModeStays`:
- `OnlyMinedConfirmed`: `~RpcLags`, a node that answers from its newest block;
- `OnlyRecoveryReuses`: `~Recovers`. `OnePaymentPerAgent`, which `brokers_reuse` refutes
  with the recovery form, holds without it (`OwnInv`: each record names a payment of its
  own agent), so the form alone is to blame;
- `PaidFromItsAddress`, `OwnersPay` and `OwnersKeepRecords`: `~SwitchesInPage`. Run
  `brokers_payer` refutes the first when the account is switched while the page is
  open. `SteadyInv` says that the account a handler captured, the page's and the
  payer's are one.

**Brokers desk** (`BrokersDeskProofs`). `IInv` adds to the properties that each
handler in flight keeps a token, and `startAgentDesk`'s one a token to restore; that a
ticket up for signing rests on a quote received; and that the ticket on the page does. Quotes
are never thrown away (`Keeps`), which lets other handlers go on meanwhile.
`DeskTyped`, `FiledRight` and `NothingInvented` are the three invariants of the run.

**Pages and sentinel** (`SiteProofs`). `SiteInv` has one part per page, about what
that page's polls carry across their awaits; lemmas (`...Moves`) show that a step of
another page leaves the part alone, and `Grown` that blocks only are added, so what a
poll read stays right however late it is used.
- `SiteTyped`; `NeverFalselyHealthy`: what a check in flight took for well has been
  well since it began; `NoInventedProfile`: a scan looks for an address that was
  entered; `DetailOfTheClicked`: each `enrichTx` in flight knows a block that holds
  its transaction.
- `NoInventedPoints`: a scan's sums are at most the score of the blocks it has had.
  Adding a block needs that no transaction is in two blocks (`NodeInv`), else sums
  would exceed the score of the window.

**Lists of the pages** (`FeedProofs`). What these three theorems need of polls in flight is
`LookInv`, proved together with `SiteInv` (`LookInvariant`). `PoolInv` says of the node that
its pool holds nothing from below the newest block: it saves no block before the pool was
cleared of the last one (`PoolStep`). `Looking` says of a poll that its height is on the
chain, that what it took from the pool is in no block below that height, and that the
list which the wallet carries across its last await is one of that height. Blocks do not
change (`Grown`, `BlocksKept`), so this stays right however late the poll answers
(`LookingStays`): that a poll may be overtaken does no harm.
- `HonestPages`: `Spec => HonestViewSpec`. A write is a `Look` of `HonestView` at the
  poll's height (`MkShows`, `WaShows`, `MpShows`), a failure or another submitted address
  its `Clear`, and every other step leaves `Seen` alone.
- `NothingListedTwice`: `WaPage` keeps that the list on the page, and every list about to be
  written, names each transaction once; two blocks share none (`NodeInv`), and
  `PendingOnly` leaves out what the window has, though not what older blocks have.
- `TallyExact`: the sums that `reconstruct` makes along the list are the stakes of the
  transactions in it. The list is that of the blocks and that of the pool, neither of which
  lists anything twice, so each part is a sum over transactions (`PartStaked`), and what
  is in both parts counts twice (`AmountStaked`); that this is of the newest block only is
  `TwiceIsNewest`. Both sides and their pending part follow (`OddsExact`, `PendingExact`).
  `ResolveOldest` needs the order of the list, newest block first and the pool last: the
  last resolve of it is pending or of the oldest block.

They rest on lemmas about `Kept`, `FlattenSeq` and `SetToSeq` (`KeptFacts`, `FlattenFacts`,
`SetToSeqFacts`): which elements a filtered or joined list has, in what order, and when it
has none twice. The first two are recursive functions; that the recursion has a
solution is `NatRecursion`, and what it yields is shown by the least place that would
contradict it (`Induct`).

Only model-checked:
- liveness (`EventuallyCurrent`, `BalanceSettles`, `AlarmRaised`, `PendingResolves`,
  `EventuallyWorking`), which the prover does not treat;
- what the runs that expect a violation refute.

## 6. Plan and what is not modelled

1. `LiquidityToken`: transfer with fee, liquify under the lock, launch; conservation and
   no reentry.
2. `Upgrade`: two nodes, upgrade height, restart before and after; the handler with
   `Migrate1to2` of `TokenFactoryGenesis`.
3. A second tab in `BrokersActivation`; zero-height export.

Not modelled: skills and mandates, tables computed once from fixed inputs
whose own `assertUnique` checks every entry; the catalogue, scans and waitlist of the
brokers pages and the create page (display, no state that another part reads).
Not planned: the queries, the CLI, the simulation and generated code (no state of their
own), the CosmWasm wrappers (they forward to their base contracts).
