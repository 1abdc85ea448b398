------------------------ MODULE TokenFactoryTxProofs -----------------------
(***************************************************************************)
(* Machine-checked proofs about TokenFactoryTx, for every set of accounts, *)
(* denoms, flags, messages and amounts. The branch of a message in         *)
(* execution is described, call by call, as the keeper calls made so far   *)
(* applied to the store the message began on; two lemmas collapse a mint   *)
(* and a burn, which take a detour through the module account, into the    *)
(* effect of the atomic action.                                            *)
(***************************************************************************)
EXTENDS TokenFactoryTx, TokenFactoryProofs

\* A branch between two keeper calls: typed, and every supply backed.
Good(b) == b \in StoreType /\ Backed(b.bal, b.supply)

\* What one keeper call, or a whole message, does to a balance or a supply.
\* Named so that the prover compares them without looking inside.
Credit(b, d, a, n) == [b EXCEPT ![d][a] = @ + n]
Debit(b, d, a, n)  == [b EXCEPT ![d][a] = @ - n]
More(s, d, n) == [s EXCEPT ![d] = @ + n]
Less(s, d, n) == [s EXCEPT ![d] = @ - n]

\* SendCoins moves coins and leaves the rest of the branch alone.
LEMMA SentFields ==
  ASSUME NEW b \in StoreType, NEW d, NEW from, NEW to, NEW n
  PROVE  /\ Sent(b, d, from, to, n) = [b EXCEPT !.bal = Move(b.bal, d, from, to, n)]
         /\ Sent(b, d, from, to, n).bal = Move(b.bal, d, from, to, n)
         /\ Sent(b, d, from, to, n).supply = b.supply
         /\ Sent(b, d, from, to, n).meta = b.meta
         /\ Sent(b, d, from, to, n).admin = b.admin
         /\ Sent(b, d, from, to, n).index = b.index
         /\ Sent(b, d, from, to, n).params = b.params
  BY DEF StoreType, Sent

\* MintCoins credits the module account and the supply, nothing else.
LEMMA MintedFields ==
  ASSUME NEW b \in StoreType, NEW d, NEW n
  PROVE  /\ Minted(b, d, n).bal = Credit(b.bal, d, TF, n)
         /\ Minted(b, d, n).supply = More(b.supply, d, n)
         /\ Minted(b, d, n).meta = b.meta
         /\ Minted(b, d, n).admin = b.admin
         /\ Minted(b, d, n).index = b.index
         /\ Minted(b, d, n).params = b.params
  BY DEF StoreType, Minted, Credit, More

\* BurnCoins debits the module account and the supply, nothing else.
LEMMA BurnedFields ==
  ASSUME NEW b \in StoreType, NEW d, NEW n
  PROVE  /\ Burned(b, d, n).bal = Debit(b.bal, d, TF, n)
         /\ Burned(b, d, n).supply = Less(b.supply, d, n)
         /\ Burned(b, d, n).meta = b.meta
         /\ Burned(b, d, n).admin = b.admin
         /\ Burned(b, d, n).index = b.index
         /\ Burned(b, d, n).params = b.params
  BY DEF StoreType, Burned, Debit, Less

\* A SendCoins that the payer can afford keeps the branch good.
LEMMA SentGood ==
  ASSUME NEW b, Good(b), NEW d \in AllDenoms, NEW from \in Accounts,
         NEW to \in Accounts, NEW n \in Nat, b.bal[d][from] >= n
  PROVE  Good(Sent(b, d, from, to, n))
<1> DEFINE c == Move(b.bal, d, from, to, n)
<1>1. b \in StoreType /\ b.bal \in [AllDenoms -> [Accounts -> Nat]]
  BY DEF Good, StoreType
<1>2. Backed(c, b.supply)
  BY <1>1, MoveBacked DEF Good
<1>3. c \in [AllDenoms -> [Accounts -> Nat]]
  BY <1>1, MoveType
<1>4. Sent(b, d, from, to, n) = [b EXCEPT !.bal = c]
  BY <1>1, SentFields
<1> HIDE DEF c
<1>5. [b EXCEPT !.bal = c] \in StoreType
  BY <1>1, <1>3 DEF StoreType
<1>6. [b EXCEPT !.bal = c].bal = c /\ [b EXCEPT !.bal = c].supply = b.supply
  BY <1>1 DEF StoreType
<1> QED BY <1>2, <1>4, <1>5, <1>6 DEF Good

\* MintCoins keeps the branch good.
LEMMA MintedGood ==
  ASSUME NEW b, Good(b), NEW d \in AllDenoms, NEW n \in Nat
  PROVE  Good(Minted(b, d, n))
<1> DEFINE c == [b.bal EXCEPT ![d][TF] = @ + n]
           s == [b.supply EXCEPT ![d] = @ + n]
<1>1. /\ b \in StoreType /\ b.bal \in [AllDenoms -> [Accounts -> Nat]]
      /\ b.supply \in [AllDenoms -> Int] /\ TF \in Accounts
  BY AccountsAssumption DEF Good, StoreType
<1>2. Backed(c, s)
  BY <1>1, MintBacked DEF Good
<1>3. c \in [AllDenoms -> [Accounts -> Nat]] /\ s \in [AllDenoms -> Int]
  BY <1>1
<1>4. Minted(b, d, n) = [b EXCEPT !.bal = c, !.supply = s]
  BY <1>1 DEF Minted, StoreType
<1> HIDE DEF c, s
<1>5. [b EXCEPT !.bal = c, !.supply = s] \in StoreType
  BY <1>1, <1>3 DEF StoreType
<1>6. /\ [b EXCEPT !.bal = c, !.supply = s].bal = c
      /\ [b EXCEPT !.bal = c, !.supply = s].supply = s
  BY <1>1 DEF StoreType
<1> QED BY <1>2, <1>4, <1>5, <1>6 DEF Good

\* BurnCoins of no more than the module account holds keeps the branch good.
LEMMA BurnedGood ==
  ASSUME NEW b, Good(b), NEW d \in AllDenoms, NEW n \in Nat, b.bal[d][TF] >= n
  PROVE  Good(Burned(b, d, n))
<1> DEFINE c == [b.bal EXCEPT ![d][TF] = @ - n]
           s == [b.supply EXCEPT ![d] = @ - n]
<1>1. /\ b \in StoreType /\ b.bal \in [AllDenoms -> [Accounts -> Nat]]
      /\ b.supply \in [AllDenoms -> Int] /\ TF \in Accounts
  BY AccountsAssumption DEF Good, StoreType
<1>2. Backed(c, s)
  BY <1>1, BurnBacked DEF Good
<1>3. c \in [AllDenoms -> [Accounts -> Nat]] /\ s \in [AllDenoms -> Int]
  BY <1>1
<1>4. Burned(b, d, n) = [b EXCEPT !.bal = c, !.supply = s]
  BY <1>1 DEF Burned, StoreType
<1> HIDE DEF c, s
<1>5. [b EXCEPT !.bal = c, !.supply = s] \in StoreType
  BY <1>1, <1>3 DEF StoreType
<1>6. /\ [b EXCEPT !.bal = c, !.supply = s].bal = c
      /\ [b EXCEPT !.bal = c, !.supply = s].supply = s
  BY <1>1 DEF StoreType
<1> QED BY <1>2, <1>4, <1>5, <1>6 DEF Good
-----------------------------------------------------------------------------
\* Minting into the module account and sending on is, for the balances, one
\* credit of the recipient.
LEMMA MintNet ==
  ASSUME NEW b \in [AllDenoms -> [Accounts -> Nat]], NEW d \in AllDenoms,
         NEW a \in Accounts, a # TF, NEW n \in Nat
  PROVE  Move(Credit(b, d, TF, n), d, TF, a, n) = Credit(b, d, a, n)
<1> DEFINE c == Move([b EXCEPT ![d][TF] = @ + n], d, TF, a, n)
           e == [b EXCEPT ![d][a] = @ + n]
<1>1. c = [x \in AllDenoms |-> c[x]] /\ e = [x \in AllDenoms |-> e[x]]
  BY DEF Move
<1>2. \A x \in AllDenoms : x # d => c[x] = b[x] /\ e[x] = b[x]
  BY DEF Move
<1>3. c[d] = e[d]
  <2>1. c[d] = [x \in Accounts |-> c[d][x]] /\ e[d] = [x \in Accounts |-> e[d][x]]
    BY DEF Move
  <2>2. \A x \in Accounts : b[d][x] \in Nat
    OBVIOUS
  <2>3. \A x \in Accounts : c[d][x] = e[d][x]
    BY <2>2, AccountsAssumption DEF Move
  <2> HIDE DEF c, e
  <2> QED BY <2>1, <2>3
<1> HIDE DEF c, e
<1>4. \A x \in AllDenoms : c[x] = e[x]
  BY <1>2, <1>3
<1>5. c = e
  BY <1>1, <1>4
<1> QED BY <1>5 DEF c, e, Credit

\* Collecting into the module account and burning there is one debit of the
\* holder, whatever the module account held before.
LEMMA BurnNet ==
  ASSUME NEW b \in [AllDenoms -> [Accounts -> Nat]], NEW d \in AllDenoms,
         NEW a \in Accounts, a # TF, NEW n \in Nat
  PROVE  Debit(Move(b, d, a, TF, n), d, TF, n) = Debit(b, d, a, n)
<1> DEFINE c == [Move(b, d, a, TF, n) EXCEPT ![d][TF] = @ - n]
           e == [b EXCEPT ![d][a] = @ - n]
<1>1. c = [x \in AllDenoms |-> c[x]] /\ e = [x \in AllDenoms |-> e[x]]
  BY DEF Move
<1>2. \A x \in AllDenoms : x # d => c[x] = b[x] /\ e[x] = b[x]
  BY DEF Move
<1>3. c[d] = e[d]
  <2>1. c[d] = [x \in Accounts |-> c[d][x]] /\ e[d] = [x \in Accounts |-> e[d][x]]
    BY DEF Move
  <2>2. \A x \in Accounts : b[d][x] \in Nat
    OBVIOUS
  <2>3. \A x \in Accounts : c[d][x] = e[d][x]
    BY <2>2, AccountsAssumption DEF Move
  <2> HIDE DEF c, e
  <2> QED BY <2>1, <2>3
<1> HIDE DEF c, e
<1>4. \A x \in AllDenoms : c[x] = e[x]
  BY <1>2, <1>3
<1>5. c = e
  BY <1>1, <1>4
<1> QED BY <1>5 DEF c, e, Debit
-----------------------------------------------------------------------------
\* The account a mint is for and the one a burn takes from.
Recipient(m) == IF m.to = NoAddr THEN m.sender ELSE m.to
Holder(m)    == IF m.from = NoAddr THEN m.sender ELSE m.from

\* What each handler has established once its checks are behind it.
CreateOk(st, m) ==
  /\ m.type = "create" /\ st.meta[m.denom] = NoMeta
FeeOk(st, m) ==
  st.params.amount # 0 =>
    st.bal[st.params.denom][AccountOf[m.sender]] >= st.params.amount
FeeSent(st, m, to) ==
  Sent(st, st.params.denom, AccountOf[m.sender], to, st.params.amount)
\* The branch after the fee, and after each record CreateDenom writes.
FeePaid(st, caps, m) ==
  IF st.params.amount = 0 THEN st
  ELSE IF EnableCommunityPoolFeeFunding \in caps THEN FeeSent(st, m, Distr)
       ELSE Burned(FeeSent(st, m, TF), st.params.denom, st.params.amount)
WithMeta(b, m)  == [b EXCEPT !.meta[m.denom] = DefaultMeta]
WithAdmin(b, m) == [b EXCEPT !.admin[m.denom] = m.sender]
WithIndex(b, m) == [b EXCEPT !.index = @ \cup {<<m.sender, m.denom>>}]

MintOk(st, m) ==
  /\ m.type = "mint" /\ st.meta[m.denom] # NoMeta
  /\ m.sender = st.admin[m.denom] /\ IsFactory(m.denom)
MintFits(st, m) == st.supply[m.denom] + m.amount <= MaxInt
BurnOk(st, caps, m) ==
  /\ m.type = "burn" /\ m.sender = st.admin[m.denom]
  /\ m.from = NoAddr \/ EnableBurnFrom \in caps
  /\ IsFactory(m.denom) /\ AccountOf[Holder(m)] \notin Blocked
Collected(st, m) == Sent(st, m.denom, AccountOf[Holder(m)], TF, m.amount)
ForceOk(st, caps, m) ==
  /\ m.type = "force" /\ EnableForceTransfer \in caps
  /\ m.sender = st.admin[m.denom] /\ IsFactory(m.denom)
  /\ AccountOf[m.from] \notin ModuleAccounts /\ AccountOf[m.to] \notin Blocked

\* The branch b of message m at program counter pc: what the calls made so
\* far leave of the store st, and what they looked at on the way. A failed
\* message may have left anything good; it is dropped.
CreateStage(st, caps, pc, m, b) ==
  \/ pc = "charge" /\ b = st
  \/ /\ pc = "burnFee" /\ FeeOk(st, m) /\ b = FeeSent(st, m, TF)
     /\ st.params.amount # 0 /\ EnableCommunityPoolFeeFunding \notin caps
  \/ /\ FeeOk(st, m)
     /\ \/ pc = "writeMeta" /\ b = FeePaid(st, caps, m)
        \/ pc = "writeAdmin" /\ b = WithMeta(FeePaid(st, caps, m), m)
        \/ pc = "writeIndex" /\ b = WithAdmin(WithMeta(FeePaid(st, caps, m), m), m)
        \/ /\ pc = "done"
           /\ b = WithIndex(WithAdmin(WithMeta(FeePaid(st, caps, m), m), m), m)

MintStage(st, pc, m, b) ==
  \/ pc = "mintCoins" /\ b = st
  \/ /\ pc = "mintBlocked" /\ MintFits(st, m)
     /\ b = Minted(st, m.denom, m.amount)
  \/ /\ pc = "mintSend" /\ MintFits(st, m) /\ AccountOf[Recipient(m)] \notin Blocked
     /\ b = Minted(st, m.denom, m.amount)
  \/ /\ pc = "done" /\ MintFits(st, m) /\ AccountOf[Recipient(m)] \notin Blocked
     /\ b = Sent(Minted(st, m.denom, m.amount),
                 m.denom, TF, AccountOf[Recipient(m)], m.amount)

BurnStage(st, pc, m, b) ==
  \/ pc = "burnCollect" /\ b = st
  \/ /\ pc = "burnCoins" /\ st.bal[m.denom][AccountOf[Holder(m)]] >= m.amount
     /\ b = Collected(st, m)
  \/ /\ pc = "done" /\ st.bal[m.denom][AccountOf[Holder(m)]] >= m.amount
     /\ b = Burned(Collected(st, m), m.denom, m.amount)

ForceStage(st, pc, m, b) ==
  \/ pc = "forceSend" /\ b = st
  \/ /\ pc = "done" /\ st.bal[m.denom][AccountOf[m.from]] >= m.amount
     /\ b = Sent(st, m.denom, AccountOf[m.from], AccountOf[m.to], m.amount)

RestStage(st, caps, pc, m, b) ==
  \/ /\ pc = "done" /\ m.type = "send" /\ AccountOf[m.to] \notin Blocked
     /\ st.bal[m.denom][AccountOf[m.sender]] >= m.amount
     /\ b = Sent(st, m.denom, AccountOf[m.sender], AccountOf[m.to], m.amount)
  \/ /\ m.type = "changeAdmin" /\ m.sender = st.admin[m.denom]
     /\ \/ pc = "setAdmin" /\ b = st
        \/ pc = "done" /\ b = [st EXCEPT !.admin[m.denom] = m.new]
  \/ /\ m.type = "setMetadata" /\ m.sender = st.admin[m.denom]
     /\ EnableSetMetadata \in caps
     /\ \/ pc = "overwriteMeta" /\ b = st
        \/ pc = "done" /\ b = [st EXCEPT !.meta[m.denom] = m.meta]
  \/ /\ pc = "done" /\ m.type = "updateParams" /\ m.sender = Authority
     /\ b = [st EXCEPT !.params = m.fee]

\* At its first step a message has its branch fresh from the store.
Stage(st, caps, pc, m, b) ==
  \/ pc = m.type /\ b = st
  \/ pc = "failed"
  \/ CreateOk(st, m) /\ CreateStage(st, caps, pc, m, b)
  \/ MintOk(st, m) /\ MintStage(st, pc, m, b)
  \/ BurnOk(st, caps, m) /\ BurnStage(st, pc, m, b)
  \/ ForceOk(st, caps, m) /\ ForceStage(st, pc, m, b)
  \/ RestStage(st, caps, pc, m, b)

\* A message in execution on the store st.
InTx(st, caps, t) ==
  /\ t \in [pc : Steps, msg : Msgs, branch : StoreType]
  /\ Backed(t.branch.bal, t.branch.supply)
  /\ Stage(st, caps, t.pc, t.msg, t.branch)

\* The inductive invariant: the store satisfies the invariants of the atomic
\* actions, and the branch of the message in execution is what the calls made
\* so far leave of that very store. Nothing else writes the store while a
\* message runs, so the checks at its start still hold at its end.
TxInv ==
  /\ IInv /\ SupplyIsBacked
  /\ tx = Idle \/ InTx(Store, enabledCapabilities, tx)
-----------------------------------------------------------------------------
\* Whoever signs may receive coins: no signer is a blocked module account.
LEMMA SignersAreUnblocked ==
  \A s \in Signers : s \in Addrs /\ AccountOf[s] \in Accounts /\ AccountOf[s] \notin Blocked
  BY AccountsAssumption, AddrsAssumption DEF Signers

\* The fields of each kind of message.
LEMMA MsgKinds ==
  ASSUME NEW m \in Msgs
  PROVE  /\ m.type \in {"create", "mint", "burn", "force", "send", "changeAdmin",
                        "setMetadata", "updateParams"}
         /\ m.sender \in Signers
         /\ m.type = "create" => m.denom \in Denoms /\ CreatorOf[m.denom] = m.sender
         /\ m.type = "mint" => /\ m.denom \in AllDenoms /\ m.amount \in Amounts
                               /\ m.to \in MaybeAddrs
         /\ m.type = "burn" => /\ m.denom \in AllDenoms /\ m.amount \in Amounts
                               /\ m.from \in MaybeAddrs
         /\ m.type = "force" => /\ m.denom \in AllDenoms /\ m.amount \in Amounts
                                /\ m.from \in Addrs /\ m.to \in Addrs
         /\ m.type = "send" => /\ m.denom \in AllDenoms /\ m.amount \in Amounts
                               /\ m.to \in Addrs
         /\ m.type = "changeAdmin" => m.denom \in Denoms /\ m.new \in Addrs
         /\ m.type = "setMetadata" => m.denom \in Denoms /\ m.meta \in Metas
         /\ m.type = "updateParams" => m.fee \in Fees
  BY DEF Msgs

\* A message that only moves on stays in its invariant.
LEMMA GotoStep ==
  ASSUME NEW st, NEW caps, NEW t, InTx(st, caps, t), NEW pc \in Steps,
         Stage(st, caps, pc, t.msg, t.branch)
  PROVE  InTx(st, caps, [t EXCEPT !.pc = pc])
<1> DEFINE u == [t EXCEPT !.pc = pc]
<1>1. /\ u \in [pc : Steps, msg : Msgs, branch : StoreType]
      /\ u.pc = pc /\ u.msg = t.msg /\ u.branch = t.branch
  BY DEF InTx
<1> HIDE DEF u
<1>2. InTx(st, caps, u)
  BY <1>1 DEF InTx
<1> QED BY <1>2 DEF u

\* A message that writes its branch stays in its invariant.
LEMMA WriteStep ==
  ASSUME NEW st, NEW caps, NEW t, InTx(st, caps, t), NEW pc \in Steps,
         NEW b, Good(b), Stage(st, caps, pc, t.msg, b)
  PROVE  InTx(st, caps, [t EXCEPT !.pc = pc, !.branch = b])
<1> DEFINE u == [t EXCEPT !.pc = pc, !.branch = b]
<1>1. /\ u \in [pc : Steps, msg : Msgs, branch : StoreType]
      /\ u.pc = pc /\ u.msg = t.msg /\ u.branch = b
  BY DEF InTx, Good
<1> HIDE DEF u
<1>2. InTx(st, caps, u)
  BY <1>1 DEF InTx, Good
<1> QED BY <1>2 DEF u

\* A message may fail anywhere.
LEMMA FailStep ==
  ASSUME NEW st, NEW caps, NEW t, InTx(st, caps, t)
  PROVE  InTx(st, caps, [t EXCEPT !.pc = "failed"])
<1>1. "failed" \in Steps /\ Stage(st, caps, "failed", t.msg, t.branch)
  BY DEF Steps, Stage
<1> QED BY <1>1, GotoStep
-----------------------------------------------------------------------------
\* The store itself is a good branch.
LEMMA StoreGood == TypeOK /\ SupplyIsBacked => Good(Store)
  BY DEF TypeOK, SupplyIsBacked, Good, Backed, Store, StoreType

\* What is known while a message is in execution.
LEMMA InMessage ==
  ASSUME TxInv, tx # Idle
  PROVE  /\ InTx(Store, enabledCapabilities, tx)
         /\ Stage(Store, enabledCapabilities, tx.pc, tx.msg, tx.branch)
         /\ Good(tx.branch) /\ Good(Store) /\ tx.msg \in Msgs
  BY StoreGood DEF TxInv, InTx, Good, IInv

\* A SendCoins inside a handler: the next stage, or failure.
LEMMA TrySendStep ==
  ASSUME NEW st, NEW caps, InTx(st, caps, tx), NEW d \in AllDenoms,
         NEW from \in Accounts, NEW to \in Accounts, NEW n \in Nat, NEW pc \in Steps,
         TrySend(d, from, to, n, pc),
         tx.branch.bal[d][from] >= n =>
           Stage(st, caps, pc, tx.msg, Sent(tx.branch, d, from, to, n))
  PROVE  InTx(st, caps, tx')
<1>1. CASE /\ tx.branch.bal[d][from] >= n
           /\ tx' = [tx EXCEPT !.pc = pc, !.branch = Sent(tx.branch, d, from, to, n)]
  <2>1. Good(Sent(tx.branch, d, from, to, n))
    <3>1. Good(tx.branch)
      BY DEF InTx, Good
    <3> QED BY <1>1, <3>1, SentGood
  <2> QED BY <1>1, <2>1, WriteStep
<1>2. CASE tx' = [tx EXCEPT !.pc = "failed"]
  BY <1>2, FailStep
<1> QED BY <1>1, <1>2 DEF TrySend, Write, Goto, Branch

\* A BurnCoins inside a handler: the next stage, or failure.
LEMMA TryBurnStep ==
  ASSUME NEW st, NEW caps, InTx(st, caps, tx), NEW d \in AllDenoms,
         NEW n \in Nat, NEW pc \in Steps, TryBurnCoins(d, n, pc),
         tx.branch.bal[d][TF] >= n => Stage(st, caps, pc, tx.msg, Burned(tx.branch, d, n))
  PROVE  InTx(st, caps, tx')
<1>1. CASE /\ tx.branch.bal[d][TF] >= n
           /\ tx' = [tx EXCEPT !.pc = pc, !.branch = Burned(tx.branch, d, n)]
  <2>1. Good(Burned(tx.branch, d, n))
    <3>1. Good(tx.branch)
      BY DEF InTx, Good
    <3> QED BY <1>1, <3>1, BurnedGood
  <2> QED BY <1>1, <2>1, WriteStep
<1>2. CASE tx' = [tx EXCEPT !.pc = "failed"]
  BY <1>2, FailStep
<1> QED BY <1>1, <1>2 DEF TryBurnCoins, Write, Goto, Branch

\* A check inside a handler: the next stage, or failure.
LEMMA CheckStep ==
  ASSUME NEW st, NEW caps, InTx(st, caps, tx), NEW pc \in Steps, NEW ok,
         Check(ok, pc), ok => Stage(st, caps, pc, tx.msg, tx.branch)
  PROVE  InTx(st, caps, tx')
<1>1. CASE ok
  BY <1>1, GotoStep DEF Check, Goto
<1>2. CASE ~ok
  BY <1>2, FailStep DEF Check, Goto
<1> QED BY <1>1, <1>2

\* The steps of CreateDenom.
LEMMA CreateSteps ==
  ASSUME TxInv, tx # Idle,
         \/ ValidateCreateDenom \/ Charge \/ BurnFee \/ WriteDefaultMeta
         \/ WriteCreatorAsAdmin \/ AddDenomFromCreator
  PROVE  InTx(Store, enabledCapabilities, tx')
<1> DEFINE st == Store
           caps == enabledCapabilities
           m == tx.msg
           b == tx.branch
<1>1. /\ InTx(st, caps, tx) /\ Stage(st, caps, tx.pc, m, b)
      /\ Good(b) /\ Good(st) /\ m \in Msgs
  BY InMessage
<1> SUFFICES InTx(st, caps, tx')
  OBVIOUS
<1> HIDE DEF st, caps
<1>a. {"charge", "burnFee", "writeMeta", "writeAdmin", "writeIndex", "done"} \subseteq Steps
  BY DEF Steps
<1>2. tx.pc # "failed" /\ tx.pc # "done"
  BY DEF ValidateCreateDenom, Charge, BurnFee, WriteDefaultMeta, At,
         WriteCreatorAsAdmin, AddDenomFromCreator
<1>3. \/ CreateOk(st, m) /\ CreateStage(st, caps, tx.pc, m, b)
      \/ tx.pc = "create" /\ m.type = "create" /\ b = st
  <2>1. tx.pc \in {"create", "charge", "burnFee", "writeMeta", "writeAdmin", "writeIndex"}
    BY DEF ValidateCreateDenom, Charge, BurnFee, WriteDefaultMeta, At,
           WriteCreatorAsAdmin, AddDenomFromCreator
  <2>2. tx.pc = m.type => m.type = "create"
    BY <1>1, <2>1, MsgKinds
  <2>3. /\ ~MintStage(st, tx.pc, m, b) /\ ~BurnStage(st, tx.pc, m, b)
        /\ ~ForceStage(st, tx.pc, m, b) /\ ~RestStage(st, caps, tx.pc, m, b)
    BY <2>1 DEF MintStage, BurnStage, ForceStage, RestStage
  <2> QED BY <1>1, <1>2, <2>1, <2>2, <2>3 DEF Stage
<1>4. /\ m.type = "create" /\ m.denom \in Denoms /\ m.sender \in Signers
      /\ AccountOf[m.sender] \in Accounts
  BY <1>1, <1>3, MsgKinds, SignersAreUnblocked DEF CreateOk
<1>5. /\ st.params.denom \in AllDenoms /\ st.params.amount \in Nat
      /\ TF \in Accounts /\ Distr \in Accounts
  BY <1>1, AccountsAssumption DEF Good, StoreType, FeeCoins
<1>6. CASE ValidateCreateDenom
  <2>1. b = st
    BY <1>3, <1>6 DEF ValidateCreateDenom, At, CreateStage
  <2>2. b.meta[m.denom] = NoMeta => Stage(st, caps, "charge", m, b)
    BY <1>4, <2>1 DEF Stage, CreateOk, CreateStage
  <2> QED BY <1>1, <1>a, <1>6, <2>2, CheckStep
          DEF ValidateCreateDenom, Branch, Msg
<1>7. CASE Charge
  <2>1. b = st /\ CreateOk(st, m)
    BY <1>3, <1>7 DEF Charge, At, CreateStage
  <2>2. CASE st.params.amount = 0 /\ tx' = [tx EXCEPT !.pc = "writeMeta"]
    <3>1. Stage(st, caps, "writeMeta", m, b)
      BY <2>1, <2>2 DEF Stage, CreateStage, FeeOk, FeePaid
    <3> QED BY <1>1, <1>a, <2>2, <3>1, GotoStep
  <2>3. CASE /\ st.params.amount # 0 /\ EnableCommunityPoolFeeFunding \in caps
             /\ TrySend(st.params.denom, AccountOf[m.sender], Distr,
                        st.params.amount, "writeMeta")
    <3>1. b.bal[st.params.denom][AccountOf[m.sender]] >= st.params.amount =>
            Stage(st, caps, "writeMeta", m,
                  Sent(b, st.params.denom, AccountOf[m.sender], Distr, st.params.amount))
      BY <2>1, <2>3 DEF Stage, CreateStage, FeeOk, FeePaid, FeeSent
    <3> QED BY <1>1, <1>a, <1>4, <1>5, <2>3, <3>1, TrySendStep
  <2>4. CASE /\ st.params.amount # 0 /\ EnableCommunityPoolFeeFunding \notin caps
             /\ TrySend(st.params.denom, AccountOf[m.sender], TF,
                        st.params.amount, "burnFee")
    <3>1. b.bal[st.params.denom][AccountOf[m.sender]] >= st.params.amount =>
            Stage(st, caps, "burnFee", m,
                  Sent(b, st.params.denom, AccountOf[m.sender], TF, st.params.amount))
      BY <2>1, <2>4 DEF Stage, CreateStage, FeeOk, FeeSent
    <3> QED BY <1>1, <1>a, <1>4, <1>5, <2>4, <3>1, TrySendStep
  <2>5. \/ st.params.amount = 0 /\ tx' = [tx EXCEPT !.pc = "writeMeta"]
        \/ /\ st.params.amount # 0 /\ EnableCommunityPoolFeeFunding \in caps
           /\ TrySend(st.params.denom, AccountOf[m.sender], Distr,
                      st.params.amount, "writeMeta")
        \/ /\ st.params.amount # 0 /\ EnableCommunityPoolFeeFunding \notin caps
           /\ TrySend(st.params.denom, AccountOf[m.sender], TF,
                      st.params.amount, "burnFee")
    BY <1>7, <2>1 DEF Charge, Branch, Msg, Goto, Enabled, caps
  <2> QED BY <2>2, <2>3, <2>4, <2>5
<1>8. CASE BurnFee
  <2>1. /\ CreateOk(st, m) /\ FeeOk(st, m) /\ b = FeeSent(st, m, TF)
        /\ st.params.amount # 0 /\ EnableCommunityPoolFeeFunding \notin caps
    BY <1>3, <1>8 DEF BurnFee, At, CreateStage
  <2>2. b.params = st.params
    BY <1>1, <2>1, SentFields DEF FeeSent, Good
  <2>3. Stage(st, caps, "writeMeta", m, Burned(b, st.params.denom, st.params.amount))
    BY <2>1 DEF Stage, CreateStage, FeePaid
  <2>4. TryBurnCoins(st.params.denom, st.params.amount, "writeMeta")
    BY <1>8, <2>2 DEF BurnFee, Branch
  <2> QED BY <1>1, <1>a, <1>5, <2>3, <2>4, TryBurnStep
<1>9. CASE WriteDefaultMeta
  <2>1. Stage(st, caps, "writeAdmin", m, WithMeta(b, m))
    BY <1>3, <1>9 DEF WriteDefaultMeta, At, CreateStage, Stage
  <2>2. Good(WithMeta(b, m))
    BY <1>1, <1>4, DenomsAssumption DEF Good, WithMeta, StoreType, AllDenoms
  <2> QED BY <1>1, <1>a, <1>9, <2>1, <2>2, WriteStep
          DEF WriteDefaultMeta, Write, WithMeta, Branch, Msg
<1>10. CASE WriteCreatorAsAdmin
  <2>1. Stage(st, caps, "writeIndex", m, WithAdmin(b, m))
    BY <1>3, <1>10 DEF WriteCreatorAsAdmin, At, CreateStage, Stage
  <2>2. Good(WithAdmin(b, m))
    BY <1>1, <1>4, SignersAreUnblocked DEF Good, WithAdmin, StoreType, AllDenoms
  <2> QED BY <1>1, <1>a, <1>10, <2>1, <2>2, WriteStep
          DEF WriteCreatorAsAdmin, Write, WithAdmin, Branch, Msg
<1>11. CASE AddDenomFromCreator
  <2>1. Stage(st, caps, "done", m, WithIndex(b, m))
    BY <1>3, <1>11 DEF AddDenomFromCreator, At, CreateStage, Stage
  <2>2. Good(WithIndex(b, m))
    <3> DEFINE i == b.index \cup {<<m.sender, m.denom>>}
    <3>1. i \in SUBSET (Addrs \X Denoms)
      BY <1>1, <1>4, SignersAreUnblocked DEF Good, StoreType
    <3>2. WithIndex(b, m) = [b EXCEPT !.index = i]
      BY DEF WithIndex
    <3> HIDE DEF i
    <3> QED BY <1>1, <3>1, <3>2 DEF Good, StoreType
  <2> QED BY <1>1, <1>a, <1>11, <2>1, <2>2, WriteStep
          DEF AddDenomFromCreator, Write, WithIndex, Branch, Msg
<1> QED BY <1>6, <1>7, <1>8, <1>9, <1>10, <1>11

\* The steps of Mint.
LEMMA MintSteps ==
  ASSUME TxInv, tx # Idle, MintChecks \/ MintCoins \/ MintBlockedAddr \/ MintSend
  PROVE  InTx(Store, enabledCapabilities, tx')
<1> DEFINE st == Store
           caps == enabledCapabilities
           m == tx.msg
           b == tx.branch
<1>1. /\ InTx(st, caps, tx) /\ Stage(st, caps, tx.pc, m, b)
      /\ Good(b) /\ Good(st) /\ m \in Msgs
  BY InMessage
<1> SUFFICES InTx(st, caps, tx')
  OBVIOUS
<1> HIDE DEF st, caps
<1>2. {"mintCoins", "mintBlocked", "mintSend", "done"} \subseteq Steps
  BY DEF Steps
<1>3. \/ MintOk(st, m) /\ MintStage(st, tx.pc, m, b)
      \/ tx.pc = "mint" /\ m.type = "mint" /\ b = st
  <2>1. tx.pc \in {"mint", "mintCoins", "mintBlocked", "mintSend"}
    BY DEF MintChecks, MintCoins, MintBlockedAddr, MintSend, At
  <2>2. tx.pc = m.type => m.type = "mint"
    BY <1>1, <2>1, MsgKinds
  <2>3. /\ ~CreateStage(st, caps, tx.pc, m, b) /\ ~BurnStage(st, tx.pc, m, b)
        /\ ~ForceStage(st, tx.pc, m, b) /\ ~RestStage(st, caps, tx.pc, m, b)
    BY <2>1 DEF CreateStage, BurnStage, ForceStage, RestStage
  <2> QED BY <1>1, <2>1, <2>2, <2>3 DEF Stage
<1>4. /\ m.type = "mint" /\ m.denom \in AllDenoms /\ m.amount \in Nat
      /\ TF \in Accounts /\ Recipient(m) \in Addrs /\ AccountOf[Recipient(m)] \in Accounts
      /\ MintTo = Recipient(m)
  BY <1>1, <1>3, MsgKinds, SignersAreUnblocked, AmountsAssumption, AccountsAssumption,
     AddrsAssumption DEF MintOk, Recipient, MaybeAddrs, MintTo, Msg
<1>5. CASE MintChecks
  <2>1. b = st
    BY <1>3, <1>5 DEF MintChecks, At, MintStage
  <2>2. ASSUME b.meta[m.denom] # NoMeta, m.sender = b.admin[m.denom], IsFactory(m.denom)
        PROVE  Stage(st, caps, "mintCoins", m, b)
    BY <1>4, <2>1, <2>2 DEF Stage, MintOk, MintStage
  <2> QED BY <1>1, <1>2, <1>5, <2>2, CheckStep
          DEF MintChecks, Branch, Msg, SenderIsAdmin
<1>6. CASE MintCoins
  <2>1. b = st /\ MintOk(st, m)
    BY <1>3, <1>6 DEF MintCoins, At, MintStage
  <2>2. CASE /\ b.supply[m.denom] + m.amount <= MaxInt
             /\ tx' = [tx EXCEPT !.pc = "mintBlocked",
                                 !.branch = Minted(b, m.denom, m.amount)]
    <3>1. Stage(st, caps, "mintBlocked", m, Minted(b, m.denom, m.amount))
      BY <2>1, <2>2 DEF Stage, MintStage, MintFits
    <3>2. Good(Minted(b, m.denom, m.amount))
      BY <1>1, <1>4, MintedGood
    <3> QED BY <1>1, <1>2, <2>2, <3>1, <3>2, WriteStep
  <2>3. CASE tx' = [tx EXCEPT !.pc = "failed"]
    BY <1>1, <2>3, FailStep
  <2> QED BY <1>6, <2>2, <2>3 DEF MintCoins, Write, Goto, Branch, Msg
<1>7. CASE MintBlockedAddr
  <2>1. MintOk(st, m) /\ MintFits(st, m) /\ b = Minted(st, m.denom, m.amount)
    BY <1>3, <1>7 DEF MintBlockedAddr, At, MintStage
  <2>2. AccountOf[Recipient(m)] \notin Blocked => Stage(st, caps, "mintSend", m, b)
    BY <2>1 DEF Stage, MintStage
  <2> QED BY <1>1, <1>2, <1>4, <1>7, <2>2, CheckStep DEF MintBlockedAddr
<1>8. CASE MintSend
  <2>1. /\ MintOk(st, m) /\ MintFits(st, m) /\ AccountOf[Recipient(m)] \notin Blocked
        /\ b = Minted(st, m.denom, m.amount)
    BY <1>3, <1>8 DEF MintSend, At, MintStage
  <2>2. Stage(st, caps, "done", m,
              Sent(b, m.denom, TF, AccountOf[Recipient(m)], m.amount))
    BY <2>1 DEF Stage, MintStage
  <2>3. TrySend(m.denom, TF, AccountOf[Recipient(m)], m.amount, "done")
    BY <1>4, <1>8 DEF MintSend, Msg
  <2> QED BY <1>1, <1>2, <1>4, <2>2, <2>3, TrySendStep
<1> QED BY <1>5, <1>6, <1>7, <1>8

\* The steps of Burn.
LEMMA BurnSteps ==
  ASSUME TxInv, tx # Idle, BurnChecks \/ BurnCollect \/ BurnCoins
  PROVE  InTx(Store, enabledCapabilities, tx')
<1> DEFINE st == Store
           caps == enabledCapabilities
           m == tx.msg
           b == tx.branch
<1>1. /\ InTx(st, caps, tx) /\ Stage(st, caps, tx.pc, m, b)
      /\ Good(b) /\ Good(st) /\ m \in Msgs
  BY InMessage
<1> SUFFICES InTx(st, caps, tx')
  OBVIOUS
<1> HIDE DEF st, caps
<1>2. {"burnCollect", "burnCoins", "done"} \subseteq Steps
  BY DEF Steps
<1>3. \/ BurnOk(st, caps, m) /\ BurnStage(st, tx.pc, m, b)
      \/ tx.pc = "burn" /\ m.type = "burn" /\ b = st
  <2>1. tx.pc \in {"burn", "burnCollect", "burnCoins"}
    BY DEF BurnChecks, BurnCollect, BurnCoins, At
  <2>2. tx.pc = m.type => m.type = "burn"
    BY <1>1, <2>1, MsgKinds
  <2>3. /\ ~CreateStage(st, caps, tx.pc, m, b) /\ ~MintStage(st, tx.pc, m, b)
        /\ ~ForceStage(st, tx.pc, m, b) /\ ~RestStage(st, caps, tx.pc, m, b)
    BY <2>1 DEF CreateStage, MintStage, ForceStage, RestStage
  <2> QED BY <1>1, <2>1, <2>2, <2>3 DEF Stage
<1>4. /\ m.type = "burn" /\ m.denom \in AllDenoms /\ m.amount \in Nat
      /\ TF \in Accounts /\ Holder(m) \in Addrs /\ AccountOf[Holder(m)] \in Accounts
      /\ BurnFrom = Holder(m)
  BY <1>1, <1>3, MsgKinds, SignersAreUnblocked, AmountsAssumption, AccountsAssumption,
     AddrsAssumption DEF BurnOk, Holder, MaybeAddrs, BurnFrom, Msg
<1>5. CASE BurnChecks
  <2>1. b = st
    BY <1>3, <1>5 DEF BurnChecks, At, BurnStage
  <2>2. ASSUME m.sender = b.admin[m.denom], m.from = NoAddr \/ EnableBurnFrom \in caps,
               IsFactory(m.denom), AccountOf[Holder(m)] \notin Blocked
        PROVE  Stage(st, caps, "burnCollect", m, b)
    BY <1>4, <2>1, <2>2 DEF Stage, BurnOk, BurnStage
  <2> QED BY <1>1, <1>2, <1>4, <1>5, <2>2, CheckStep
          DEF BurnChecks, Branch, Msg, SenderIsAdmin, Enabled, caps
<1>6. CASE BurnCollect
  <2>1. b = st /\ BurnOk(st, caps, m)
    BY <1>3, <1>6 DEF BurnCollect, At, BurnStage
  <2>2. b.bal[m.denom][AccountOf[Holder(m)]] >= m.amount =>
          Stage(st, caps, "burnCoins", m,
                Sent(b, m.denom, AccountOf[Holder(m)], TF, m.amount))
    BY <2>1 DEF Stage, BurnStage, Collected
  <2>3. TrySend(m.denom, AccountOf[Holder(m)], TF, m.amount, "burnCoins")
    BY <1>4, <1>6 DEF BurnCollect, Msg
  <2> QED BY <1>1, <1>2, <1>4, <2>2, <2>3, TrySendStep
<1>7. CASE BurnCoins
  <2>1. /\ BurnOk(st, caps, m) /\ b = Collected(st, m)
        /\ st.bal[m.denom][AccountOf[Holder(m)]] >= m.amount
    BY <1>3, <1>7 DEF BurnCoins, At, BurnStage
  <2>2. Stage(st, caps, "done", m, Burned(b, m.denom, m.amount))
    BY <2>1 DEF Stage, BurnStage
  <2>3. TryBurnCoins(m.denom, m.amount, "done")
    BY <1>7 DEF BurnCoins, Msg
  <2> QED BY <1>1, <1>2, <1>4, <2>2, <2>3, TryBurnStep
<1> QED BY <1>5, <1>6, <1>7

\* The steps of ForceTransfer.
LEMMA ForceSteps ==
  ASSUME TxInv, tx # Idle, ForceChecks \/ ForceSend
  PROVE  InTx(Store, enabledCapabilities, tx')
<1> DEFINE st == Store
           caps == enabledCapabilities
           m == tx.msg
           b == tx.branch
<1>1. /\ InTx(st, caps, tx) /\ Stage(st, caps, tx.pc, m, b)
      /\ Good(b) /\ Good(st) /\ m \in Msgs
  BY InMessage
<1> SUFFICES InTx(st, caps, tx')
  OBVIOUS
<1> HIDE DEF st, caps
<1>2. {"forceSend", "done"} \subseteq Steps
  BY DEF Steps
<1>3. \/ ForceOk(st, caps, m) /\ ForceStage(st, tx.pc, m, b)
      \/ tx.pc = "force" /\ m.type = "force" /\ b = st
  <2>1. tx.pc \in {"force", "forceSend"}
    BY DEF ForceChecks, ForceSend, At
  <2>2. tx.pc = m.type => m.type = "force"
    BY <1>1, <2>1, MsgKinds
  <2>3. /\ ~CreateStage(st, caps, tx.pc, m, b) /\ ~MintStage(st, tx.pc, m, b)
        /\ ~BurnStage(st, tx.pc, m, b) /\ ~RestStage(st, caps, tx.pc, m, b)
    BY <2>1 DEF CreateStage, MintStage, BurnStage, RestStage
  <2> QED BY <1>1, <2>1, <2>2, <2>3 DEF Stage
<1>4. /\ m.type = "force" /\ m.denom \in AllDenoms /\ m.amount \in Nat
      /\ AccountOf[m.from] \in Accounts /\ AccountOf[m.to] \in Accounts
  BY <1>1, <1>3, MsgKinds, AmountsAssumption, AddrsAssumption DEF ForceOk
<1>5. CASE ForceChecks
  <2>1. b = st
    BY <1>3, <1>5 DEF ForceChecks, At, ForceStage
  <2>2. ASSUME EnableForceTransfer \in caps, m.sender = b.admin[m.denom],
               IsFactory(m.denom), AccountOf[m.from] \notin ModuleAccounts,
               AccountOf[m.to] \notin Blocked
        PROVE  Stage(st, caps, "forceSend", m, b)
    BY <1>4, <2>1, <2>2 DEF Stage, ForceOk, ForceStage
  <2> QED BY <1>1, <1>2, <1>5, <2>2, CheckStep
          DEF ForceChecks, Branch, Msg, SenderIsAdmin, Enabled, caps
<1>6. CASE ForceSend
  <2>1. b = st /\ ForceOk(st, caps, m)
    BY <1>3, <1>6 DEF ForceSend, At, ForceStage
  <2>2. b.bal[m.denom][AccountOf[m.from]] >= m.amount =>
          Stage(st, caps, "done", m,
                Sent(b, m.denom, AccountOf[m.from], AccountOf[m.to], m.amount))
    BY <2>1 DEF Stage, ForceStage
  <2>3. TrySend(m.denom, AccountOf[m.from], AccountOf[m.to], m.amount, "done")
    BY <1>6 DEF ForceSend, Msg
  <2> QED BY <1>1, <1>2, <1>4, <2>2, <2>3, TrySendStep
<1> QED BY <1>5, <1>6

\* The steps of the messages that make one keeper call.
LEMMA RestSteps ==
  ASSUME TxInv, tx # Idle,
         \/ ChangeAdminCheck \/ SetAdmin \/ SetMetadataChecks \/ OverwriteMeta
         \/ SetParams \/ BankSend
  PROVE  InTx(Store, enabledCapabilities, tx')
<1> DEFINE st == Store
           caps == enabledCapabilities
           m == tx.msg
           b == tx.branch
<1>1. /\ InTx(st, caps, tx) /\ Stage(st, caps, tx.pc, m, b)
      /\ Good(b) /\ Good(st) /\ m \in Msgs
  BY InMessage
<1> SUFFICES InTx(st, caps, tx')
  OBVIOUS
<1> HIDE DEF st, caps
<1>2. {"setAdmin", "overwriteMeta", "done"} \subseteq Steps
  BY DEF Steps
<1>3. /\ tx.pc \in {"changeAdmin", "setAdmin", "setMetadata", "overwriteMeta",
                    "updateParams", "send"}
      /\ RestStage(st, caps, tx.pc, m, b) \/ (tx.pc = m.type /\ b = st)
  <2>1. tx.pc \in {"changeAdmin", "setAdmin", "setMetadata", "overwriteMeta",
                   "updateParams", "send"}
    BY DEF ChangeAdminCheck, SetAdmin, SetMetadataChecks, OverwriteMeta, SetParams,
           BankSend, At
  <2>2. /\ ~CreateStage(st, caps, tx.pc, m, b) /\ ~MintStage(st, tx.pc, m, b)
        /\ ~BurnStage(st, tx.pc, m, b) /\ ~ForceStage(st, tx.pc, m, b)
    BY <2>1 DEF CreateStage, MintStage, BurnStage, ForceStage
  <2> QED BY <1>1, <2>1, <2>2 DEF Stage
<1>4. /\ m.type = "changeAdmin" => m.denom \in AllDenoms /\ m.new \in Addrs
      /\ m.type = "setMetadata" => m.denom \in AllDenoms /\ m.meta \in Metas
      /\ m.type = "updateParams" => m.fee \in FeeCoins
      /\ m.type = "send" => /\ m.denom \in AllDenoms /\ m.amount \in Nat
                            /\ AccountOf[m.to] \in Accounts
                            /\ AccountOf[m.sender] \in Accounts
  BY <1>1, MsgKinds, AmountsAssumption, AddrsAssumption, SignersAreUnblocked
     DEF AllDenoms
<1>5. CASE ChangeAdminCheck
  <2>1. m.type = "changeAdmin" /\ b = st
    BY <1>3, <1>5 DEF ChangeAdminCheck, At, RestStage
  <2>2. m.sender = b.admin[m.denom] => Stage(st, caps, "setAdmin", m, b)
    BY <2>1 DEF Stage, RestStage
  <2> QED BY <1>1, <1>2, <1>5, <2>2, CheckStep
          DEF ChangeAdminCheck, Branch, Msg, SenderIsAdmin
<1>6. CASE SetAdmin
  <2>1. m.type = "changeAdmin" /\ m.sender = st.admin[m.denom] /\ b = st
    BY <1>1, <1>3, <1>6, MsgKinds DEF SetAdmin, At, RestStage
  <2>2. Stage(st, caps, "done", m, [b EXCEPT !.admin[m.denom] = m.new])
    BY <2>1 DEF Stage, RestStage
  <2>3. Good([b EXCEPT !.admin[m.denom] = m.new])
    BY <1>1, <1>4, <2>1 DEF Good, StoreType
  <2> QED BY <1>1, <1>2, <1>6, <2>2, <2>3, WriteStep DEF SetAdmin, Write, Branch, Msg
<1>7. CASE SetMetadataChecks
  <2>1. m.type = "setMetadata" /\ b = st
    BY <1>3, <1>7 DEF SetMetadataChecks, At, RestStage
  <2>2. ASSUME EnableSetMetadata \in caps, m.sender = b.admin[m.denom]
        PROVE  Stage(st, caps, "overwriteMeta", m, b)
    BY <2>1, <2>2 DEF Stage, RestStage
  <2> QED BY <1>1, <1>2, <1>7, <2>2, CheckStep
          DEF SetMetadataChecks, Branch, Msg, SenderIsAdmin, Enabled, caps
<1>8. CASE OverwriteMeta
  <2>1. /\ m.type = "setMetadata" /\ m.sender = st.admin[m.denom]
        /\ EnableSetMetadata \in caps /\ b = st
    BY <1>1, <1>3, <1>8, MsgKinds DEF OverwriteMeta, At, RestStage
  <2>2. Stage(st, caps, "done", m, [b EXCEPT !.meta[m.denom] = m.meta])
    BY <2>1 DEF Stage, RestStage
  <2>3. Good([b EXCEPT !.meta[m.denom] = m.meta])
    BY <1>1, <1>4, <2>1 DEF Good, StoreType
  <2> QED BY <1>1, <1>2, <1>8, <2>2, <2>3, WriteStep
          DEF OverwriteMeta, Write, Branch, Msg
<1>9. CASE SetParams
  <2>1. m.type = "updateParams" /\ b = st
    BY <1>3, <1>9 DEF SetParams, At, RestStage
  <2>2. CASE /\ m.sender = Authority
             /\ tx' = [tx EXCEPT !.pc = "done", !.branch = [b EXCEPT !.params = m.fee]]
    <3>1. Stage(st, caps, "done", m, [b EXCEPT !.params = m.fee])
      BY <2>1, <2>2 DEF Stage, RestStage
    <3>2. Good([b EXCEPT !.params = m.fee])
      BY <1>1, <1>4, <2>1 DEF Good, StoreType
    <3> QED BY <1>1, <1>2, <2>2, <3>1, <3>2, WriteStep
  <2>3. CASE tx' = [tx EXCEPT !.pc = "failed"]
    BY <1>1, <2>3, FailStep
  <2> QED BY <1>9, <2>2, <2>3 DEF SetParams, Write, Goto, Branch, Msg
<1>10. CASE BankSend
  <2>1. m.type = "send" /\ b = st
    BY <1>3, <1>10 DEF BankSend, At, RestStage
  <2>2. CASE /\ AccountOf[m.to] \notin Blocked
             /\ TrySend(m.denom, AccountOf[m.sender], AccountOf[m.to], m.amount, "done")
    <3>1. b.bal[m.denom][AccountOf[m.sender]] >= m.amount =>
            Stage(st, caps, "done", m,
                  Sent(b, m.denom, AccountOf[m.sender], AccountOf[m.to], m.amount))
      BY <2>1, <2>2 DEF Stage, RestStage
    <3> QED BY <1>1, <1>2, <1>4, <2>1, <2>2, <3>1, TrySendStep
  <2>3. CASE tx' = [tx EXCEPT !.pc = "failed"]
    BY <1>1, <2>3, FailStep
  <2> QED BY <1>10, <2>2, <2>3 DEF BankSend, Goto, Msg
<1> QED BY <1>5, <1>6, <1>7, <1>8, <1>9, <1>10
-----------------------------------------------------------------------------
\* The branch the fee leaves: one account pays, nothing stays in the module.
LEMMA FeePaidFields ==
  ASSUME NEW st, Good(st), NEW caps, NEW m \in Msgs, m.type = "create", FeeOk(st, m)
  PROVE  LET b == FeePaid(st, caps, m)
             f == st.params
             p == AccountOf[m.sender]
         IN  /\ b \in StoreType
             /\ b.meta = st.meta /\ b.admin = st.admin /\ b.index = st.index
             /\ b.params = st.params
             /\ \/ f.amount = 0 /\ b = st
                \/ /\ f.amount # 0 /\ st.bal[f.denom][p] >= f.amount
                   /\ EnableCommunityPoolFeeFunding \in caps
                   /\ b.bal = Move(st.bal, f.denom, p, Distr, f.amount)
                   /\ b.supply = st.supply
                \/ /\ f.amount # 0 /\ st.bal[f.denom][p] >= f.amount
                   /\ EnableCommunityPoolFeeFunding \notin caps
                   /\ b.bal = Debit(st.bal, f.denom, p, f.amount)
                   /\ b.supply = Less(st.supply, f.denom, f.amount)
<1> DEFINE f == st.params
           p == AccountOf[m.sender]
           b == FeePaid(st, caps, m)
<1>1. /\ st \in StoreType /\ f.denom \in AllDenoms /\ f.amount \in Nat
      /\ p \in Accounts /\ p # TF /\ TF \in Accounts /\ Distr \in Accounts
      /\ st.bal \in [AllDenoms -> [Accounts -> Nat]]
  BY MsgKinds, SignersAreUnblocked, AccountsAssumption DEF Good, StoreType, FeeCoins
<1> HIDE DEF p
<1>2. CASE f.amount = 0
  BY <1>1, <1>2 DEF FeePaid
<1>3. CASE f.amount # 0 /\ EnableCommunityPoolFeeFunding \in caps
  <2>1. b = Sent(st, f.denom, p, Distr, f.amount)
    BY <1>3 DEF FeePaid, FeeSent, p
  <2>2. st.bal[f.denom][p] >= f.amount
    BY <1>3 DEF FeeOk, p
  <2>3. Good(b)
    BY <1>1, <2>1, <2>2, SentGood
  <2> QED BY <1>1, <1>3, <2>1, <2>2, <2>3, SentFields DEF Good, p
<1>4. CASE f.amount # 0 /\ EnableCommunityPoolFeeFunding \notin caps
  <2> DEFINE c == Sent(st, f.denom, p, TF, f.amount)
  <2>1. b = Burned(c, f.denom, f.amount)
    BY <1>4 DEF FeePaid, FeeSent, p
  <2>2. st.bal[f.denom][p] >= f.amount
    BY <1>4 DEF FeeOk, p
  <2>3. Good(c) /\ c \in StoreType
    BY <1>1, <2>2, SentGood DEF Good
  <2>4. /\ c.bal = Move(st.bal, f.denom, p, TF, f.amount) /\ c.supply = st.supply
        /\ c.meta = st.meta /\ c.admin = st.admin /\ c.index = st.index
        /\ c.params = st.params
    BY <1>1, SentFields
  <2> HIDE DEF b, c, f
  <2>5. b.bal = Debit(Move(st.bal, f.denom, p, TF, f.amount), f.denom, TF, f.amount)
    <3>1. b.bal = Debit(c.bal, f.denom, TF, f.amount)
      BY <2>1, <2>3, BurnedFields
    <3> QED BY <2>4, <3>1
  <2>6. b.bal = Debit(st.bal, f.denom, p, f.amount)
    BY <1>1, <2>5, BurnNet
  <2>7. /\ b.supply = Less(st.supply, f.denom, f.amount)
        /\ b.meta = st.meta /\ b.admin = st.admin /\ b.index = st.index
        /\ b.params = st.params
    BY <2>1, <2>3, <2>4, BurnedFields
  <2>8. c.bal[f.denom][TF] >= f.amount
    BY <1>1, <2>4 DEF Move
  <2>9. Good(b)
    BY <1>1, <2>1, <2>3, <2>8, BurnedGood
  <2> QED BY <1>4, <2>2, <2>6, <2>7, <2>9 DEF Good, b, f, p
<1> QED BY <1>2, <1>3, <1>4

SameCoins(st, b)   == b.bal = st.bal /\ b.supply = st.supply
SameRecords(st, b) == b.meta = st.meta /\ b.admin = st.admin /\ b.index = st.index

\* The branch of each message when its last call has returned, in terms of
\* the store it began on: the effect of the atomic action.
CreateDone(st, caps, m, b) ==
  /\ CreateOk(st, m) /\ FeeOk(st, m)
  /\ b.bal = FeePaid(st, caps, m).bal /\ b.supply = FeePaid(st, caps, m).supply
  /\ b.meta = [st.meta EXCEPT ![m.denom] = DefaultMeta]
  /\ b.admin = [st.admin EXCEPT ![m.denom] = m.sender]
  /\ b.index = st.index \cup {<<m.sender, m.denom>>}
  /\ b.params = st.params
MintDone(st, m, b) ==
  /\ MintOk(st, m) /\ MintFits(st, m) /\ AccountOf[Recipient(m)] \notin Blocked
  /\ b.bal = Credit(st.bal, m.denom, AccountOf[Recipient(m)], m.amount)
  /\ b.supply = More(st.supply, m.denom, m.amount)
  /\ SameRecords(st, b) /\ b.params = st.params
BurnDone(st, caps, m, b) ==
  /\ BurnOk(st, caps, m) /\ st.bal[m.denom][AccountOf[Holder(m)]] >= m.amount
  /\ b.bal = Debit(st.bal, m.denom, AccountOf[Holder(m)], m.amount)
  /\ b.supply = Less(st.supply, m.denom, m.amount)
  /\ SameRecords(st, b) /\ b.params = st.params
ForceDone(st, caps, m, b) ==
  /\ ForceOk(st, caps, m) /\ st.bal[m.denom][AccountOf[m.from]] >= m.amount
  /\ b.bal = Move(st.bal, m.denom, AccountOf[m.from], AccountOf[m.to], m.amount)
  /\ b.supply = st.supply /\ SameRecords(st, b) /\ b.params = st.params
SendDone(st, m, b) ==
  /\ m.type = "send" /\ AccountOf[m.to] \notin Blocked
  /\ st.bal[m.denom][AccountOf[m.sender]] >= m.amount
  /\ b.bal = Move(st.bal, m.denom, AccountOf[m.sender], AccountOf[m.to], m.amount)
  /\ b.supply = st.supply /\ SameRecords(st, b) /\ b.params = st.params
AdminDone(st, m, b) ==
  /\ m.type = "changeAdmin" /\ m.sender = st.admin[m.denom]
  /\ SameCoins(st, b) /\ b.admin = [st.admin EXCEPT ![m.denom] = m.new]
  /\ b.meta = st.meta /\ b.index = st.index /\ b.params = st.params
MetadataDone(st, caps, m, b) ==
  /\ m.type = "setMetadata" /\ m.sender = st.admin[m.denom]
  /\ EnableSetMetadata \in caps
  /\ SameCoins(st, b) /\ b.meta = [st.meta EXCEPT ![m.denom] = m.meta]
  /\ b.admin = st.admin /\ b.index = st.index /\ b.params = st.params
ParamsDone(st, m, b) ==
  /\ m.type = "updateParams" /\ m.sender = Authority
  /\ SameCoins(st, b) /\ SameRecords(st, b) /\ b.params = m.fee

\* When the last call of a message has returned, its branch is the store
\* after the atomic action.
LEMMA DoneFields ==
  ASSUME NEW st, Good(st), NEW caps, NEW m \in Msgs, NEW b,
         Stage(st, caps, "done", m, b)
  PROVE  \/ CreateDone(st, caps, m, b) \/ MintDone(st, m, b)
         \/ BurnDone(st, caps, m, b) \/ ForceDone(st, caps, m, b)
         \/ SendDone(st, m, b) \/ AdminDone(st, m, b)
         \/ MetadataDone(st, caps, m, b) \/ ParamsDone(st, m, b)
<1>1. st \in StoreType /\ st.bal \in [AllDenoms -> [Accounts -> Nat]]
  BY DEF Good, StoreType
<1>2. m.type # "done"
  BY MsgKinds
<1>3. CASE CreateOk(st, m) /\ CreateStage(st, caps, "done", m, b)
  <2> DEFINE c == FeePaid(st, caps, m)
  <2>1. FeeOk(st, m) /\ b = WithIndex(WithAdmin(WithMeta(c, m), m), m)
    BY <1>3 DEF CreateStage
  <2>2. /\ c \in StoreType /\ c.meta = st.meta /\ c.admin = st.admin
        /\ c.index = st.index /\ c.params = st.params
    BY <1>3, <2>1, FeePaidFields DEF CreateOk
  <2> HIDE DEF c
  <2>3. /\ b.bal = c.bal /\ b.supply = c.supply
        /\ b.meta = [c.meta EXCEPT ![m.denom] = DefaultMeta]
        /\ b.admin = [c.admin EXCEPT ![m.denom] = m.sender]
        /\ b.index = c.index \cup {<<m.sender, m.denom>>} /\ b.params = c.params
    BY <2>1, <2>2 DEF WithIndex, WithAdmin, WithMeta, StoreType
  <2>4. CreateDone(st, caps, m, b)
    BY <1>3, <2>1, <2>2, <2>3 DEF CreateDone, c
  <2> QED BY <2>4
<1>4. CASE MintOk(st, m) /\ MintStage(st, "done", m, b)
  <2> DEFINE a == AccountOf[Recipient(m)]
             c == Minted(st, m.denom, m.amount)
  <2>1. MintFits(st, m) /\ a \notin Blocked /\ b = Sent(c, m.denom, TF, a, m.amount)
    BY <1>4 DEF MintStage
  <2>2. m.denom \in AllDenoms /\ m.amount \in Nat /\ a \in Accounts /\ a # TF
    BY <1>4, <2>1, MsgKinds, SignersAreUnblocked, AmountsAssumption, AddrsAssumption,
       AccountsAssumption DEF MintOk, Recipient, MaybeAddrs
  <2>3. /\ c \in StoreType /\ c.bal = Credit(st.bal, m.denom, TF, m.amount)
        /\ c.supply = More(st.supply, m.denom, m.amount)
        /\ SameRecords(st, c) /\ c.params = st.params
    BY <1>1, <2>2, MintedFields, MintedGood DEF Good, SameRecords
  <2> HIDE DEF a, c
  <2>4. /\ b.bal = Move(c.bal, m.denom, TF, a, m.amount) /\ b.supply = c.supply
        /\ SameRecords(c, b) /\ b.params = c.params
    BY <2>1, <2>3, SentFields DEF SameRecords
  <2>5. b.bal = Credit(st.bal, m.denom, a, m.amount)
    BY <1>1, <2>2, <2>3, <2>4, MintNet
  <2>6. MintDone(st, m, b)
    BY <1>4, <2>1, <2>3, <2>4, <2>5 DEF MintDone, SameRecords, a
  <2> QED BY <2>6
<1>5. CASE BurnOk(st, caps, m) /\ BurnStage(st, "done", m, b)
  <2> DEFINE a == AccountOf[Holder(m)]
             c == Collected(st, m)
  <2>1. st.bal[m.denom][a] >= m.amount /\ b = Burned(c, m.denom, m.amount)
    BY <1>5 DEF BurnStage
  <2>2. m.denom \in AllDenoms /\ m.amount \in Nat /\ a \in Accounts /\ a # TF /\ TF \in Accounts
    BY <1>5, MsgKinds, SignersAreUnblocked, AmountsAssumption, AddrsAssumption,
       AccountsAssumption DEF BurnOk, Holder, MaybeAddrs
  <2>3. /\ c \in StoreType /\ c.bal = Move(st.bal, m.denom, a, TF, m.amount)
        /\ c.supply = st.supply /\ SameRecords(st, c) /\ c.params = st.params
    BY <1>1, <2>1, <2>2, SentFields, SentGood DEF Good, SameRecords, Collected
  <2> HIDE DEF a, c
  <2>4. /\ b.bal = Debit(c.bal, m.denom, TF, m.amount)
        /\ b.supply = Less(c.supply, m.denom, m.amount)
        /\ SameRecords(c, b) /\ b.params = c.params
    BY <2>1, <2>3, BurnedFields DEF SameRecords
  <2>5. b.bal = Debit(st.bal, m.denom, a, m.amount)
    BY <1>1, <2>2, <2>3, <2>4, BurnNet
  <2>6. BurnDone(st, caps, m, b)
    BY <1>5, <2>1, <2>3, <2>4, <2>5 DEF BurnDone, SameRecords, a
  <2> QED BY <2>6
<1>6. CASE ForceOk(st, caps, m) /\ ForceStage(st, "done", m, b)
  <2>1. ForceDone(st, caps, m, b)
    BY <1>1, <1>6, SentFields DEF ForceStage, ForceDone, SameRecords
  <2> QED BY <2>1
<1>7. CASE RestStage(st, caps, "done", m, b)
  <2>1. CASE m.type = "send"
    <3>1. SendDone(st, m, b)
      BY <1>1, <1>7, <2>1, SentFields DEF RestStage, SendDone, SameRecords
    <3> QED BY <3>1
  <2>2. CASE m.type = "changeAdmin"
    <3>1. AdminDone(st, m, b)
      BY <1>1, <1>7, <2>2 DEF RestStage, AdminDone, SameCoins, StoreType
    <3> QED BY <3>1
  <2>3. CASE m.type = "setMetadata"
    <3>1. MetadataDone(st, caps, m, b)
      BY <1>1, <1>7, <2>3 DEF RestStage, MetadataDone, SameCoins, StoreType
    <3> QED BY <3>1
  <2>4. CASE m.type = "updateParams"
    <3>1. ParamsDone(st, m, b)
      BY <1>1, <1>7, <2>4 DEF RestStage, ParamsDone, SameCoins, SameRecords, StoreType
    <3> QED BY <3>1
  <2> QED BY <1>7, <2>1, <2>2, <2>3, <2>4 DEF RestStage
<1> QED BY <1>2, <1>3, <1>4, <1>5, <1>6, <1>7 DEF Stage

\* Writing back the branch of a finished message is the atomic action of that
\* message, its guards included.
LEMMA CommitIsNext ==
  ASSUME TxInv, Commit
  PROVE  Next
<1> DEFINE m == tx.msg
           b == tx.branch
           caps == enabledCapabilities
<1>1. tx # Idle /\ tx.pc = "done"
  BY DEF Commit, At, Idle
<1>2. /\ Stage(Store, caps, "done", m, b) /\ Good(Store) /\ m \in Msgs
  BY <1>1, InMessage
<1>3. /\ bal' = b.bal /\ supply' = b.supply /\ meta' = b.meta /\ admin' = b.admin
      /\ index' = b.index /\ params' = b.params /\ signer' = AccountOf[m.sender]
      /\ UNCHANGED enabledCapabilities
  BY DEF Commit, Branch, Msg
<1>4. /\ Store.bal = bal /\ Store.supply = supply /\ Store.meta = meta
      /\ Store.admin = admin /\ Store.index = index /\ Store.params = params
  BY DEF Store
<1>5. m.sender \in Signers /\ m.sender \in Addrs /\ m.sender # NoAddr
  BY <1>2, MsgKinds, SignersAreUnblocked, AddrsAssumption
<1> DEFINE st == Store
<1> HIDE DEF st, b, m, caps
<1>6. CASE CreateDone(st, caps, m, b)
  <2>1. /\ FeePaid(st, caps, m).bal = b.bal /\ FeePaid(st, caps, m).supply = b.supply
        /\ m.type = "create" /\ m.denom \in Denoms /\ CreatorOf[m.denom] = m.sender
    BY <1>2, <1>6, MsgKinds DEF CreateDone, CreateOk
  <2>2. ChargeForCreateDenom(AccountOf[m.sender])
    <3> DEFINE c == FeePaid(st, caps, m)
               f == st.params
               p == AccountOf[m.sender]
    <3>1. \/ f.amount = 0 /\ c = st
          \/ /\ f.amount # 0 /\ st.bal[f.denom][p] >= f.amount
             /\ EnableCommunityPoolFeeFunding \in caps
             /\ c.bal = Move(st.bal, f.denom, p, Distr, f.amount)
             /\ c.supply = st.supply
          \/ /\ f.amount # 0 /\ st.bal[f.denom][p] >= f.amount
             /\ EnableCommunityPoolFeeFunding \notin caps
             /\ c.bal = Debit(st.bal, f.denom, p, f.amount)
             /\ c.supply = Less(st.supply, f.denom, f.amount)
      BY <1>2, <1>6, <2>1, FeePaidFields DEF CreateDone, st
    <3> HIDE DEF c, f, p
    <3>2. c.bal = bal' /\ c.supply = supply' /\ f = params
      BY <1>3, <1>4, <2>1 DEF c, f, st
    <3> QED BY <1>4, <3>1, <3>2
            DEF ChargeForCreateDenom, Enabled, Debit, Less, st, caps, p
  <2>3. CreateDenom(m.sender, m.denom)
    BY <1>3, <1>4, <1>6, <2>1, <2>2 DEF CreateDenom, CreateDone, CreateOk, Created, st
  <2> QED BY <1>5, <2>1, <2>3 DEF Next
<1>7. CASE MintDone(st, m, b)
  <2>1. /\ m.type = "mint" /\ m.denom \in AllDenoms /\ m.amount \in Amounts
        /\ Recipient(m) \in Addrs
    BY <1>2, <1>5, <1>7, MsgKinds DEF MintDone, MintOk, Recipient, MaybeAddrs
  <2>2. Mint(m.sender, m.denom, m.amount, Recipient(m))
    BY <1>3, <1>4, <1>7
    DEF MintDone, MintOk, MintFits, SameRecords, Credit, More, Mint, Created, IsAdmin, st
  <2> QED BY <1>5, <2>1, <2>2 DEF Next
<1>8. CASE BurnDone(st, caps, m, b)
  <2>1. /\ m.type = "burn" /\ m.denom \in AllDenoms /\ m.amount \in Amounts
        /\ m.from \in Addrs \cup {NoAddr}
    BY <1>2, <1>8, MsgKinds DEF BurnDone, BurnOk, MaybeAddrs
  <2>2. AccountOf[Holder(m)] =
          IF m.from = NoAddr THEN AccountOf[m.sender] ELSE AccountOf[m.from]
    BY DEF Holder
  <2>3. Burn(m.sender, m.denom, m.amount, m.from)
    BY <1>3, <1>4, <1>8, <2>2
    DEF BurnDone, BurnOk, SameRecords, Debit, Less, Burn, IsAdmin, Enabled, st, caps
  <2> QED BY <1>5, <2>1, <2>3 DEF Next
<1>9. CASE ForceDone(st, caps, m, b)
  <2>1. /\ m.type = "force" /\ m.denom \in AllDenoms /\ m.amount \in Amounts
        /\ m.from \in Addrs /\ m.to \in Addrs
    BY <1>2, <1>9, MsgKinds DEF ForceDone, ForceOk
  <2>2. ForceTransfer(m.sender, m.denom, m.amount, m.from, m.to)
    BY <1>3, <1>4, <1>9
    DEF ForceDone, ForceOk, SameRecords, ForceTransfer, IsAdmin, Enabled, st, caps
  <2> QED BY <1>5, <2>1, <2>2 DEF Next
<1>10. CASE SendDone(st, m, b)
  <2>1. /\ m.type = "send" /\ m.denom \in AllDenoms /\ m.amount \in Amounts
        /\ m.to \in Addrs
    BY <1>2, <1>10, MsgKinds DEF SendDone
  <2>2. Send(m.sender, m.denom, m.amount, m.to)
    BY <1>3, <1>4, <1>10 DEF SendDone, SameRecords, Send, st
  <2> QED BY <1>5, <2>1, <2>2 DEF Next
<1>11. CASE AdminDone(st, m, b)
  <2>1. m.type = "changeAdmin" /\ m.denom \in Denoms /\ m.new \in Addrs
    BY <1>2, <1>11, MsgKinds DEF AdminDone
  <2>2. ChangeAdmin(m.sender, m.denom, m.new)
    BY <1>3, <1>4, <1>11, <2>1 DEF AdminDone, SameCoins, ChangeAdmin, IsAdmin, IsFactory, st
  <2> QED BY <1>5, <2>1, <2>2 DEF Next, AllDenoms
<1>12. CASE MetadataDone(st, caps, m, b)
  <2>1. m.type = "setMetadata" /\ m.denom \in Denoms /\ m.meta \in Metas
    BY <1>2, <1>12, MsgKinds DEF MetadataDone
  <2>2. SetDenomMetadata(m.sender, m.denom, m.meta)
    BY <1>3, <1>4, <1>12, <2>1
    DEF MetadataDone, SameCoins, SetDenomMetadata, IsAdmin, IsFactory, Enabled, st, caps
  <2> QED BY <1>5, <2>1, <2>2 DEF Next, AllDenoms
<1>13. CASE ParamsDone(st, m, b)
  <2>1. m.type = "updateParams" /\ m.fee \in Fees
    BY <1>2, <1>13, MsgKinds DEF ParamsDone
  <2>2. UpdateParams(m.sender, m.fee)
    BY <1>3, <1>4, <1>13 DEF ParamsDone, SameCoins, SameRecords, UpdateParams, st
  <2> QED BY <1>5, <2>1, <2>2 DEF Next
<1> QED BY <1>2, <1>6, <1>7, <1>8, <1>9, <1>10, <1>11, <1>12, <1>13, DoneFields
        DEF st

\* Coins that move between other accounts leave the module account alone.
LEMMA MoveElsewhere ==
  ASSUME NEW b \in [AllDenoms -> [Accounts -> Nat]], NEW d \in AllDenoms,
         NEW from, NEW to, NEW n, from # TF, to # TF, NEW e \in AllDenoms
  PROVE  Move(b, d, from, to, n)[e][TF] = b[e][TF]
  BY AccountsAssumption DEF Move

\* Coins of other accounts leave the module account alone.
LEMMA CreditElsewhere ==
  ASSUME NEW b \in [AllDenoms -> [Accounts -> Nat]], NEW d \in AllDenoms,
         NEW a, NEW n, a # TF, NEW e \in AllDenoms
  PROVE  /\ Credit(b, d, a, n)[e][TF] = b[e][TF]
         /\ Debit(b, d, a, n)[e][TF] = b[e][TF]
  BY AccountsAssumption DEF Credit, Debit

\* A finished message leaves the module account as it found it.
LEMMA DoneEmpty ==
  ASSUME NEW st, Good(st), NEW caps, NEW m \in Msgs, NEW b,
         Stage(st, caps, "done", m, b), NEW e \in AllDenoms
  PROVE  b.bal[e][TF] = st.bal[e][TF]
<1>1. /\ st.bal \in [AllDenoms -> [Accounts -> Nat]] /\ st.params.denom \in AllDenoms
      /\ TF \in Blocked /\ Distr # TF /\ Blocked \subseteq ModuleAccounts
      /\ AccountOf[m.sender] # TF
  BY MsgKinds, SignersAreUnblocked, AccountsAssumption DEF Good, StoreType, FeeCoins
<1>2. CASE CreateDone(st, caps, m, b)
  <2> DEFINE c == FeePaid(st, caps, m)
             f == st.params
             p == AccountOf[m.sender]
  <2>1. \/ c = st
        \/ c.bal = Move(st.bal, f.denom, p, Distr, f.amount)
        \/ c.bal = Debit(st.bal, f.denom, p, f.amount)
    BY <1>2, FeePaidFields DEF CreateDone, CreateOk
  <2>2. b.bal = c.bal
    BY <1>2 DEF CreateDone
  <2> HIDE DEF c
  <2> QED BY <1>1, <2>1, <2>2, MoveElsewhere, CreditElsewhere
<1>3. CASE MintDone(st, m, b)
  <2>1. m.denom \in AllDenoms /\ AccountOf[Recipient(m)] # TF
    BY <1>1, <1>3, MsgKinds DEF MintDone, MintOk
  <2> QED BY <1>1, <1>3, <2>1, CreditElsewhere DEF MintDone
<1>4. CASE BurnDone(st, caps, m, b)
  <2>1. m.denom \in AllDenoms /\ AccountOf[Holder(m)] # TF
    BY <1>1, <1>4, MsgKinds DEF BurnDone, BurnOk
  <2> QED BY <1>1, <1>4, <2>1, CreditElsewhere DEF BurnDone
<1>5. CASE ForceDone(st, caps, m, b)
  <2>1. m.denom \in AllDenoms /\ AccountOf[m.from] # TF /\ AccountOf[m.to] # TF
    BY <1>1, <1>5, MsgKinds DEF ForceDone, ForceOk
  <2> QED BY <1>1, <1>5, <2>1, MoveElsewhere DEF ForceDone
<1>6. CASE SendDone(st, m, b)
  <2>1. m.denom \in AllDenoms /\ AccountOf[m.to] # TF
    BY <1>1, <1>6, MsgKinds DEF SendDone
  <2> QED BY <1>1, <1>6, <2>1, MoveElsewhere DEF SendDone
<1>7. CASE AdminDone(st, m, b) \/ MetadataDone(st, caps, m, b) \/ ParamsDone(st, m, b)
  BY <1>7 DEF AdminDone, MetadataDone, ParamsDone, SameCoins
<1> QED BY <1>2, <1>3, <1>4, <1>5, <1>6, <1>7, DoneFields
-----------------------------------------------------------------------------
\* A message begins on a fresh branch.
LEMMA BeginStep ==
  ASSUME TxInv, Begin
  PROVE  InTx(Store, enabledCapabilities, tx')
<1>1. PICK m \in Msgs : tx' = [pc |-> m.type, msg |-> m, branch |-> Store]
  BY DEF Begin
<1>2. Good(Store)
  BY StoreGood DEF TxInv, IInv
<1>3. m.type \in Steps
  BY MsgKinds DEF Steps
<1> DEFINE st == Store
<1>4. /\ tx' \in [pc : Steps, msg : Msgs, branch : StoreType]
      /\ tx'.pc = m.type /\ tx'.msg = m /\ tx'.branch = st
  BY <1>1, <1>2, <1>3 DEF Good
<1> HIDE DEF st
<1>5. Stage(st, enabledCapabilities, tx'.pc, tx'.msg, tx'.branch)
  BY <1>4 DEF Stage
<1> QED BY <1>2, <1>4, <1>5 DEF InTx, Good, st

\* Every keeper call, and every way a message can end, keeps the invariant
\* and is a step of the atomic specification or none.
LEMMA TxStep == TxInv /\ [TxNext]_txVars => [Next]_vars /\ TxInv'
<1> SUFFICES ASSUME TxInv, [TxNext]_txVars PROVE [Next]_vars /\ TxInv'
  OBVIOUS
<1>1. [Next]_vars
  BY CommitIsNext DEF TxNext, KeeperCall, Rollback, Abandon, txVars, vars
<1>2. IInv' /\ SupplyIsBacked'
  BY <1>1, NextIInv, NextSupplyIsBacked DEF TxInv, IInv
<1>3. ASSUME UNCHANGED vars
      PROVE  Store' = Store /\ enabledCapabilities' = enabledCapabilities
  BY <1>3 DEF vars, Store
<1>4. CASE Begin /\ UNCHANGED vars
  BY <1>1, <1>2, <1>3, <1>4, BeginStep DEF TxInv, InTx
<1>5. CASE KeeperCall
  <2>1. tx # Idle
    <3>1. tx.pc \in Steps
      BY <1>5 DEF KeeperCall, ValidateCreateDenom, Charge, BurnFee, WriteDefaultMeta,
         WriteCreatorAsAdmin, AddDenomFromCreator, MintChecks, MintCoins,
         MintBlockedAddr, MintSend, BurnChecks, BurnCollect, BurnCoins, ForceChecks,
         ForceSend, ChangeAdminCheck, SetAdmin, SetMetadataChecks, OverwriteMeta,
         SetParams, BankSend, At, Steps
    <3>2. Idle.pc \notin Steps
      BY DEF Idle, Steps
    <3> QED BY <3>1, <3>2
  <2>2. InTx(Store, enabledCapabilities, tx')
    BY <1>5, <2>1, CreateSteps, MintSteps, BurnSteps, ForceSteps, RestSteps
    DEF KeeperCall
  <2> QED BY <1>1, <1>2, <1>3, <1>5, <2>2 DEF KeeperCall, TxInv, InTx
<1>6. CASE Commit \/ Rollback \/ Abandon
  BY <1>1, <1>2, <1>6 DEF Commit, Rollback, Abandon, TxInv
<1>7. CASE UNCHANGED txVars
  <2>1. UNCHANGED vars /\ tx' = tx
    BY <1>7 DEF txVars, vars
  <2> QED BY <1>1, <1>2, <1>3, <2>1 DEF TxInv, InTx
<1> QED BY <1>4, <1>5, <1>6, <1>7 DEF TxNext

\* Genesis with no message in execution satisfies the invariant.
LEMMA TxInitInv == TxInit => TxInv
  BY InitIInv DEF TxInit, Init, TxInv, SupplyIsBacked

(***************************************************************************)
(* The invariant of the call-by-call execution, for every message of every *)
(* size against every store.                                               *)
(***************************************************************************)
THEOREM TxInvariant == TxSpec => []TxInv
<1>1. TxInv /\ [TxNext]_txVars => TxInv'
  BY TxStep
<1> QED BY TxInitInv, <1>1, PTL DEF TxSpec

(***************************************************************************)
(* The handlers executed call by call, with failures, rollbacks and        *)
(* crashes between any two keeper calls, implement the atomic actions: no  *)
(* partial effect of a message ever reaches the store, and what does reach *)
(* it passed every check against the store it is written to. All theorems  *)
(* about Spec therefore hold of this execution.                            *)
(***************************************************************************)
THEOREM MessagesAreAtomic == TxSpec => Spec
<1>1. TxInit => Init
  BY DEF TxInit
<1>2. TxInv /\ [TxNext]_txVars => [Next]_vars
  BY TxStep
<1> QED BY <1>1, <1>2, TxInvariant, PTL DEF TxSpec, Spec

(***************************************************************************)
(* The branch of a message is a store at every keeper call: no SendCoins   *)
(* or BurnCoins in the middle of a handler drives a balance below zero.    *)
(***************************************************************************)
THEOREM TxTypeCorrect == TxSpec => []TxTypeOK
<1>1. TxInv => TxTypeOK
  BY DEF TxInv, TxTypeOK, InTx, IInv, Branch
<1> QED BY <1>1, TxInvariant, PTL

(***************************************************************************)
(* Between any two keeper calls of a message the supply on its branch      *)
(* equals the balances on its branch, and a message that ends leaves no    *)
(* coin in transit in the module account.                                  *)
(***************************************************************************)
THEOREM BranchBacked == TxSpec => []BranchIsBacked
<1>1. TxInv => BranchIsBacked
  <2> SUFFICES ASSUME TxInv, tx # Idle, NEW d \in AllDenoms
               PROVE  /\ Branch.supply[d] = Total(Branch.bal[d])
                      /\ tx.pc = "done" => Branch.bal[d][TF] = 0
    BY DEF BranchIsBacked
  <2>1. InTx(Store, enabledCapabilities, tx) /\ Good(Store)
    BY InMessage
  <2>2. Branch.supply[d] = Total(Branch.bal[d])
    BY <2>1 DEF InTx, Backed, Branch
  <2>3. Store.bal[d][TF] = 0
    BY DEF TxInv, IInv, ModuleAccountEmpty, Store
  <2>4. tx.pc = "done" => tx.branch.bal[d][TF] = Store.bal[d][TF]
    BY <2>1, DoneEmpty DEF InTx
  <2> QED BY <2>2, <2>3, <2>4 DEF Branch
<1> QED BY <1>1, TxInvariant, PTL
=============================================================================
