---------------------------- MODULE TokenFactory ----------------------------
(***************************************************************************)
(* The x/tokenfactory module of ire-1 at the granularity of delivered      *)
(* messages: one action per handler of x/tokenfactory/keeper/msg_server.go *)
(* together with the part of the bank keeper it drives, plus the plain     *)
(* bank transfer that moves coins between the handlers.                    *)
(*                                                                         *)
(* A message that fails changes nothing (its cached store is dropped), so  *)
(* a failing message is not a step here; the module TokenFactoryTx runs    *)
(* the handlers call by call and shows that they implement these atomic    *)
(* actions.                                                                *)
(*                                                                         *)
(* The code compares bech32 STRINGS for authority (msg.Sender against the  *)
(* stored admin) and 20-byte ACCOUNTS for coins. One account has several   *)
(* valid strings (lower case and upper case), so the two are kept apart.   *)
(***************************************************************************)
EXTENDS Integers, FiniteSetsExt

CONSTANTS
  Accounts,             \* the accounts that coins are kept under
  ModuleAccounts,       \* accounts of moduleAccPerms (permAddrs)
  Blocked,              \* accounts of blockAccAddrs
  TF,                   \* the tokenfactory module account
  Distr,                \* the distribution module account
  Addrs,                \* bech32 strings that decode to an account
  AccountOf,            \* the account each string decodes to
  Authority,            \* the string of the gov module account
  Denoms,               \* names factory/{creator}/{subdenom}
  CreatorOf,            \* the creator string inside each of those names
  CanonicalOf,          \* the string AccAddress.String() prints for a string's account
  Base,                 \* uire
  Metas, DefaultMeta,   \* bank metadata records; the one CreateDenom writes
  NoMeta,               \* bank has no metadata for the denom
  NoAddr,               \* the empty string
  CapabilitySets,       \* the sets of flags a keeper may be built with
  Amounts,              \* amounts a message may carry
  MaxInt,               \* the largest sdkmath.Int (2^256 - 1)
  Fees,                 \* denom creation fees that governance may set
  GenesisHoldings       \* how one denom may be spread at genesis

EnableSetMetadata             == "enable_metadata"
EnableForceTransfer           == "enable_force_transfer"
EnableBurnFrom                == "enable_burn_from"
EnableCommunityPoolFeeFunding == "enable_community_pool_fee_funding"

AllDenoms == Denoms \cup {Base}
FeeCoins  == [denom : AllDenoms, amount : Nat]

\* The coins of one denom over all accounts.
Total(holding) == MapThenSumSet(LAMBDA a : holding[a], Accounts)

ASSUME AccountsAssumption ==
  /\ IsFiniteSet(Accounts)
  /\ ModuleAccounts \subseteq Accounts
  /\ Blocked \subseteq ModuleAccounts
  /\ TF \in Blocked
  /\ Distr \in Blocked
  /\ TF # Distr

ASSUME AddrsAssumption ==
  /\ AccountOf \in [Addrs -> Accounts]
  /\ CanonicalOf \in [Addrs -> Addrs]
  /\ \A s \in Addrs : AccountOf[CanonicalOf[s]] = AccountOf[s]
  /\ NoAddr \notin Addrs
  /\ Authority \in Addrs
  /\ AccountOf[Authority] \in ModuleAccounts \ Blocked

ASSUME DenomsAssumption ==
  /\ CreatorOf \in [Denoms -> Addrs]
  /\ Base \notin Denoms
  /\ DefaultMeta \in Metas
  /\ NoMeta \notin Metas

ASSUME AmountsAssumption ==
  /\ MaxInt \in Nat
  /\ Amounts \subseteq Nat \ {0}
  /\ Fees \subseteq FeeCoins
  /\ \A h \in GenesisHoldings : h \in [Accounts -> Nat] /\ h[TF] = 0

-----------------------------------------------------------------------------
VARIABLES
  bal,     \* bank balances: denom, account
  supply,  \* bank supply: denom
  meta,    \* bank denom metadata
  admin,   \* tokenfactory authority metadata; NoAddr when absent or empty
  index,   \* tokenfactory creator index: pairs <<creator string, denom>>
  params,  \* the denom creation fee (amount 0: nil, no fee)
  enabledCapabilities,  \* the flags this keeper was built with
  signer   \* history: the account that signed the last message

vars == <<bal, supply, meta, admin, index, params, enabledCapabilities, signer>>

\* Strings a message can be signed under: user keys, and the gov module
\* account, which executes the messages of a passed proposal.
Signers == {s \in Addrs : AccountOf[s] \notin ModuleAccounts \/ s = Authority}

\* Operators named Faulty... are defects a change of the code could bring in;
\* no specification uses them. Each property is known to fail under one.
FaultyIsAdmin(s, d) == s = admin[d] \/ (d \in Denoms /\ s = CreatorOf[d])

IsFactory(d)   == d \in Denoms
IsAdmin(s, d)  == s = admin[d]
Created(d)     == meta[d] # NoMeta
Enabled(flag)  == flag \in enabledCapabilities

\* SendCoins of n of one denom: subtract, then add; from = to changes nothing.
Move(b, d, from, to, n) ==
  LET taken == [b EXCEPT ![d][from] = @ - n]
  IN  [taken EXCEPT ![d][to] = @ + n]

-----------------------------------------------------------------------------
(***************************************************************************)
(* Genesis. A set of denoms may be listed, each with an admin or with the  *)
(* empty admin (Validate accepts both); InitGenesis takes the creator of   *)
(* a listed denom from DeconstructDenom, which prints the address in its   *)
(* canonical form.                                                         *)
(***************************************************************************)
Init ==
  /\ \E listed \in SUBSET Denoms :
       /\ bal \in [AllDenoms -> GenesisHoldings]
       /\ \A d \in Denoms \ listed : \A a \in Accounts : bal[d][a] = 0
       /\ meta = [d \in AllDenoms |->
                    IF d \in listed \cup {Base} THEN DefaultMeta ELSE NoMeta]
       /\ admin \in [AllDenoms -> Addrs \cup {NoAddr}]
       /\ \A d \in AllDenoms \ listed : admin[d] = NoAddr
       /\ index = {<<CanonicalOf[CreatorOf[d]], d>> : d \in listed}
  /\ supply \in [AllDenoms -> 0..MaxInt]
  /\ \A d \in AllDenoms : supply[d] = Total(bal[d])
  /\ params \in Fees
  /\ enabledCapabilities \in CapabilitySets
  /\ signer = AccountOf[Authority]

\* The fee is collected and its burning forgotten.
FaultyChargeForCreateDenom(payer) ==
  /\ bal[params.denom][payer] >= params.amount
  /\ bal' = Move(bal, params.denom, payer, TF, params.amount)
  /\ UNCHANGED supply

(***************************************************************************)
(* chargeForCreateDenom: a nil fee is skipped; otherwise it goes to the    *)
(* community pool, or through the module account and is burned.            *)
(***************************************************************************)
ChargeForCreateDenom(payer) ==
  \/ /\ params.amount = 0
     /\ UNCHANGED <<bal, supply>>
  \/ /\ params.amount # 0
     /\ bal[params.denom][payer] >= params.amount
     /\ \/ /\ Enabled(EnableCommunityPoolFeeFunding)
           /\ bal' = Move(bal, params.denom, payer, Distr, params.amount)
           /\ UNCHANGED supply
        \/ /\ ~Enabled(EnableCommunityPoolFeeFunding)
           /\ bal' = [bal EXCEPT ![params.denom][payer] = @ - params.amount]
           /\ supply' = [supply EXCEPT ![params.denom] = @ - params.amount]

\* Existence looked up in the creator index instead of the bank.
FaultyCreateDenom(s, d) ==
  /\ CreatorOf[d] = s
  /\ <<s, d>> \notin index
  /\ ChargeForCreateDenom(AccountOf[s])
  /\ meta' = [meta EXCEPT ![d] = DefaultMeta]
  /\ admin' = [admin EXCEPT ![d] = s]
  /\ index' = index \cup {<<s, d>>}
  /\ signer' = AccountOf[s]
  /\ UNCHANGED <<params, enabledCapabilities>>

CreateDenom(s, d) ==
  /\ CreatorOf[d] = s
  /\ ~Created(d)
  /\ ChargeForCreateDenom(AccountOf[s])
  /\ meta' = [meta EXCEPT ![d] = DefaultMeta]
  /\ admin' = [admin EXCEPT ![d] = s]
  /\ index' = index \cup {<<s, d>>}
  /\ signer' = AccountOf[s]
  /\ UNCHANGED <<params, enabledCapabilities>>

\* mintTo. The empty MintToAddress means the sender: to = s. MintCoins
\* panics, and the message fails, when the supply leaves the Int range.
Mint(s, d, n, to) ==
  /\ Created(d)
  /\ IsAdmin(s, d)
  /\ IsFactory(d)
  /\ supply[d] + n <= MaxInt
  /\ AccountOf[to] \notin Blocked
  /\ bal' = [bal EXCEPT ![d][AccountOf[to]] = @ + n]
  /\ supply' = [supply EXCEPT ![d] = @ + n]
  /\ signer' = AccountOf[s]
  /\ UNCHANGED <<meta, admin, index, params, enabledCapabilities>>

\* Collecting from the holder without looking at its balance.
FaultyBurn(s, d, n, from) ==
  LET holder == IF from = NoAddr THEN AccountOf[s] ELSE AccountOf[from]
  IN  /\ IsAdmin(s, d)
      /\ from # NoAddr => Enabled(EnableBurnFrom)
      /\ IsFactory(d)
      /\ holder \notin Blocked
      /\ bal' = [bal EXCEPT ![d][holder] = @ - n]
      /\ supply' = [supply EXCEPT ![d] = @ - n]
      /\ signer' = AccountOf[s]
      /\ UNCHANGED <<meta, admin, index, params, enabledCapabilities>>

\* burnFrom. Naming any BurnFromAddress, the sender's own included, needs
\* the burn-from flag; only the empty address does not.
Burn(s, d, n, from) ==
  LET holder == IF from = NoAddr THEN AccountOf[s] ELSE AccountOf[from]
  IN  /\ IsAdmin(s, d)
      /\ from # NoAddr => Enabled(EnableBurnFrom)
      /\ IsFactory(d)
      /\ holder \notin Blocked
      /\ bal[d][holder] >= n
      /\ bal' = [bal EXCEPT ![d][holder] = @ - n]
      /\ supply' = [supply EXCEPT ![d] = @ - n]
      /\ signer' = AccountOf[s]
      /\ UNCHANGED <<meta, admin, index, params, enabledCapabilities>>

\* The capability flag not asked for; then, the module accounts not refused.
FaultyForceTransferFlag(s, d, n, from, to) ==
  /\ IsAdmin(s, d)
  /\ IsFactory(d)
  /\ AccountOf[from] \notin ModuleAccounts
  /\ AccountOf[to] \notin Blocked
  /\ bal[d][AccountOf[from]] >= n
  /\ bal' = Move(bal, d, AccountOf[from], AccountOf[to], n)
  /\ signer' = AccountOf[s]
  /\ UNCHANGED <<supply, meta, admin, index, params, enabledCapabilities>>

FaultyForceTransferModule(s, d, n, from, to) ==
  /\ Enabled(EnableForceTransfer)
  /\ IsAdmin(s, d)
  /\ IsFactory(d)
  /\ AccountOf[to] \notin Blocked
  /\ bal[d][AccountOf[from]] >= n
  /\ bal' = Move(bal, d, AccountOf[from], AccountOf[to], n)
  /\ signer' = AccountOf[s]
  /\ UNCHANGED <<supply, meta, admin, index, params, enabledCapabilities>>

\* forceTransfer: never out of a module account, never into a blocked one.
ForceTransfer(s, d, n, from, to) ==
  /\ Enabled(EnableForceTransfer)
  /\ IsAdmin(s, d)
  /\ IsFactory(d)
  /\ AccountOf[from] \notin ModuleAccounts
  /\ AccountOf[to] \notin Blocked
  /\ bal[d][AccountOf[from]] >= n
  /\ bal' = Move(bal, d, AccountOf[from], AccountOf[to], n)
  /\ signer' = AccountOf[s]
  /\ UNCHANGED <<supply, meta, admin, index, params, enabledCapabilities>>

\* NewAdmin is any valid address, never the empty string (ValidateBasic).
ChangeAdmin(s, d, new) ==
  /\ IsAdmin(s, d)
  /\ IsFactory(d)
  /\ admin' = [admin EXCEPT ![d] = new]
  /\ signer' = AccountOf[s]
  /\ UNCHANGED <<bal, supply, meta, index, params, enabledCapabilities>>

\* The sender not compared with the admin.
FaultySetDenomMetadata(s, d, m) ==
  /\ Enabled(EnableSetMetadata)
  /\ IsFactory(d)
  /\ meta' = [meta EXCEPT ![d] = m]
  /\ signer' = AccountOf[s]
  /\ UNCHANGED <<bal, supply, admin, index, params, enabledCapabilities>>

SetDenomMetadata(s, d, m) ==
  /\ Enabled(EnableSetMetadata)
  /\ IsFactory(d)
  /\ IsAdmin(s, d)
  /\ meta' = [meta EXCEPT ![d] = m]
  /\ signer' = AccountOf[s]
  /\ UNCHANGED <<bal, supply, admin, index, params, enabledCapabilities>>

\* Only governance: the authority string itself is compared.
UpdateParams(s, fee) ==
  /\ s = Authority
  /\ params' = fee
  /\ signer' = AccountOf[s]
  /\ UNCHANGED <<bal, supply, meta, admin, index, enabledCapabilities>>

\* The bank's MsgSend (SDK), which refuses blocked recipients.
Send(s, d, n, to) ==
  /\ AccountOf[to] \notin Blocked
  /\ bal[d][AccountOf[s]] >= n
  /\ bal' = Move(bal, d, AccountOf[s], AccountOf[to], n)
  /\ signer' = AccountOf[s]
  /\ UNCHANGED <<supply, meta, admin, index, params, enabledCapabilities>>

Next ==
  \E s \in Signers :
    \/ \E d \in Denoms : CreateDenom(s, d)
    \/ \E d \in AllDenoms, n \in Amounts :
         \/ \E to \in Addrs : Mint(s, d, n, to)
         \/ \E from \in Addrs \cup {NoAddr} : Burn(s, d, n, from)
         \/ \E from, to \in Addrs : ForceTransfer(s, d, n, from, to)
         \/ \E to \in Addrs : Send(s, d, n, to)
    \/ \E d \in AllDenoms :
         \/ \E new \in Addrs : ChangeAdmin(s, d, new)
         \/ \E m \in Metas : SetDenomMetadata(s, d, m)
    \/ \E fee \in Fees : UpdateParams(s, fee)

Spec == Init /\ [][Next]_vars

-----------------------------------------------------------------------------
\* The type of the state, and amounts that never go below zero: every
\* subtraction of the keeper is guarded by a balance check.
TypeOK ==
  /\ bal \in [AllDenoms -> [Accounts -> Nat]]
  /\ supply \in [AllDenoms -> Int]
  /\ meta \in [AllDenoms -> Metas \cup {NoMeta}]
  /\ admin \in [AllDenoms -> Addrs \cup {NoAddr}]
  /\ index \subseteq Addrs \X Denoms
  /\ params \in FeeCoins
  /\ enabledCapabilities \in CapabilitySets
  /\ signer \in Accounts

\* The supply of every denom is exactly what the accounts hold, and fits an
\* Int: mint, burn, fee and transfer each touch the two stores separately.
SupplyIsBacked ==
  \A d \in AllDenoms : supply[d] = Total(bal[d]) /\ supply[d] \in 0..MaxInt

\* Coins only pass through the tokenfactory module account: a coin left
\* there could never be moved again (it is blocked, and no handler spends it).
ModuleAccountEmpty == \A d \in AllDenoms : bal[d][TF] = 0

\* Bank metadata, creator index and authority record of a denom are written
\* by different calls and read by different handlers; they always agree: a
\* denom exists for Mint exactly when the index lists it, once, under its
\* creator, and nothing that does not exist has an admin or coins.
DenomRecordsAgree ==
  /\ \A d \in Denoms :
       /\ Created(d) <=> \E s \in Addrs : <<s, d>> \in index
       /\ \A s \in Addrs : <<s, d>> \in index =>
                             AccountOf[s] = AccountOf[CreatorOf[d]]
       /\ \A s, t \in Addrs : <<s, d>> \in index /\ <<t, d>> \in index => s = t
       /\ ~Created(d) => admin[d] = NoAddr /\ \A a \in Accounts : bal[d][a] = 0
  /\ admin[Base] = NoAddr

\* Coins leave an account only when its owner signs, or when the admin of
\* that denom signs and has a flag that allows it; no module account but the
\* unblocked ones can be burned from and none can be transferred from.
NoTheftStep ==
  \A d \in AllDenoms, a \in Accounts :
     bal'[d][a] < bal[d][a] /\ signer' # a =>
       /\ a \notin Blocked
       /\ admin[d] # NoAddr
       /\ AccountOf[admin[d]] = signer'
       /\ \/ Enabled(EnableBurnFrom) /\ supply'[d] < supply[d]
          \/ Enabled(EnableForceTransfer) /\ a \notin ModuleAccounts
NoTheft == [][NoTheftStep]_vars

\* The supply of a denom grows only when its admin signs; it shrinks only
\* when its admin signs or when the creator of a new denom pays the fee out
\* of that creator's own balance. The supply of uire therefore never grows.
SupplyAuthorityStep ==
  \A d \in AllDenoms :
     /\ supply'[d] > supply[d] =>
          admin[d] # NoAddr /\ AccountOf[admin[d]] = signer'
     /\ supply'[d] < supply[d] =>
          \/ admin[d] # NoAddr /\ AccountOf[admin[d]] = signer'
          \/ /\ index' # index
             /\ d = params.denom
             /\ supply[d] - supply'[d] = params.amount
             /\ bal[d][signer'] - bal'[d][signer'] = params.amount
SupplyAuthority == [][SupplyAuthorityStep]_vars

\* A denom is created once and keeps its creator; its admin and metadata
\* change only by the hand of its current admin, so a denom whose genesis
\* admin is empty is frozen for good.
OwnershipHandoverStep ==
  \A d \in Denoms :
     /\ Created(d) =>
          {s \in Addrs : <<s, d>> \in index'} = {s \in Addrs : <<s, d>> \in index}
     /\ Created(d) /\ <<admin'[d], meta'[d]>> # <<admin[d], meta[d]>> =>
          admin[d] # NoAddr /\ AccountOf[admin[d]] = signer'
OwnershipHandover == [][OwnershipHandoverStep]_vars

=============================================================================
