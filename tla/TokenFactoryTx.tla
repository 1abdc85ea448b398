--------------------------- MODULE TokenFactoryTx ---------------------------
(***************************************************************************)
(* The tokenfactory handlers executed call by call. A message works on a   *)
(* branch of the store (the cached context of the SDK): every keeper call  *)
(* reads and writes the branch, an error drops it, success writes it back. *)
(* The order of the calls is the order in the source: mintTo, for example, *)
(* mints into the module account before it looks whether the recipient is  *)
(* blocked, and CreateDenom takes the fee before it writes any record.     *)
(*                                                                         *)
(* The specification TxSpec implements the atomic specification Spec of    *)
(* TokenFactory: nothing but a whole message ever reaches the store.       *)
(***************************************************************************)
EXTENDS TokenFactory

VARIABLE tx   \* the message in execution: its program counter, itself, its branch

txVars == <<bal, supply, meta, admin, index, params, enabledCapabilities, signer, tx>>

Store == [bal |-> bal, supply |-> supply, meta |-> meta, admin |-> admin,
          index |-> index, params |-> params]

MaybeAddrs == Addrs \cup {NoAddr}

\* The messages that pass ValidateBasic.
Msgs ==
  {m \in [type : {"create"}, sender : Signers, denom : Denoms] :
     CreatorOf[m.denom] = m.sender}
  \cup [type : {"mint"}, sender : Signers, denom : AllDenoms, amount : Amounts,
        to : MaybeAddrs]
  \cup [type : {"burn"}, sender : Signers, denom : AllDenoms, amount : Amounts,
        from : MaybeAddrs]
  \cup [type : {"force"}, sender : Signers, denom : AllDenoms, amount : Amounts,
        from : Addrs, to : Addrs]
  \cup [type : {"send"}, sender : Signers, denom : AllDenoms, amount : Amounts,
        to : Addrs]
  \cup [type : {"changeAdmin"}, sender : Signers, denom : Denoms, new : Addrs]
  \cup [type : {"setMetadata"}, sender : Signers, denom : Denoms, meta : Metas]
  \cup [type : {"updateParams"}, sender : Signers, fee : Fees]

Steps == {"create", "burnFee", "charge", "writeMeta", "writeAdmin", "writeIndex",
          "mint", "mintCoins", "mintBlocked", "mintSend",
          "burn", "burnCollect", "burnCoins", "force", "forceSend", "send",
          "changeAdmin", "setAdmin", "setMetadata", "overwriteMeta",
          "updateParams", "done", "failed"}

Idle == [pc |-> "idle"]

-----------------------------------------------------------------------------
At(pc)      == tx.pc = pc
Msg         == tx.msg
Branch      == tx.branch
Goto(pc)    == tx' = [tx EXCEPT !.pc = pc]
Write(b, pc) == tx' = [tx EXCEPT !.pc = pc, !.branch = b]
\* A guard of the code: go on, or return the error.
Check(ok, pc) == Goto(IF ok THEN pc ELSE "failed")

\* Bank keeper calls on the branch (SDK). Each returns the branch it leaves.
Sent(b, d, from, to, n) == [b EXCEPT !.bal = Move(@, d, from, to, n)]
Minted(b, d, n) == [b EXCEPT !.bal[d][TF] = @ + n, !.supply[d] = @ + n]
Burned(b, d, n) == [b EXCEPT !.bal[d][TF] = @ - n, !.supply[d] = @ - n]

\* Faulty: the subtraction that does not fail.
FaultyTrySend(d, from, to, n, pc) == Write(Sent(Branch, d, from, to, n), pc)

\* SendCoins fails when the payer is short, and the handler with it.
TrySend(d, from, to, n, pc) ==
  \/ /\ Branch.bal[d][from] >= n
     /\ Write(Sent(Branch, d, from, to, n), pc)
  \/ /\ Branch.bal[d][from] < n
     /\ Goto("failed")

TryBurnCoins(d, n, pc) ==
  \/ /\ Branch.bal[d][TF] >= n
     /\ Write(Burned(Branch, d, n), pc)
  \/ /\ Branch.bal[d][TF] < n
     /\ Goto("failed")

SenderIsAdmin == Msg.sender = Branch.admin[Msg.denom]

-----------------------------------------------------------------------------
\* A message starts on a fresh branch of the store.
Begin ==
  /\ At("idle")
  /\ \E m \in Msgs : tx' = [pc |-> m.type, msg |-> m, branch |-> Store]

(* CreateDenom: validateCreateDenom, chargeForCreateDenom,                 *)
(* createDenomAfterValidation.                                             *)
ValidateCreateDenom ==
  /\ At("create")
  /\ Check(Branch.meta[Msg.denom] = NoMeta, "charge")

Charge ==
  LET fee   == Branch.params
      payer == AccountOf[Msg.sender]
  IN  /\ At("charge")
      /\ \/ fee.amount = 0 /\ Goto("writeMeta")
         \/ /\ fee.amount # 0
            /\ Enabled(EnableCommunityPoolFeeFunding)
            /\ TrySend(fee.denom, payer, Distr, fee.amount, "writeMeta")
         \/ /\ fee.amount # 0
            /\ ~Enabled(EnableCommunityPoolFeeFunding)
            /\ TrySend(fee.denom, payer, TF, fee.amount, "burnFee")

BurnFee ==
  /\ At("burnFee")
  /\ TryBurnCoins(Branch.params.denom, Branch.params.amount, "writeMeta")

WriteDefaultMeta ==
  /\ At("writeMeta")
  /\ Write([Branch EXCEPT !.meta[Msg.denom] = DefaultMeta], "writeAdmin")

WriteCreatorAsAdmin ==
  /\ At("writeAdmin")
  /\ Write([Branch EXCEPT !.admin[Msg.denom] = Msg.sender], "writeIndex")

AddDenomFromCreator ==
  /\ At("writeIndex")
  /\ Write([Branch EXCEPT !.index = @ \cup {<<Msg.sender, Msg.denom>>}], "done")

(* Mint, then mintTo. *)
MintChecks ==
  /\ At("mint")
  /\ Check(/\ Branch.meta[Msg.denom] # NoMeta
           /\ SenderIsAdmin
           /\ IsFactory(Msg.denom), "mintCoins")

MintCoins ==
  /\ At("mintCoins")
  /\ \/ /\ Branch.supply[Msg.denom] + Msg.amount <= MaxInt
        /\ Write(Minted(Branch, Msg.denom, Msg.amount), "mintBlocked")
     \/ /\ Branch.supply[Msg.denom] + Msg.amount > MaxInt
        /\ Goto("failed")

MintTo == IF Msg.to = NoAddr THEN Msg.sender ELSE Msg.to

\* Faulty: the recipient not looked at.
FaultyMintBlockedAddr == At("mintBlocked") /\ Goto("mintSend")

MintBlockedAddr ==
  /\ At("mintBlocked")
  /\ Check(AccountOf[MintTo] \notin Blocked, "mintSend")

MintSend ==
  /\ At("mintSend")
  /\ TrySend(Msg.denom, TF, AccountOf[MintTo], Msg.amount, "done")

(* Burn, then burnFrom. *)
BurnFrom == IF Msg.from = NoAddr THEN Msg.sender ELSE Msg.from

BurnChecks ==
  /\ At("burn")
  /\ Check(/\ SenderIsAdmin
           /\ Msg.from = NoAddr \/ Enabled(EnableBurnFrom)
           /\ IsFactory(Msg.denom)
           /\ AccountOf[BurnFrom] \notin Blocked, "burnCollect")

\* Faulty: the coins are collected, BurnCoins is never called.
FaultyBurnCollect ==
  /\ At("burnCollect")
  /\ TrySend(Msg.denom, AccountOf[BurnFrom], TF, Msg.amount, "done")

BurnCollect ==
  /\ At("burnCollect")
  /\ TrySend(Msg.denom, AccountOf[BurnFrom], TF, Msg.amount, "burnCoins")

BurnCoins ==
  /\ At("burnCoins")
  /\ TryBurnCoins(Msg.denom, Msg.amount, "done")

(* ForceTransfer, then forceTransfer. *)
ForceChecks ==
  /\ At("force")
  /\ Check(/\ Enabled(EnableForceTransfer)
           /\ SenderIsAdmin
           /\ IsFactory(Msg.denom)
           /\ AccountOf[Msg.from] \notin ModuleAccounts
           /\ AccountOf[Msg.to] \notin Blocked, "forceSend")

ForceSend ==
  /\ At("forceSend")
  /\ TrySend(Msg.denom, AccountOf[Msg.from], AccountOf[Msg.to], Msg.amount, "done")

(* ChangeAdmin, SetDenomMetadata, UpdateParams, and the bank's MsgSend.    *)
ChangeAdminCheck == At("changeAdmin") /\ Check(SenderIsAdmin, "setAdmin")

SetAdmin ==
  /\ At("setAdmin")
  /\ Write([Branch EXCEPT !.admin[Msg.denom] = Msg.new], "done")

SetMetadataChecks ==
  /\ At("setMetadata")
  /\ Check(Enabled(EnableSetMetadata) /\ SenderIsAdmin, "overwriteMeta")

OverwriteMeta ==
  /\ At("overwriteMeta")
  /\ Write([Branch EXCEPT !.meta[Msg.denom] = Msg.meta], "done")

SetParams ==
  /\ At("updateParams")
  /\ \/ /\ Msg.sender = Authority
        /\ Write([Branch EXCEPT !.params = Msg.fee], "done")
     \/ /\ Msg.sender # Authority
        /\ Goto("failed")

BankSend ==
  /\ At("send")
  /\ \/ /\ AccountOf[Msg.to] \in Blocked
        /\ Goto("failed")
     \/ /\ AccountOf[Msg.to] \notin Blocked
        /\ TrySend(Msg.denom, AccountOf[Msg.sender], AccountOf[Msg.to],
                   Msg.amount, "done")

KeeperCall ==
  /\ \/ ValidateCreateDenom \/ Charge \/ BurnFee \/ WriteDefaultMeta
     \/ WriteCreatorAsAdmin \/ AddDenomFromCreator
     \/ MintChecks \/ MintCoins \/ MintBlockedAddr \/ MintSend
     \/ BurnChecks \/ BurnCollect \/ BurnCoins
     \/ ForceChecks \/ ForceSend
     \/ ChangeAdminCheck \/ SetAdmin \/ SetMetadataChecks \/ OverwriteMeta
     \/ SetParams \/ BankSend
  /\ UNCHANGED vars

(* The end of a message (SDK): the branch is written back or dropped. A    *)
(* node that stops in between, or that abandons an optimistic execution,   *)
(* drops it as well.                                                       *)
Commit ==
  /\ At("done")
  /\ bal' = Branch.bal
  /\ supply' = Branch.supply
  /\ meta' = Branch.meta
  /\ admin' = Branch.admin
  /\ index' = Branch.index
  /\ params' = Branch.params
  /\ signer' = AccountOf[Msg.sender]
  /\ tx' = Idle
  /\ UNCHANGED enabledCapabilities

Rollback ==
  /\ At("failed")
  /\ tx' = Idle
  /\ UNCHANGED vars

Abandon ==
  /\ ~At("idle")
  /\ tx' = Idle
  /\ UNCHANGED vars

TxInit == Init /\ tx = Idle

TxNext == (Begin /\ UNCHANGED vars) \/ KeeperCall \/ Commit \/ Rollback \/ Abandon

TxSpec == TxInit /\ [][TxNext]_txVars

-----------------------------------------------------------------------------
StoreType ==
  [bal : [AllDenoms -> [Accounts -> Nat]], supply : [AllDenoms -> Int],
   meta : [AllDenoms -> Metas \cup {NoMeta}],
   admin : [AllDenoms -> Addrs \cup {NoAddr}],
   index : SUBSET (Addrs \X Denoms), params : FeeCoins]

\* The type of the state, branch included.
TxTypeOK ==
  /\ TypeOK
  /\ \/ tx = Idle
     \/ /\ tx \in [pc : Steps, msg : Msgs, branch : {Branch}]
        /\ Branch \in StoreType

\* Inside a message the branch is never out of balance: between any two
\* keeper calls its supply equals its balances, and outside the module
\* account no coins are in transit.
BranchIsBacked ==
  tx # Idle =>
    \A d \in AllDenoms :
      /\ Branch.supply[d] = Total(Branch.bal[d])
      /\ tx.pc = "done" => Branch.bal[d][TF] = 0

=============================================================================
