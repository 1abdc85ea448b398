------------------------- MODULE TokenFactoryProofs -------------------------
(***************************************************************************)
(* Machine-checked proofs about TokenFactory, for every set of accounts,   *)
(* addresses, denoms, flags and amounts that satisfy its assumptions.      *)
(***************************************************************************)
EXTENDS TokenFactory, FiniteSumsProofs, TLAPS

(***************************************************************************)
(* The coins of a denom over all accounts: a number, which moves by n when *)
(* one account gets n more, and does not move when coins change hands.     *)
(***************************************************************************)
LEMMA TotalType ==
  ASSUME NEW h \in [Accounts -> Nat]
  PROVE  Total(h) \in Nat
<1>1. SumOver(h, Accounts) \in Nat
  BY AccountsAssumption, SumType
<1> QED BY <1>1 DEF SumOver, Total

\* n more for one account are n more over all accounts.
LEMMA TotalUpdate ==
  ASSUME NEW h \in [Accounts -> Int], NEW a \in Accounts, NEW n \in Int
  PROVE  Total([h EXCEPT ![a] = h[a] + n]) = Total(h) + n
<1>1. SumOver([h EXCEPT ![a] = h[a] + n], Accounts) = SumOver(h, Accounts) + n
  BY AccountsAssumption, SumUpdate
<1> QED BY <1>1 DEF SumOver, Total

\* n more of d for one account.
Plus(b, d, a, n) == [b EXCEPT ![d] = [b[d] EXCEPT ![a] = b[d][a] + n]]

\* Adding coins keeps the balances integers.
LEMMA PlusType ==
  ASSUME NEW b \in [AllDenoms -> [Accounts -> Int]], NEW d \in AllDenoms,
         NEW a \in Accounts, NEW n \in Int
  PROVE  Plus(b, d, a, n) \in [AllDenoms -> [Accounts -> Int]]
  BY DEF Plus

\* n more of d for one account are n more of d over all accounts.
LEMMA TotalPlus ==
  ASSUME NEW b \in [AllDenoms -> [Accounts -> Int]], NEW d \in AllDenoms,
         NEW a \in Accounts, NEW n \in Int
  PROVE  Total(Plus(b, d, a, n)[d]) = Total(b[d]) + n
<1>1. Plus(b, d, a, n)[d] = [b[d] EXCEPT ![a] = b[d][a] + n]
  BY DEF Plus
<1>2. b[d] \in [Accounts -> Int]
  OBVIOUS
<1>3. Total([b[d] EXCEPT ![a] = b[d][a] + n]) = Total(b[d]) + n
  BY <1>2, TotalUpdate
<1> QED BY <1>1, <1>3

\* Adding coins of d leaves the balances of the other denoms alone.
LEMMA PlusElsewhere ==
  ASSUME NEW b \in [AllDenoms -> [Accounts -> Int]], NEW d \in AllDenoms,
         NEW a \in Accounts, NEW n \in Int, NEW e \in AllDenoms, e # d
  PROVE  Plus(b, d, a, n)[e] = b[e]
  BY DEF Plus

\* Coins that change hands leave the total of every denom as it was.
LEMMA TotalMove ==
  ASSUME NEW b \in [AllDenoms -> [Accounts -> Nat]], NEW d \in AllDenoms,
         NEW from \in Accounts, NEW to \in Accounts, NEW n \in Nat,
         NEW e \in AllDenoms
  PROVE  Total(Move(b, d, from, to, n)[e]) = Total(b[e])
<1> DEFINE m == -n
           c == Plus(b, d, from, m)
<1>1. Move(b, d, from, to, n) = Plus(c, d, to, n)
  BY DEF Move, Plus
<1>2. b \in [AllDenoms -> [Accounts -> Int]] /\ m \in Int /\ n \in Int
  OBVIOUS
<1> HIDE DEF m
<1>3. c \in [AllDenoms -> [Accounts -> Int]]
  BY <1>2, PlusType
<1>4. Total(c[d]) = Total(b[d]) + m
  BY <1>2, TotalPlus
<1>5. CASE e = d
  <2> HIDE DEF c
  <2>1. Total(Plus(c, d, to, n)[d]) = Total(c[d]) + n
    BY <1>2, <1>3, TotalPlus
  <2>2. Total(b[d]) \in Nat
    BY TotalType
  <2> QED BY <1>1, <1>4, <1>5, <2>1, <2>2 DEF m
<1>6. CASE e # d
  <2>1. c[e] = b[e]
    BY <1>2, <1>6, PlusElsewhere
  <2> HIDE DEF c
  <2>2. Plus(c, d, to, n)[e] = c[e]
    BY <1>2, <1>3, <1>6, PlusElsewhere
  <2> QED BY <1>1, <2>1, <2>2
<1> QED BY <1>5, <1>6

(***************************************************************************)
(* Backed(b, s): each denom's supply is the sum of its balances. The calls *)
(* of the bank keeper preserve it, whatever they are called with.          *)
(***************************************************************************)
Backed(b, s) == \A d \in AllDenoms : s[d] = Total(b[d])

\* SendCoins keeps every supply backed, also from an account to itself.
LEMMA MoveBacked ==
  ASSUME NEW b \in [AllDenoms -> [Accounts -> Nat]], NEW s, Backed(b, s),
         NEW d \in AllDenoms, NEW from \in Accounts, NEW to \in Accounts,
         NEW n \in Nat
  PROVE  Backed(Move(b, d, from, to, n), s)
  BY TotalMove DEF Backed

\* Adding n to one balance and to the supply of its denom keeps it backed.
LEMMA PlusBacked ==
  ASSUME NEW b \in [AllDenoms -> [Accounts -> Nat]],
         NEW s \in [AllDenoms -> Int], Backed(b, s),
         NEW d \in AllDenoms, NEW a \in Accounts, NEW n \in Int
  PROVE  Backed(Plus(b, d, a, n), [s EXCEPT ![d] = s[d] + n])
<1> DEFINE t == [s EXCEPT ![d] = s[d] + n]
<1>1. b \in [AllDenoms -> [Accounts -> Int]]
  OBVIOUS
<1> SUFFICES ASSUME NEW e \in AllDenoms PROVE t[e] = Total(Plus(b, d, a, n)[e])
  BY DEF Backed
<1>2. Total(Plus(b, d, a, n)[d]) = Total(b[d]) + n
  BY <1>1, TotalPlus
<1>3. e # d => Plus(b, d, a, n)[e] = b[e]
  BY <1>1, PlusElsewhere
<1>4. s[e] = Total(b[e]) /\ s[d] = Total(b[d])
  BY DEF Backed
<1>5. t[d] = s[d] + n /\ (e # d => t[e] = s[e])
  OBVIOUS
<1> HIDE DEF t
<1> QED BY <1>2, <1>3, <1>4, <1>5

\* MintCoins, which adds to both, keeps every supply backed.
LEMMA MintBacked ==
  ASSUME NEW b \in [AllDenoms -> [Accounts -> Nat]],
         NEW s \in [AllDenoms -> Int], Backed(b, s),
         NEW d \in AllDenoms, NEW a \in Accounts, NEW n \in Nat
  PROVE  Backed([b EXCEPT ![d][a] = @ + n], [s EXCEPT ![d] = @ + n])
<1>1. [b EXCEPT ![d][a] = @ + n] = Plus(b, d, a, n)
  BY DEF Plus
<1>2. [s EXCEPT ![d] = @ + n] = [s EXCEPT ![d] = s[d] + n]
  OBVIOUS
<1>3. n \in Int
  OBVIOUS
<1>4. Backed(Plus(b, d, a, n), [s EXCEPT ![d] = s[d] + n])
  BY <1>3, PlusBacked
<1> QED BY <1>1, <1>2, <1>4

\* BurnCoins, which takes from both, keeps every supply backed.
LEMMA BurnBacked ==
  ASSUME NEW b \in [AllDenoms -> [Accounts -> Nat]],
         NEW s \in [AllDenoms -> Int], Backed(b, s),
         NEW d \in AllDenoms, NEW a \in Accounts, NEW n \in Nat
  PROVE  Backed([b EXCEPT ![d][a] = @ - n], [s EXCEPT ![d] = @ - n])
<1> DEFINE m == -n
<1>1. m \in Int
  OBVIOUS
<1>2. [b EXCEPT ![d][a] = @ - n] = Plus(b, d, a, m)
  BY DEF Plus
<1>3. [s EXCEPT ![d] = @ - n] = [s EXCEPT ![d] = s[d] + m]
  OBVIOUS
<1> HIDE DEF m
<1>4. Backed(Plus(b, d, a, m), [s EXCEPT ![d] = s[d] + m])
  BY <1>1, PlusBacked
<1> QED BY <1>2, <1>3, <1>4
-----------------------------------------------------------------------------
USE DEF AllDenoms, FeeCoins, IsFactory, IsAdmin, Created, Enabled, Signers

(***************************************************************************)
(* A transfer of no more than the payer holds keeps the balances typed.    *)
(***************************************************************************)
LEMMA MoveType ==
  ASSUME NEW b \in [AllDenoms -> [Accounts -> Nat]], NEW d \in AllDenoms,
         NEW from \in Accounts, NEW to \in Accounts, NEW n \in Nat,
         b[d][from] >= n
  PROVE  Move(b, d, from, to, n) \in [AllDenoms -> [Accounts -> Nat]]
  BY DEF Move

-----------------------------------------------------------------------------
(***************************************************************************)
(* The type of the state is an invariant: no handler drives a balance      *)
(* below zero and no store ever holds a record of the wrong kind.          *)
(***************************************************************************)
LEMMA InitTypeOK == Init => TypeOK
  BY AccountsAssumption, AddrsAssumption, DenomsAssumption, AmountsAssumption
     DEF Init, TypeOK

\* Charging the creation fee keeps balances natural and supplies integers.
LEMMA ChargeType ==
  ASSUME TypeOK, NEW payer \in Accounts, ChargeForCreateDenom(payer)
  PROVE  bal' \in [AllDenoms -> [Accounts -> Nat]] /\ supply' \in [AllDenoms -> Int]
<1> USE DEF TypeOK
<1>1. CASE params.amount = 0 /\ UNCHANGED <<bal, supply>>
  BY <1>1
<1>2. CASE /\ bal[params.denom][payer] >= params.amount
           /\ bal' = Move(bal, params.denom, payer, Distr, params.amount)
           /\ UNCHANGED supply
  BY <1>2, MoveType, AccountsAssumption
<1>3. CASE /\ bal[params.denom][payer] >= params.amount
           /\ bal' = [bal EXCEPT ![params.denom][payer] = @ - params.amount]
           /\ supply' = [supply EXCEPT ![params.denom] = @ - params.amount]
  BY <1>3
<1> QED BY <1>1, <1>2, <1>3 DEF ChargeForCreateDenom

\* Every handler keeps the type of the state.
LEMMA NextTypeOK == TypeOK /\ [Next]_vars => TypeOK'
<1> SUFFICES ASSUME TypeOK, [Next]_vars PROVE TypeOK'
  OBVIOUS
<1> USE AccountsAssumption, AddrsAssumption, DenomsAssumption, AmountsAssumption
<1>1. CASE UNCHANGED vars
  BY <1>1 DEF vars, TypeOK
<1>2. ASSUME NEW s \in Signers, NEW d \in Denoms, CreateDenom(s, d)
      PROVE  TypeOK'
  BY <1>2, ChargeType DEF CreateDenom, TypeOK
<1>3. ASSUME NEW s \in Signers, NEW d \in AllDenoms, NEW n \in Amounts,
             NEW to \in Addrs, Mint(s, d, n, to)
      PROVE  TypeOK'
  BY <1>3 DEF Mint, TypeOK
<1>4. ASSUME NEW s \in Signers, NEW d \in AllDenoms, NEW n \in Amounts,
             NEW from \in Addrs \cup {NoAddr}, Burn(s, d, n, from)
      PROVE  TypeOK'
  BY <1>4 DEF Burn, TypeOK
<1>5. ASSUME NEW s \in Signers, NEW d \in AllDenoms, NEW n \in Amounts,
             NEW from \in Addrs, NEW to \in Addrs, ForceTransfer(s, d, n, from, to)
      PROVE  TypeOK'
  BY <1>5, MoveType DEF ForceTransfer, TypeOK
<1>6. ASSUME NEW s \in Signers, NEW d \in AllDenoms, NEW n \in Amounts,
             NEW to \in Addrs, Send(s, d, n, to)
      PROVE  TypeOK'
  BY <1>6, MoveType DEF Send, TypeOK
<1>7. ASSUME NEW s \in Signers, NEW d \in AllDenoms, NEW new \in Addrs,
             ChangeAdmin(s, d, new)
      PROVE  TypeOK'
  BY <1>7 DEF ChangeAdmin, TypeOK
<1>8. ASSUME NEW s \in Signers, NEW d \in AllDenoms, NEW m \in Metas,
             SetDenomMetadata(s, d, m)
      PROVE  TypeOK'
  BY <1>8 DEF SetDenomMetadata, TypeOK
<1>9. ASSUME NEW s \in Signers, NEW fee \in Fees, UpdateParams(s, fee)
      PROVE  TypeOK'
  BY <1>9 DEF UpdateParams, TypeOK
<1> QED
  BY <1>1, <1>2, <1>3, <1>4, <1>5, <1>6, <1>7, <1>8, <1>9 DEF Next

(***************************************************************************)
(* In every reachable state no balance is negative and every store holds   *)
(* records of its own kind only.                                           *)
(***************************************************************************)
THEOREM TypeCorrect == Spec => []TypeOK
<1>1. Init => TypeOK
  BY InitTypeOK
<1>2. TypeOK /\ [Next]_vars => TypeOK'
  BY NextTypeOK
<1> QED BY <1>1, <1>2, PTL DEF Spec

-----------------------------------------------------------------------------
(***************************************************************************)
(* The inductive invariant. ModuleAccountEmpty is not inductive without    *)
(* the type of the balances, and a denom that does not exist holds no      *)
(* coins (DenomRecordsAgree) only because every transfer carries a         *)
(* positive amount that the payer must already hold.                       *)
(***************************************************************************)
IInv == TypeOK /\ ModuleAccountEmpty /\ DenomRecordsAgree

\* Genesis satisfies the inductive invariant.
LEMMA InitIInv == Init => IInv
<1> SUFFICES ASSUME Init PROVE IInv
  OBVIOUS
<1> USE AccountsAssumption, AddrsAssumption, DenomsAssumption, AmountsAssumption
<1>1. TypeOK
  BY InitTypeOK
<1>2. ModuleAccountEmpty
  BY DEF Init, ModuleAccountEmpty
<1>3. DenomRecordsAgree
  <2>1. PICK listed \in SUBSET Denoms :
          /\ bal \in [AllDenoms -> GenesisHoldings]
          /\ \A d \in Denoms \ listed : \A a \in Accounts : bal[d][a] = 0
          /\ meta = [d \in AllDenoms |->
                       IF d \in listed \cup {Base} THEN DefaultMeta ELSE NoMeta]
          /\ admin \in [AllDenoms -> Addrs \cup {NoAddr}]
          /\ \A d \in AllDenoms \ listed : admin[d] = NoAddr
          /\ index = {<<CanonicalOf[CreatorOf[d]], d>> : d \in listed}
    BY DEF Init
  <2>2. \A d \in Denoms : Created(d) <=> d \in listed
    BY <2>1
  <2>3. \A d \in Denoms, s \in Addrs :
          <<s, d>> \in index <=> d \in listed /\ s = CanonicalOf[CreatorOf[d]]
    BY <2>1
  <2>4. admin[Base] = NoAddr
    BY <2>1
  <2> QED BY <2>1, <2>2, <2>3, <2>4 DEF DenomRecordsAgree
<1> QED BY <1>1, <1>2, <1>3 DEF IInv

(***************************************************************************)
(* Steps that move or create coins of denom d only between accounts that   *)
(* are not the module account keep it empty; steps that leave every record *)
(* alone keep the records in agreement when the coins of a denom that does *)
(* not exist stay where they are (nowhere).                                *)
(***************************************************************************)
LEMMA RecordsKept ==
  ASSUME IInv, UNCHANGED <<meta, admin, index>>,
         \A e \in Denoms : ~Created(e) =>
           \A a \in Accounts : bal'[e][a] = bal[e][a]
  PROVE  DenomRecordsAgree'
<1>1. \A d \in Denoms : Created(d)' <=> Created(d)
  BY DEF IInv
<1> QED BY <1>1 DEF IInv, DenomRecordsAgree

\* Charging the creation fee leaves no coin in the module account.
LEMMA ChargeKeepsEmpty ==
  ASSUME IInv, NEW payer \in Accounts, ChargeForCreateDenom(payer)
  PROVE  /\ \A d \in AllDenoms : bal'[d][TF] = 0
         /\ \A d \in Denoms : ~Created(d) =>
              \A a \in Accounts : bal'[d][a] = 0
<1> USE AccountsAssumption DEF IInv, TypeOK, ModuleAccountEmpty, DenomRecordsAgree
<1>1. CASE UNCHANGED <<bal, supply>>
  BY <1>1
<1>2. CASE /\ params.amount # 0
           /\ bal[params.denom][payer] >= params.amount
           /\ bal' = Move(bal, params.denom, payer, Distr, params.amount)
  <2>1. /\ params.denom \in AllDenoms /\ params.amount \in Nat \ {0}
        /\ Distr \in Accounts
        /\ bal \in [AllDenoms -> [Accounts -> Nat]]
    BY <1>2
  <2>2. \A e \in AllDenoms, a \in Accounts :
          bal'[e][a] = IF e = params.denom /\ payer # Distr
                       THEN IF a = payer THEN bal[params.denom][a] - params.amount
                            ELSE IF a = Distr THEN bal[params.denom][a] + params.amount
                                 ELSE bal[params.denom][a]
                       ELSE bal[e][a]
    BY <1>2, <2>1 DEF Move
  <2>3. params.denom \in Denoms => Created(params.denom)
    BY <1>2, <2>1
  <2> QED BY <1>2, <2>1, <2>2, <2>3
<1>3. CASE /\ params.amount # 0
           /\ bal[params.denom][payer] >= params.amount
           /\ bal' = [bal EXCEPT ![params.denom][payer] = @ - params.amount]
  BY <1>3
<1> QED BY <1>1, <1>2, <1>3 DEF ChargeForCreateDenom

\* Creating a denom keeps the inductive invariant.
LEMMA CreateDenomIInv ==
  ASSUME IInv, NEW s \in Signers, NEW d \in Denoms, CreateDenom(s, d)
  PROVE  ModuleAccountEmpty' /\ DenomRecordsAgree'
<1> USE AccountsAssumption, AddrsAssumption, DenomsAssumption
<1>1. /\ \A e \in AllDenoms : bal'[e][TF] = 0
      /\ \A e \in Denoms : ~Created(e) => \A a \in Accounts : bal'[e][a] = 0
  BY ChargeKeepsEmpty DEF CreateDenom
<1>2. ModuleAccountEmpty'
  BY <1>1 DEF ModuleAccountEmpty
<1>3. /\ meta' = [meta EXCEPT ![d] = DefaultMeta]
      /\ admin' = [admin EXCEPT ![d] = s]
      /\ index' = index \cup {<<s, d>>}
      /\ meta[d] = NoMeta
      /\ CreatorOf[d] = s
  BY DEF CreateDenom
<1>4. ASSUME NEW e \in Denoms
      PROVE  /\ Created(e)' <=> \E t \in Addrs : <<t, e>> \in index'
             /\ \A t \in Addrs : <<t, e>> \in index' =>
                                  AccountOf[t] = AccountOf[CreatorOf[e]]
             /\ \A t, u \in Addrs :
                  <<t, e>> \in index' /\ <<u, e>> \in index' => t = u
             /\ ~Created(e)' =>
                  admin'[e] = NoAddr /\ \A a \in Accounts : bal'[e][a] = 0
  <2>1. CASE e = d
    BY <1>3, <2>1 DEF IInv, TypeOK, DenomRecordsAgree
  <2>2. CASE e # d
    <3>1. /\ Created(e)' <=> Created(e)
          /\ admin'[e] = admin[e]
          /\ \A t \in Addrs : <<t, e>> \in index' <=> <<t, e>> \in index
      BY <1>3, <2>2 DEF IInv, TypeOK
    <3> QED BY <1>1, <3>1 DEF IInv, DenomRecordsAgree
  <2> QED BY <2>1, <2>2
<1>5. admin'[Base] = NoAddr
  BY <1>3 DEF IInv, TypeOK, DenomRecordsAgree
<1> QED BY <1>2, <1>4, <1>5 DEF DenomRecordsAgree

\* Every handler keeps the inductive invariant.
LEMMA NextIInv == IInv /\ [Next]_vars => IInv'
<1> SUFFICES ASSUME IInv, [Next]_vars PROVE IInv'
  OBVIOUS
<1> USE AccountsAssumption, AddrsAssumption, DenomsAssumption, AmountsAssumption
<1>0. TypeOK'
  BY NextTypeOK DEF IInv
<1>1. CASE UNCHANGED vars
  <2>1. DenomRecordsAgree'
    BY <1>1, RecordsKept DEF vars
  <2> QED BY <1>0, <1>1, <2>1 DEF vars, IInv, ModuleAccountEmpty
<1>2. ASSUME NEW s \in Signers, NEW d \in Denoms, CreateDenom(s, d)
      PROVE  IInv'
  BY <1>0, <1>2, CreateDenomIInv DEF IInv
<1>3. ASSUME NEW s \in Signers, NEW d \in AllDenoms, NEW n \in Amounts,
             NEW to \in Addrs, Mint(s, d, n, to)
      PROVE  IInv'
  <2>1. DenomRecordsAgree'
    BY <1>3, RecordsKept DEF Mint, IInv, TypeOK
  <2>2. ModuleAccountEmpty'
    BY <1>3 DEF Mint, IInv, TypeOK, ModuleAccountEmpty
  <2> QED BY <1>0, <2>1, <2>2 DEF IInv
<1>4. ASSUME NEW s \in Signers, NEW d \in AllDenoms, NEW n \in Amounts,
             NEW from \in Addrs \cup {NoAddr}, Burn(s, d, n, from)
      PROVE  IInv'
  <2>1. DenomRecordsAgree'
    BY <1>4, RecordsKept DEF Burn, IInv, TypeOK, DenomRecordsAgree
  <2>2. ModuleAccountEmpty'
    BY <1>4 DEF Burn, IInv, TypeOK, ModuleAccountEmpty
  <2> QED BY <1>0, <2>1, <2>2 DEF IInv
<1>5. ASSUME NEW s \in Signers, NEW d \in AllDenoms, NEW n \in Amounts,
             NEW from \in Addrs, NEW to \in Addrs, ForceTransfer(s, d, n, from, to)
      PROVE  IInv'
  <2>1. \A e \in AllDenoms, a \in Accounts :
          bal'[e][a] = IF e = d /\ AccountOf[from] # AccountOf[to]
                       THEN IF a = AccountOf[from] THEN bal[d][a] - n
                            ELSE IF a = AccountOf[to] THEN bal[d][a] + n
                                 ELSE bal[d][a]
                       ELSE bal[e][a]
    <3>1. /\ bal \in [AllDenoms -> [Accounts -> Nat]]
          /\ AccountOf[from] \in Accounts /\ AccountOf[to] \in Accounts
          /\ n \in Nat /\ bal[d][AccountOf[from]] >= n
          /\ bal' = Move(bal, d, AccountOf[from], AccountOf[to], n)
      BY <1>5 DEF ForceTransfer, IInv, TypeOK
    <3> QED BY <3>1 DEF Move
  <2>2. d \in Denoms => Created(d)
    BY <1>5 DEF ForceTransfer, IInv, TypeOK, DenomRecordsAgree
  <2>3. DenomRecordsAgree'
    BY <1>5, <2>1, <2>2, RecordsKept DEF ForceTransfer
  <2>4. ModuleAccountEmpty'
    <3>1. TF \in Accounts /\ TF # AccountOf[from] /\ TF # AccountOf[to]
      BY <1>5 DEF ForceTransfer
    <3> QED BY <2>1, <3>1 DEF IInv, ModuleAccountEmpty
  <2> QED BY <1>0, <2>3, <2>4 DEF IInv
<1>6. ASSUME NEW s \in Signers, NEW d \in AllDenoms, NEW n \in Amounts,
             NEW to \in Addrs, Send(s, d, n, to)
      PROVE  IInv'
  <2>1. \A e \in AllDenoms, a \in Accounts :
          bal'[e][a] = IF e = d /\ AccountOf[s] # AccountOf[to]
                       THEN IF a = AccountOf[s] THEN bal[d][a] - n
                            ELSE IF a = AccountOf[to] THEN bal[d][a] + n
                                 ELSE bal[d][a]
                       ELSE bal[e][a]
    <3>1. /\ bal \in [AllDenoms -> [Accounts -> Nat]]
          /\ AccountOf[s] \in Accounts /\ AccountOf[to] \in Accounts
          /\ n \in Nat /\ bal[d][AccountOf[s]] >= n
          /\ bal' = Move(bal, d, AccountOf[s], AccountOf[to], n)
      BY <1>6 DEF Send, IInv, TypeOK
    <3> QED BY <3>1 DEF Move
  <2>2. d \in Denoms => Created(d)
    BY <1>6 DEF Send, IInv, TypeOK, DenomRecordsAgree
  <2>3. DenomRecordsAgree'
    BY <1>6, <2>1, <2>2, RecordsKept DEF Send
  <2>4. ModuleAccountEmpty'
    BY <1>6, <2>1 DEF Send, IInv, TypeOK, ModuleAccountEmpty
  <2> QED BY <1>0, <2>3, <2>4 DEF IInv
<1>7. ASSUME NEW s \in Signers, NEW d \in AllDenoms, NEW new \in Addrs,
             ChangeAdmin(s, d, new)
      PROVE  IInv'
  <2>1. DenomRecordsAgree'
    BY <1>7 DEF ChangeAdmin, IInv, TypeOK, DenomRecordsAgree
  <2> QED BY <1>0, <1>7, <2>1 DEF ChangeAdmin, IInv, ModuleAccountEmpty
<1>8. ASSUME NEW s \in Signers, NEW d \in AllDenoms, NEW m \in Metas,
             SetDenomMetadata(s, d, m)
      PROVE  IInv'
  <2>1. DenomRecordsAgree'
    BY <1>8 DEF SetDenomMetadata, IInv, TypeOK, DenomRecordsAgree
  <2> QED BY <1>0, <1>8, <2>1 DEF SetDenomMetadata, IInv, ModuleAccountEmpty
<1>9. ASSUME NEW s \in Signers, NEW fee \in Fees, UpdateParams(s, fee)
      PROVE  IInv'
  <2>1. DenomRecordsAgree'
    BY <1>9, RecordsKept DEF UpdateParams
  <2> QED BY <1>0, <1>9, <2>1 DEF UpdateParams, IInv, ModuleAccountEmpty
<1> QED
  BY <1>1, <1>2, <1>3, <1>4, <1>5, <1>6, <1>7, <1>8, <1>9 DEF Next

(***************************************************************************)
(* Between messages no coin sits in the tokenfactory module account, which *)
(* no handler could ever move again: the fee, the minted and the burned    *)
(* coins all pass through it within one message.                           *)
(***************************************************************************)
THEOREM ModuleAccountStaysEmpty == Spec => []ModuleAccountEmpty
<1>1. IInv => ModuleAccountEmpty
  BY DEF IInv
<1> QED BY InitIInv, NextIInv, <1>1, PTL DEF Spec

(***************************************************************************)
(* Bank metadata, creator index and authority record of a denom agree in   *)
(* every reachable state.                                                  *)
(***************************************************************************)
THEOREM RecordsAgree == Spec => []DenomRecordsAgree
<1>1. IInv => DenomRecordsAgree
  BY DEF IInv
<1> QED BY InitIInv, NextIInv, <1>1, PTL DEF Spec

-----------------------------------------------------------------------------
(***************************************************************************)
(* No theft. Only four kinds of step lower a balance: the fee and a plain  *)
(* transfer take from the signer; burn and forced transfer act for the     *)
(* admin under a flag.                                                     *)
(***************************************************************************)
LEMMA NextNoTheft == IInv /\ [Next]_vars => [NoTheftStep]_vars
<1> SUFFICES ASSUME IInv, Next,
                    NEW d \in AllDenoms, NEW a \in Accounts,
                    bal'[d][a] < bal[d][a], signer' # a
             PROVE  /\ a \notin Blocked
                    /\ admin[d] # NoAddr
                    /\ AccountOf[admin[d]] = signer'
                    /\ \/ Enabled(EnableBurnFrom) /\ supply'[d] < supply[d]
                       \/ Enabled(EnableForceTransfer) /\ a \notin ModuleAccounts
  BY DEF NoTheftStep
<1> USE AccountsAssumption, AddrsAssumption, DenomsAssumption, AmountsAssumption
        DEF IInv, TypeOK
<1>1. ASSUME NEW s \in Signers, NEW e \in Denoms, CreateDenom(s, e)
      PROVE  FALSE
  <2>1. signer' = AccountOf[s] /\ ChargeForCreateDenom(AccountOf[s])
    BY <1>1 DEF CreateDenom
  <2> QED BY <2>1 DEF ChargeForCreateDenom, Move
<1>2. ASSUME NEW s \in Signers, NEW e \in AllDenoms, NEW n \in Amounts,
             NEW to \in Addrs, Mint(s, e, n, to)
      PROVE  FALSE
  BY <1>2 DEF Mint
<1>3. ASSUME NEW s \in Signers, NEW e \in AllDenoms, NEW n \in Amounts,
             NEW from \in Addrs \cup {NoAddr}, Burn(s, e, n, from)
      PROVE  /\ a \notin Blocked
             /\ admin[d] # NoAddr
             /\ AccountOf[admin[d]] = signer'
             /\ Enabled(EnableBurnFrom) /\ supply'[d] < supply[d]
  BY <1>3 DEF Burn
<1>4. ASSUME NEW s \in Signers, NEW e \in AllDenoms, NEW n \in Amounts,
             NEW from \in Addrs, NEW to \in Addrs, ForceTransfer(s, e, n, from, to)
      PROVE  /\ a \notin Blocked
             /\ admin[d] # NoAddr
             /\ AccountOf[admin[d]] = signer'
             /\ Enabled(EnableForceTransfer) /\ a \notin ModuleAccounts
  <2>1. e = d /\ a = AccountOf[from]
    BY <1>4 DEF ForceTransfer, Move
  <2> QED BY <1>4, <2>1 DEF ForceTransfer
<1>5. ASSUME NEW s \in Signers, NEW e \in AllDenoms, NEW n \in Amounts,
             NEW to \in Addrs, Send(s, e, n, to)
      PROVE  FALSE
  BY <1>5 DEF Send, Move
<1>6. ASSUME NEW s \in Signers, NEW e \in AllDenoms,
             \/ \E new \in Addrs : ChangeAdmin(s, e, new)
             \/ \E m \in Metas : SetDenomMetadata(s, e, m)
             \/ \E fee \in Fees : UpdateParams(s, fee)
      PROVE  FALSE
  BY <1>6 DEF ChangeAdmin, SetDenomMetadata, UpdateParams
<1> QED BY <1>1, <1>2, <1>3, <1>4, <1>5, <1>6 DEF Next

(***************************************************************************)
(* Coins leave an account only when its owner signs, or when the admin of  *)
(* the denom uses a power the chain enabled.                               *)
(***************************************************************************)
THEOREM NoTheftHolds == Spec => NoTheft
<1>1. IInv /\ [Next]_vars => [NoTheftStep]_vars
  BY NextNoTheft
<1> QED BY InitIInv, NextIInv, <1>1, PTL DEF Spec, NoTheft

(***************************************************************************)
(* Ownership. Only CreateDenom and ChangeAdmin write the admin record; the *)
(* first is refused for a denom that exists, and an empty admin equals no  *)
(* sender.                                                                 *)
(***************************************************************************)
LEMMA NextOwnership == IInv /\ [Next]_vars => [OwnershipHandoverStep]_vars
<1> SUFFICES ASSUME IInv, Next, NEW d \in Denoms, Created(d)
             PROVE  /\ {s \in Addrs : <<s, d>> \in index'}
                          = {s \in Addrs : <<s, d>> \in index}
                    /\ <<admin'[d], meta'[d]>> # <<admin[d], meta[d]>> =>
                         admin[d] # NoAddr /\ AccountOf[admin[d]] = signer'
  BY DEF OwnershipHandoverStep
<1> USE AddrsAssumption, DenomsAssumption DEF IInv, TypeOK
<1>1. ASSUME NEW s \in Signers, NEW e \in Denoms, CreateDenom(s, e)
      PROVE  /\ {t \in Addrs : <<t, d>> \in index'}
                   = {t \in Addrs : <<t, d>> \in index}
             /\ admin'[d] = admin[d] /\ meta'[d] = meta[d]
  BY <1>1 DEF CreateDenom
<1>2. ASSUME NEW s \in Signers, NEW e \in AllDenoms, NEW n \in Amounts,
             \/ \E to \in Addrs : Mint(s, e, n, to)
             \/ \E from \in Addrs \cup {NoAddr} : Burn(s, e, n, from)
             \/ \E from, to \in Addrs : ForceTransfer(s, e, n, from, to)
             \/ \E to \in Addrs : Send(s, e, n, to)
      PROVE  UNCHANGED <<admin, meta, index>>
  BY <1>2 DEF Mint, Burn, ForceTransfer, Send
<1>3. ASSUME NEW s \in Signers, NEW fee \in Fees, UpdateParams(s, fee)
      PROVE  UNCHANGED <<admin, meta, index>>
  BY <1>3 DEF UpdateParams
<1>4. ASSUME NEW s \in Signers, NEW e \in AllDenoms, NEW new \in Addrs,
             ChangeAdmin(s, e, new)
      PROVE  /\ index' = index
             /\ <<admin'[d], meta'[d]>> # <<admin[d], meta[d]>> =>
                  admin[d] # NoAddr /\ AccountOf[admin[d]] = signer'
  BY <1>4 DEF ChangeAdmin
<1>5. ASSUME NEW s \in Signers, NEW e \in AllDenoms, NEW m \in Metas,
             SetDenomMetadata(s, e, m)
      PROVE  /\ index' = index
             /\ <<admin'[d], meta'[d]>> # <<admin[d], meta[d]>> =>
                  admin[d] # NoAddr /\ AccountOf[admin[d]] = signer'
  BY <1>5 DEF SetDenomMetadata
<1> QED BY <1>1, <1>2, <1>3, <1>4, <1>5 DEF Next

(***************************************************************************)
(* A denom keeps its creator for good and changes hands only by its        *)
(* current admin; a denom with the empty admin never changes again.        *)
(***************************************************************************)
THEOREM OwnershipHolds == Spec => OwnershipHandover
<1>1. IInv /\ [Next]_vars => [OwnershipHandoverStep]_vars
  BY NextOwnership
<1> QED BY InitIInv, NextIInv, <1>1, PTL DEF Spec, OwnershipHandover

(***************************************************************************)
(* Supply. Only Mint raises it, under the admin's signature; the fee that  *)
(* lowers it comes with a new denom, which the index did not list before.  *)
(***************************************************************************)
LEMMA NextSupplyAuthority == IInv /\ [Next]_vars => [SupplyAuthorityStep]_vars
<1>0. IInv /\ [Next]_vars =>
        \A d \in AllDenoms : supply[d] \in Int /\ supply'[d] \in Int
  BY NextTypeOK DEF IInv, TypeOK
<1> SUFFICES ASSUME IInv, Next, NEW d \in AllDenoms, supply'[d] # supply[d]
             PROVE  \/ admin[d] # NoAddr /\ AccountOf[admin[d]] = signer'
                    \/ /\ supply'[d] < supply[d]
                       /\ index' # index
                       /\ d = params.denom
                       /\ supply[d] - supply'[d] = params.amount
                       /\ bal[d][signer'] - bal'[d][signer'] = params.amount
  BY <1>0 DEF SupplyAuthorityStep
<1> USE AddrsAssumption, DenomsAssumption, AmountsAssumption
<1>1. ASSUME NEW s \in Signers, NEW e \in Denoms, CreateDenom(s, e)
      PROVE  /\ supply'[d] < supply[d]
             /\ index' # index
             /\ d = params.denom
             /\ supply[d] - supply'[d] = params.amount
             /\ bal[d][signer'] - bal'[d][signer'] = params.amount
  <2>1. <<s, e>> \notin index /\ index' = index \cup {<<s, e>>}
    BY <1>1 DEF CreateDenom, IInv, DenomRecordsAgree, Signers
  <2>2. /\ signer' = AccountOf[s] /\ signer' \in Accounts
        /\ ChargeForCreateDenom(signer')
    BY <1>1 DEF CreateDenom, Signers
  <2>3. /\ params.amount # 0
        /\ bal' = [bal EXCEPT ![params.denom][signer'] = @ - params.amount]
        /\ supply' = [supply EXCEPT ![params.denom] = @ - params.amount]
    BY <2>2 DEF ChargeForCreateDenom
  <2>4. /\ params.amount \in Nat
        /\ supply \in [AllDenoms -> Int]
        /\ bal \in [AllDenoms -> [Accounts -> Nat]]
    BY DEF IInv, TypeOK, FeeCoins
  <2>5. d = params.denom
    BY <2>3, <2>4
  <2> QED BY <2>1, <2>2, <2>3, <2>4, <2>5
<1>2. ASSUME NEW s \in Signers, NEW e \in AllDenoms, NEW n \in Amounts,
             \/ \E to \in Addrs : Mint(s, e, n, to)
             \/ \E from \in Addrs \cup {NoAddr} : Burn(s, e, n, from)
      PROVE  admin[d] # NoAddr /\ AccountOf[admin[d]] = signer'
  <2>1. /\ s = admin[e] /\ s \in Addrs /\ signer' = AccountOf[s]
        /\ \/ supply' = [supply EXCEPT ![e] = @ + n]
           \/ supply' = [supply EXCEPT ![e] = @ - n]
    BY <1>2 DEF Mint, Burn, IsAdmin, Signers
  <2>2. d = e
    BY <2>1 DEF IInv, TypeOK
  <2> QED BY <2>1, <2>2
<1>3. ASSUME NEW s \in Signers, NEW e \in AllDenoms, NEW n \in Amounts,
             \/ \E from, to \in Addrs : ForceTransfer(s, e, n, from, to)
             \/ \E to \in Addrs : Send(s, e, n, to)
      PROVE  FALSE
  BY <1>3 DEF ForceTransfer, Send
<1>4. ASSUME NEW s \in Signers, NEW e \in AllDenoms,
             \/ \E new \in Addrs : ChangeAdmin(s, e, new)
             \/ \E m \in Metas : SetDenomMetadata(s, e, m)
             \/ \E fee \in Fees : UpdateParams(s, fee)
      PROVE  FALSE
  BY <1>4 DEF ChangeAdmin, SetDenomMetadata, UpdateParams
<1> QED BY <1>1, <1>2, <1>3, <1>4 DEF Next

(***************************************************************************)
(* The supply of a denom changes only by the hand of its admin, or falls   *)
(* by the fee its payer pays for a new denom.                              *)
(***************************************************************************)
THEOREM SupplyAuthorityHolds == Spec => SupplyAuthority
<1>1. IInv /\ [Next]_vars => [SupplyAuthorityStep]_vars
  BY NextSupplyAuthority
<1> QED BY InitIInv, NextIInv, <1>1, PTL DEF Spec, SupplyAuthority

-----------------------------------------------------------------------------
(***************************************************************************)
(* Every handler keeps supplies backed and within an Int. Inductive with   *)
(* the type of the balances: a supply that is a sum of balances cannot     *)
(* fall below zero.                                                        *)
(***************************************************************************)
LEMMA NextSupplyIsBacked ==
  TypeOK /\ SupplyIsBacked /\ [Next]_vars => SupplyIsBacked'
<1> SUFFICES ASSUME TypeOK, SupplyIsBacked, [Next]_vars PROVE SupplyIsBacked'
  OBVIOUS
<1> USE AccountsAssumption, AddrsAssumption, AmountsAssumption DEF TypeOK
<1>0. TypeOK' /\ Backed(bal, supply)
  BY NextTypeOK DEF SupplyIsBacked, Backed
<1>1. CASE /\ Backed(bal', supply')
           /\ \A d \in AllDenoms : supply'[d] <= supply[d] \/ supply'[d] <= MaxInt
  <2>1. \A d \in AllDenoms : supply'[d] \in Nat
    BY <1>0, <1>1, TotalType DEF Backed
  <2>2. \A d \in AllDenoms : supply[d] \in 0..MaxInt
    BY DEF SupplyIsBacked
  <2>3. \A d \in AllDenoms : supply'[d] \in 0..MaxInt
    BY <1>1, <2>1, <2>2
  <2> QED BY <1>1, <2>3 DEF SupplyIsBacked, Backed
<1>2. ASSUME NEW d \in AllDenoms, NEW from \in Accounts, NEW to \in Accounts,
             NEW n \in Nat, bal' = Move(bal, d, from, to, n), UNCHANGED supply
      PROVE  SupplyIsBacked'
  <2>1. Backed(bal', supply')
    BY <1>0, <1>2, MoveBacked
  <2> QED BY <1>1, <1>2, <2>1
<1>3. ASSUME NEW d \in AllDenoms, NEW a \in Accounts, NEW n \in Nat,
             bal' = [bal EXCEPT ![d][a] = @ - n],
             supply' = [supply EXCEPT ![d] = @ - n]
      PROVE  SupplyIsBacked'
  <2>1. Backed(bal', supply')
    BY <1>0, <1>3, BurnBacked
  <2>2. \A e \in AllDenoms : supply'[e] <= supply[e]
    BY <1>3
  <2> QED BY <1>1, <2>1, <2>2
<1>4. CASE UNCHANGED <<bal, supply>>
  BY <1>0, <1>1, <1>4 DEF Backed
<1>5. ASSUME NEW s \in Signers, NEW d \in Denoms, CreateDenom(s, d)
      PROVE  SupplyIsBacked'
  <2>1. params.denom \in AllDenoms /\ params.amount \in Nat
    OBVIOUS
  <2>2. AccountOf[s] \in Accounts /\ Distr \in Accounts
    OBVIOUS
  <2>3. CASE params.amount = 0 /\ UNCHANGED <<bal, supply>>
    BY <1>4, <2>3
  <2>4. CASE bal' = Move(bal, params.denom, AccountOf[s], Distr, params.amount) /\ UNCHANGED supply
    BY <1>2, <2>1, <2>2, <2>4
  <2>5. CASE /\ bal' = [bal EXCEPT ![params.denom][AccountOf[s]] = @ - params.amount]
             /\ supply' = [supply EXCEPT ![params.denom] = @ - params.amount]
    BY <1>3, <2>1, <2>2, <2>5
  <2> QED BY <1>5, <2>3, <2>4, <2>5 DEF CreateDenom, ChargeForCreateDenom
<1>6. ASSUME NEW s \in Signers, NEW d \in AllDenoms, NEW n \in Amounts,
             NEW to \in Addrs, Mint(s, d, n, to)
      PROVE  SupplyIsBacked'
  <2>1. n \in Nat /\ AccountOf[to] \in Accounts
    OBVIOUS
  <2>2. /\ bal' = [bal EXCEPT ![d][AccountOf[to]] = @ + n]
        /\ supply' = [supply EXCEPT ![d] = @ + n]
        /\ supply[d] + n <= MaxInt
    BY <1>6 DEF Mint
  <2>3. Backed(bal', supply')
    BY <1>0, <2>1, <2>2, MintBacked
  <2>4. \A e \in AllDenoms : supply'[e] <= supply[e] \/ supply'[e] <= MaxInt
    BY <2>2
  <2> QED BY <1>1, <2>3, <2>4
<1>7. ASSUME NEW s \in Signers, NEW d \in AllDenoms, NEW n \in Amounts,
             NEW from \in Addrs \cup {NoAddr}, Burn(s, d, n, from)
      PROVE  SupplyIsBacked'
  <2> DEFINE a == IF from = NoAddr THEN AccountOf[s] ELSE AccountOf[from]
  <2>1. a \in Accounts /\ n \in Nat
    OBVIOUS
  <2>2. /\ bal' = [bal EXCEPT ![d][a] = @ - n]
        /\ supply' = [supply EXCEPT ![d] = @ - n]
    BY <1>7 DEF Burn
  <2> QED BY <1>3, <2>1, <2>2
<1>8. ASSUME NEW s \in Signers, NEW d \in AllDenoms, NEW n \in Amounts,
             \/ \E from, to \in Addrs : ForceTransfer(s, d, n, from, to)
             \/ \E to \in Addrs : Send(s, d, n, to)
      PROVE  SupplyIsBacked'
  <2>1. PICK from \in Addrs, to \in Addrs :
          bal' = Move(bal, d, AccountOf[from], AccountOf[to], n) /\ UNCHANGED supply
    BY <1>8 DEF ForceTransfer, Send
  <2>2. AccountOf[from] \in Accounts /\ AccountOf[to] \in Accounts /\ n \in Nat
    OBVIOUS
  <2> QED BY <1>2, <2>1, <2>2
<1>9. ASSUME NEW s \in Signers, NEW d \in AllDenoms,
             \/ \E new \in Addrs : ChangeAdmin(s, d, new)
             \/ \E m \in Metas : SetDenomMetadata(s, d, m)
             \/ \E fee \in Fees : UpdateParams(s, fee)
      PROVE  SupplyIsBacked'
  BY <1>4, <1>9 DEF ChangeAdmin, SetDenomMetadata, UpdateParams
<1> QED BY <1>4, <1>5, <1>6, <1>7, <1>8, <1>9 DEF Next, vars

(***************************************************************************)
(* In every reachable state the supply of every denom is what the accounts *)
(* hold of it, and fits an Int.                                            *)
(***************************************************************************)
THEOREM SupplyBacked == Spec => []SupplyIsBacked
<1>1. Init => SupplyIsBacked
  BY DEF Init, SupplyIsBacked
<1>2. TypeOK /\ SupplyIsBacked /\ [Next]_vars => SupplyIsBacked'
  BY NextSupplyIsBacked
<1> QED BY <1>1, <1>2, TypeCorrect, PTL DEF Spec
=============================================================================
