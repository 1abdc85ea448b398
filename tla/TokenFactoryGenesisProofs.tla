---------------------- MODULE TokenFactoryGenesisProofs ----------------------
(***************************************************************************)
(* Machine-checked proofs about TokenFactoryGenesis, for every set of      *)
(* accounts, denoms and amounts. The invariant of the running chain does   *)
(* not suffice: a start must know what the file holds, so the invariant    *)
(* also says of the file in hand what it says of the chain that wrote it.  *)
(***************************************************************************)
EXTENDS TokenFactoryGenesis, TokenFactoryProofs

\* What an exported file can hold.
Files == [bal : [AllDenoms -> [Accounts -> Nat]], supply : [AllDenoms -> Int],
          meta : [AllDenoms -> Metas \cup {NoMeta}], params : FeeCoins,
          denoms : SUBSET Denoms, admin : [AllDenoms -> Addrs \cup {NoAddr}],
          index : SUBSET (Addrs \X Denoms)]

\* A file that a chain of this module can have exported: the records it holds
\* agree denom by denom, the module account is empty in it, and every supply
\* is the sum of the balances.
FileOk(f) ==
  /\ f \in Files
  /\ \A d \in Denoms :
       /\ d \in f.denoms <=> \E s \in Addrs : <<s, d>> \in f.index
       /\ \A s \in Addrs : <<s, d>> \in f.index =>
                             AccountOf[s] = AccountOf[CreatorOf[d]]
       /\ d \in f.denoms <=> f.meta[d] # NoMeta
       /\ d \notin f.denoms => f.admin[d] = NoAddr /\ \A a \in Accounts : f.bal[d][a] = 0
  /\ f.admin[Base] = NoAddr
  /\ \A d \in AllDenoms :
       f.bal[d][TF] = 0 /\ f.supply[d] = Total(f.bal[d]) /\ f.supply[d] \in 0..MaxInt

\* The inductive invariant: that of the running chain, an exported file that
\* satisfies the same, and the chain just started from it equal to it.
GenesisInv ==
  /\ IInv /\ SupplyIsBacked
  /\ version \in {1, 2} /\ halted \in BOOLEAN /\ started \in BOOLEAN
  /\ file # NoFile => FileOk(file)
  /\ ImportRestores

\* AllListed projects the creator index onto its denoms.
LEMMA ListedDenoms ==
  ASSUME NEW i \in SUBSET (Addrs \X Denoms)
  PROVE  /\ {p[2] : p \in i} \subseteq Denoms
         /\ \A d \in Denoms : d \in {p[2] : p \in i} <=> \E s \in Addrs : <<s, d>> \in i
<1>1. {p[2] : p \in i} \subseteq Denoms
  OBVIOUS
<1>2. ASSUME NEW d \in Denoms
      PROVE  d \in {p[2] : p \in i} <=> \E s \in Addrs : <<s, d>> \in i
  <2>1. ASSUME NEW p \in i, d = p[2] PROVE \E s \in Addrs : <<s, d>> \in i
    <3>1. p = <<p[1], p[2]>> /\ p[1] \in Addrs
      OBVIOUS
    <3> QED BY <2>1, <3>1
  <2>2. ASSUME NEW s \in Addrs, <<s, d>> \in i PROVE d \in {p[2] : p \in i}
    <3>1. <<s, d>>[2] = d
      OBVIOUS
    <3> QED BY <2>2, <3>1
  <2> QED BY <2>1, <2>2
<1> QED BY <1>1, <1>2

\* What ExportGenesis writes is a file of the kind InitGenesis relies on: the
\* denoms are recovered from the creator index, which therefore must list
\* exactly the denoms that exist.
LEMMA ExportOk ==
  ASSUME IInv, SupplyIsBacked, ExportGenesis
  PROVE  FileOk(file')
<1>1. /\ file' \in Files
      /\ file'.bal = bal /\ file'.supply = supply /\ file'.meta = meta
      /\ file'.admin = admin /\ file'.index = index /\ file'.denoms = AllListed
  BY ListedDenoms DEF ExportGenesis, AllListed, Files, IInv, TypeOK
<1>2. \A d \in Denoms : d \in AllListed <=> \E s \in Addrs : <<s, d>> \in index
  BY ListedDenoms DEF AllListed, IInv, TypeOK
<1>3. \A d \in Denoms :
        /\ d \in AllListed <=> meta[d] # NoMeta
        /\ d \notin AllListed => admin[d] = NoAddr /\ \A a \in Accounts : bal[d][a] = 0
        /\ \A s \in Addrs : <<s, d>> \in index => AccountOf[s] = AccountOf[CreatorOf[d]]
  BY <1>2 DEF IInv, DenomRecordsAgree, Created
<1>4. admin[Base] = NoAddr
  BY DEF IInv, DenomRecordsAgree
<1>5. \A d \in AllDenoms :
        bal[d][TF] = 0 /\ supply[d] = Total(bal[d]) /\ supply[d] \in 0..MaxInt
  BY DEF IInv, ModuleAccountEmpty, SupplyIsBacked
<1> QED BY <1>1, <1>2, <1>3, <1>4, <1>5 DEF FileOk

\* What createDenomAfterValidation and setAuthorityMetadata leave for the
\* denoms of a file: the metadata of each, one index entry under the printed
\* creator, the exported admin.
LEMMA ImportedRecords ==
  ASSUME FileOk(file), InitGenesis
  PROVE  /\ \A d \in Denoms : meta'[d] # NoMeta <=> d \in file.denoms
         /\ \A d \in Denoms, s \in Addrs :
              <<s, d>> \in index' <=> d \in file.denoms /\ s = CanonicalOf[CreatorOf[d]]
         /\ \A d \in AllDenoms : admin'[d] = file.admin[d]
         /\ meta' \in [AllDenoms -> Metas \cup {NoMeta}]
         /\ admin' \in [AllDenoms -> Addrs \cup {NoAddr}]
         /\ index' \subseteq Addrs \X Denoms
<1> USE DenomsAssumption, AddrsAssumption DEF AllDenoms
<1>1. file \in Files
  BY DEF FileOk
<1>2. /\ meta' = [d \in AllDenoms |->
                    IF d \in file.denoms THEN DefaultMeta ELSE file.meta[d]]
      /\ admin' = [d \in AllDenoms |->
                     IF d \in file.denoms THEN file.admin[d] ELSE NoAddr]
  BY DEF InitGenesis, CreatedAtImport
<1>3. index' = UNION {{<<CanonicalOf[CreatorOf[d]], d>>} : d \in file.denoms}
  BY DEF InitGenesis, CreatedAtImport
<1>4. file.denoms \subseteq Denoms
  BY <1>1 DEF Files
<1>5. \A d \in Denoms : meta'[d] # NoMeta <=> d \in file.denoms
  BY <1>2 DEF FileOk
<1>6. \A d \in AllDenoms : admin'[d] = file.admin[d]
  BY <1>2, <1>4 DEF FileOk
<1>7. /\ meta' \in [AllDenoms -> Metas \cup {NoMeta}]
      /\ admin' \in [AllDenoms -> Addrs \cup {NoAddr}]
  BY <1>1, <1>2 DEF Files
<1>8. /\ index' \subseteq Addrs \X Denoms
      /\ \A d \in Denoms, s \in Addrs :
           <<s, d>> \in index' <=> d \in file.denoms /\ s = CanonicalOf[CreatorOf[d]]
  BY <1>3, <1>4
<1> QED BY <1>5, <1>6, <1>7, <1>8

\* A chain started from a file has the invariant of a running one and
\* restores the file.
LEMMA InitGenesisInv ==
  ASSUME GenesisInv, InitGenesis
  PROVE  GenesisInv'
<1>1. FileOk(file) /\ file \in Files
  BY DEF InitGenesis, GenesisInv, FileOk
<1>2. /\ \A d \in Denoms : meta'[d] # NoMeta <=> d \in file.denoms
      /\ \A d \in Denoms, s \in Addrs :
           <<s, d>> \in index' <=> d \in file.denoms /\ s = CanonicalOf[CreatorOf[d]]
      /\ \A d \in AllDenoms : admin'[d] = file.admin[d]
      /\ meta' \in [AllDenoms -> Metas \cup {NoMeta}]
      /\ admin' \in [AllDenoms -> Addrs \cup {NoAddr}]
      /\ index' \subseteq Addrs \X Denoms
  BY <1>1, ImportedRecords
<1>3. bal' = file.bal /\ supply' = file.supply /\ params' = file.params
  BY DEF InitGenesis
<1>4. TypeOK'
  BY <1>1, <1>2, <1>3 DEF Files, TypeOK, GenesisInv, IInv, InitGenesis
<1>5. DenomRecordsAgree'
  <2>1. \A d \in Denoms : CreatorOf[d] \in Addrs /\ CanonicalOf[CreatorOf[d]] \in Addrs
           /\ AccountOf[CanonicalOf[CreatorOf[d]]] = AccountOf[CreatorOf[d]]
    BY AddrsAssumption, DenomsAssumption
  <2>2. ASSUME NEW d \in Denoms
        PROVE  /\ Created(d)' <=> \E s \in Addrs : <<s, d>> \in index'
               /\ \A s \in Addrs : <<s, d>> \in index' =>
                                     AccountOf[s] = AccountOf[CreatorOf[d]]
               /\ \A s, t \in Addrs :
                    <<s, d>> \in index' /\ <<t, d>> \in index' => s = t
               /\ ~Created(d)' =>
                    admin'[d] = NoAddr /\ \A a \in Accounts : bal'[d][a] = 0
    <3>1. /\ meta'[d] # NoMeta <=> d \in file.denoms
          /\ \A s \in Addrs : <<s, d>> \in index' <=>
                               d \in file.denoms /\ s = CanonicalOf[CreatorOf[d]]
          /\ admin'[d] = file.admin[d]
      BY <1>2 DEF AllDenoms
    <3>2. d \notin file.denoms =>
            file.admin[d] = NoAddr /\ \A a \in Accounts : file.bal[d][a] = 0
      BY <1>1 DEF FileOk
    <3>3. Created(d)' <=> meta'[d] # NoMeta
      BY DEF Created
    <3>4. Created(d)' <=> \E s \in Addrs : <<s, d>> \in index'
      BY <2>1, <3>1, <3>3
    <3>5. \A s \in Addrs : <<s, d>> \in index' => AccountOf[s] = AccountOf[CreatorOf[d]]
      BY <2>1, <3>1
    <3>6. \A s, t \in Addrs : <<s, d>> \in index' /\ <<t, d>> \in index' => s = t
      BY <3>1
    <3>7. ~Created(d)' => admin'[d] = NoAddr /\ \A a \in Accounts : bal'[d][a] = 0
      BY <1>3, <3>1, <3>2, <3>3
    <3> QED BY <3>4, <3>5, <3>6, <3>7
  <2>3. admin'[Base] = NoAddr
    BY <1>1, <1>2 DEF FileOk, AllDenoms
  <2> QED BY <2>2, <2>3 DEF DenomRecordsAgree
<1>6. ModuleAccountEmpty' /\ SupplyIsBacked'
  BY <1>1, <1>3 DEF FileOk, ModuleAccountEmpty, SupplyIsBacked
<1>7. ImportRestores'
  <2>1. file' = file
    BY DEF InitGenesis
  <2>2. ASSUME NEW d \in Denoms
        PROVE  {AccountOf[p[1]] : p \in {q \in index' : q[2] = d}} =
               {AccountOf[p[1]] : p \in {q \in file.index : q[2] = d}}
    <3> DEFINE A == {AccountOf[p[1]] : p \in {q \in index' : q[2] = d}}
               B == {AccountOf[p[1]] : p \in {q \in file.index : q[2] = d}}
    <3>0. /\ CreatorOf[d] \in Addrs /\ CanonicalOf[CreatorOf[d]] \in Addrs
          /\ AccountOf[CanonicalOf[CreatorOf[d]]] = AccountOf[CreatorOf[d]]
      BY AddrsAssumption, DenomsAssumption
    <3>1. /\ \A x \in A : \E s \in Addrs : <<s, d>> \in index' /\ x = AccountOf[s]
          /\ \A s \in Addrs : <<s, d>> \in index' => AccountOf[s] \in A
      BY <1>2
    <3>2. /\ \A x \in B : \E s \in Addrs : <<s, d>> \in file.index /\ x = AccountOf[s]
          /\ \A s \in Addrs : <<s, d>> \in file.index => AccountOf[s] \in B
      BY <1>1 DEF Files
    <3> HIDE DEF A, B
    <3>3. /\ \A x \in A : x = AccountOf[CreatorOf[d]] /\ d \in file.denoms
          /\ d \in file.denoms => AccountOf[CreatorOf[d]] \in A
      BY <1>2, <3>0, <3>1
    <3>4. /\ \A x \in B : x = AccountOf[CreatorOf[d]] /\ d \in file.denoms
          /\ d \in file.denoms => AccountOf[CreatorOf[d]] \in B
      BY <1>1, <3>2 DEF FileOk
    <3>5. A = B
      BY <3>3, <3>4
    <3> QED BY <3>5 DEF A, B
  <2>3. \A d \in Denoms :
          /\ Created(d)' <=> \E s \in Addrs : <<s, d>> \in file.index
          /\ admin'[d] = file.admin[d]
    BY <1>1, <1>2 DEF FileOk, Created, AllDenoms
  <2> QED BY <1>3, <2>1, <2>2, <2>3 DEF ImportRestores
<1> QED BY <1>1, <1>4, <1>5, <1>6, <1>7 DEF GenesisInv, IInv, InitGenesis

\* Every step of the chain, its export, its start and its migration keeps the
\* invariant.
LEMMA GenesisStep == GenesisInv /\ [GenesisNext]_genesisVars => GenesisInv'
<1> SUFFICES ASSUME GenesisInv, [GenesisNext]_genesisVars PROVE GenesisInv'
  OBVIOUS
<1>1. [Next]_vars => IInv' /\ SupplyIsBacked'
  BY NextIInv, NextSupplyIsBacked DEF GenesisInv, IInv
<1>2. CASE Deliver
  BY <1>1, <1>2 DEF Deliver, GenesisInv, ImportRestores
<1>3. CASE ExportGenesis
  <2>1. FileOk(file')
    BY <1>3, ExportOk DEF GenesisInv
  <2> QED BY <1>1, <1>3, <2>1 DEF ExportGenesis, GenesisInv, ImportRestores
<1>4. CASE InitGenesis
  BY <1>4, InitGenesisInv
<1>5. CASE Migrate1to2
  <2>1. params' \in FeeCoins
    BY <1>5 DEF Migrate1to2, GenesisInv, IInv, TypeOK, FeeCoins
  <2>2. TypeOK'
    BY <1>5, <2>1 DEF Migrate1to2, GenesisInv, IInv, TypeOK
  <2>3. DenomRecordsAgree'
    BY <1>5, RecordsKept DEF Migrate1to2, GenesisInv
  <2>4. ModuleAccountEmpty' /\ SupplyIsBacked'
    BY <1>5 DEF Migrate1to2, GenesisInv, IInv, ModuleAccountEmpty, SupplyIsBacked
  <2> QED BY <1>5, <2>2, <2>3, <2>4 DEF Migrate1to2, GenesisInv, IInv, ImportRestores
<1>6. CASE UNCHANGED genesisVars
  <2>1. UNCHANGED vars
    BY <1>6 DEF genesisVars, vars
  <2>2. UNCHANGED <<file, version, halted, started>>
    BY <1>6 DEF genesisVars
  <2>3. ImportRestores'
    BY <2>1, <2>2 DEF vars, GenesisInv, ImportRestores, Created
  <2> QED BY <1>1, <2>1, <2>2, <2>3 DEF GenesisInv
<1> QED BY <1>2, <1>3, <1>4, <1>5, <1>6 DEF GenesisNext

(***************************************************************************)
(* The inductive invariant holds across exports, starts of new chains and  *)
(* the migration, in any order and number.                                 *)
(***************************************************************************)
THEOREM GenesisInvariant == GenesisSpec => []GenesisInv
<1>1. GenesisInit => GenesisInv
  BY InitIInv DEF GenesisInit, Init, SupplyIsBacked, GenesisInv, ImportRestores
<1> QED BY <1>1, GenesisStep, PTL DEF GenesisSpec

(***************************************************************************)
(* The state keeps its type, and an exported file lists denoms of this     *)
(* module only (ExportGenesis, InitGenesis).                               *)
(***************************************************************************)
THEOREM GenesisTyped == GenesisSpec => []GenesisTypeOK
<1>1. GenesisInv => GenesisTypeOK
  BY DEF GenesisInv, GenesisTypeOK, IInv, FileOk, Files
<1> QED BY <1>1, GenesisInvariant, PTL

(***************************************************************************)
(* What CreateDenom and the messages establish survives export,            *)
(* InitGenesis and Migrate1to2: metadata, creator index and admin of a     *)
(* denom appear together under one creator, the module account is empty,   *)
(* and every supply is the sum of the balances.                            *)
(***************************************************************************)
THEOREM RecordsAgreeAcrossChains ==
  GenesisSpec => [](DenomRecordsAgree /\ ModuleAccountEmpty /\ SupplyIsBacked)
<1>1. GenesisInv => DenomRecordsAgree /\ ModuleAccountEmpty /\ SupplyIsBacked
  BY DEF GenesisInv, IInv
<1> QED BY <1>1, GenesisInvariant, PTL

(***************************************************************************)
(* A chain started by InitGenesis has the denoms of the exporting chain    *)
(* and no others, each under the account that created it and with its      *)
(* admin, the empty one included; balances, supply and creation fee are    *)
(* the same.                                                               *)
(***************************************************************************)
THEOREM ImportFaithful == GenesisSpec => []ImportRestores
<1>1. GenesisInv => ImportRestores
  BY DEF GenesisInv
<1> QED BY <1>1, GenesisInvariant, PTL
=============================================================================
