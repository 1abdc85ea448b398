------------------------ MODULE TokenFactoryGenesis ------------------------
(***************************************************************************)
(* The two ways a tokenfactory chain is carried over: through an exported  *)
(* genesis file from which a new chain is started, and through the         *)
(* in-place migration from consensus version 1 to 2. Between them the      *)
(* chain runs as in TokenFactory.                                          *)
(*                                                                         *)
(* The bank exports and imports balances, supply and metadata itself (SDK) *)
(* and its InitGenesis runs before the one of tokenfactory.                *)
(***************************************************************************)
EXTENDS TokenFactory

CONSTANT NoFile   \* no genesis file has been exported

VARIABLES
  file,     \* the exported genesis, with the exporting chain's index as history
  version,  \* consensus version of the module that the store was written by
  halted,   \* the upgrade handler panicked: no further block
  started   \* history: the last step was the InitGenesis of a new chain

genesisVars == <<bal, supply, meta, admin, index, params, enabledCapabilities, signer,
                 file, version, halted, started>>

\* Faulty: the iterator's key (creator and denom) taken for the denom.
FaultyAllListed == index

\* GetAllDenomsIterator: every denom of the creator index.
AllListed == {p[2] : p \in index}

-----------------------------------------------------------------------------
GenesisInit ==
  /\ Init
  /\ file = NoFile
  /\ version \in {1, 2}
  /\ halted = FALSE
  /\ started = FALSE

\* A message in a block.
Deliver ==
  /\ ~halted
  /\ Next
  /\ started' = FALSE
  /\ UNCHANGED <<file, version, halted>>

\* ExportGenesis: parameters, and each listed denom with its authority. The
\* creator is not exported, it is inside the denom. Works on a halted node.
ExportGenesis ==
  /\ file' = [bal |-> bal, supply |-> supply, meta |-> meta, params |-> params,
              denoms |-> AllListed, admin |-> admin, index |-> index]
  /\ started' = FALSE
  /\ UNCHANGED <<vars, version, halted>>

\* Faulty: the admin not restored; then, the creator not listed.
FaultyAdminAtImport(d) ==
  [meta  |-> DefaultMeta,
   index |-> {<<CanonicalOf[CreatorOf[d]], d>>},
   admin |-> CanonicalOf[CreatorOf[d]]]

FaultyIndexAtImport(d) ==
  [meta |-> DefaultMeta, index |-> {}, admin |-> file.admin[d]]

\* createDenomAfterValidation for every denom of the file: the metadata the
\* bank has just imported is overwritten, creator and admin are the address
\* DeconstructDenom prints; setAuthorityMetadata then restores the admin.
CreatedAtImport(d) ==
  [meta  |-> DefaultMeta,
   index |-> {<<CanonicalOf[CreatorOf[d]], d>>},
   admin |-> file.admin[d]]

\* InitGenesis of the new chain. Its module version is the current one.
InitGenesis ==
  /\ file # NoFile
  /\ bal' = file.bal
  /\ supply' = file.supply
  /\ params' = file.params
  /\ meta' = [d \in AllDenoms |->
                IF d \in file.denoms THEN CreatedAtImport(d).meta ELSE file.meta[d]]
  /\ index' = UNION {CreatedAtImport(d).index : d \in file.denoms}
  /\ admin' = [d \in AllDenoms |->
                 IF d \in file.denoms THEN CreatedAtImport(d).admin ELSE NoAddr]
  /\ version' = 2
  /\ halted' = FALSE
  /\ started' = TRUE
  /\ UNCHANGED <<file, enabledCapabilities, signer>>

\* Migrate1to2, run by the upgrade handler. The loop over the denoms panics at
\* its first one: where the bank HAS metadata, because the flag tested is
\* "found" and not an error, and where it has none, because SetMetadata panics
\* for metadata without a base. Without denoms the parameters become the
\* built-in ones: a nil fee.
Migrate1to2 ==
  /\ ~halted
  /\ version = 1
  /\ \/ /\ AllListed # {}
        /\ halted' = TRUE
        /\ UNCHANGED <<params, version>>
     \/ /\ AllListed = {}
        /\ params' = [params EXCEPT !.amount = 0]
        /\ version' = 2
        /\ UNCHANGED halted
  /\ started' = FALSE
  /\ UNCHANGED <<bal, supply, meta, admin, index, enabledCapabilities, signer, file>>

GenesisNext == Deliver \/ ExportGenesis \/ InitGenesis \/ Migrate1to2

GenesisSpec == GenesisInit /\ [][GenesisNext]_genesisVars

-----------------------------------------------------------------------------
\* The type of the state; an exported file lists denoms of this module only.
GenesisTypeOK ==
  /\ TypeOK
  /\ version \in {1, 2} /\ halted \in BOOLEAN /\ started \in BOOLEAN
  /\ file # NoFile =>
       /\ file.bal \in [AllDenoms -> [Accounts -> Nat]]
       /\ file.admin \in [AllDenoms -> Addrs \cup {NoAddr}]
       /\ file.denoms \subseteq Denoms

\* A chain started from an exported file has the denoms of the exporting chain
\* and no others, each under the account that created it and with the admin it
\* had, the empty one included (a frozen denom stays frozen); balances, supply
\* and the creation fee are the same.
ImportRestores ==
  started =>
    /\ \A d \in Denoms :
         /\ Created(d) <=> \E s \in Addrs : <<s, d>> \in file.index
         /\ admin[d] = file.admin[d]
         /\ {AccountOf[p[1]] : p \in {q \in index : q[2] = d}} =
            {AccountOf[p[1]] : p \in {q \in file.index : q[2] = d}}
    /\ <<bal, supply, params>> = <<file.bal, file.supply, file.params>>

\* The stores of the new chain equal those of the exporting one, the bank's
\* metadata among them (app/sim_test.go, TestAppImportExport).
MetadataSurvivesImport == started => meta = file.meta

\* Migrate1to2 stops the upgrade with "denom %s does not exist" only for a
\* listed denom that the bank does not know.
PanicsOnlyForMissing == halted => \E d \in AllListed : ~Created(d)

=============================================================================
