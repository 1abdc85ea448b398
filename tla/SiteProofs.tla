----------------------------- MODULE SiteProofs -----------------------------
(***************************************************************************)
(* Machine-checked proofs about Site, for every number of polls in flight, *)
(* transactions, addresses, heights and outages: what the sentinel, the    *)
(* profile page, the points page and the detail of the mempool page say is *)
(* never invented. Each page has an invariant about what its polls carry   *)
(* across their awaits; the lemmas about moves let each be shown against   *)
(* its own steps only. What the pages list is the subject of FeedProofs.   *)
(***************************************************************************)
EXTENDS Site, FiniteSumsProofs

\* What the pages may rely on: the type of the node, and a transaction is in
\* one block at one place: a score is a sum over blocks, and a list of blocks
\* has no duplicate.
NodeInv ==
  /\ NodeTypeOK
  /\ \A i, j \in 1..tip : i # j => ToSet(chain[i]) \cap ToSet(chain[j]) = {}
  /\ \A i \in 1..tip : IsInjective(chain[i])

\* What any step does to the node: blocks stay, more may come.
Grown ==
  /\ page' = page /\ tip <= tip' /\ \A h \in 1..tip : chain'[h] = chain[h]
  /\ tip \in Nat /\ tip' \in Nat /\ sent \subseteq sent'

\* SaveBlock adds pending transactions none of which is in a block yet.
LEMMA SavedBlock ==
  ASSUME NodeInv, SaveBlock
  PROVE  NodeInv' /\ tip' = tip + 1 /\ \A h \in 1..tip : chain'[h] = chain[h]
<1>1. PICK block \in SetToAllKPermutations(pool) : chain' = Append(chain, block)
  BY DEF SaveBlock
<1>2. PICK S \in SUBSET pool : block \in SetToSeqs(S)
  BY <1>1 DEF SetToAllKPermutations
<1>3. S \subseteq Txs /\ pool \subseteq Txs /\ tip \in Nat /\ tip + 1 <= MaxHeight
      /\ chain \in Seq(Seq(Txs))
  BY NodeAssumption DEF NodeInv, NodeTypeOK, SaveBlock, tip
<1>4. Cardinality(S) \in Nat
  BY <1>3, NodeAssumption, FS_Subset, FS_CardinalityType
<1>5. block \in Seq(S) /\ DOMAIN block = 1..Len(block)
  BY <1>2, <1>4 DEF SetToSeqs
<1>6. block \in Seq(Txs) /\ ToSet(block) \subseteq S
  BY <1>3, <1>5 DEF ToSet
<1>7. /\ chain' \in Seq(Seq(Txs)) /\ tip' = tip + 1
      /\ \A h \in 1..tip : chain'[h] = chain[h]
      /\ chain'[tip + 1] = block
  BY <1>1, <1>3, <1>6 DEF tip
<1>8. NodeTypeOK'
  BY <1>3, <1>7 DEF NodeInv, NodeTypeOK, SaveBlock
<1>9. \A h \in 1..tip : ToSet(chain[h]) \cap ToSet(block) = {}
  BY <1>2, <1>6 DEF SaveBlock, Committed, TxsIn
<1>10. ASSUME NEW i \in 1..tip', NEW j \in 1..tip', i # j
       PROVE  ToSet(chain'[i]) \cap ToSet(chain'[j]) = {}
  <2>1. i \in 1..tip \/ i = tip + 1
    BY <1>3, <1>7
  <2>2. j \in 1..tip \/ j = tip + 1
    BY <1>3, <1>7
  <2>3. CASE i \in 1..tip /\ j \in 1..tip
    BY <1>7, <1>10, <2>3 DEF NodeInv
  <2>4. CASE i = tip + 1 /\ j \in 1..tip
    BY <1>7, <1>9, <2>4
  <2>5. CASE j = tip + 1 /\ i \in 1..tip
    BY <1>7, <1>9, <2>5
  <2> QED BY <1>10, <2>1, <2>2, <2>3, <2>4, <2>5
<1>11. ASSUME NEW i \in 1..tip' PROVE IsInjective(chain'[i])
  <2>1. IsInjective(block)
    BY <1>2 DEF SetToSeqs, IsInjective
  <2>2. i \in 1..tip \/ i = tip + 1
    BY <1>3, <1>7
  <2> QED BY <1>7, <2>1, <2>2 DEF NodeInv
<1> QED BY <1>7, <1>8, <1>10, <1>11 DEF NodeInv

\* A step that leaves the blocks alone.
LEMMA SameBlocks ==
  ASSUME NodeInv, page' = page, chain' = chain, sent \subseteq sent',
         pool' \subseteq sent', sent' \subseteq Txs, up' \in BOOLEAN
  PROVE  NodeInv' /\ Grown
<1>1. tip \in Nat /\ tip' = tip
  BY DEF NodeInv, NodeTypeOK, tip
<1>2. NodeTypeOK'
  BY <1>1 DEF NodeInv, NodeTypeOK
<1>3. /\ \A i, j \in 1..tip' : i # j => ToSet(chain'[i]) \cap ToSet(chain'[j]) = {}
      /\ \A i \in 1..tip' : IsInjective(chain'[i])
  BY <1>1 DEF NodeInv
<1> QED BY <1>1, <1>2, <1>3 DEF NodeInv, Grown

\* The steps of the node keep NodeInv and only add blocks.
LEMMA ChainStep ==
  ASSUME NodeInv, page \in Opened, Chain
  PROVE  NodeInv' /\ Grown
<1>0. page' = page
  BY DEF Chain, pageVars
<1>1. CASE SaveBlock
  <2>1. tip \in Nat /\ sent' = sent
    BY <1>1 DEF NodeInv, NodeTypeOK, tip, SaveBlock
  <2> QED BY <1>0, <1>1, <2>1, SavedBlock DEF Grown
<1>2. CASE \E t \in Posted[page] : Submit(t)
  <2>1. /\ chain' = chain /\ sent \subseteq sent' /\ pool' \subseteq sent'
        /\ sent' \subseteq Txs /\ up' \in BOOLEAN
    BY <1>2, SiteAssumption DEF NodeInv, NodeTypeOK, Submit, Opened
  <2> QED BY <1>0, <2>1, SameBlocks
<1>3. CASE UpdatePool \/ Drop \/ Outage
  <2>1. /\ chain' = chain /\ sent \subseteq sent' /\ pool' \subseteq sent'
        /\ sent' \subseteq Txs /\ up' \in BOOLEAN
    BY <1>3 DEF NodeInv, NodeTypeOK, UpdatePool, Drop, Outage
  <2> QED BY <1>0, <2>1, SameBlocks
<1> QED BY <1>1, <1>2, <1>3 DEF Chain

\* So does any step of the site: no page writes to the node.
LEMMA NodeStep ==
  ASSUME NodeInv, page \in Opened, [Next]_vars
  PROVE  NodeInv' /\ Grown
<1>1. CASE Chain
  BY <1>1, ChainStep
<1>2. ASSUME UNCHANGED <<nodeVars, page>> PROVE NodeInv' /\ Grown
  <2>1. /\ chain' = chain /\ sent \subseteq sent' /\ pool' \subseteq sent'
        /\ sent' \subseteq Txs /\ up' \in BOOLEAN
    BY <1>2 DEF NodeInv, NodeTypeOK, nodeVars
  <2> QED BY <1>2, <2>1, SameBlocks
<1>3. CASE Timer
  BY <1>2, <1>3 DEF Timer, othersThan, MkTick, WaTick, MpTick, BdTick, SnTick
<1>4. ASSUME NEW s \in Slots, Answer(s)
      PROVE  UNCHANGED <<nodeVars, page>>
  <2>1. MkStep(s) => page' = page
    BY DEF MkStep, MkStatus, MkLists, MkBlocks, MkFails
  <2>2. WaStep(s) => page' = page
    BY DEF WaStep, WaStatus, WaPool, WaBlocks, WaBalance, WaFails, WaLookup
  <2>3. MpStep(s) => page' = page
    BY DEF MpStep, MpStatus, MpLists, MpBlocks, MpFails
  <2>4. PtStep(s) \/ VtStep(s) \/ ExStep(s) => page' = page
    BY DEF PtStep, PtStatus, PtBlock, PtWrite, PtFails, VtStep, VtStatus, VtBalance,
           VtTax, VtFails, ExStep, ExStatus, ExBlocks, ExFails
  <2>5. IdStep(s) => page' = page
    BY DEF IdStep, IdStatus, IdFound, IdNext, IdNotFound, IdFails
  <2>6. SnStep(s) => page' = page
    BY DEF SnStep, SnAnswer, SnEvaluate, SnReport, SnNotWritten
  <2> QED BY <1>4, <2>1, <2>2, <2>3, <2>4, <2>5, <2>6 DEF Answer, othersThan
<1>5. CASE User
  <2>1. page' = page
    BY <1>5 DEF User, WaUser, WaSubmitOther, WaSubmit, MpUser, MpClickTx,
                MpClickBlock, MpEnrich, IdUser, IdType, IdEnter, SnWorld, SnDisk
  <2> QED BY <1>2, <1>5, <2>1 DEF User, othersThan
<1>6. CASE UNCHANGED vars
  BY <1>2, <1>6 DEF vars, pageVars
<1> QED BY <1>1, <1>2, <1>3, <1>4, <1>5, <1>6 DEF Next
-----------------------------------------------------------------------------
\* A check of the sentinel in flight, w being the endpoints found well at
\* some time since it began: what it took for well is in w, and whatever is
\* well now is.
SnCheck(p, w) ==
  \/ p = Idle
  \/ /\ p = [pc |-> "fetch", answer |-> p.answer] /\ Endpoints \ ailing \subseteq w
     /\ \A e \in DOMAIN p.answer : e \in Endpoints /\ (p.answer[e] => e \in w)
  \/ /\ p = [pc |-> "ai", status |-> p.status]
     /\ p.status = "healthy" => w = Endpoints

\* The invariant of the sentinel: each check in flight is backed by what has
\* been well since it began, so a verdict of "healthy" has every endpoint
\* behind it before it is written.
SnInv ==
  /\ ailing \subseteq Endpoints /\ since \in [Slots -> SUBSET Endpoints]
  /\ writable \in BOOLEAN /\ SilenceIsNotHealth
  /\ page = "sentinel" => /\ polls = [s \in Slots |-> polls[s]]
                          /\ \A s \in Slots : SnCheck(polls[s], since[s])

\* The steps of the sentinel.
SnMove == SnWorld \/ SnDisk \/ \E s \in Slots : SnTick(s) \/ SnStep(s)

\* Any other step leaves the sentinel alone.
LEMMA SnMoves ==
  ASSUME [Next]_vars
  PROVE  \/ page = "sentinel" /\ SnMove
         \/ UNCHANGED sentinelVars /\ (page = "sentinel" => UNCHANGED polls)
<1>1. CASE Chain
  BY <1>1 DEF Chain, pageVars
<1>2. CASE Timer
  BY <1>2 DEF Timer, othersThan, SnMove
<1>3. CASE \E s \in Slots : Answer(s)
  BY <1>3 DEF Answer, othersThan, SnMove
<1>4. CASE User
  BY <1>4 DEF User, othersThan, SnMove
<1>5. CASE UNCHANGED vars
  BY <1>5 DEF vars, pageVars
<1> QED BY <1>1, <1>2, <1>3, <1>4, <1>5 DEF Next

\* Every step keeps the invariant of the sentinel, an endpoint that fails or
\* recovers between two answers included.
LEMMA SnStepInv ==
  ASSUME SnInv, page' = page, [Next]_vars
  PROVE  SnInv'
<1>1. CASE UNCHANGED sentinelVars /\ (page = "sentinel" => UNCHANGED polls)
  BY <1>1 DEF SnInv, SnCheck, sentinelVars, SilenceIsNotHealth
<1> SUFFICES ASSUME page = "sentinel", SnMove PROVE SnInv'
  BY <1>1, SnMoves
<1>2. writable' \in BOOLEAN
  BY DEF SnInv, SnMove, SnWorld, SnDisk, SnTick, SnStep, SnAnswer, SnEvaluate, SnReport,
         SnNotWritten, sentinelVars
<1>0. /\ polls = [s \in Slots |-> polls[s]]
      /\ \A s \in Slots : SnCheck(polls[s], since[s])
  BY DEF SnInv
<1>3. CASE SnWorld
  <2>1. ailing' \subseteq Endpoints /\ polls' = polls /\ reports' = reports
    BY <1>3 DEF SnWorld, SnInv
  <2>2. since' = [s \in Slots |-> IF polls[s] = Idle THEN since[s]
                                  ELSE since[s] \cup (Endpoints \ ailing')]
    BY <1>3 DEF SnWorld
  <2>3. since' \in [Slots -> SUBSET Endpoints]
    BY <2>2 DEF SnInv
  <2>4. ASSUME NEW s \in Slots
        PROVE  SnCheck(polls[s], since[s])'
    <3>1. SnCheck(polls[s], since[s]) /\ since[s] \subseteq Endpoints
      BY <1>0 DEF SnInv
    <3>2. CASE polls[s] = Idle
      BY <2>1, <3>2 DEF SnCheck
    <3>3. CASE polls[s] # Idle
      <4>1. since'[s] = since[s] \cup (Endpoints \ ailing')
        BY <2>2, <3>3
      <4> QED BY <2>1, <3>1, <3>3, <4>1 DEF SnCheck
    <3> QED BY <3>2, <3>3
  <2> QED BY <1>0, <1>2, <2>1, <2>3, <2>4 DEF SnInv, SilenceIsNotHealth
<1>4. CASE SnDisk
  BY <1>0, <1>2, <1>4 DEF SnDisk, SnInv, SnCheck, SilenceIsNotHealth
<1>5. ASSUME NEW s \in Slots, NEW p, polls' = [polls EXCEPT ![s] = p],
             since' \in [Slots -> SUBSET Endpoints], UNCHANGED ailing,
             \A r \in Slots \ {s} : since'[r] = since[r],
             SnCheck(p, since'[s]), SilenceIsNotHealth'
      PROVE  SnInv'
  <2>1. polls' = [r \in Slots |-> polls'[r]] /\ polls'[s] = p
        /\ \A r \in Slots \ {s} : polls'[r] = polls[r]
    BY <1>0, <1>5
  <2>2. \A r \in Slots : SnCheck(polls'[r], since'[r])
    BY <1>0, <1>5, <2>1
  <2>3. \A r \in Slots : SnCheck(polls[r], since[r])'
    BY <1>5, <2>2 DEF SnCheck
  <2> QED BY <1>5, <1>2, <2>1, <2>3 DEF SnInv
<1>6. ASSUME NEW s \in Slots, SnTick(s) PROVE SnInv'
  <2> DEFINE p == [pc |-> "fetch", answer |-> <<>>]
  <2>1. /\ polls' = [polls EXCEPT ![s] = p] /\ ailing' = ailing /\ reports' = reports
        /\ since' = [since EXCEPT ![s] = Endpoints \ ailing]
    BY <1>6 DEF SnTick, Goto
  <2>2. since' \in [Slots -> SUBSET Endpoints] /\ since'[s] = Endpoints \ ailing
        /\ \A r \in Slots \ {s} : since'[r] = since[r]
    BY <2>1 DEF SnInv
  <2>3. SnCheck(p, since'[s])
    BY <2>2 DEF SnCheck
  <2>4. SilenceIsNotHealth'
    BY <2>1 DEF SnInv, SilenceIsNotHealth
  <2> HIDE DEF p
  <2> QED BY <1>5, <2>1, <2>2, <2>3, <2>4
<1>7. ASSUME NEW s \in Slots, SnStep(s) PROVE SnInv'
  <2>0. /\ SnCheck(polls[s], since[s])
        /\ since \in [Slots -> SUBSET Endpoints] /\ SilenceIsNotHealth
    BY <1>0 DEF SnInv
  <2>1. CASE SnAnswer(s)
    <3>1. PICK e \in Endpoints \ DOMAIN polls[s].answer :
            Goto(s, [polls[s] EXCEPT !.answer = With(@, e, e \notin ailing)])
      BY <2>1 DEF SnAnswer
    <3>2. UNCHANGED <<ailing, since, reports>>
      BY <2>1 DEF SnAnswer, sentinelVars
    <3> DEFINE q == With(polls[s].answer, e, e \notin ailing)
               p == [pc |-> "fetch", answer |-> q]
    <3>3. /\ polls[s] = [pc |-> "fetch", answer |-> polls[s].answer]
          /\ Endpoints \ ailing \subseteq since[s]
          /\ \A d \in DOMAIN polls[s].answer :
               d \in Endpoints /\ (polls[s].answer[d] => d \in since[s])
      BY <2>0, <2>1 DEF SnCheck, SnAnswer, At, Idle
    <3>4. polls' = [polls EXCEPT ![s] = p]
      <4> DEFINE o == polls[s]
                 a == o.answer
      <4>1. o = [pc |-> "fetch", answer |-> a]
        BY <3>3
      <4>2. polls' = [polls EXCEPT ![s] =
                        [o EXCEPT !.answer = With(@, e, e \notin ailing)]]
        BY <3>1 DEF Goto
      <4> HIDE DEF o, a
      <4>3. [o EXCEPT !.answer = With(@, e, e \notin ailing)] =
              [pc |-> "fetch", answer |-> With(a, e, e \notin ailing)]
        BY <4>1
      <4> QED BY <4>2, <4>3 DEF o, a
    <3>5. /\ DOMAIN q = DOMAIN polls[s].answer \cup {e} /\ q[e] = (e \notin ailing)
          /\ \A d \in DOMAIN polls[s].answer : q[d] = polls[s].answer[d]
      BY <3>1 DEF With
    <3> HIDE DEF q
    <3>6. \A d \in DOMAIN q : d \in Endpoints /\ (q[d] => d \in since[s])
      BY <3>1, <3>3, <3>5
    <3>7. SnCheck(p, since[s])
      BY <3>3, <3>6 DEF SnCheck
    <3>8. SilenceIsNotHealth'
      BY <2>0, <3>2 DEF SilenceIsNotHealth
    <3> HIDE DEF p
    <3> QED BY <1>5, <2>0, <3>2, <3>4, <3>7, <3>8
  <2>2. CASE SnEvaluate(s)
    <3> DEFINE p == [pc |-> "ai", status |-> Evaluate(polls[s].answer)]
    <3>1. /\ polls' = [polls EXCEPT ![s] = p] /\ UNCHANGED <<ailing, since, reports>>
          /\ polls[s].pc = "fetch" /\ DOMAIN polls[s].answer = Endpoints
      BY <2>2 DEF SnEvaluate, Goto, At, sentinelVars
    <3>2. \A e \in Endpoints : polls[s].answer[e] => e \in since[s]
      BY <2>0, <3>1 DEF SnCheck, Idle
    <3>3. Evaluate(polls[s].answer) = "healthy" => since[s] = Endpoints
      BY <2>0, <3>2 DEF Evaluate
    <3>4. SnCheck(p, since'[s]) /\ SilenceIsNotHealth'
      BY <2>0, <3>1, <3>3 DEF SnCheck, SilenceIsNotHealth
    <3> HIDE DEF p
    <3> QED BY <1>5, <2>0, <3>1, <3>4
  <2>3. CASE SnReport(s) \/ SnNotWritten(s)
    <3>1. /\ polls' = [polls EXCEPT ![s] = Idle] /\ ailing' = ailing
          /\ reports' \in {reports, [status |-> "ended"],
                           [status |-> polls[s].status, well |-> since[s]]}
          /\ since' = [since EXCEPT ![s] = {}] /\ polls[s].pc = "ai"
      BY <2>3 DEF SnReport, SnNotWritten, Goto, At
    <3>2. since' \in [Slots -> SUBSET Endpoints]
          /\ \A r \in Slots \ {s} : since'[r] = since[r]
      BY <2>0, <3>1
    <3>3. polls[s].status = "healthy" => since[s] = Endpoints
      BY <2>0, <3>1 DEF SnCheck, Idle
    <3>4. SilenceIsNotHealth'
      BY <2>0, <3>1, <3>3 DEF SilenceIsNotHealth
    <3>5. SnCheck(Idle, since'[s])
      BY DEF SnCheck
    <3> QED BY <1>5, <3>1, <3>2, <3>4, <3>5
  <2> QED BY <1>7, <2>1, <2>2, <2>3 DEF SnStep
<1> QED BY <1>3, <1>6, <1>7, <1>4 DEF SnMove
-----------------------------------------------------------------------------
\* A set of naturals that is not empty has a least member.
LEMMA LeastNatural ==
  ASSUME NEW S \in SUBSET Nat, S # {}
  PROVE  Min(S) \in S /\ \A y \in S : Min(S) <= y
<1>1. PICK x \in S : \A y \in S : <<y, x>> \notin OpToRel(<, Nat)
  BY NatLessThanWellFounded, WFMin
<1>2. \A y \in S : x <= y
  <2> SUFFICES ASSUME NEW y \in S, ~(x <= y) PROVE FALSE
    OBVIOUS
  <2>1. <<y, x>> \in Nat \X Nat /\ y < x
    OBVIOUS
  <2>2. <<y, x>>[1] < <<y, x>>[2]
    BY <2>1
  <2>3. <<y, x>> \in {ss \in Nat \X Nat : ss[1] < ss[2]}
    BY <2>1, <2>2
  <2> QED BY <1>1, <2>3 DEF OpToRel
<1> QED BY <1>2 DEF Min

\* A window that ends at h is of heights up to h.
LEMMA WindowIn ==
  ASSUME NEW h \in Nat, NEW n \in Nat
  PROVE  Window(h, n) \subseteq 1..h
  BY DEF Window

\* It has at most h heights.
LEMMA WindowSize ==
  ASSUME NEW h \in Nat, NEW n \in Nat
  PROVE  Cardinality(Window(h, n)) \in 0..h
<1> DEFINE lo == IF h > n THEN h - n + 1 ELSE 1
<1>1. lo \in Nat /\ 1 <= lo /\ lo <= h + 1 /\ Window(h, n) = lo..h
  BY DEF Window
<1> HIDE DEF lo
<1>2. lo \in Int /\ h \in Int
  BY <1>1
<1>3. Cardinality(lo..h) = IF lo > h THEN 0 ELSE h - lo + 1
  BY <1>2, FS_Interval
<1> QED BY <1>1, <1>3

\* What FirstIn finds in a block is a transaction that names the address
\* (id.js findRecord).
LEMMA FirstInMatches ==
  ASSUME NodeInv, NEW h \in 1..tip, NEW a, FirstIn(h, a) # NoProfile
  PROVE  FirstIn(h, a) \in Txs /\ Matches(FirstIn(h, a), a)
<1> DEFINE I == {i \in 1..Len(chain[h]) : Matches(chain[h][i], a)}
           k == SelectInSeq(chain[h], LAMBDA t : Matches(t, a))
<1>1. chain[h] \in Seq(Txs)
  BY DEF NodeInv, NodeTypeOK, tip
<1>2. k = IF I # {} THEN Min(I) ELSE 0
  BY DEF SelectInSeq
<1>3. FirstIn(h, a) = IF k = 0 THEN NoProfile ELSE chain[h][k]
  BY DEF FirstIn
<1> HIDE DEF k
<1>4. I # {} /\ k = Min(I)
  BY <1>2, <1>3
<1>5. k \in I
  <2>1. I \in SUBSET Nat
    BY <1>1
  <2> HIDE DEF I
  <2> QED BY <1>4, <2>1, LeastNatural
<1> QED BY <1>1, <1>3, <1>5

\* A scan of the profile page in flight is for an address that was entered.
IdScan(p, known, n) ==
  \/ p = Idle
  \/ p = [pc |-> "status", addr |-> p.addr] /\ p.addr \in known
  \/ /\ p = [pc |-> "scan", addr |-> p.addr, at |-> p.at, h |-> p.h]
     /\ p.addr \in known /\ p.at \in 0..n /\ p.h \in Int

\* A field holds nothing, what was typed, or what a profile of an entered
\* address says.
Source(f) ==
  /\ form[f] \in {"", "typed"} \cup Txs
  /\ form[f] \in Txs =>
       entered \cap ToSet(Named[form[f]]) # {} /\ f \in Profile[form[f]]

\* The invariant of the profile page.
IdInv ==
  /\ entered \subseteq IdEntered /\ idAddr \in IdEntered \cup {""}
  /\ form = [f \in Fields |-> form[f]] /\ \A f \in Fields : Source(f)
  /\ page = "id" => /\ polls = [s \in Slots |-> polls[s]]
                    /\ \A s \in Slots : IdScan(polls[s], entered, tip)

\* The steps of the profile page.
IdMove == IdUser \/ \E s \in Slots : IdStep(s)

\* Any other step leaves the profile page alone.
LEMMA IdMoves ==
  ASSUME [Next]_vars
  PROVE  \/ page = "id" /\ IdMove /\ UNCHANGED nodeVars
         \/ UNCHANGED idVars /\ (page = "id" => UNCHANGED polls)
<1>1. CASE Chain
  BY <1>1 DEF Chain, pageVars
<1>2. CASE Timer
  BY <1>2 DEF Timer, othersThan
<1>3. CASE \E s \in Slots : Answer(s)
  BY <1>3 DEF Answer, othersThan, IdMove
<1>4. CASE User
  BY <1>4 DEF User, othersThan, IdMove
<1>5. CASE UNCHANGED vars
  BY <1>5 DEF vars, pageVars
<1> QED BY <1>1, <1>2, <1>3, <1>4, <1>5 DEF Next

\* Every step keeps the invariant of the profile page: several scans may be
\* in flight and the one that ends last writes, but only ever from a
\* transaction that names the address it was started for.
LEMMA IdStepInv ==
  ASSUME IdInv, NodeInv, Grown, [Next]_vars
  PROVE  IdInv'
<1>0. page' = page /\ tip \in Nat /\ tip' \in Nat /\ tip <= tip'
  BY DEF Grown
<1>1. CASE UNCHANGED idVars /\ (page = "id" => UNCHANGED polls)
  <2>1. /\ entered' \subseteq IdEntered /\ idAddr' \in IdEntered \cup {""}
        /\ form' = [f \in Fields |-> form'[f]] /\ \A f \in Fields : Source(f)'
    BY <1>1 DEF IdInv, Source, idVars
  <2>2. \A s \in Slots : page = "id" /\ IdScan(polls[s], entered, tip) => IdScan(polls'[s], entered', tip')
    BY <1>0, <1>1 DEF IdScan, idVars
  <2> QED BY <1>0, <1>1, <2>1, <2>2 DEF IdInv
<1> SUFFICES ASSUME page = "id", IdMove, UNCHANGED nodeVars PROVE IdInv'
  BY <1>1, IdMoves
<1>2. idAddr' \in IdEntered \cup {""}
  BY DEF IdInv, IdMove, IdUser, IdType, IdEnter, IdStep, IdStatus, IdFound, IdNext,
         IdNotFound, IdFails, idVars
<1>3. /\ polls = [s \in Slots |-> polls[s]] /\ \A s \in Slots : IdScan(polls[s], entered, tip)
      /\ entered \subseteq IdEntered
      /\ form = [f \in Fields |-> form[f]] /\ \A f \in Fields : Source(f)
      /\ tip' = tip
  BY DEF IdInv, nodeVars, tip
<1>4. ASSUME NEW s \in Slots, NEW p,
             polls' = [polls EXCEPT ![s] = p],
             entered \subseteq entered', entered' \subseteq IdEntered,
             form' = [f \in Fields |-> form'[f]], \A f \in Fields : Source(f)',
             IdScan(p, entered', tip')
      PROVE  IdInv'
  <2>1. polls' = [r \in Slots |-> polls'[r]]
        /\ \A r \in Slots : polls'[r] = polls[r] \/ polls'[r] = p
    BY <1>3, <1>4
  <2>2. ASSUME NEW r \in Slots PROVE IdScan(polls'[r], entered', tip')
    <3>1. CASE polls'[r] = p
      BY <1>4, <3>1 DEF IdScan
    <3>2. CASE polls'[r] = polls[r]
      <4>1. IdScan(polls[r], entered, tip)
        BY <1>3
      <4> QED BY <1>3, <1>4, <3>2, <4>1 DEF IdScan
    <3> QED BY <2>1, <3>1, <3>2
  <2> QED BY <1>0, <1>3, <1>4, <1>2, <2>1, <2>2 DEF IdInv
<1>5. CASE IdType
  <2>1. PICK g \in Fields : form' = [form EXCEPT ![g] = "typed"]
    BY <1>5 DEF IdType
  <2>2. polls' = polls /\ entered' = entered
    BY <1>5 DEF IdType
  <2>3. form' = [f \in Fields |-> form'[f]] /\ \A f \in Fields : Source(f)'
    BY <1>3, <2>1, <2>2, IdAssumption DEF Source
  <2> QED BY <1>0, <1>3, <1>2, <2>2, <2>3 DEF IdInv
<1>6. ASSUME NEW s \in Slots, NEW a \in IdEntered, IdEnter(s, a) PROVE IdInv'
  <2>1. entered' = entered \cup {a} /\ form' = form
    BY <1>6 DEF IdEnter
  <2>2. \A f \in Fields : Source(f)'
    BY <1>3, <2>1 DEF Source
  <2> DEFINE p == [pc |-> "status", addr |-> a]
  <2>3. polls' = [polls EXCEPT ![s] = p] \/ polls' = [polls EXCEPT ![s] = polls[s]]
    BY <1>3, <1>6 DEF IdEnter, Goto
  <2>4. IdScan(p, entered', tip')
    BY <2>1 DEF IdScan
  <2>5. PICK q : polls' = [polls EXCEPT ![s] = q] /\ (q = p \/ q = polls[s])
    BY <2>3
  <2>6. IdScan(q, entered', tip')
    <3>1. CASE q = p
      BY <2>4, <3>1
    <3>2. CASE q = polls[s]
      <4>1. IdScan(q, entered, tip)
        BY <1>3, <3>2
      <4> QED BY <1>3, <2>1, <4>1 DEF IdScan
    <3> QED BY <2>5, <3>1, <3>2
  <2>7. entered \subseteq entered' /\ entered' \subseteq IdEntered
        /\ form' = [f \in Fields |-> form'[f]]
    BY <1>3, <2>1
  <2> QED BY <1>4, <2>2, <2>5, <2>6, <2>7
<1>7. ASSUME NEW s \in Slots, IdStep(s) PROVE IdInv'
  <2>0. IdScan(polls[s], entered, tip)
    BY <1>3
  <2>1. CASE IdStatus(s)
    <3> DEFINE a == polls[s].addr
               p == [pc |-> "scan", addr |-> a, at |-> tip, h |-> tip]
    <3>1. polls' = [polls EXCEPT ![s] = p] /\ form' = form /\ entered' = entered
      BY <2>1 DEF IdStatus, Goto, idVars
    <3>2. a \in entered
      BY <2>0, <2>1 DEF IdScan, IdStatus, At, Idle
    <3>3. IdScan(p, entered', tip')
      BY <1>0, <1>3, <3>1, <3>2 DEF IdScan
    <3>4. \A f \in Fields : Source(f)'
      BY <1>3, <3>1 DEF Source
    <3> HIDE DEF p
    <3> QED BY <1>3, <1>4, <3>1, <3>3, <3>4
  <2>2. CASE IdFound(s)
    <3> DEFINE h == polls[s].h
               a == polls[s].addr
               t == FirstIn(h, a)
    <3>1. /\ polls' = [polls EXCEPT ![s] = Idle] /\ entered' = entered
          /\ form' = [f \in Fields |-> IF f \in Profile[t] THEN t ELSE form[f]]
          /\ t # NoProfile /\ polls[s].pc = "scan"
          /\ h \in Window(polls[s].at, IdWindow)
      BY <2>2 DEF IdFound, IdFill, Goto, At
    <3>2. a \in entered /\ polls[s].at \in 0..tip
      BY <2>0, <3>1 DEF IdScan, Idle
    <3>3. h \in 1..tip
      <4>1. polls[s].at \in Nat /\ polls[s].at <= tip
        BY <1>0, <3>2
      <4>2. h \in 1..polls[s].at
        BY <3>1, <4>1, WindowIn, IdAssumption
      <4> QED BY <1>0, <4>1, <4>2
    <3> HIDE DEF h, a
    <3>4. t \in Txs /\ Matches(t, a)
      BY <3>1, <3>3, FirstInMatches
    <3>5. a \in ToSet(Named[t])
      BY <3>4 DEF Matches
    <3> HIDE DEF t
    <3>6. \A f \in Fields : Source(f)'
      BY <1>3, <3>1, <3>2, <3>4, <3>5 DEF Source
    <3>7. IdScan(Idle, entered', tip')
      BY DEF IdScan
    <3> QED BY <1>3, <1>4, <3>1, <3>6, <3>7
  <2>3. CASE IdNext(s)
    <3> DEFINE o == polls[s]
               p == [o EXCEPT !.h = @ - 1]
    <3>1. polls' = [polls EXCEPT ![s] = p] /\ form' = form /\ entered' = entered
          /\ o.pc = "scan"
      BY <2>3 DEF IdNext, Goto, At, idVars
    <3>2. IdScan(o, entered, tip)
      BY <2>0
    <3> HIDE DEF o
    <3>3. /\ p = [pc |-> "scan", addr |-> o.addr, at |-> o.at, h |-> o.h - 1]
          /\ o.addr \in entered /\ o.at \in 0..tip /\ o.h \in Int
      BY <3>1, <3>2 DEF IdScan, Idle
    <3> HIDE DEF p
    <3>4. IdScan(p, entered', tip')
      BY <1>0, <1>3, <3>1, <3>3 DEF IdScan
    <3>5. \A f \in Fields : Source(f)'
      BY <1>3, <3>1 DEF Source
    <3> QED BY <1>3, <1>4, <3>1, <3>4, <3>5
  <2>4. CASE IdNotFound(s) \/ IdFails(s)
    <3>1. polls' = [polls EXCEPT ![s] = Idle] /\ form' = form /\ entered' = entered
      BY <2>4 DEF IdNotFound, IdFails, Goto, idVars
    <3>2. IdScan(Idle, entered', tip') /\ \A f \in Fields : Source(f)'
      BY <1>3, <3>1 DEF Source, IdScan
    <3> QED BY <1>3, <1>4, <3>1, <3>2
  <2> QED BY <1>7, <2>1, <2>2, <2>3, <2>4 DEF IdStep
<1> QED BY <1>5, <1>6, <1>7 DEF IdMove, IdUser
-----------------------------------------------------------------------------
\* A detail is about a transaction or a block there is, and the block it
\* names for a transaction holds it.
Known(d, n, c) ==
  /\ d = [what |-> d.what, h |-> d.h] /\ d.what \in Txs \cup 1..n /\ d.h \in 0..n
  /\ d.what \in Txs /\ d.h # 0 => d.what \in ToSet(c[d.h])

\* A poll of the mempool page keeps a height there is and transactions.
MpPoll(p, n) ==
  \/ p = Idle
  \/ p = Waiting
  \/ p = [pc |-> "lists", h |-> p.h] /\ p.h \in 1..n
  \/ p = [pc |-> "blocks", h |-> p.h, P |-> p.P] /\ p.h \in 1..n /\ p.P \subseteq Txs

\* The detail box is empty with nothing clicked, or is about what was clicked
\* last; an enrichTx in flight is about a transaction.
MpDetail ==
  /\ \/ selected = Nothing /\ clicked = Nothing
     \/ Known(selected, tip, chain) /\ selected.what = clicked
  /\ IsFiniteSet(enriching) /\ Cardinality(enriching) <= MaxEnrich
  /\ \A d \in enriching : Known(d, tip, chain) /\ d.what \in Txs

\* The page shows transactions, and blocks there are with what they hold:
\* those it kept from an earlier poll are as good as new ones.
MpPage ==
  /\ polls = [s \in Slots |-> polls[s]] /\ \A s \in Slots : MpPoll(polls[s], tip)
  /\ shown = [online |-> shown.online, h |-> shown.h,
              unconfirmed |-> shown.unconfirmed, blocks |-> shown.blocks]
  /\ shown.unconfirmed \subseteq Txs
  /\ \A b \in ToSet(shown.blocks) : b.height \in 1..tip /\ b.txs = chain[b.height]

\* The invariant of the mempool page.
MpInv == MpDetail /\ (page = "mempool" => MpPage)

\* The steps of the mempool page.
MpMove == MpUser \/ \E s \in Slots : MpTick(s) \/ MpStep(s)

\* Any other step leaves the mempool page alone.
LEMMA MpMoves ==
  ASSUME [Next]_vars
  PROVE  \/ page = "mempool" /\ MpMove /\ UNCHANGED nodeVars
         \/ UNCHANGED mempoolVars /\ (page = "mempool" => UNCHANGED <<polls, shown>>)
<1>1. CASE Chain
  BY <1>1 DEF Chain, pageVars
<1>2. CASE Timer
  BY <1>2 DEF Timer, othersThan, MpMove
<1>3. CASE \E s \in Slots : Answer(s)
  BY <1>3 DEF Answer, othersThan, MpMove
<1>4. CASE User
  BY <1>4 DEF User, othersThan, MpMove
<1>5. CASE UNCHANGED vars
  BY <1>5 DEF vars, pageVars
<1> QED BY <1>1, <1>2, <1>3, <1>4, <1>5 DEF Next

\* A detail stays right as the chain grows.
LEMMA KnownStays ==
  ASSUME Grown, NEW d, Known(d, tip, chain)
  PROVE  Known(d, tip', chain')
BY DEF Grown, Known

\* So does the page.
LEMMA MpKept ==
  ASSUME MpInv, Grown, UNCHANGED mempoolVars,
         page = "mempool" => UNCHANGED <<polls, shown>>
  PROVE  MpInv'
<1>1. MpDetail'
  BY KnownStays DEF MpInv, MpDetail, mempoolVars
<1>2. ASSUME page = "mempool" PROVE MpPage'
  <2>1. polls' = polls /\ shown' = shown /\ MpPage
    BY <1>2 DEF MpInv
  <2>2. \A s \in Slots : MpPoll(polls[s], tip) => MpPoll(polls[s], tip')
    BY DEF Grown, MpPoll
  <2>3. \A b \in ToSet(shown.blocks) : b.height \in 1..tip' /\ b.txs = chain'[b.height]
    BY <2>1 DEF Grown, MpPage
  <2> QED BY <2>1, <2>2, <2>3 DEF MpPage
<1> QED BY <1>1, <1>2 DEF MpInv, Grown

\* Clicks, and answers to enrichTx, keep the invariant.
LEMMA MpClicks ==
  ASSUME MpInv, NodeInv, page = "mempool", MpUser, UNCHANGED <<nodeVars, page>>
  PROVE  MpInv'
<1>0. /\ tip \in Nat /\ tip' = tip /\ chain' = chain
      /\ \A h \in 1..tip : chain[h] \in Seq(Txs)
      /\ MpPage /\ MpDetail
  BY DEF NodeInv, NodeTypeOK, tip, nodeVars, MpInv
<1>1. ASSUME UNCHANGED <<polls, shown>> PROVE MpPage'
  BY <1>0, <1>1 DEF MpPage
<1>2. CASE MpClickTx
  <2>1. PICK t \in shown.unconfirmed \cup UNION {ToSet(b.txs) : b \in ToSet(shown.blocks)} :
          /\ Cardinality(enriching \cup {FindTx(t)}) <= MaxEnrich
          /\ selected' = FindTx(t) /\ clicked' = t
          /\ enriching' = enriching \cup {FindTx(t)}
          /\ UNCHANGED <<polls, shown, page>>
    BY <1>2 DEF MpClickTx
  <2>2. t \in Txs
    <3>1. \A b \in ToSet(shown.blocks) : ToSet(b.txs) \subseteq Txs
      BY <1>0 DEF MpPage, ToSet
    <3> QED BY <1>0, <2>1, <3>1 DEF MpPage
  <2>3. Known(FindTx(t), tip, chain) /\ FindTx(t).what = t
    <3>1. CASE t \in shown.unconfirmed
      BY <1>0, <2>2, <3>1 DEF FindTx, Detail, Known
    <3>2. CASE t \notin shown.unconfirmed
      <4> DEFINE b == CHOOSE b \in ToSet(shown.blocks) : t \in ToSet(b.txs)
      <4>1. b \in ToSet(shown.blocks) /\ t \in ToSet(b.txs)
        BY <2>1, <3>2
      <4>2. FindTx(t) = [what |-> t, h |-> b.height]
        BY <3>2 DEF FindTx, Detail
      <4> HIDE DEF b
      <4>3. b.height \in 1..tip /\ t \in ToSet(chain[b.height])
        BY <1>0, <4>1 DEF MpPage
      <4> QED BY <1>0, <2>2, <4>2, <4>3 DEF Known
    <3> QED BY <3>1, <3>2
  <2>4. IsFiniteSet(enriching')
    BY <1>0, <2>1, FS_AddElement DEF MpDetail
  <2>5. MpDetail'
    BY <1>0, <2>1, <2>2, <2>3, <2>4 DEF MpDetail
  <2> QED BY <1>1, <2>1, <2>5 DEF MpInv
<1>3. CASE MpClickBlock
  <2>1. PICK b \in ToSet(shown.blocks) :
          selected' = [what |-> b.height, h |-> b.height] /\ clicked' = b.height
    BY <1>3 DEF MpClickBlock, Detail
  <2>2. UNCHANGED <<polls, shown, page, enriching>>
    BY <1>3 DEF MpClickBlock
  <2>3. b.height \in 1..tip /\ b.height \notin Txs
    BY <1>0, <2>1, MempoolAssumption, NodeAssumption DEF MpPage, NodeInv, NodeTypeOK
  <2>4. Known(selected', tip, chain)
    BY <1>0, <2>1, <2>3 DEF Known
  <2>5. MpDetail'
    BY <1>0, <2>1, <2>2, <2>4 DEF MpDetail
  <2> QED BY <1>1, <2>2, <2>5 DEF MpInv
<1>4. CASE MpEnrich
  <2>1. PICK d \in enriching : \E e \in Enriched(d) :
          /\ selected' = IF selected # Nothing /\ selected.what = d.what
                         THEN e ELSE selected
          /\ enriching' = enriching \ {d}
          /\ UNCHANGED <<polls, shown, page, clicked>>
    BY <1>4 DEF MpEnrich
  <2>2. PICK e \in Enriched(d) :
          /\ selected' = IF selected # Nothing /\ selected.what = d.what
                         THEN e ELSE selected
          /\ enriching' = enriching \ {d}
          /\ UNCHANGED <<polls, shown, page, clicked>>
    BY <2>1
  <2>3. Known(d, tip, chain) /\ d.what \in Txs
    BY <1>0 DEF MpDetail
  <2>4. Known(e, tip, chain) /\ e.what = d.what
    <3>1. CASE e = d
      BY <2>3, <3>1
    <3>2. CASE e # d
      <4> DEFINE k == CHOOSE h \in 1..tip : d.what \in ToSet(chain[h])
      <4>1. d.what \in Committed /\ e = [what |-> d.what, h |-> IF d.h # 0 THEN d.h ELSE k]
        BY <2>2, <3>2 DEF Enriched, Detail
      <4>2. k \in 1..tip /\ d.what \in ToSet(chain[k])
        BY <4>1 DEF Committed, TxsIn
      <4> HIDE DEF k
      <4> QED BY <1>0, <2>3, <4>1, <4>2 DEF Known
    <3> QED BY <3>1, <3>2
  <2>5. IsFiniteSet(enriching') /\ Cardinality(enriching') <= MaxEnrich
    <3>1. IsFiniteSet(enriching) /\ Cardinality(enriching) \in Nat
          /\ Cardinality(enriching) <= MaxEnrich /\ d \in enriching
      BY <1>0, FS_CardinalityType DEF MpDetail
    <3>2. IsFiniteSet(enriching \ {d})
          /\ Cardinality(enriching \ {d}) = Cardinality(enriching) - 1
      BY <3>1, FS_RemoveElement
    <3> QED BY <2>2, <3>1, <3>2, MempoolAssumption
  <2>6. MpDetail'
    BY <1>0, <2>2, <2>4, <2>5 DEF MpDetail
  <2> QED BY <1>1, <2>2, <2>6 DEF MpInv
<1> QED BY <1>2, <1>3, <1>4 DEF MpUser

\* So do the steps of a poll.
LEMMA MpPolls ==
  ASSUME MpInv, NodeInv, page = "mempool", UNCHANGED <<nodeVars, page>>,
         NEW s \in Slots, MpTick(s) \/ MpStep(s)
  PROVE  MpInv'
<1>0. /\ tip \in Nat /\ tip' = tip /\ chain' = chain /\ MpPage /\ MpDetail
      /\ pool \subseteq Txs /\ MpPoll(polls[s], tip)
  BY DEF NodeInv, NodeTypeOK, tip, nodeVars, MpInv, MpPage
<1>1. UNCHANGED mempoolVars
  BY DEF MpTick, MpStep, MpStatus, MpLists, MpBlocks, MpFails
<1>2. MpDetail'
  BY <1>0, <1>1 DEF MpDetail, mempoolVars
<1>3. ASSUME NEW p, polls' = [polls EXCEPT ![s] = p], MpPoll(p, tip), shown' = shown
      PROVE  MpPage'
  <2>1. polls' = [r \in Slots |-> polls'[r]]
        /\ \A r \in Slots : polls'[r] = polls[r] \/ polls'[r] = p
    BY <1>0, <1>3 DEF MpPage
  <2>2. \A r \in Slots : MpPoll(polls'[r], tip')
    BY <1>0, <1>3, <2>1 DEF MpPage
  <2> QED BY <1>0, <1>3, <2>1, <2>2 DEF MpPage
<1>4. polls' = [polls EXCEPT ![s] = Idle] /\ UNCHANGED shown => MpPage'
  BY <1>3 DEF MpPoll
<1>5. CASE MpTick(s)
  <2>1. polls' = [polls EXCEPT ![s] = Waiting] /\ shown' = shown
    BY <1>5 DEF MpTick, Goto
  <2>2. MpPoll(Waiting, tip)
    BY DEF MpPoll
  <2>3. MpPage'
    BY <1>3, <2>1, <2>2
  <2> QED BY <1>2, <2>3 DEF MpInv
<1>6. CASE MpStatus(s)
  <2> DEFINE p == [pc |-> "lists", h |-> tip]
  <2>1. polls' = [polls EXCEPT ![s] = p] /\ shown' = shown /\ tip > 0
    BY <1>6 DEF MpStatus, Goto
  <2>2. MpPoll(p, tip)
    BY <1>0, <2>1 DEF MpPoll
  <2> HIDE DEF p
  <2>3. MpPage'
    BY <1>3, <2>1, <2>2
  <2> QED BY <1>2, <2>3 DEF MpInv
<1>7. CASE MpLists(s)
  <2> DEFINE p == [pc |-> "blocks", h |-> polls[s].h, P |-> pool]
  <2>1. polls' = [polls EXCEPT ![s] = p] /\ shown' = shown /\ polls[s].pc = "lists"
    BY <1>7 DEF MpLists, Goto, At
  <2>2. MpPoll(p, tip)
    BY <1>0, <2>1 DEF MpPoll, Idle, Waiting
  <2> HIDE DEF p
  <2>3. MpPage'
    BY <1>3, <2>1, <2>2
  <2> QED BY <1>2, <2>3 DEF MpInv
<1>8. CASE MpFails(s)
  <2>1. polls' = [polls EXCEPT ![s] = Idle] /\ shown' = [shown EXCEPT !.online = FALSE]
    BY <1>8 DEF MpFails, Goto
  <2>2. \A r \in Slots : MpPoll(polls'[r], tip')
    BY <1>0, <2>1 DEF MpPage, MpPoll
  <2>3. shown' = [online |-> FALSE, h |-> shown.h,
                  unconfirmed |-> shown.unconfirmed, blocks |-> shown.blocks]
    <3> DEFINE a == shown.h
               b == shown.unconfirmed
               c == shown.blocks
               o == shown.online
    <3>1. shown = [online |-> o, h |-> a, unconfirmed |-> b, blocks |-> c]
      BY <1>0 DEF MpPage
    <3> HIDE DEF a, b, c, o
    <3>2. shown' = [online |-> FALSE, h |-> a, unconfirmed |-> b, blocks |-> c]
      BY <2>1, <3>1
    <3> QED BY <3>2 DEF a, b, c, o
  <2>4. polls' = [r \in Slots |-> polls'[r]]
    BY <1>0, <2>1 DEF MpPage
  <2>5. MpPage'
    BY <1>0, <2>2, <2>3, <2>4 DEF MpPage
  <2> QED BY <1>2, <2>5 DEF MpInv
<1>9. CASE MpBlocks(s)
  <2> DEFINE h == polls[s].h
             n == Cardinality(Window(h, MpWindow))
             cached == {b.height : b \in ToSet(shown.blocks)}
             block(k) == IF k \in cached THEN ShownBlock(k) ELSE MpBlock(k)
  <2>1. /\ polls' = [polls EXCEPT ![s] = Idle] /\ polls[s].pc = "blocks"
        /\ shown' = [online |-> TRUE, h |-> h, unconfirmed |-> polls[s].P,
                     blocks |-> [i \in 1..n |-> block(h + 1 - i)]]
    BY <1>9 DEF MpBlocks, Goto, At
  <2>2. h \in 1..tip /\ polls[s].P \subseteq Txs
    BY <1>0, <2>1 DEF MpPoll, Idle, Waiting
  <2>3. \A k \in 1..tip : block(k).height = k /\ block(k).txs = chain[k]
    <3> SUFFICES ASSUME NEW k \in 1..tip
                 PROVE  block(k).height = k /\ block(k).txs = chain[k]
      OBVIOUS
    <3>1. CASE k \notin cached
      BY <3>1 DEF MpBlock
    <3>2. CASE k \in cached
      <4>1. ShownBlock(k) \in ToSet(shown.blocks) /\ ShownBlock(k).height = k
        BY <3>2 DEF ShownBlock
      <4> QED BY <1>0, <3>2, <4>1 DEF MpPage
    <3> QED BY <3>1, <3>2
  <2> HIDE DEF block
  <2>4. n \in 0..h
    <3>1. h \in Nat /\ MpWindow \in Nat
      BY <1>0, <2>2, MempoolAssumption
    <3> QED BY <3>1, WindowSize
  <2> HIDE DEF n, h
  <2>5. \A i \in 1..n : h + 1 - i \in 1..tip
    BY <1>0, <2>2, <2>4
  <2>6. \A b \in ToSet(shown'.blocks) : b.height \in 1..tip /\ b.txs = chain[b.height]
    BY <2>1, <2>3, <2>5 DEF ToSet
  <2>7. \A r \in Slots : MpPoll(polls'[r], tip')
    BY <1>0, <2>1 DEF MpPage, MpPoll
  <2>8. shown' = [online |-> shown'.online, h |-> shown'.h,
                  unconfirmed |-> shown'.unconfirmed, blocks |-> shown'.blocks]
        /\ shown'.unconfirmed \subseteq Txs
    BY <2>1, <2>2
  <2>9. polls' = [r \in Slots |-> polls'[r]]
    BY <1>0, <2>1 DEF MpPage
  <2>10. MpPage'
    BY <1>0, <2>6, <2>7, <2>8, <2>9 DEF MpPage
  <2> QED BY <1>2, <2>10 DEF MpInv
<1> QED BY <1>5, <1>6, <1>7, <1>8, <1>9 DEF MpStep

\* Every step keeps the invariant of the mempool page.
LEMMA MpStepInv ==
  ASSUME MpInv, NodeInv, Grown, [Next]_vars
  PROVE  MpInv'
<1>0. page' = page
  BY DEF Grown
<1>1. CASE UNCHANGED mempoolVars /\ (page = "mempool" => UNCHANGED <<polls, shown>>)
  BY <1>1, MpKept
<1>2. CASE page = "mempool" /\ MpMove /\ UNCHANGED nodeVars
  BY <1>0, <1>2, MpClicks, MpPolls DEF MpMove
<1> QED BY <1>1, <1>2, MpMoves
-----------------------------------------------------------------------------
\* scoreTx as a function.
Score == [t \in Txs |-> ScoreTx(t)]

\* ScoreIn with its chain as a parameter.
ScoreOf(a, H, c) ==
  SumOver(Score, {t \in UNION {ToSet(c[h]) : h \in H} : a \in ToSet(Mentions[t])})

\* The recursion behind MapThenSumSet.
ScoreSums(S, g) ==
  g = [s \in SUBSET S |-> IF s = {} THEN 0 ELSE ScoreTx(Taken(s)) + g[Left(s)]]

\* A score is never negative.
LEMMA ScoreIsNat == \A t \in Txs : Score[t] \in Nat
  BY DEF Score, ScoreTx

\* MapThenSumSet of the community modules is that recursion.
LEMMA ScoreIsRecursion ==
  ASSUME NEW S
  PROVE  MapThenSumSet(ScoreTx, S) = (CHOOSE g : ScoreSums(S, g))[S]
  BY DEF MapThenSumSet, MapThenFoldSet, ScoreSums, Taken, Left

\* So it is the sum of FiniteSumsProofs.
LEMMA ScoreIsSum ==
  ASSUME NEW S \in SUBSET Txs
  PROVE  MapThenSumSet(ScoreTx, S) = SumOver(Score, S)
<1>1. IsFiniteSet(S)
  BY NodeAssumption, FS_Subset
<1>2. ASSUME NEW g PROVE ScoreSums(S, g) <=> Sums(Score, S, g)
  <2>1. \A s \in SUBSET S : s # {} => Score[Taken(s)] = ScoreTx(Taken(s))
    BY DEF Score, Taken
  <2>2. [s \in SUBSET S |-> IF s = {} THEN 0 ELSE ScoreTx(Taken(s)) + g[Left(s)]] =
        [s \in SUBSET S |-> IF s = {} THEN 0 ELSE Score[Taken(s)] + g[Left(s)]]
    BY <2>1
  <2> QED BY <2>2 DEF ScoreSums, Sums
<1> DEFINE G == CHOOSE g : ScoreSums(S, g)
<1>3. ScoreSums(S, G)
  BY <1>1, <1>2, SumsExist
<1>4. Sums(Score, S, G)
  BY <1>2, <1>3
<1>5. MapThenSumSet(ScoreTx, S) = G[S]
  BY ScoreIsRecursion
<1> HIDE DEF G
<1>6. PICK g : Sums(Score, S, g) /\ SumOver(Score, S) = g[S]
  BY <1>1, SumHasFunction
<1>7. G[S] = g[S]
  <2>1. S \in SUBSET S /\ S \in SUBSET (S \cap S)
    OBVIOUS
  <2> QED BY <1>1, <1>4, <1>6, <2>1, SumsAgree
<1> QED BY <1>5, <1>6, <1>7

\* What blocks hold is transactions.
LEMMA BlocksHoldTxs ==
  ASSUME NodeInv, NEW H \in SUBSET (1..tip)
  PROVE  UNION {ToSet(chain[h]) : h \in H} \subseteq Txs
<1>1. \A h \in H : chain[h] \in Seq(Txs)
  BY DEF NodeInv, NodeTypeOK, tip
<1> QED BY <1>1 DEF ToSet

\* ScoreOf is ScoreIn.
LEMMA ScoreInIs ==
  ASSUME NodeInv, NEW H \in SUBSET (1..tip), NEW a
  PROVE  ScoreIn(a, H) = ScoreOf(a, H, chain)
<1> DEFINE S == {t \in UNION {ToSet(chain[h]) : h \in H} : a \in ToSet(Mentions[t])}
<1>1. S \in SUBSET Txs
  BY BlocksHoldTxs
<1>2. ScoreIn(a, H) = MapThenSumSet(ScoreTx, S)
  BY DEF ScoreIn, TxsIn
<1>3. ScoreOf(a, H, chain) = SumOver(Score, S)
  BY DEF ScoreOf
<1> HIDE DEF S
<1> QED BY <1>1, <1>2, <1>3, ScoreIsSum

\* The score of blocks does not change as the chain grows.
LEMMA ScoreKept ==
  ASSUME Grown, NEW H \in SUBSET (1..tip), NEW a
  PROVE  ScoreOf(a, H, chain') = ScoreOf(a, H, chain)
<1>1. UNION {ToSet(chain'[h]) : h \in H} = UNION {ToSet(chain[h]) : h \in H}
  BY DEF Grown
<1> DEFINE U == UNION {ToSet(chain[h]) : h \in H}
           V == UNION {ToSet(chain'[h]) : h \in H}
<1>2. U = V /\ ScoreOf(a, H, chain) = SumOver(Score, {t \in U : a \in ToSet(Mentions[t])})
      /\ ScoreOf(a, H, chain') = SumOver(Score, {t \in V : a \in ToSet(Mentions[t])})
  BY <1>1 DEF ScoreOf
<1> HIDE DEF U, V
<1> QED BY <1>2

\* The score of blocks is a natural number.
LEMMA ScoreTyped ==
  ASSUME NodeInv, NEW H \in SUBSET (1..tip), NEW a
  PROVE  ScoreOf(a, H, chain) \in Nat
<1> DEFINE S == {t \in UNION {ToSet(chain[h]) : h \in H} : a \in ToSet(Mentions[t])}
<1>1. S \in SUBSET Txs
  BY BlocksHoldTxs
<1>2. ScoreOf(a, H, chain) = SumOver(Score, S)
  BY DEF ScoreOf
<1> HIDE DEF S
<1>3. IsFiniteSet(S) /\ Nat \in {Nat, Int} /\ \A t \in S : Score[t] \in Nat
  BY <1>1, ScoreIsNat, NodeAssumption, FS_Subset
<1>4. PICK g : Sums(Score, S, g) /\ SumOver(Score, S) = g[S]
  BY <1>3, SumHasFunction
<1>5. g[S] \in Nat
  <2>1. S \in SUBSET S
    OBVIOUS
  <2> QED BY <1>3, <1>4, <2>1, SumsTyped
<1> QED BY <1>2, <1>4, <1>5

\* One more block adds its own score: no transaction is in two blocks.
LEMMA ScoreAdds ==
  ASSUME NodeInv, NEW H \in SUBSET (1..tip), NEW k \in (1..tip) \ H, NEW a
  PROVE  ScoreOf(a, H \cup {k}, chain) = ScoreOf(a, H, chain) + ScoreOf(a, {k}, chain)
<1> DEFINE F(G) == {t \in UNION {ToSet(chain[h]) : h \in G} : a \in ToSet(Mentions[t])}
           S == F(H \cup {k})
           A == F(H)
           B == F({k})
<1>1. S \in SUBSET Txs
  <2>1. H \cup {k} \in SUBSET (1..tip)
    OBVIOUS
  <2>2. UNION {ToSet(chain[h]) : h \in H \cup {k}} \subseteq Txs
    BY <2>1, BlocksHoldTxs
  <2> QED BY <2>2
<1>2. A \in SUBSET S
  OBVIOUS
<1>3. S \ A = B
  <2>1. \A h \in H : ToSet(chain[h]) \cap ToSet(chain[k]) = {}
    BY DEF NodeInv
  <2>2. \A t : t \in S <=> /\ a \in ToSet(Mentions[t])
                          /\ \/ \E h \in H : t \in ToSet(chain[h])
                             \/ t \in ToSet(chain[k])
    OBVIOUS
  <2>3. \A t : t \in A <=> /\ a \in ToSet(Mentions[t])
                          /\ \E h \in H : t \in ToSet(chain[h])
    OBVIOUS
  <2>4. \A t : t \in B <=> a \in ToSet(Mentions[t]) /\ t \in ToSet(chain[k])
    OBVIOUS
  <2> HIDE DEF S, A, B
  <2>5. \A t : t \in S \ A <=> t \in B
    BY <2>1, <2>2, <2>3, <2>4
  <2> QED BY <2>5
<1>4. /\ ScoreOf(a, H \cup {k}, chain) = SumOver(Score, S)
      /\ ScoreOf(a, H, chain) = SumOver(Score, A)
      /\ ScoreOf(a, {k}, chain) = SumOver(Score, B)
  BY DEF ScoreOf
<1> HIDE DEF S, A, B
<1>5. IsFiniteSet(S) /\ \A t \in S : Score[t] \in Int
  BY <1>1, ScoreIsNat, NodeAssumption, FS_Subset
<1>6. SumOver(Score, S) = SumOver(Score, A) + SumOver(Score, S \ A)
  BY <1>2, <1>5, SumJoined
<1>7. SumOver(Score, S \ A) = SumOver(Score, B)
  BY <1>3
<1> QED BY <1>4, <1>6, <1>7

\* What a scan has summed is not more than the blocks it has had give.
PtPoll(p, n, c) ==
  \/ p = Idle
  \/ p = Waiting
  \/ /\ p = [pc |-> "scan", h |-> p.h, left |-> p.left, scores |-> p.scores]
     /\ p.h \in 0..n /\ p.left \subseteq Window(p.h, PtWindow)
     /\ p.scores \in [Scored -> Nat]
     /\ \A a \in Scored :
          p.scores[a] <= ScoreOf(a, Window(p.h, PtWindow) \ p.left, c)

\* The board credits nobody with more than the window of its height gives.
PtRows(rows, scan, n, c) ==
  /\ scan \in 0..n /\ rows \in [Scored -> Nat]
  /\ \A a \in Scored : rows[a] <= ScoreOf(a, Window(scan, PtWindow), c)

\* The points page and its polls in flight.
PtPage ==
  /\ polls = [s \in Slots |-> polls[s]]
  /\ \A s \in Slots : PtPoll(polls[s], tip, chain)
  /\ shown = [live |-> shown.live, h |-> shown.h, rows |-> shown.rows,
              scan |-> shown.scan]
  /\ PtRows(shown.rows, shown.scan, tip, chain)

\* The invariant of the points page.
PtInv == page = "points" => PtPage

\* The steps of the points page.
PtMove == \E s \in Slots : BdTick(s) \/ PtStep(s)

\* Any other step leaves the points page alone.
LEMMA PtMoves ==
  ASSUME [Next]_vars, page = "points"
  PROVE  (PtMove /\ UNCHANGED nodeVars) \/ UNCHANGED <<polls, shown>>
<1>1. CASE Chain
  BY <1>1 DEF Chain, pageVars
<1>2. CASE Timer
  BY <1>2 DEF Timer, othersThan, PtMove
<1>3. CASE \E s \in Slots : Answer(s)
  BY <1>3 DEF Answer, othersThan, PtMove
<1>4. CASE User
  BY <1>4 DEF User, othersThan
<1>5. CASE UNCHANGED vars
  BY <1>5 DEF vars, pageVars
<1> QED BY <1>1, <1>2, <1>3, <1>4, <1>5 DEF Next

\* Its window is of blocks there are.
LEMMA PtWindowIn ==
  ASSUME NodeInv, NEW h \in 0..tip
  PROVE  Window(h, PtWindow) \in SUBSET (1..tip) /\ h \in Nat
<1>1. tip \in Nat /\ h \in Nat /\ h <= tip
  BY DEF NodeInv, NodeTypeOK, tip
<1>2. Window(h, PtWindow) \subseteq 1..h
  BY <1>1, WindowIn, BoardsAssumption
<1> QED BY <1>1, <1>2

\* A board stays right as the chain grows.
LEMMA PtKept ==
  ASSUME PtInv, NodeInv, Grown, UNCHANGED <<polls, shown>>
  PROVE  PtInv'
<1> SUFFICES ASSUME page = "points", PtPage PROVE PtPage'
  BY DEF PtInv, Grown
<1>0. tip \in Nat /\ tip' \in Nat /\ tip <= tip'
  BY DEF Grown
<1>1. ASSUME NEW s \in Slots PROVE PtPoll(polls[s], tip', chain')
  <2> DEFINE p == polls[s]
             H == Window(p.h, PtWindow) \ p.left
  <2>1. PtPoll(p, tip, chain)
    BY DEF PtPage
  <2>2. CASE p = Idle \/ p = Waiting
    BY <2>2 DEF PtPoll
  <2>3. CASE ~(p = Idle \/ p = Waiting)
    <3>1. p.h \in 0..tip
      BY <2>1, <2>3 DEF PtPoll
    <3>2. H \in SUBSET (1..tip)
      BY <3>1, PtWindowIn
    <3>3. \A a \in Scored : ScoreOf(a, H, chain') = ScoreOf(a, H, chain)
      BY <3>2, ScoreKept
    <3>4. /\ p = [pc |-> "scan", h |-> p.h, left |-> p.left, scores |-> p.scores]
          /\ p.left \subseteq Window(p.h, PtWindow) /\ p.scores \in [Scored -> Nat]
          /\ \A a \in Scored : p.scores[a] <= ScoreOf(a, H, chain)
      BY <2>1, <2>3 DEF PtPoll
    <3>5. p.h \in 0..tip'
      BY <1>0, <3>1
    <3>6. \A a \in Scored : p.scores[a] <= ScoreOf(a, H, chain')
      BY <3>3, <3>4
    <3>7. PtPoll(p, tip', chain')
      <4> HIDE DEF p
      <4> QED BY <3>4, <3>5, <3>6 DEF PtPoll
    <3> QED BY <3>7
  <2> QED BY <2>2, <2>3
<1>2. PtRows(shown.rows, shown.scan, tip', chain')
  <2> DEFINE H == Window(shown.scan, PtWindow)
  <2>1. PtRows(shown.rows, shown.scan, tip, chain)
    BY DEF PtPage
  <2>2. H \in SUBSET (1..tip)
    BY <2>1, PtWindowIn DEF PtRows
  <2>3. \A a \in Scored : ScoreOf(a, H, chain') = ScoreOf(a, H, chain)
    BY <2>2, ScoreKept
  <2> QED BY <1>0, <2>1, <2>3 DEF PtRows
<1> QED BY <1>1, <1>2 DEF PtPage

\* The steps of a poll keep the invariant: a block counts once, or not at all
\* when its answer is an error.
LEMMA PtPolls ==
  ASSUME PtPage, NodeInv, UNCHANGED <<nodeVars, page>>,
         NEW s \in Slots, BdTick(s) \/ PtStep(s)
  PROVE  PtPage'
<1>0. /\ tip \in Nat /\ tip' = tip /\ chain' = chain
      /\ PtPoll(polls[s], tip, chain)
  BY DEF NodeInv, NodeTypeOK, tip, nodeVars, PtPage
<1>1. ASSUME NEW p, polls' = [polls EXCEPT ![s] = p], PtPoll(p, tip, chain),
             NEW l, NEW h, NEW r, NEW k,
             shown' = [live |-> l, h |-> h, rows |-> r, scan |-> k],
             PtRows(r, k, tip, chain)
      PROVE  PtPage'
  <2>1. polls' = [q \in Slots |-> polls'[q]]
        /\ \A q \in Slots : polls'[q] = polls[q] \/ polls'[q] = p
    BY <1>1 DEF PtPage
  <2>2. \A q \in Slots : PtPoll(polls'[q], tip', chain')
    BY <1>0, <1>1, <2>1 DEF PtPage
  <2>3. shown' = [live |-> shown'.live, h |-> shown'.h, rows |-> shown'.rows,
                  scan |-> shown'.scan]
        /\ shown'.rows = r /\ shown'.scan = k
    BY <1>1
  <2>4. PtRows(shown'.rows, shown'.scan, tip', chain')
    BY <1>0, <1>1, <2>3
  <2> QED BY <2>1, <2>2, <2>3, <2>4 DEF PtPage
<1>2. PICK l, h, r, k : /\ shown = [live |-> l, h |-> h, rows |-> r, scan |-> k]
                        /\ PtRows(r, k, tip, chain)
  BY DEF PtPage
<1>3. PtPoll(Idle, tip, chain) /\ PtPoll(Waiting, tip, chain)
  BY DEF PtPoll
<1>4. \A a : ScoreOf(a, {}, chain) \in Nat
  <2>1. {} \in SUBSET (1..tip)
    OBVIOUS
  <2> QED BY <2>1, ScoreTyped
<1>5. NoScores \in [Scored -> Nat] /\ \A a \in Scored : NoScores[a] = 0
  BY DEF NoScores
<1>6. CASE BdTick(s)
  <2>1. polls' = [polls EXCEPT ![s] = Waiting] /\ shown' = shown
    BY <1>6 DEF BdTick, Goto
  <2> QED BY <1>1, <1>2, <1>3, <2>1
<1>7. CASE PtStatus(s)
  <2> DEFINE p == [pc |-> "scan", h |-> tip, left |-> Window(tip, PtWindow),
                   scores |-> NoScores]
  <2>1. polls' = [polls EXCEPT ![s] = p]
        /\ shown' = [shown EXCEPT !.live = TRUE, !.h = tip]
    BY <1>7 DEF PtStatus, Goto
  <2>2. Window(tip, PtWindow) \ Window(tip, PtWindow) = {}
    OBVIOUS
  <2>3. \A a \in Scored : NoScores[a] <= ScoreOf(a, {}, chain)
    BY <1>4, <1>5
  <2>4. PtPoll(p, tip, chain)
    BY <1>0, <1>5, <2>2, <2>3 DEF PtPoll
  <2>5. shown' = [live |-> TRUE, h |-> tip, rows |-> r, scan |-> k]
    BY <1>2, <2>1
  <2> HIDE DEF p
  <2> QED BY <1>1, <1>2, <2>1, <2>4, <2>5
<1>8. CASE PtFails(s)
  <2>1. polls' = [polls EXCEPT ![s] = Idle]
        /\ shown' = [shown EXCEPT !.live = FALSE, !.rows = NoScores]
    BY <1>8 DEF PtFails, Goto
  <2>2. shown' = [live |-> FALSE, h |-> h, rows |-> NoScores, scan |-> k]
    BY <1>2, <2>1
  <2>3. \A a : ScoreOf(a, Window(k, PtWindow), chain) \in Nat
    BY <1>2, PtWindowIn, ScoreTyped DEF PtRows
  <2>4. PtRows(NoScores, k, tip, chain)
    BY <1>2, <1>5, <2>3 DEF PtRows
  <2> QED BY <1>1, <1>3, <2>1, <2>2, <2>4
<1>9. ASSUME polls[s].pc = "scan"
      PROVE  \E m, left, sc :
               /\ polls[s] = [pc |-> "scan", h |-> m, left |-> left, scores |-> sc]
               /\ m \in 0..tip /\ left \subseteq Window(m, PtWindow)
               /\ sc \in [Scored -> Nat]
               /\ \A a \in Scored : sc[a] <= ScoreOf(a, Window(m, PtWindow) \ left, chain)
  <2> DEFINE o == polls[s]
  <2>1. /\ o = [pc |-> "scan", h |-> o.h, left |-> o.left, scores |-> o.scores]
        /\ o.h \in 0..tip /\ o.left \subseteq Window(o.h, PtWindow)
        /\ o.scores \in [Scored -> Nat]
        /\ \A a \in Scored :
             o.scores[a] <= ScoreOf(a, Window(o.h, PtWindow) \ o.left, chain)
    BY <1>0, <1>9 DEF PtPoll, Idle, Waiting
  <2> HIDE DEF o
  <2>2. \E m, left, sc :
          /\ o = [pc |-> "scan", h |-> m, left |-> left, scores |-> sc]
          /\ m \in 0..tip /\ left \subseteq Window(m, PtWindow)
          /\ sc \in [Scored -> Nat]
          /\ \A a \in Scored : sc[a] <= ScoreOf(a, Window(m, PtWindow) \ left, chain)
    <3> WITNESS o.h, o.left, o.scores
    <3> QED BY <2>1
  <2> QED BY <2>2 DEF o
<1>10. CASE PtBlock(s)
  <2>1. PICK m, left, sc :
          /\ polls[s] = [pc |-> "scan", h |-> m, left |-> left, scores |-> sc]
          /\ m \in 0..tip /\ left \subseteq Window(m, PtWindow)
          /\ sc \in [Scored -> Nat]
          /\ \A a \in Scored : sc[a] <= ScoreOf(a, Window(m, PtWindow) \ left, chain)
    BY <1>9, <1>10 DEF PtBlock, At
  <2> DEFINE b == Min(left)
             add == [a \in Scored |-> sc[a] + ScoreIn(a, {b})]
             new == IF up THEN add ELSE sc
             W == Window(m, PtWindow)
             p == [pc |-> "scan", h |-> m, left |-> left \ {b}, scores |-> new]
  <2>2. left # {} /\ polls' = [polls EXCEPT ![s] = p] /\ shown' = shown
    <3>1. /\ polls[s].left = left /\ polls[s].scores = sc
      BY <2>1
    <3>2. left # {} /\ shown' = shown
          /\ Goto(s, [polls[s] EXCEPT !.left = left \ {b}, !.scores = new])
      BY <1>10, <3>1 DEF PtBlock
    <3> DEFINE rest == left \ {b}
    <3> HIDE DEF b, new, rest
    <3>3. [polls[s] EXCEPT !.left = rest, !.scores = new] =
          [pc |-> "scan", h |-> m, left |-> rest, scores |-> new]
      <4> DEFINE o == polls[s]
      <4>1. o = [pc |-> "scan", h |-> m, left |-> left, scores |-> sc]
        BY <2>1
      <4> HIDE DEF o
      <4> DEFINE q == [o EXCEPT !.left = rest, !.scores = new]
      <4>2. q = [x \in DOMAIN q |-> q[x]] /\ DOMAIN q = {"pc", "h", "left", "scores"}
        BY <4>1
      <4>3. q.pc = "scan" /\ q.h = m /\ q.left = rest /\ q.scores = new
        BY <4>1
      <4> HIDE DEF q
      <4>4. q = [pc |-> "scan", h |-> m, left |-> rest, scores |-> new]
        BY <4>2, <4>3
      <4> QED BY <4>4 DEF q, o
    <3> QED BY <3>2, <3>3 DEF Goto, rest
  <2>3. W \in SUBSET (1..tip)
    BY <2>1, PtWindowIn
  <2>4. left \in SUBSET Nat
    BY <1>0, <2>1, <2>3
  <2>5. b \in left
    BY <2>2, <2>4, LeastNatural
  <2> HIDE DEF b
  <2> DEFINE H == W \ left
  <2>6. /\ H \in SUBSET (1..tip) /\ b \in (1..tip) \ H /\ {b} \in SUBSET (1..tip)
        /\ W \ (left \ {b}) = H \cup {b}
    BY <2>1, <2>3, <2>5
  <2> HIDE DEF H, W
  <2>7. ASSUME NEW a \in Scored
        PROVE  /\ new[a] \in Nat
               /\ new[a] <= ScoreOf(a, W \ (left \ {b}), chain)
    <3>1. ScoreOf(a, H \cup {b}, chain) = ScoreOf(a, H, chain) + ScoreOf(a, {b}, chain)
      BY <2>6, ScoreAdds
    <3>2. ScoreOf(a, H, chain) \in Nat /\ ScoreOf(a, {b}, chain) \in Nat
      BY <2>6, ScoreTyped
    <3>3. ScoreIn(a, {b}) = ScoreOf(a, {b}, chain)
      BY <2>6, ScoreInIs
    <3>4. sc[a] \in Nat /\ sc[a] <= ScoreOf(a, H, chain)
      BY <2>1 DEF H, W
    <3>5. ScoreOf(a, W \ (left \ {b}), chain) = ScoreOf(a, H \cup {b}, chain)
      BY <2>6
    <3>6. new[a] = IF up THEN sc[a] + ScoreOf(a, {b}, chain) ELSE sc[a]
      BY <3>3
    <3> HIDE DEF new
    <3> QED BY <3>1, <3>2, <3>4, <3>5, <3>6
  <2>8. new \in [Scored -> Nat]
    <3>1. new = [a \in Scored |-> new[a]]
      BY <2>1
    <3> HIDE DEF new
    <3> QED BY <2>7, <3>1
  <2> HIDE DEF new
  <2>9. PtPoll(p, tip, chain)
    BY <2>1, <2>7, <2>8 DEF PtPoll, W
  <2> HIDE DEF p
  <2> QED BY <1>1, <1>2, <2>2, <2>9
<1>11. CASE PtWrite(s)
  <2>1. PICK m, left, sc :
          /\ polls[s] = [pc |-> "scan", h |-> m, left |-> left, scores |-> sc]
          /\ m \in 0..tip /\ left \subseteq Window(m, PtWindow)
          /\ sc \in [Scored -> Nat]
          /\ \A a \in Scored : sc[a] <= ScoreOf(a, Window(m, PtWindow) \ left, chain)
    BY <1>9, <1>11 DEF PtWrite, At
  <2>2. /\ polls' = [polls EXCEPT ![s] = Idle] /\ left = {}
        /\ shown' = [shown EXCEPT !.rows = sc, !.scan = m]
    BY <1>11, <2>1 DEF PtWrite, Goto
  <2>3. shown' = [live |-> l, h |-> h, rows |-> sc, scan |-> m]
    BY <1>2, <2>2
  <2>4. Window(m, PtWindow) \ left = Window(m, PtWindow)
    BY <2>2
  <2>5. PtRows(sc, m, tip, chain)
    BY <2>1, <2>4 DEF PtRows
  <2> QED BY <1>1, <1>3, <2>2, <2>3, <2>5
<1> QED BY <1>6, <1>7, <1>8, <1>10, <1>11 DEF PtStep

\* Every step keeps the invariant of the points page.
LEMMA PtStepInv ==
  ASSUME PtInv, NodeInv, Grown, [Next]_vars
  PROVE  PtInv'
<1>0. page' = page
  BY DEF Grown
<1>1. CASE page # "points"
  BY <1>0, <1>1 DEF PtInv
<1>2. CASE page = "points" /\ UNCHANGED <<polls, shown>>
  BY <1>2, PtKept
<1>3. CASE page = "points" /\ PtMove /\ UNCHANGED nodeVars
  <2>1. PtPage
    BY <1>3 DEF PtInv
  <2> QED BY <1>0, <1>3, <2>1, PtPolls DEF PtMove, PtInv
<1> QED BY <1>1, <1>2, <1>3, PtMoves
-----------------------------------------------------------------------------
\* Where a poll can be.
Pcs == {"status", "lists", "pool", "blocks", "balance", "lookup", "scan", "tax",
        "fetch", "ai"}

\* A poll is idle or at one of these.
Turn(p) == p = Idle \/ p.pc \in Pcs

\* A lookup of the wallet page is for an address that parses.
WaPoll(p) == p.pc \in {"balance", "lookup"} => p.addr \in IreAddrs

\* The type of the polls, whatever page is open.
PollsInv ==
  /\ polls = [s \in Slots |-> polls[s]] /\ \A s \in Slots : Turn(polls[s])
  /\ page = "wallet" => \A s \in Slots : WaPoll(polls[s])

\* The type of the wallet page; a balance and an error are never shown
\* together.
WaInv ==
  /\ address \in Entered \cup {""} /\ balance \in IreAddrs \cup {Null}
  /\ balanceError \in {"", "invalid", "unavailable"}
  /\ balance # Null => balanceError = ""

\* A poll that goes on to a place there is keeps the type.
LEMMA Turned ==
  ASSUME PollsInv, page' = page, NEW s \in Slots, NEW p, polls' = [polls EXCEPT ![s] = p],
         Turn(p), page = "wallet" => WaPoll(p)
  PROVE  PollsInv'
<1>1. polls' = [r \in Slots |-> polls'[r]]
      /\ \A r \in Slots : polls'[r] = polls[r] \/ polls'[r] = p
  BY DEF PollsInv
<1>2. \A r \in Slots : Turn(polls'[r]) /\ (page = "wallet" => WaPoll(polls'[r]))
  BY <1>1 DEF PollsInv
<1> QED BY <1>1, <1>2 DEF PollsInv, Turn, WaPoll

\* So does a poll that ends or begins.
LEMMA Ended ==
  ASSUME PollsInv, page' = page, NEW s \in Slots,
         polls' = [polls EXCEPT ![s] = Idle] \/ polls' = [polls EXCEPT ![s] = Waiting]
  PROVE  PollsInv'
<1>1. Turn(Idle) /\ Turn(Waiting) /\ WaPoll(Idle) /\ WaPoll(Waiting)
  BY DEF Turn, WaPoll, Idle, Waiting, Pcs
<1> QED BY <1>1, Turned

\* The timers keep the type of the polls.
LEMMA TimerTurns ==
  ASSUME PollsInv, page' = page, Timer
  PROVE  PollsInv'
<1>1. PICK s \in Slots : \/ polls' = [polls EXCEPT ![s] = Waiting]
                         \/ page = "sentinel" /\ SnTick(s)
  BY DEF Timer, MkTick, WaTick, MpTick, BdTick, Goto
<1>2. CASE polls' = [polls EXCEPT ![s] = Waiting]
  BY <1>2, Ended
<1>3. CASE page = "sentinel" /\ SnTick(s)
  <2> DEFINE p == [pc |-> "fetch", answer |-> <<>>]
  <2>1. polls' = [polls EXCEPT ![s] = p]
    BY <1>3 DEF SnTick, Goto
  <2>2. Turn(p)
    BY DEF Turn, Pcs
  <2> HIDE DEF p
  <2> QED BY <1>3, <2>1, <2>2, Turned
<1> QED BY <1>1, <1>2, <1>3

\* So do answers and failures.
LEMMA AnswerTurns ==
  ASSUME PollsInv, page' = page, NEW s \in Slots, Answer(s)
  PROVE  PollsInv'
<1>0. /\ polls = [r \in Slots |-> polls[r]] /\ Turn(polls[s])
      /\ page = "wallet" => WaPoll(polls[s])
  BY DEF PollsInv
<1>1. CASE page = "markets" /\ MkStep(s)
  <2>1. \E p : polls' = [polls EXCEPT ![s] = p] /\ Turn(p)
    BY <1>1 DEF MkStep, MkStatus, MkLists, MkBlocks, MkFails, Goto, Turn, Pcs
  <2> QED BY <1>1, <2>1, Turned
<1>2. CASE page = "wallet" /\ WaStep(s)
  <2>1. CASE WaStatus(s) \/ WaPool(s)
    <3>1. PICK p : polls' = [polls EXCEPT ![s] = p] /\ p.pc \in {"pool", "blocks"}
      <4>1. \/ polls' = [polls EXCEPT ![s] = [pc |-> "pool", h |-> tip]]
            \/ polls' = [polls EXCEPT ![s] =
                           [pc |-> "blocks", h |-> polls[s].h, P |-> pool]]
        BY <2>1 DEF WaStatus, WaPool, Goto
      <4>2. /\ [pc |-> "pool", h |-> tip].pc = "pool"
            /\ [pc |-> "blocks", h |-> polls[s].h, P |-> pool].pc = "blocks"
        OBVIOUS
      <4> QED BY <4>1, <4>2
    <3>2. Turn(p) /\ WaPoll(p)
      BY <3>1 DEF Turn, Pcs, WaPoll
    <3> QED BY <3>1, <3>2, Turned
  <2>2. CASE WaBlocks(s)
    <3>1. CASE polls' = [polls EXCEPT ![s] = Idle]
      BY <3>1, Ended
    <3>2. CASE polls' # [polls EXCEPT ![s] = Idle]
      <4> DEFINE txs == ActivityOf(address, polls[s].h, polls[s].P)
                 p == [pc |-> "balance", h |-> polls[s].h, addr |-> address, txs |-> txs]
      <4>1. address \in IreAddrs /\ polls' = [polls EXCEPT ![s] = p]
        BY <2>2, <3>2 DEF WaBlocks, Goto
      <4>2. Turn(p) /\ WaPoll(p)
        <5> HIDE DEF txs
        <5> QED BY <4>1 DEF Turn, WaPoll, Pcs
      <4> HIDE DEF p
      <4> QED BY <4>1, <4>2, Turned
    <3> QED BY <3>1, <3>2
  <2>3. CASE WaBalance(s) \/ WaFails(s) \/ WaLookup(s)
    BY <2>3, Ended DEF WaBalance, WaFails, WaLookup, Goto
  <2> QED BY <1>2, <2>1, <2>2, <2>3 DEF WaStep
<1>3. CASE page = "mempool" /\ MpStep(s)
  <2>1. \E p : polls' = [polls EXCEPT ![s] = p] /\ Turn(p)
    BY <1>3 DEF MpStep, MpStatus, MpLists, MpBlocks, MpFails, Goto, Turn, Pcs
  <2> QED BY <1>3, <2>1, Turned
<1>4. CASE page = "points" /\ PtStep(s)
  <2>1. CASE PtBlock(s)
    <3> DEFINE o == polls[s]
    <3>1. PICK left, scores : polls' = [polls EXCEPT ![s] =
                                [o EXCEPT !.left = left, !.scores = scores]]
      BY <2>1 DEF PtBlock, Goto
    <3>2. o.pc = "scan"
      BY <2>1 DEF PtBlock, At
    <3> HIDE DEF o
    <3> DEFINE p == [o EXCEPT !.left = left, !.scores = scores]
    <3>3. p.pc = "scan"
      BY <3>2
    <3> HIDE DEF p
    <3>4. Turn(p)
      BY <3>3 DEF Turn, Pcs
    <3> QED BY <1>4, <3>1, <3>4, Turned DEF p
  <2>2. CASE ~PtBlock(s)
    <3>1. \E p : polls' = [polls EXCEPT ![s] = p] /\ Turn(p)
      BY <1>4, <2>2 DEF PtStep, PtStatus, PtWrite, PtFails, Goto, Turn, Pcs
    <3> QED BY <1>4, <3>1, Turned
  <2> QED BY <2>1, <2>2
<1>5. CASE page = "vault" /\ VtStep(s)
  <2>1. \E p : polls' = [polls EXCEPT ![s] = p] /\ Turn(p)
    BY <1>5 DEF VtStep, VtStatus, VtBalance, VtTax, VtFails, Goto, Turn, Pcs
  <2> QED BY <1>5, <2>1, Turned
<1>6. CASE page = "explorer" /\ ExStep(s)
  <2>1. \E p : polls' = [polls EXCEPT ![s] = p] /\ Turn(p)
    BY <1>6 DEF ExStep, ExStatus, ExBlocks, ExFails, Goto, Turn, Pcs
  <2> QED BY <1>6, <2>1, Turned
<1>7. CASE page = "id" /\ IdStep(s)
  <2>1. CASE IdNext(s)
    <3> DEFINE o == polls[s]
               p == [o EXCEPT !.h = @ - 1]
    <3>1. polls' = [polls EXCEPT ![s] = p] /\ o.pc = "scan"
      BY <2>1 DEF IdNext, Goto, At
    <3> HIDE DEF o
    <3>2. p.pc = "scan"
      BY <3>1
    <3> HIDE DEF p
    <3>3. Turn(p)
      BY <3>2 DEF Turn, Pcs
    <3> QED BY <1>7, <3>1, <3>3, Turned
  <2>2. CASE ~IdNext(s)
    <3>1. \E p : polls' = [polls EXCEPT ![s] = p] /\ Turn(p)
      BY <1>7, <2>2 DEF IdStep, IdStatus, IdFound, IdNotFound, IdFails, Goto, Turn, Pcs
    <3> QED BY <1>7, <3>1, Turned
  <2> QED BY <2>1, <2>2
<1>8. CASE page = "sentinel" /\ SnStep(s)
  <2>1. CASE SnAnswer(s)
    <3> DEFINE o == polls[s]
    <3>1. PICK e \in Endpoints : polls' = [polls EXCEPT ![s] =
            [o EXCEPT !.answer = With(@, e, e \notin ailing)]]
      BY <2>1 DEF SnAnswer, Goto
    <3>2. o.pc = "fetch"
      BY <2>1 DEF SnAnswer, At
    <3> HIDE DEF o
    <3> DEFINE p == [o EXCEPT !.answer = With(@, e, e \notin ailing)]
    <3>3. p.pc = "fetch"
      BY <3>2
    <3> HIDE DEF p
    <3>4. Turn(p)
      BY <3>3 DEF Turn, Pcs
    <3> QED BY <1>8, <3>1, <3>4, Turned DEF p
  <2>2. CASE ~SnAnswer(s)
    <3>1. \E p : polls' = [polls EXCEPT ![s] = p] /\ Turn(p)
      BY <1>8, <2>2 DEF SnStep, SnEvaluate, SnReport, SnNotWritten, Goto, Turn, Pcs
    <3> QED BY <1>8, <3>1, Turned
  <2> QED BY <2>1, <2>2
<1> QED BY <1>1, <1>2, <1>3, <1>4, <1>5, <1>6, <1>7, <1>8 DEF Answer

\* So does the user.
LEMMA UserTurns ==
  ASSUME PollsInv, page' = page, User
  PROVE  PollsInv'
<1>0. UNCHANGED polls => PollsInv'
  BY DEF PollsInv, Turn, WaPoll
<1>1. CASE page = "wallet" /\ WaUser
  <2>1. PICK a \in Entered : WaSubmitOther(a) \/ \E s \in Slots : WaSubmit(s, a)
    BY <1>1 DEF WaUser
  <2>2. CASE WaSubmitOther(a)
    BY <1>0, <2>2 DEF WaSubmitOther
  <2>3. ASSUME NEW s \in Slots, WaSubmit(s, a) PROVE PollsInv'
    <3>1. CASE polls' = [polls EXCEPT ![s] = Waiting]
      BY <3>1, Ended
    <3>2. CASE polls' # [polls EXCEPT ![s] = Waiting]
      <4> DEFINE p == [pc |-> "lookup", addr |-> a]
      <4>1. polls' = [polls EXCEPT ![s] = p] /\ a \in IreAddrs
        BY <2>3, <3>2 DEF WaSubmit, Goto
      <4>2. Turn(p) /\ WaPoll(p)
        BY <4>1 DEF Turn, WaPoll, Pcs
      <4> HIDE DEF p
      <4> QED BY <4>1, <4>2, Turned
    <3> QED BY <3>1, <3>2
  <2> QED BY <2>1, <2>2, <2>3
<1>2. CASE page = "mempool" /\ MpUser
  BY <1>0, <1>2 DEF MpUser, MpClickTx, MpClickBlock, MpEnrich
<1>3. CASE page = "id" /\ IdUser
  <2>1. CASE IdType
    BY <1>0, <2>1 DEF IdType
  <2>2. ASSUME NEW s \in Slots, NEW a \in IdEntered, IdEnter(s, a) PROVE PollsInv'
    <3> DEFINE p == [pc |-> "status", addr |-> a]
    <3>1. polls' = [polls EXCEPT ![s] = p] \/ UNCHANGED polls
      BY <2>2 DEF IdEnter, Goto
    <3>2. Turn(p)
      BY DEF Turn, Pcs
    <3> HIDE DEF p
    <3> QED BY <1>0, <1>3, <3>1, <3>2, Turned
  <2> QED BY <1>3, <2>1, <2>2 DEF IdUser
<1>4. CASE page = "sentinel" /\ (SnWorld \/ SnDisk)
  BY <1>0, <1>4 DEF SnWorld, SnDisk
<1> QED BY <1>1, <1>2, <1>3, <1>4 DEF User

\* So does any step.
LEMMA PollsStepInv ==
  ASSUME PollsInv, page' = page, [Next]_vars
  PROVE  PollsInv'
<1>1. CASE Chain \/ UNCHANGED vars
  <2>1. polls' = polls
    BY <1>1 DEF Chain, vars, pageVars
  <2> QED BY <2>1 DEF PollsInv, Turn, WaPoll
<1> QED BY <1>1, TimerTurns, AnswerTurns, UserTurns DEF Next

\* Every step keeps the type of the wallet page.
LEMMA WaStepInv ==
  ASSUME PollsInv, WaInv, [Next]_vars
  PROVE  WaInv'
<1>1. ASSUME UNCHANGED walletVars PROVE WaInv'
  BY <1>1 DEF WaInv, walletVars
<1>2. ASSUME NEW a \in IreAddrs, LookupAnswered(a), UNCHANGED address PROVE WaInv'
  BY <1>2 DEF LookupAnswered, WaInv
<1>3. ASSUME NEW a \in Entered \cup {""}, LookupRefused(a), address' = a PROVE WaInv'
  BY <1>3 DEF LookupRefused, WaInv
<1>4. ASSUME NEW s \in Slots, page = "wallet", WaStep(s) PROVE WaInv'
  <2>0. WaPoll(polls[s])
    BY <1>4 DEF PollsInv
  <2>1. CASE WaStatus(s) \/ WaPool(s) \/ WaBlocks(s) \/ WaFails(s)
    BY <1>1, <2>1 DEF WaStatus, WaPool, WaBlocks, WaFails
  <2>2. CASE WaBalance(s) \/ WaLookup(s)
    <3>1. polls[s].addr \in IreAddrs
      BY <2>0, <2>2 DEF WaPoll, WaBalance, WaLookup, At
    <3>2. LookupAnswered(polls[s].addr) /\ UNCHANGED address
      BY <2>2 DEF WaBalance, WaLookup
    <3> QED BY <1>2, <3>1, <3>2
  <2> QED BY <1>4, <2>1, <2>2 DEF WaStep
<1>5. CASE page = "wallet" /\ WaUser
  <2>1. PICK a \in Entered : WaSubmitOther(a) \/ \E s \in Slots : WaSubmit(s, a)
    BY <1>5 DEF WaUser
  <2>2. CASE WaSubmitOther(a)
    BY <1>3, <2>2 DEF WaSubmitOther
  <2>3. ASSUME NEW s \in Slots, WaSubmit(s, a) PROVE WaInv'
    BY <1>3, <2>3 DEF WaSubmit, WaInv
  <2> QED BY <2>1, <2>2, <2>3
<1>6. CASE Chain
  BY <1>1, <1>6 DEF Chain
<1>7. CASE Timer
  BY <1>1, <1>7 DEF Timer, othersThan, WaTick
<1>8. CASE \E s \in Slots : Answer(s)
  BY <1>1, <1>4, <1>8 DEF Answer, othersThan
<1>9. CASE User
  BY <1>1, <1>5, <1>9 DEF User, othersThan
<1>10. CASE UNCHANGED vars
  BY <1>1, <1>10 DEF vars
<1> QED BY <1>6, <1>7, <1>8, <1>9, <1>10 DEF Next
-----------------------------------------------------------------------------
\* The inductive invariant: one part per page, each about its own polls in
\* flight, and the node they all read.
SiteInv ==
  /\ page \in Opened /\ NodeInv /\ PollsInv
  /\ SnInv /\ IdInv /\ MpInv /\ PtInv /\ WaInv

\* It holds on a page just opened.
LEMMA InitSiteInv == Init => SiteInv
<1> SUFFICES ASSUME Init PROVE SiteInv
  OBVIOUS
<1> DEFINE b == History[page]
<1>1. /\ page \in Opened /\ chain = b /\ pool = {} /\ sent = Committed /\ up = TRUE
      /\ polls = [s \in Slots |-> Idle] /\ shown = Blank(page)
  BY DEF Init, NodeInit
<1>2. /\ b \in Seq(Seq(Txs)) /\ Len(b) <= MaxHeight
      /\ \A i, j \in 1..Len(b) : i # j => ToSet(b[i]) \cap ToSet(b[j]) = {}
      /\ \A i \in 1..Len(b) : IsInjective(b[i])
  BY <1>1, SiteAssumption DEF Opened
<1> HIDE DEF b
<1>3. NodeInv
  <2>1. tip = Len(b) /\ tip \in Nat
    BY <1>1, <1>2 DEF tip
  <2>2. Committed \subseteq Txs
    <3>1. \A h \in 1..tip : chain[h] \in Seq(Txs)
      BY <1>1, <1>2, <2>1
    <3> QED BY <3>1 DEF Committed, TxsIn, ToSet
  <2> QED BY <1>1, <1>2, <2>1, <2>2 DEF NodeInv, NodeTypeOK
<1>4. polls = [s \in Slots |-> polls[s]] /\ \A s \in Slots : polls[s] = Idle
  BY <1>1
<1>5. PollsInv
  <2>1. Turn(Idle) /\ WaPoll(Idle)
    BY DEF Turn, WaPoll, Idle
  <2> QED BY <1>4, <2>1 DEF PollsInv
<1>6. SnInv
  <2>1. SnCheck(Idle, {})
    BY DEF SnCheck
  <2> QED BY <1>4, <2>1 DEF Init, SnInit, SnInv, SnCheck, SilenceIsNotHealth
<1>7. IdInv
  <2>1. form = [f \in Fields |-> ""] /\ entered = {} /\ idAddr = ""
    BY DEF Init, IdInit
  <2>2. IdScan(Idle, entered, tip)
    BY DEF IdScan
  <2>3. \A f \in Fields : Source(f)
    BY <2>1, IdAssumption DEF Source
  <2> QED BY <1>4, <2>1, <2>2, <2>3 DEF IdInv
<1>8. MpInv
  <2>1. selected = Nothing /\ clicked = Nothing /\ enriching = {}
    BY DEF Init, MpInit
  <2>2. MpDetail
    BY <2>1, FS_EmptySet, MempoolAssumption DEF MpDetail
  <2>3. ASSUME page = "mempool" PROVE MpPage
    <3>1. shown = [online |-> FALSE, h |-> 0, unconfirmed |-> {}, blocks |-> <<>>]
      BY <1>1, <2>3 DEF Blank, mpBlank
    <3>2. MpPoll(Idle, tip)
      BY DEF MpPoll
    <3>3. ToSet(shown.blocks) = {}
      BY <3>1 DEF ToSet
    <3> QED BY <1>4, <3>1, <3>2, <3>3 DEF MpPage
  <2> QED BY <2>2, <2>3 DEF MpInv
<1>9. PtInv
  <2> SUFFICES ASSUME page = "points" PROVE PtPage
    BY DEF PtInv
  <2>1. shown = [live |-> FALSE, h |-> 0, rows |-> NoScores, scan |-> 0]
    BY <1>1 DEF Blank, ptBlank
  <2>2. 0 \in 0..tip
    BY <1>3 DEF NodeInv, NodeTypeOK, tip
  <2>3. \A a : ScoreOf(a, Window(0, PtWindow), chain) \in Nat
    BY <1>3, <2>2, PtWindowIn, ScoreTyped
  <2>4. PtRows(NoScores, 0, tip, chain)
    BY <2>2, <2>3 DEF PtRows, NoScores
  <2>5. PtPoll(Idle, tip, chain)
    BY DEF PtPoll
  <2> QED BY <1>4, <2>1, <2>4, <2>5 DEF PtPage
<1>10. WaInv
  BY DEF Init, WaInit, WaInv
<1> QED BY <1>1, <1>3, <1>5, <1>6, <1>7, <1>8, <1>9, <1>10 DEF SiteInv

\* Every step keeps it.
LEMMA NextSiteInv == SiteInv /\ [Next]_vars => SiteInv'
<1> SUFFICES ASSUME SiteInv, [Next]_vars PROVE SiteInv'
  OBVIOUS
<1>1. NodeInv' /\ Grown
  BY NodeStep DEF SiteInv
<1>2. page' = page
  BY <1>1 DEF Grown
<1>3. page' \in Opened
  BY <1>2 DEF SiteInv, Opened
<1>4. PollsInv' /\ WaInv'
  BY <1>2, PollsStepInv, WaStepInv DEF SiteInv
<1>5. SnInv' /\ IdInv' /\ MpInv' /\ PtInv'
  BY <1>1, <1>2, SnStepInv, IdStepInv, MpStepInv, PtStepInv DEF SiteInv
<1> QED BY <1>1, <1>3, <1>4, <1>5 DEF SiteInv, Opened

(***************************************************************************)
(* The inductive invariant holds for every page, number of polls in        *)
(* flight, chain, pool and outage.                                         *)
(***************************************************************************)
THEOREM SiteInvariant == Spec => []SiteInv
  BY InitSiteInv, NextSiteInv, PTL DEF Spec

(***************************************************************************)
(* The pages keep their type.                                              *)
(***************************************************************************)
THEOREM SiteTyped == Spec => []SiteTypeOK
<1>1. SiteInv => SiteTypeOK
  BY DEF SiteInv, SiteTypeOK, NodeInv, PollsInv, Turn, Pcs, SnInv, IdInv, Source, MpInv,
         MpDetail, WaInv
<1> QED BY <1>1, SiteInvariant, PTL

(***************************************************************************)
(* The sentinel reports "healthy" only if each endpoint was well at some   *)
(* time since the check began: silence, an error or an answer to an        *)
(* earlier check never stand for health (evaluate in ire-sentinel.mjs).   *)
(***************************************************************************)
THEOREM NeverFalselyHealthy == Spec => []SilenceIsNotHealth
<1>1. SiteInv => SilenceIsNotHealth
  BY DEF SiteInv, SnInv
<1> QED BY <1>1, SiteInvariant, PTL

(***************************************************************************)
(* What a field of the profile form shows was typed, or is what a          *)
(* transaction that names an entered address says (id.js).                 *)
(***************************************************************************)
THEOREM NoInventedProfile == Spec => []HonestForm
<1>1. SiteInv => HonestForm
  BY DEF SiteInv, IdInv, Source, HonestForm
<1> QED BY <1>1, SiteInvariant, PTL

(***************************************************************************)
(* The detail box of the mempool page is about what was clicked last,      *)
(* whichever answer to enrichTx came last, and the block it names holds    *)
(* the transaction.                                                        *)
(***************************************************************************)
THEOREM DetailOfTheClicked == Spec => []DetailHonest
<1>1. SiteInv => DetailHonest
  <2> SUFFICES ASSUME SiteInv PROVE DetailHonest
    OBVIOUS
  <2>1. tip \in 0..MaxHeight
    BY NodeAssumption DEF SiteInv, NodeInv, NodeTypeOK, tip
  <2>2. CASE selected = Nothing /\ clicked = Nothing
    BY <2>2 DEF DetailHonest
  <2>3. CASE Known(selected, tip, chain) /\ selected.what = clicked
    <3>1. /\ selected = [what |-> clicked, h |-> selected.h]
          /\ clicked \in Txs \cup 1..MaxHeight /\ selected.h \in 0..MaxHeight
      BY <2>1, <2>3, NodeAssumption DEF Known
    <3>2. selected # Nothing /\ clicked # Nothing
      BY <3>1, MempoolAssumption, NodeAssumption
    <3> QED BY <2>3, <3>2 DEF Known, DetailHonest
  <2> QED BY <2>2, <2>3 DEF SiteInv, MpInv, MpDetail
<1> QED BY <1>1, SiteInvariant, PTL

(***************************************************************************)
(* The board credits nobody with more than the window of one height holds, *)
(* whatever polls overlap and whatever blocks are missing (points.js).     *)
(***************************************************************************)
THEOREM NoInventedPoints == Spec => []PtNoInvention
<1>1. SiteInv => PtNoInvention
  <2> SUFFICES ASSUME SiteInv, page = "points", NEW a \in Scored
               PROVE  shown.rows[a] <= ScoreIn(a, Window(shown.scan, PtWindow))
    BY DEF PtNoInvention
  <2>1. NodeInv /\ PtRows(shown.rows, shown.scan, tip, chain)
    BY DEF SiteInv, PtInv, PtPage
  <2>2. Window(shown.scan, PtWindow) \in SUBSET (1..tip)
    BY <2>1, PtWindowIn DEF PtRows
  <2>3. ScoreIn(a, Window(shown.scan, PtWindow)) =
        ScoreOf(a, Window(shown.scan, PtWindow), chain)
    BY <2>1, <2>2, ScoreInIs
  <2> QED BY <2>1, <2>3 DEF PtRows
<1> QED BY <1>1, SiteInvariant, PTL
=============================================================================
