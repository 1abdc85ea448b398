-------------------------------- MODULE Site --------------------------------
(***************************************************************************)
(* The pages of site/, the explorer and the sentinel, each over the node.  *)
(* One of them runs; which one is chosen at the start. The timers fire and *)
(* every request is answered or fails; the user, the node and the network  *)
(* owe nothing.                                                            *)
(***************************************************************************)
EXTENDS Markets, Wallet, Mempool, Boards, IdPage, Sentinel

CONSTANTS
  Posted,  \* Posted[p]: the transactions submitted while p is open
  History  \* History[p]: the blocks there are when p is opened

\* The blocks a page opens on hold each transaction once.
ASSUME SiteAssumption ==
  \A p \in DOMAIN Posted :
    /\ Posted[p] \subseteq Txs
    /\ History[p] \in Seq(Seq(Txs)) /\ Len(History[p]) <= MaxHeight
    /\ \A i, j \in 1..Len(History[p]) :
         i # j => ToSet(History[p][i]) \cap ToSet(History[p][j]) = {}
    /\ \A i \in 1..Len(History[p]) : IsInjective(History[p][i])

vars == <<nodeVars, pageVars, walletVars, mempoolVars, idVars, sentinelVars>>

Opened == DOMAIN Posted
Blank(p) == CASE p = "markets"  -> mkBlank
              [] p = "wallet"   -> waBlank
              [] p = "mempool"  -> mpBlank
              [] p = "points"   -> ptBlank
              [] p = "vault"    -> vtBlank
              [] p = "explorer" -> exBlank
              [] OTHER          -> <<>>

Init ==
  /\ page \in Opened /\ NodeInit(History[page])
  /\ WaInit /\ MpInit /\ IdInit /\ SnInit /\ (page # "wallet" => address = "")
  /\ polls = [s \in Slots |-> Idle]
  /\ shown = Blank(page)

\* What an action of one page leaves alone.
othersThan(p) ==
  /\ UNCHANGED nodeVars
  /\ p # "wallet"   => UNCHANGED walletVars
  /\ p # "mempool"  => UNCHANGED mempoolVars
  /\ p # "id"       => UNCHANGED idVars
  /\ p # "sentinel" => UNCHANGED sentinelVars

\* The page's setInterval.
Timer ==
  \E s \in Slots :
    \/ page = "markets"  /\ MkTick(s) /\ othersThan("markets")
    \/ page = "wallet"   /\ WaTick(s) /\ othersThan("wallet")
    \/ page = "mempool"  /\ MpTick(s) /\ othersThan("mempool")
    \/ page \in {"points", "vault", "explorer"} /\ BdTick(s) /\ othersThan("none")
    \/ page = "sentinel" /\ SnTick(s) /\ othersThan("sentinel")

\* A poll goes on: a request of it is answered or fails.
Answer(s) ==
  \/ page = "markets"  /\ MkStep(s) /\ othersThan("markets")
  \/ page = "wallet"   /\ WaStep(s) /\ othersThan("wallet")
  \/ page = "mempool"  /\ MpStep(s) /\ othersThan("mempool")
  \/ page = "points"   /\ PtStep(s) /\ othersThan("none")
  \/ page = "vault"    /\ VtStep(s) /\ othersThan("none")
  \/ page = "explorer" /\ ExStep(s) /\ othersThan("none")
  \/ page = "id"       /\ IdStep(s) /\ othersThan("id")
  \/ page = "sentinel" /\ SnStep(s) /\ othersThan("sentinel")

User ==
  \/ page = "wallet"   /\ WaUser  /\ othersThan("wallet")
  \/ page = "mempool"  /\ MpUser  /\ othersThan("mempool")
  \/ page = "id"       /\ IdUser  /\ othersThan("id")
  \/ page = "sentinel" /\ (SnWorld \/ SnDisk) /\ othersThan("sentinel")

Chain ==
  /\ page # "sentinel"
  /\ \/ \E t \in Posted[page] : Submit(t)
     \/ SaveBlock \/ UpdatePool \/ Drop \/ Outage
  /\ UNCHANGED <<pageVars, walletVars, mempoolVars, idVars, sentinelVars>>

Next == Timer \/ (\E s \in Slots : Answer(s)) \/ User \/ Chain

Fairness == WF_vars(Timer) /\ \A s \in Slots : WF_vars(Answer(s))
Spec == Init /\ [][Next]_vars /\ Fairness
-----------------------------------------------------------------------------
Mentioning(a) == {t \in Txs : a \in ToSet(Addrs[t])}

\* The state of the three pages, as HonestView sees it. Of markets it sees the
\* blocks that are read, MkSpan, not the window announced (MinH).
Seen ==
  CASE page = "markets" ->
         [n |-> MkSpan, h |-> shown.h, lenses |-> {Bets},
          confirmed |-> {e.tx : e \in {e \in ToSet(shown.evs) : ~e.pending}},
          pending   |-> {e.tx : e \in {e \in ToSet(shown.evs) : e.pending}}]
    [] page = "wallet" ->
         [n |-> WaWindow, h |-> shown.h,
          lenses |-> {Mentioning(a) : a \in Entered},
          confirmed |-> {e.tx : e \in {e \in ToSet(shown.txs) : e.height # 0}},
          pending   |-> {e.tx : e \in {e \in ToSet(shown.txs) : e.height = 0}}]
    [] page = "mempool" ->
         [n |-> MpWindow, h |-> shown.h, lenses |-> {Txs},
          pending   |-> shown.unconfirmed,
          confirmed |-> UNION {ToSet(b.txs) : b \in ToSet(shown.blocks)}]
    [] OTHER -> [n |-> 0, h |-> 0, lenses |-> {}, confirmed |-> {}, pending |-> {}]

HV == INSTANCE HonestView WITH view <- Seen

\* Markets, wallet and mempool implement HonestView: several requests per
\* poll, polls that overlap, cached blocks, failures and outages never show
\* what no single look at the chain could have shown.
HonestViewSpec == HV!Spec

SiteTypeOK ==
  /\ NodeTypeOK /\ page \in Opened
  /\ \A s \in Slots : polls[s] = Idle \/ polls[s].pc \in
       {"status", "lists", "pool", "blocks", "balance", "lookup", "scan", "tax",
        "fetch", "ai"}
  /\ address \in Entered \cup {""} /\ balance \in IreAddrs \cup {Null}
  /\ balanceError \in {"", "invalid", "unavailable"}
  /\ balance # Null => balanceError = ""
  /\ Cardinality(enriching) <= MaxEnrich
  /\ form \in [Fields -> {"", "typed"} \cup Txs] /\ entered \subseteq IdEntered
  /\ idAddr \in IdEntered \cup {""}
  /\ ailing \subseteq Endpoints /\ since \in [Slots -> SUBSET Endpoints]
  /\ writable \in BOOLEAN

\* The page shows what one look at the node would show now.
Current ==
  CASE page = "markets"  -> /\ shown.online /\ shown.h = tip
                            /\ shown.windowMin = MinH(tip)
                            /\ shown.evs = Events(tip, pool)
    [] page = "wallet"   -> shown.online /\ shown.h = tip
    [] page = "mempool"  -> /\ shown.online /\ shown.h = tip
                            /\ shown.unconfirmed = pool
    [] page = "points"   -> /\ shown.live /\ shown.h = tip
                            /\ \A a \in Scored : shown.rows[a] =
                                 ScoreIn(a, Window(tip, PtWindow))
    [] page = "vault"    -> /\ shown.live /\ shown.h = tip /\ shown.balance = tip
                            /\ shown.tax = "on-chain"
    [] page = "explorer" -> /\ shown.live /\ shown.h = tip
                            /\ shown.pending = Cardinality(pool)
                            /\ shown.blocks = Window(tip, 6)
    [] OTHER             -> TRUE

\* Whatever polls overlapped, failed or came late before: once requests are
\* answered, every page with a timer shows the chain as it is.
EventuallyCurrent == <>[](up /\ tip > 0) => <>[]Current
=============================================================================
