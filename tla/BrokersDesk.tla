---------------------------- MODULE BrokersDesk -----------------------------
(***************************************************************************)
(* The desk of an activated agent (site/brokers/assets/brokers.js): public *)
(* quotes, tickets made from them, a heartbeat, intents that the owner     *)
(* signs. Runs overlap; each keeps the token it was begun for, while the   *)
(* page's own token (state.id) moves on when another token is recovered or *)
(* activated. How a payment becomes an activation is in BrokersActivation; *)
(* here it has become one when the desk is started.                        *)
(***************************************************************************)
EXTENDS Naturals, FiniteSets

CONSTANTS
  Tokens,    \* token ids
  Consoles,  \* the ?id= of the consoles that are opened
  Accounts,  \* wallet accounts
  Skill,     \* Skill[t]: what skillFor returns
  Shown,     \* what eth_accounts may report: accounts, Null for none
  Active,    \* what is activated at the start, as pairs of account and token
  MaxRuns,   \* bound: handlers waiting for an answer
  Null       \* no account, no token, no ticket

ASSUME DeskAssumption ==
  /\ Consoles \subseteq Tokens /\ Active \subseteq Accounts \X Tokens
  /\ MaxRuns \in Nat \ {0} /\ Null \notin Accounts \cup Tokens
  /\ Shown \subseteq Accounts \cup {Null}

VARIABLES
  desk,   \* the console's state and what it keeps in localStorage
  polls,  \* the handlers in flight: what each keeps across its awaits
  up      \* do the public feeds and the chain's RPC answer

vars == <<desk, polls, up>>

Slots == 1..MaxRuns
Idle  == [pc |-> "idle"]

Free(s)    == polls[s] = Idle /\ \A r \in 1..(s - 1) : polls[r] # Idle
At(s, pc)  == polls[s].pc = pc
Goto(s, p) == polls' = [polls EXCEPT ![s] = p]

(* Fields of desk that a reload resets: opened (?id=), token (state.id),   *)
(* account (state.address), beat (state.deskTimer: the token of its        *)
(* interval) and lastTicket. In localStorage, by account or "unsigned" and *)
(* token: paper (whose skill each quote is of), tickets, working and       *)
(* activated. An intent is judged when it is shown for signing; nothing    *)
(* reads the signed ones.                                                  *)
Keys == (Accounts \cup {Null}) \X Tokens

Init ==
  /\ polls = [s \in Slots |-> Idle] /\ up = TRUE
  /\ \E t \in Consoles : desk = [opened |-> t, token |-> t, account |-> Null, beat |-> Null,
       lastTicket |-> Null, paper |-> [k \in Keys |-> {}],
       tickets |-> [k \in Keys |-> Null], working |-> [k \in Keys |-> "none"],
       activated |-> Active]

Key(b, t) == <<b.account, t>>
IsActivated(b, t) == b.account # Null /\ Key(b, t) \in b.activated

\* A run begun while the page is in state b; back is what it needs later:
\* the token to restore, or that of the intent.
Run(kind, t, back) == [pc |-> "quote", kind |-> kind, id |-> t, back |-> back]
-----------------------------------------------------------------------------
\* buildBrokerTicket: the skill of the run, the token of the page as it is now.
Ticket(b, t) == [skill |-> Skill[t], id |-> b.token]

\* A defect: the quote is filed under the token of now.
FaultyQuoted(b, t) ==
  [b EXCEPT !.paper[Key(b, b.token)] = @ \cup {Skill[t]},
            !.tickets[Key(b, b.token)] = Ticket(b, t), !.lastTicket = Ticket(b, t)]

\* onPaper with an answer.
Quoted(b, t) ==
  [b EXCEPT !.paper[Key(b, t)] = @ \cup {Skill[t]},
            !.tickets[Key(b, t)] = Ticket(b, t), !.lastTicket = Ticket(b, t)]

\* runBrokerDesk once onPaper is through: an older quote will do.
Ticketed(b, t) ==
  IF b.paper[Key(b, t)] = {} THEN [b EXCEPT !.lastTicket = Null]
  ELSE [b EXCEPT !.tickets[Key(b, t)] = Ticket(b, t), !.lastTicket = Ticket(b, t)]

\* A defect: the agent is marked whether or not there is a quote.
FaultyStarted(b, t, prev) ==
  [b EXCEPT !.working[Key(b, t)] = "WORKING",
            !.token = IF prev = t THEN @ ELSE prev,
            !.beat = IF IsActivated(b, t) THEN t ELSE Null]

\* A defect: the page's token was not kept, so there is none to restore.
FaultyRestore(b, t, prev) ==
  [b EXCEPT !.working[Key(b, t)] =
                 IF b.paper[Key(b, t)] = {} THEN "READY" ELSE "WORKING",
            !.token = Null, !.beat = IF IsActivated(b, t) THEN t ELSE Null]

\* startAgentDesk after its desk run, startDeskHeartbeat and finally included.
Started(b, t, prev) ==
  [b EXCEPT !.working[Key(b, t)] =
                 IF b.paper[Key(b, t)] = {} THEN "READY" ELSE "WORKING",
            !.token = IF prev = t THEN @ ELSE prev,
            !.beat = IF IsActivated(b, t) THEN t ELSE Null]

\* refreshActivation starts the desk of an activated agent that does not work.
Starts(b) == IsActivated(b, b.token) /\ b.working[Key(b, b.token)] # "WORKING"

\* A defect: the state of the desk is displayed and nothing started.
FaultyRefreshDesk(s, b) == desk' = b /\ Goto(s, Idle)

RefreshDesk(s, b) ==
  /\ desk' = b
  /\ \/ Starts(b) /\ Goto(s, Run("start", b.token, b.token))
     \/ ~Starts(b) /\ Goto(s, Idle)
-----------------------------------------------------------------------------
\* A reload, or another console: runs, tickets and the account are gone.
Load(t) ==
  /\ desk' = [desk EXCEPT !.opened = t, !.token = t, !.account = Null,
                          !.beat = Null, !.lastTicket = desk.tickets[<<Null, t>>]]
  /\ polls' = [s \in Slots |-> Idle]

\* connectWallet, accountsChanged, or eth_accounts after a load.
TakeAccount(s, a) ==
  /\ Free(s) /\ RefreshDesk(s, [desk EXCEPT !.account = a])

\* popstate: openConsole anew, which starts the desk of an activated agent
\* itself, after refreshActivation may have.
Route(s, r) ==
  LET t == desk.opened
      b == [desk EXCEPT !.token = t, !.beat = Null,
                        !.lastTicket = desk.tickets[Key(desk, t)]]
  IN  /\ Free(s) /\ polls[r] = Idle /\ s < r
      /\ desk' = b
      /\ polls' = [polls EXCEPT
           ![s] = IF IsActivated(b, t) THEN Run("start", t, t) ELSE Idle,
           ![r] = IF Starts(b) THEN Run("start", t, t) ELSE Idle]

\* The buttons that run the desk or fetch a quote.
Click(s) ==
  /\ Free(s) /\ UNCHANGED desk
  /\ \E kind \in {"desk", "paper"} : Goto(s, Run(kind, desk.token, Null))

\* The interval: it ends itself once the page shows another token.
Heartbeat(s) ==
  /\ Free(s) /\ desk.beat # Null
  /\ \/ /\ desk.token = desk.beat /\ IsActivated(desk, desk.beat)
        /\ Goto(s, Run("desk", desk.token, Null)) /\ UNCHANGED desk
     \/ /\ desk.token # desk.beat \/ ~IsActivated(desk, desk.beat)
        /\ desk' = [desk EXCEPT !.beat = Null] /\ UNCHANGED polls

\* recoverActivationFromTx from its record on: the page's token changes for
\* good, the console shown does not.
Recovered(s, t) ==
  /\ Free(s) /\ desk.account # Null
  /\ desk' = [desk EXCEPT !.activated = @ \cup {Key(desk, t)}, !.token = t]
  /\ Goto(s, Run("recover", t, t))

\* onActivate: the token and the account are kept over all its awaits.
Pay(s) ==
  /\ Free(s) /\ desk.account # Null /\ ~IsActivated(desk, desk.token)
  /\ Goto(s, [pc |-> "pay", id |-> desk.token, by |-> desk.account])
  /\ UNCHANGED desk

\* Confirmed: the desk of its token is started, the page's token put aside.
Paid(s) ==
  LET r == polls[s]
      b == [desk EXCEPT !.activated = @ \cup {<<r.by, r.id>>}]
  IN  /\ At(s, "pay")
      /\ \/ IsActivated(b, r.id) /\ desk' = [b EXCEPT !.token = r.id]
            /\ Goto(s, Run("start", r.id, b.token))
         \/ ~IsActivated(b, r.id) /\ RefreshDesk(s, b)
         \/ Goto(s, Idle) /\ UNCHANGED desk

\* onLive, until requireOwner has its answer.
Live(s) ==
  /\ Free(s) /\ desk.account # Null
  /\ Goto(s, [pc |-> "owner", id |-> desk.token])
  /\ UNCHANGED desk

\* buildSkillIntent: the ticket on the page, else the one in the store.
Intent(b, t) ==
  [pc |-> "sign", id |-> t,
   ticket |-> IF b.lastTicket # Null THEN b.lastTicket ELSE b.tickets[Key(b, t)]]

\* Not the owner, not activated, no answer: an alert. No ticket on the page:
\* a desk run, of the page's token, comes first.
OwnerAnswer(s) ==
  LET t == polls[s].id
  IN  /\ At(s, "owner") /\ UNCHANGED desk
      /\ \/ Goto(s, Idle)
         \/ /\ up /\ IsActivated(desk, t) /\ desk.lastTicket # Null
            /\ Goto(s, Intent(desk, t))
         \/ /\ up /\ IsActivated(desk, t) /\ desk.lastTicket = Null
            /\ Goto(s, Run("live", desk.token, t))

\* Signed and stored, or refused.
Sign(s) == At(s, "sign") /\ Goto(s, Idle) /\ UNCHANGED desk

\* The quote of a run arrives or fails, and the run goes on to its end.
QuoteAnswer(s) ==
  LET r == polls[s]
  IN  /\ At(s, "quote")
      /\ \E b1 \in {IF up THEN Quoted(desk, r.id) ELSE desk} :
         \E b2 \in {Ticketed(b1, r.id)} :
         \E b3 \in {Started(b2, r.id, r.back)} :
           \/ r.kind = "paper" /\ desk' = b1 /\ Goto(s, Idle)
           \/ r.kind = "desk"  /\ desk' = b2 /\ Goto(s, Idle)
           \/ r.kind = "start" /\ RefreshDesk(s, b3)
           \/ r.kind = "recover"
              /\ RefreshDesk(s, [b3 EXCEPT !.lastTicket = b3.tickets[Key(b3, r.id)]])
           \/ r.kind = "live"  /\ desk' = b2 /\ Goto(s, Intent(b2, r.back))

Answer(s) ==
  /\ QuoteAnswer(s) \/ Paid(s) \/ OwnerAnswer(s) \/ Sign(s)
  /\ UNCHANGED up

Beat == (\E s \in Slots : Heartbeat(s)) /\ UNCHANGED up

User ==
  /\ \/ \E t \in Consoles : Load(t)
     \/ \E s \in Slots :
          \/ Click(s) \/ Pay(s) \/ Live(s)
          \/ \E a \in Shown : TakeAccount(s, a)
          \/ \E t \in Tokens : Recovered(s, t)
          \/ \E r \in Slots : Route(s, r)
  /\ UNCHANGED up

Outage == up' = ~up /\ UNCHANGED <<desk, polls>>

Next == (\E s \in Slots : Answer(s)) \/ Beat \/ User \/ Outage

\* Every request is answered or fails in the end, the interval fires.
Fairness == WF_vars(Beat) /\ \A s \in Slots : WF_vars(Answer(s))
Spec == Init /\ [][Next]_vars /\ Fairness
-----------------------------------------------------------------------------
\* The runs in flight are for tokens, and the page shows one whichever run put
\* it aside meanwhile.
DeskTypeOK ==
  /\ {desk.opened, desk.token} \subseteq Tokens
  /\ desk.account \in Accounts \cup {Null} /\ desk.beat \in Tokens \cup {Null}
  /\ desk.activated \subseteq Accounts \X Tokens
  /\ \A s \in Slots : polls[s] # Idle => polls[s].id \in Tokens

\* Whatever runs overlap, and whichever token the page turned to while a quote
\* was awaited: what is filed under a token is of that token's own skill. The
\* token id that a ticket bears may be another's (Ticket reads it after the
\* await), so nothing is promised about it.
FiledUnderOwnSkill ==
  \A k \in Keys :
    /\ desk.paper[k] \subseteq {Skill[k[2]]}
    /\ desk.tickets[k] # Null => desk.tickets[k].skill = Skill[k[2]]

\* "Fetch a real public quote and mark WORKING", "will not invent a mark": a
\* working agent, a stored ticket, the ticket on the page and the one put up
\* for signing all rest on a quote that was received.
NoInventedMark ==
  LET Rests(ticket) == ticket # Null =>
        ticket.skill \in UNION {desk.paper[k] : k \in Keys}
  IN  /\ \A k \in Keys : desk.working[k] = "WORKING" \/ desk.tickets[k] # Null =>
                           desk.paper[k] # {}
      /\ Rests(desk.lastTicket)
      /\ \A s \in Slots : At(s, "sign") => Rests(polls[s].ticket)

\* An activated agent whose console stays open and whose quotes are answered
\* is WORKING in the end, whatever runs failed or were lost to other tokens:
\* startAgentDesk and refreshActivation call each other until it is.
EventuallyWorking ==
  \A t \in Tokens, a \in Accounts :
    <>[](/\ up /\ desk.token = t /\ desk.account = a
         /\ <<a, t>> \in desk.activated) =>
      <>[](desk.working[<<a, t>>] = "WORKING")
=============================================================================
