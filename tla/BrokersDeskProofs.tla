------------------------- MODULE BrokersDeskProofs --------------------------
(***************************************************************************)
(* Machine-checked proofs about BrokersDesk, for any number of tokens,     *)
(* accounts and runs in flight: what is filed under an agent is of its own *)
(* skill and rests on a quote, in whatever order the quotes arrive.        *)
(***************************************************************************)
EXTENDS BrokersDesk, TLAPS

Skills  == {Skill[t] : t \in Tokens}
Tickets == {Null} \cup [skill : Skills, id : Tokens]
AccountOrNone == Accounts \cup {Null}

DeskType ==
  [opened : Tokens, token : Tokens, account : AccountOrNone,
   beat : Tokens \cup {Null}, lastTicket : Tickets,
   paper : [Keys -> SUBSET Skills], tickets : [Keys -> Tickets],
   working : [Keys -> {"none", "READY", "WORKING"}],
   activated : SUBSET (Accounts \X Tokens)]

\* The tickets that rest on what has been quoted for any agent.
Received(b) ==
  {Null} \cup [skill : UNION {b.paper[k] : k \in Keys}, id : Tokens]

\* The desk is in order: under every key the agent's own skill, and a mark or
\* a ticket only where there is a quote.
Sound(b) ==
  /\ b \in DeskType
  /\ \A k \in Keys :
       /\ b.paper[k] \subseteq {Skill[k[2]]}
       /\ b.tickets[k] # Null => b.tickets[k].skill = Skill[k[2]]
       /\ b.working[k] = "WORKING" \/ b.tickets[k] # Null => b.paper[k] # {}
  /\ b.lastTicket \in Received(b)

\* Quotes are never thrown away.
Keeps(b, c) == Received(b) \subseteq Received(c)

RunType ==
       [pc : {"quote"}, kind : {"desk", "paper"}, id : Tokens, back : {Null}]
  \cup [pc : {"quote"}, kind : {"start", "recover", "live"},
        id : Tokens, back : Tokens]
  \cup [pc : {"pay"}, id : Tokens, by : Accounts]
  \cup [pc : {"owner"}, id : Tokens]

\* A handler in flight; a ticket put up for signing is one of got.
Handler(p, got) ==
  \/ p = Idle
  \/ p \in RunType
  \/ p \in [pc : {"sign"}, id : Tokens, ticket : got]

(***************************************************************************)
(* The inductive invariant: a sound desk, and handlers that keep tokens,   *)
(* accounts and received tickets. FiledUnderOwnSkill alone is not          *)
(* inductive: the token a run puts back has to be one, and what was quoted *)
(* has to stay while another handler waits for a signature.                *)
(***************************************************************************)
IInv ==
  /\ Sound(desk) /\ up \in BOOLEAN
  /\ polls = [s \in Slots |-> polls[s]]
  /\ \A s \in Slots : Handler(polls[s], Received(desk))
-----------------------------------------------------------------------------
\* storageKey of a token of the page is a key, and holds the token.
LEMMA KeysInDesk ==
  ASSUME NEW b, b.account \in AccountOrNone, NEW t \in Tokens
  PROVE  Key(b, t) \in Keys /\ Key(b, t)[2] = t
  BY DEF Key, Keys, AccountOrNone

\* Storing a quote keeps the desk sound.
LEMMA QuotedSound ==
  ASSUME NEW b, Sound(b), NEW t \in Tokens
  PROVE  Sound(Quoted(b, t)) /\ Keeps(b, Quoted(b, t))
<1> DEFINE c == Quoted(b, t)
           k0 == Key(b, t)
           n == Ticket(b, t)
<1>1. k0 \in Keys /\ k0[2] = t
  BY KeysInDesk DEF Sound, DeskType
<1>2. Skill[t] \in Skills /\ n \in Tickets /\ n.skill = Skill[t] /\ n.id \in Tokens
  BY DEF Skills, Tickets, Ticket, Sound, DeskType
<1>3. c = [b EXCEPT !.paper[k0] = @ \cup {Skill[t]}, !.tickets[k0] = n,
                    !.lastTicket = n]
  BY DEF Quoted
<1> HIDE DEF c, k0, n
<1>4. /\ c \in DeskType
      /\ c.paper = [b.paper EXCEPT ![k0] = @ \cup {Skill[t]}]
      /\ c.tickets = [b.tickets EXCEPT ![k0] = n]
      /\ c.working = b.working /\ c.lastTicket = n
  BY <1>1, <1>2, <1>3 DEF Sound, DeskType
<1>5. \A k \in Keys : b.paper[k] \subseteq c.paper[k]
  BY <1>4 DEF Sound, DeskType
<1>6. Keeps(b, c)
  BY <1>5 DEF Keeps, Received
<1>7. Skill[t] \in c.paper[k0]
  BY <1>1, <1>4 DEF Sound, DeskType
<1>8. c.lastTicket \in Received(c)
  BY <1>1, <1>2, <1>4, <1>7 DEF Received, Tickets
<1>9. ASSUME NEW k \in Keys
      PROVE  /\ c.paper[k] \subseteq {Skill[k[2]]}
             /\ c.tickets[k] # Null => c.tickets[k].skill = Skill[k[2]]
             /\ c.working[k] = "WORKING" \/ c.tickets[k] # Null => c.paper[k] # {}
  <2>1. CASE k = k0
    <3>1. c.paper[k] = b.paper[k] \cup {Skill[t]} /\ c.tickets[k] = n
      BY <1>1, <1>4, <2>1 DEF Sound, DeskType
    <3> QED BY <1>1, <1>2, <2>1, <3>1 DEF Sound
  <2>2. CASE k # k0
    <3>1. /\ c.paper[k] = b.paper[k] /\ c.tickets[k] = b.tickets[k]
          /\ c.working[k] = b.working[k]
      BY <1>1, <1>4, <2>2 DEF Sound, DeskType
    <3> QED BY <3>1 DEF Sound
  <2> QED BY <2>1, <2>2
<1> QED BY <1>4, <1>6, <1>8, <1>9 DEF Sound, c

\* What follows onPaper in a desk run does too.
LEMMA TicketedSound ==
  ASSUME NEW b, Sound(b), NEW t \in Tokens
  PROVE  Sound(Ticketed(b, t)) /\ Keeps(b, Ticketed(b, t))
<1> DEFINE k0 == Key(b, t)
<1>1. k0 \in Keys /\ k0[2] = t
  BY KeysInDesk DEF Sound, DeskType
<1>2. CASE b.paper[k0] = {}
  <2> DEFINE c == [b EXCEPT !.lastTicket = Null]
  <2>1. Ticketed(b, t) = c
    BY <1>2 DEF Ticketed
  <2>2. /\ c \in DeskType /\ c.paper = b.paper /\ c.tickets = b.tickets
        /\ c.working = b.working /\ c.lastTicket = Null
    BY DEF Sound, DeskType, Tickets
  <2> HIDE DEF c
  <2>3. Sound(c) /\ Keeps(b, c)
    BY <2>2 DEF Sound, Keeps, Received
  <2> QED BY <2>1, <2>3
<1>3. CASE b.paper[k0] # {}
  <2> DEFINE n == Ticket(b, t)
             c == [b EXCEPT !.tickets[k0] = n, !.lastTicket = n]
  <2>0. n \in Tickets /\ n.skill = Skill[t] /\ n.id \in Tokens
    BY DEF Skills, Tickets, Ticket, Sound, DeskType
  <2>1. Ticketed(b, t) = c
    BY <1>3 DEF Ticketed
  <2> HIDE DEF n
  <2>2. /\ c \in DeskType /\ c.paper = b.paper
        /\ c.tickets = [b.tickets EXCEPT ![k0] = n]
        /\ c.working = b.working /\ c.lastTicket = n
    BY <1>1, <2>0 DEF Sound, DeskType
  <2> HIDE DEF c
  <2>3. Skill[t] \in b.paper[k0]
    BY <1>1, <1>3 DEF Sound
  <2>4. c.lastTicket \in Received(c)
    BY <1>1, <2>0, <2>2, <2>3 DEF Received, Tickets
  <2>5. ASSUME NEW k \in Keys
        PROVE  /\ c.paper[k] \subseteq {Skill[k[2]]}
               /\ c.tickets[k] # Null => c.tickets[k].skill = Skill[k[2]]
               /\ c.working[k] = "WORKING" \/ c.tickets[k] # Null => c.paper[k] # {}
    <3>1. CASE k = k0
      BY <1>1, <1>3, <2>0, <2>2, <3>1 DEF Sound, DeskType
    <3>2. CASE k # k0
      <4>1. c.tickets[k] = b.tickets[k]
        BY <1>1, <2>2, <3>2 DEF Sound, DeskType
      <4> QED BY <2>2, <4>1 DEF Sound
    <3> QED BY <3>1, <3>2
  <2>6. Sound(c) /\ Keeps(b, c)
    BY <2>2, <2>4, <2>5 DEF Sound, Keeps, Received
  <2> QED BY <2>1, <2>6
<1> QED BY <1>2, <1>3

\* And so does the mark that startAgentDesk puts on the agent.
LEMMA StartedSound ==
  ASSUME NEW b, Sound(b), NEW t \in Tokens, NEW prev \in Tokens
  PROVE  Sound(Started(b, t, prev)) /\ Keeps(b, Started(b, t, prev))
<1> DEFINE c  == Started(b, t, prev)
           k0 == Key(b, t)
           w  == IF b.paper[k0] = {} THEN "READY" ELSE "WORKING"
<1>1. k0 \in Keys /\ k0[2] = t
  BY KeysInDesk DEF Sound, DeskType
<1>2. c = [b EXCEPT !.working[k0] = w, !.token = IF prev = t THEN @ ELSE prev,
                    !.beat = IF IsActivated(b, t) THEN t ELSE Null]
  BY DEF Started
<1> HIDE DEF c, k0
<1>3. w \in {"READY", "WORKING"}
  OBVIOUS
<1>4. /\ c \in DeskType /\ c.paper = b.paper /\ c.tickets = b.tickets
      /\ c.working = [b.working EXCEPT ![k0] = w] /\ c.lastTicket = b.lastTicket
  BY <1>1, <1>2, <1>3 DEF Sound, DeskType
<1>5. ASSUME NEW k \in Keys, c.working[k] = "WORKING" PROVE c.paper[k] # {}
  BY <1>1, <1>4, <1>5 DEF Sound, DeskType
<1> QED BY <1>4, <1>5 DEF Sound, Keeps, Received, c
-----------------------------------------------------------------------------
\* A handler still keeps what it kept when more has been quoted.
LEMMA HandlerStays ==
  ASSUME NEW p, NEW b, NEW c, Handler(p, Received(b)), Keeps(b, c)
  PROVE  Handler(p, Received(c))
<1>1. CASE p \in [pc : {"sign"}, id : Tokens, ticket : Received(b)]
  BY <1>1 DEF Handler, Keeps
<1> QED BY <1>1 DEF Handler

\* One handler moves on, and the desk stays sound.
LEMMA OneMoves ==
  ASSUME IInv, Sound(desk'), Keeps(desk, desk'), up' \in BOOLEAN,
         NEW s \in Slots, NEW p, Goto(s, p), Handler(p, Received(desk'))
  PROVE  IInv'
<1>1. polls' = [r \in Slots |-> polls'[r]]
  BY DEF IInv, Goto
<1>2. ASSUME NEW r \in Slots PROVE Handler(polls'[r], Received(desk'))
  <2>1. CASE r = s
    BY <2>1 DEF IInv, Goto
  <2>2. CASE r # s
    <3>1. polls'[r] = polls[r]
      BY <2>2 DEF IInv, Goto
    <3> QED BY <3>1, HandlerStays DEF IInv
  <2> QED BY <2>1, <2>2
<1> QED BY <1>1, <1>2 DEF IInv

\* refreshActivation, whatever desk it is called on.
LEMMA RefreshKeeps ==
  ASSUME IInv, NEW b, Sound(b), Keeps(desk, b), up' \in BOOLEAN,
         NEW s \in Slots, RefreshDesk(s, b)
  PROVE  IInv'
<1>1. desk' = b
  BY DEF RefreshDesk
<1>2. CASE Goto(s, Run("start", b.token, b.token))
  <2>1. b.token \in Tokens
    BY DEF Sound, DeskType
  <2>2. Handler(Run("start", b.token, b.token), Received(b))
    BY <2>1 DEF Handler, RunType, Run
  <2> QED BY <1>1, <1>2, <2>2, OneMoves
<1>3. CASE Goto(s, Idle)
  BY <1>1, <1>3, OneMoves DEF Handler
<1> QED BY <1>2, <1>3 DEF RefreshDesk

\* Changes of what the page shows leave the desk sound.
LEMMA ShownSound ==
  ASSUME NEW b, Sound(b), NEW c \in DeskType,
         c.paper = b.paper, c.tickets = b.tickets, c.working = b.working,
         c.lastTicket \in Received(b)
  PROVE  Sound(c) /\ Keeps(b, c)
  BY DEF Sound, Keeps, Received

\* What is stored under a key has been received.
LEMMA StoredReceived ==
  ASSUME NEW b, Sound(b), NEW k \in Keys
  PROVE  b.tickets[k] \in Received(b) /\ b.tickets[k] \in Tickets
<1>0. b.tickets[k] \in Tickets
  BY DEF Sound, DeskType
<1>1. CASE b.tickets[k] = Null
  BY <1>0, <1>1 DEF Received
<1>2. CASE b.tickets[k] # Null
  <2>1. b.paper[k] = {Skill[k[2]]} /\ b.tickets[k].skill = Skill[k[2]]
    BY <1>2 DEF Sound
  <2>2. b.tickets[k].skill \in UNION {b.paper[j] : j \in Keys}
    BY <2>1
  <2> QED BY <1>0, <1>2, <2>2 DEF Received, Tickets
<1> QED BY <1>1, <1>2

\* Of two changes in a row neither throws a quote away.
LEMMA KeepsTrans ==
  ASSUME NEW a, NEW b, NEW c, Keeps(a, b), Keeps(b, c)
  PROVE  Keeps(a, c)
  BY DEF Keeps

\* A page opened for the first time has an empty desk.
LEMMA InitIInv == Init => IInv
<1> SUFFICES ASSUME Init PROVE IInv
  OBVIOUS
<1>1. /\ desk \in DeskType /\ desk.lastTicket = Null
      /\ \A k \in Keys : /\ desk.paper[k] = {} /\ desk.tickets[k] = Null
                        /\ desk.working[k] = "none"
  BY DeskAssumption DEF Init, DeskType, AccountOrNone, Tickets
<1>2. Sound(desk)
  BY <1>1 DEF Sound, Received
<1> QED BY <1>2 DEF Init, IInv, Handler
-----------------------------------------------------------------------------
\* The answer of a quote, and the run's way to its end.
LEMMA QuoteAnswerKeeps ==
  ASSUME IInv, NEW s \in Slots, QuoteAnswer(s), UNCHANGED up
  PROVE  IInv'
<1> DEFINE r  == polls[s]
           b1 == IF up THEN Quoted(desk, r.id) ELSE desk
           b2 == Ticketed(b1, r.id)
           b3 == Started(b2, r.id, r.back)
           b4 == [b3 EXCEPT !.lastTicket = b3.tickets[Key(b3, r.id)]]
<1>1. up' \in BOOLEAN
  BY DEF IInv
<1>2. /\ r.pc = "quote" /\ r.id \in Tokens
      /\ r.kind \in {"start", "recover", "live"} => r.back \in Tokens
  BY DEF IInv, Handler, RunType, QuoteAnswer, At, Idle
<1>3. Sound(b1) /\ Keeps(desk, b1)
  <2>1. Keeps(desk, desk) /\ Sound(desk)
    BY DEF IInv, Keeps
  <2>2. Sound(Quoted(desk, r.id)) /\ Keeps(desk, Quoted(desk, r.id))
    BY <1>2, <2>1, QuotedSound
  <2> QED BY <2>1, <2>2
<1> HIDE DEF b1, r
<1>4. Sound(b2) /\ Keeps(desk, b2)
  BY <1>2, <1>3, TicketedSound, KeepsTrans
<1> HIDE DEF b2
<1>5. ASSUME r.back \in Tokens PROVE Sound(b3) /\ Keeps(desk, b3)
  BY <1>2, <1>4, <1>5, StartedSound, KeepsTrans
<1> HIDE DEF b3
<1>6. CASE desk' = b1 /\ Goto(s, Idle)
  BY <1>1, <1>3, <1>6, OneMoves DEF Handler
<1>7. CASE desk' = b2 /\ Goto(s, Idle)
  BY <1>1, <1>4, <1>7, OneMoves DEF Handler
<1>8. CASE r.kind = "start" /\ RefreshDesk(s, b3)
  BY <1>1, <1>2, <1>5, <1>8, RefreshKeeps
<1>9. CASE r.kind = "recover" /\ RefreshDesk(s, b4)
  <2>1. Sound(b3) /\ Keeps(desk, b3)
    BY <1>2, <1>5, <1>9
  <2>2. Key(b3, r.id) \in Keys
    BY <1>2, <2>1, KeysInDesk DEF Sound, DeskType
  <2>3. /\ b3.tickets[Key(b3, r.id)] \in Received(b3)
        /\ b3.tickets[Key(b3, r.id)] \in Tickets
    BY <2>1, <2>2, StoredReceived
  <2>4. /\ b4 \in DeskType /\ b4.paper = b3.paper /\ b4.tickets = b3.tickets
        /\ b4.working = b3.working /\ b4.lastTicket \in Received(b3)
    BY <2>1, <2>3 DEF Sound, DeskType
  <2> HIDE DEF b4
  <2>5. Sound(b4) /\ Keeps(desk, b4)
    BY <2>1, <2>4, ShownSound, KeepsTrans
  <2> QED BY <1>1, <1>9, <2>5, RefreshKeeps
<1>10. CASE r.kind = "live" /\ desk' = b2 /\ Goto(s, Intent(b2, r.back))
  <2>1. r.back \in Tokens
    BY <1>2, <1>10
  <2>2. Key(b2, r.back) \in Keys
    BY <1>4, <2>1, KeysInDesk DEF Sound, DeskType
  <2>3. b2.tickets[Key(b2, r.back)] \in Received(b2)
    BY <1>4, <2>2, StoredReceived
  <2>4. b2.lastTicket \in Received(b2)
    BY <1>4 DEF Sound
  <2>5. Handler(Intent(b2, r.back), Received(b2))
    BY <2>1, <2>3, <2>4 DEF Handler, Intent
  <2> QED BY <1>1, <1>4, <1>10, <2>5, OneMoves
<1> QED
  BY <1>6, <1>7, <1>8, <1>9, <1>10 DEF QuoteAnswer, r, b1, b2, b3

\* A payment is confirmed or not.
LEMMA PaidKeeps ==
  ASSUME IInv, NEW s \in Slots, Paid(s), UNCHANGED up
  PROVE  IInv'
<1> DEFINE r == polls[s]
           b == [desk EXCEPT !.activated = @ \cup {<<r.by, r.id>>}]
           c == [b EXCEPT !.token = r.id]
<1>1. up' \in BOOLEAN /\ Sound(desk) /\ Keeps(desk, desk)
  BY DEF IInv, Keeps
<1>2. r.id \in Tokens /\ r.by \in Accounts
  BY DEF IInv, Handler, RunType, Paid, At, Idle
<1>3. /\ b \in DeskType /\ b.paper = desk.paper /\ b.tickets = desk.tickets
      /\ b.working = desk.working /\ b.lastTicket = desk.lastTicket
  BY <1>1, <1>2 DEF Sound, DeskType
<1>4. /\ c \in DeskType /\ c.paper = desk.paper /\ c.tickets = desk.tickets
      /\ c.working = desk.working /\ c.lastTicket = desk.lastTicket
  BY <1>2, <1>3 DEF DeskType
<1>5. desk.lastTicket \in Received(desk)
  BY <1>1 DEF Sound
<1> HIDE DEF b, c, r
<1>6. Sound(b) /\ Keeps(desk, b) /\ Sound(c) /\ Keeps(desk, c)
  BY <1>1, <1>3, <1>4, <1>5, ShownSound
<1>7. CASE desk' = c /\ Goto(s, Run("start", r.id, b.token))
  <2>1. Handler(Run("start", r.id, b.token), Received(c))
    BY <1>2, <1>3 DEF Handler, RunType, Run, DeskType
  <2> QED BY <1>1, <1>6, <1>7, <2>1, OneMoves
<1>8. CASE RefreshDesk(s, b)
  BY <1>1, <1>6, <1>8, RefreshKeeps
<1>9. CASE Goto(s, Idle) /\ UNCHANGED desk
  BY <1>1, <1>9, OneMoves DEF Handler
<1> QED BY <1>7, <1>8, <1>9 DEF Paid, r, b, c

\* The owner is known; the intent is signed or refused.
LEMMA LiveKeeps ==
  ASSUME IInv, NEW s \in Slots, OwnerAnswer(s) \/ Sign(s), UNCHANGED up
  PROVE  IInv'
<1>1. /\ up' \in BOOLEAN /\ Sound(desk) /\ Keeps(desk, desk)
      /\ desk.token \in Tokens /\ desk.lastTicket \in Received(desk)
  BY DEF IInv, Keeps, Sound, DeskType
<1>2. CASE Goto(s, Idle) /\ UNCHANGED desk
  BY <1>1, <1>2, OneMoves DEF Handler
<1>3. CASE OwnerAnswer(s)
  <2> DEFINE t == polls[s].id
  <2>1. t \in Tokens
    BY <1>3 DEF IInv, Handler, RunType, OwnerAnswer, At, Idle
  <2> HIDE DEF t
  <2>2. CASE UNCHANGED desk /\ desk.lastTicket # Null /\ Goto(s, Intent(desk, t))
    <3>1. Handler(Intent(desk, t), Received(desk))
      BY <1>1, <2>1, <2>2 DEF Handler, Intent
    <3> QED BY <1>1, <2>2, <3>1, OneMoves
  <2>3. CASE UNCHANGED desk /\ Goto(s, Run("live", desk.token, t))
    <3>1. Handler(Run("live", desk.token, t), Received(desk))
      BY <1>1, <2>1 DEF Handler, RunType, Run
    <3> QED BY <1>1, <2>3, <3>1, OneMoves
  <2> QED BY <1>2, <1>3, <2>2, <2>3 DEF OwnerAnswer, t
<1> QED BY <1>2, <1>3 DEF Sign

\* A reload or popstate shows the ticket that is stored for the new token.
LEMMA OpenedSound ==
  ASSUME NEW b, Sound(b), NEW t \in Tokens, NEW a \in AccountOrNone,
         NEW k \in Keys, NEW o \in Tokens,
         NEW c, c = [b EXCEPT !.opened = o, !.token = t, !.account = a,
                              !.beat = Null, !.lastTicket = b.tickets[k]]
  PROVE  Sound(c) /\ Keeps(b, c)
<1>1. b.tickets[k] \in Received(b) /\ b.tickets[k] \in Tickets
  BY StoredReceived
<1>2. /\ c \in DeskType /\ c.paper = b.paper /\ c.tickets = b.tickets
      /\ c.working = b.working /\ c.lastTicket \in Received(b)
  BY <1>1 DEF Sound, DeskType
<1> QED BY <1>2, ShownSound

\* A reload (DOMContentLoaded) ends all handlers.
LEMMA LoadKeeps ==
  ASSUME IInv, NEW t \in Consoles, Load(t), UNCHANGED up
  PROVE  IInv'
<1>1. t \in Tokens /\ <<Null, t>> \in Keys /\ Null \in AccountOrNone /\ Sound(desk)
  BY DeskAssumption DEF Keys, AccountOrNone, IInv
<1>2. Sound(desk')
  BY <1>1, OpenedSound DEF Load
<1> QED BY <1>2 DEF IInv, Load, Handler

\* popstate may begin two runs of the same token.
LEMMA RouteKeeps ==
  ASSUME IInv, NEW s \in Slots, NEW r \in Slots, Route(s, r), UNCHANGED up
  PROVE  IInv'
<1> DEFINE t == desk.opened
           run == Run("start", t, t)
<1>1. /\ t \in Tokens /\ desk.account \in AccountOrNone /\ Sound(desk)
      /\ Key(desk, t) \in Keys
  BY KeysInDesk DEF IInv, Sound, DeskType
<1>2. desk' = [desk EXCEPT !.opened = t, !.token = t, !.account = desk.account,
                           !.beat = Null, !.lastTicket = desk.tickets[Key(desk, t)]]
  <2>1. desk = [desk EXCEPT !.opened = desk.opened, !.account = desk.account]
    BY <1>1 DEF Sound, DeskType
  <2> QED BY <1>1, <2>1 DEF Route, Sound, DeskType
<1>3. Sound(desk') /\ Keeps(desk, desk')
  BY <1>1, <1>2, OpenedSound
<1>4. Handler(run, Received(desk')) /\ Handler(Idle, Received(desk'))
  BY <1>1 DEF Handler, RunType, Run
<1>5. /\ polls' = [q \in Slots |-> polls'[q]]
      /\ \A q \in Slots : polls'[q] \in {polls[q], Idle, run}
  BY DEF Route, IInv
<1>6. ASSUME NEW q \in Slots PROVE Handler(polls'[q], Received(desk'))
  BY <1>3, <1>4, <1>5, HandlerStays DEF IInv
<1> QED BY <1>3, <1>5, <1>6 DEF IInv

\* Wallet, buttons, heartbeat, recovery and payment.
LEMMA UserKeeps ==
  ASSUME IInv, NEW s \in Slots, UNCHANGED up,
         \/ \E a \in Shown : TakeAccount(s, a)
         \/ Click(s) \/ Heartbeat(s) \/ Pay(s) \/ Live(s)
         \/ \E t \in Tokens : Recovered(s, t)
  PROVE  IInv'
<1>1. /\ up' \in BOOLEAN /\ Sound(desk) /\ Keeps(desk, desk)
      /\ desk \in DeskType /\ desk.token \in Tokens
      /\ desk.account \in AccountOrNone /\ desk.lastTicket \in Received(desk)
  BY DEF IInv, Keeps, Sound, DeskType
<1>2. ASSUME NEW a \in Shown, TakeAccount(s, a) PROVE IInv'
  <2> DEFINE b == [desk EXCEPT !.account = a]
  <2>1. /\ b \in DeskType /\ b.paper = desk.paper /\ b.tickets = desk.tickets
        /\ b.working = desk.working /\ b.lastTicket = desk.lastTicket
    BY <1>1, DeskAssumption DEF DeskType, AccountOrNone
  <2> HIDE DEF b
  <2>2. Sound(b) /\ Keeps(desk, b)
    BY <1>1, <2>1, ShownSound
  <2>3. RefreshDesk(s, b)
    BY <1>2 DEF TakeAccount, b
  <2> QED BY <1>1, <2>2, <2>3, RefreshKeeps
<1>3. ASSUME NEW kind \in {"desk", "paper"}, UNCHANGED desk,
             Goto(s, Run(kind, desk.token, Null))
      PROVE  IInv'
  <2>1. Handler(Run(kind, desk.token, Null), Received(desk))
    BY <1>1 DEF Handler, RunType, Run
  <2> QED BY <1>1, <1>3, <2>1, OneMoves
<1>4. CASE Click(s)
  BY <1>3, <1>4 DEF Click
<1>5. CASE Heartbeat(s)
  <2>1. CASE desk' = [desk EXCEPT !.beat = Null] /\ UNCHANGED polls
    <3>1. /\ desk' \in DeskType /\ desk'.paper = desk.paper
          /\ desk'.tickets = desk.tickets /\ desk'.working = desk.working
          /\ desk'.lastTicket = desk.lastTicket
      BY <1>1, <2>1 DEF DeskType
    <3>2. Sound(desk') /\ Keeps(desk, desk')
      BY <1>1, <3>1, ShownSound
    <3>3. ASSUME NEW r \in Slots PROVE Handler(polls'[r], Received(desk'))
      BY <2>1, <3>2, HandlerStays DEF IInv
    <3> QED BY <1>1, <2>1, <3>2, <3>3 DEF IInv
  <2> QED BY <1>3, <1>5, <2>1 DEF Heartbeat
<1>6. CASE Pay(s)
  <2>1. desk.account \in Accounts
    BY <1>1, <1>6 DEF Pay, AccountOrNone
  <2>2. Handler([pc |-> "pay", id |-> desk.token, by |-> desk.account], Received(desk))
    BY <1>1, <2>1 DEF Handler, RunType
  <2> QED BY <1>1, <1>6, <2>2, OneMoves DEF Pay
<1>7. CASE Live(s)
  <2>1. Handler([pc |-> "owner", id |-> desk.token], Received(desk))
    BY <1>1 DEF Handler, RunType
  <2> QED BY <1>1, <1>7, <2>1, OneMoves DEF Live
<1>8. ASSUME NEW t \in Tokens, Recovered(s, t) PROVE IInv'
  <2>1. desk.account \in Accounts
    BY <1>1, <1>8 DEF Recovered, AccountOrNone
  <2>2. /\ desk' \in DeskType /\ desk'.paper = desk.paper
        /\ desk'.tickets = desk.tickets /\ desk'.working = desk.working
        /\ desk'.lastTicket = desk.lastTicket
    <3> DEFINE acts == desk.activated \cup {Key(desk, t)}
    <3>1. acts \subseteq Accounts \X Tokens
      BY <1>1, <2>1 DEF DeskType, Key
    <3>2. desk' = [desk EXCEPT !.activated = acts, !.token = t]
      BY <1>1, <1>8 DEF Recovered, DeskType
    <3> HIDE DEF acts
    <3> QED BY <1>1, <3>1, <3>2 DEF DeskType
  <2>3. Sound(desk') /\ Keeps(desk, desk')
    BY <1>1, <2>2, ShownSound
  <2>4. Handler(Run("recover", t, t), Received(desk'))
    BY DEF Handler, RunType, Run
  <2> QED BY <1>1, <1>8, <2>3, <2>4, OneMoves DEF Recovered
<1> QED BY <1>2, <1>4, <1>5, <1>6, <1>7, <1>8
-----------------------------------------------------------------------------
\* Every step of the page and its surroundings keeps the invariant.
LEMMA NextIInv == IInv /\ [Next]_vars => IInv'
<1> SUFFICES ASSUME IInv, [Next]_vars PROVE IInv'
  OBVIOUS
<1>1. CASE UNCHANGED vars
  BY <1>1 DEF vars, IInv, Handler, Received, Sound
<1>2. ASSUME NEW s \in Slots, Answer(s) PROVE IInv'
  BY <1>2, QuoteAnswerKeeps, PaidKeeps, LiveKeeps DEF Answer
<1>3. CASE Beat
  BY <1>3, UserKeeps DEF Beat
<1>4. CASE User
  BY <1>4, UserKeeps, LoadKeeps, RouteKeeps DEF User
<1>5. CASE Outage
  <2>1. Sound(desk') /\ up' \in BOOLEAN
    BY <1>5 DEF Outage, IInv, Sound, Received
  <2>2. \A s \in Slots : Handler(polls'[s], Received(desk'))
    BY <1>5 DEF Outage, IInv, Handler, Received
  <2> QED BY <1>5, <2>1, <2>2 DEF Outage, IInv
<1> QED BY <1>1, <1>2, <1>3, <1>4, <1>5 DEF Next

\* The inductive invariant holds in every reachable state of the page.
THEOREM DeskInvariant == Spec => []IInv
  BY InitIInv, NextIInv, PTL DEF Spec

\* The type of the desk: every run in flight, whichever desk put its token
\* aside, leaves a token on the page.
THEOREM DeskTyped == Spec => []DeskTypeOK
<1>1. IInv => DeskTypeOK
  <2> SUFFICES ASSUME IInv PROVE DeskTypeOK
    OBVIOUS
  <2>1. ASSUME NEW s \in Slots, polls[s] # Idle PROVE polls[s].id \in Tokens
    BY <2>1 DEF IInv, Handler, RunType
  <2> QED BY <2>1 DEF IInv, Sound, DeskType, AccountOrNone, DeskTypeOK
<1> QED BY <1>1, DeskInvariant, PTL

\* A late quote or ticket is never filed under another agent (onPaper and
\* runBrokerDesk keep the id they were called for).
THEOREM FiledRight == Spec => []FiledUnderOwnSkill
<1>1. IInv => FiledUnderOwnSkill
  BY DEF IInv, Sound, FiledUnderOwnSkill
<1> QED BY <1>1, DeskInvariant, PTL

\* No desk is WORKING, and no ticket is stored, shown or put up for signing,
\* without a public quote (startAgentDesk, runBrokerDesk, onLive).
THEOREM NothingInvented == Spec => []NoInventedMark
<1>1. IInv => NoInventedMark
  <2> SUFFICES ASSUME IInv PROVE NoInventedMark
    OBVIOUS
  <2>1. ASSUME NEW s \in Slots, At(s, "sign")
        PROVE  polls[s].ticket \in Received(desk)
    BY <2>1 DEF IInv, Handler, RunType, At, Idle
  <2>2. ASSUME NEW m \in Received(desk), m # Null
        PROVE  m.skill \in UNION {desk.paper[k] : k \in Keys}
    BY <2>2 DEF Received
  <2> QED BY <2>1, <2>2 DEF IInv, Sound, NoInventedMark
<1> QED BY <1>1, DeskInvariant, PTL
=============================================================================
