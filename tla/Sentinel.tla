------------------------------ MODULE Sentinel ------------------------------
(***************************************************************************)
(* The watchdog (agent/ire-sentinel.mjs): every watchSeconds it reads four *)
(* endpoints, judges what they say, may ask a model for an assessment and  *)
(* writes a report. The interval does not wait for the check in progress,  *)
(* so that reports may be written in another order than they were begun.   *)
(* The directory of the reports may be full or missing for a while.        *)
(***************************************************************************)
EXTENDS Pages

CONSTANTS
  Endpoints  \* of rpc_status, supply, inflation, bonded_validators

VARIABLES
  ailing,    \* endpoints that now fail, time out or tell of a problem
  since,     \* history: per check in progress, endpoints that were well
  reports,   \* the newest report file, and the endpoints its check saw well;
             \* "none" before the first, "ended" if the process did instead
  writable   \* does writing a report succeed

sentinelVars == <<ailing, since, reports, writable>>

SnInit ==
  /\ ailing = {} /\ since = [s \in Slots |-> {}]
  /\ reports = [status |-> "none"] /\ writable = TRUE

\* The node gets a problem or recovers from one: another network or a node
\* that catches up, another supply, inflation, no bonded validator, no answer.
SnWorld ==
  /\ \E e \in Endpoints : ailing' = (ailing \cup {e}) \ (ailing \cap {e})
  /\ since' = [s \in Slots |-> IF polls[s] = Idle THEN since[s]
                               ELSE since[s] \cup (Endpoints \ ailing')]
  /\ UNCHANGED <<polls, shown, page, reports, writable>>

SnDisk == writable' = ~writable /\ UNCHANGED <<polls, shown, page, ailing, since, reports>>

\* Unlike the pages it is a process of its own; its checks are the polls. The
\* first one is waited for.
SnTick(s) ==
  /\ reports.status = "none" => \A r \in Slots : polls[r] = Idle
  /\ reports.status # "ended"
  /\ Free(s) /\ Goto(s, [pc |-> "fetch", answer |-> <<>>])
  /\ since' = [since EXCEPT ![s] = Endpoints \ ailing]
  /\ UNCHANGED <<shown, page, ailing, reports, writable>>

\* The answers with that of one more endpoint.
With(answer, e, well) ==
  [d \in DOMAIN answer \cup {e} |-> IF d = e THEN well ELSE answer[d]]

\* A defect: an endpoint's error is thrown on, the check ends without report.
FaultySnAnswer(s) ==
  /\ At(s, "fetch")
  /\ \E e \in Endpoints \ DOMAIN polls[s].answer :
       IF e \in ailing THEN Goto(s, Idle)
       ELSE Goto(s, [polls[s] EXCEPT !.answer = With(@, e, TRUE)])
  /\ UNCHANGED <<shown, page, sentinelVars>>

\* checkEndpoint of the four, concurrently: an answer, or an error that is
\* kept as one. What matters of an answer is whether its check will pass.
SnAnswer(s) ==
  /\ At(s, "fetch")
  /\ \E e \in Endpoints \ DOMAIN polls[s].answer :
       Goto(s, [polls[s] EXCEPT !.answer = With(@, e, e \notin ailing)])
  /\ UNCHANGED <<shown, page, sentinelVars>>

\* A defect: an endpoint that gave no list of validators is passed over.
FaultyEvaluate(answer) ==
  IF \A e \in Endpoints \ {"bonded_validators"} : answer[e]
  THEN "healthy" ELSE "attention_required"

\* evaluate: each check passes only if its endpoint said so.
Evaluate(answer) ==
  IF \A e \in Endpoints : answer[e] THEN "healthy" ELSE "attention_required"

SnEvaluate(s) ==
  /\ At(s, "fetch") /\ DOMAIN polls[s].answer = Endpoints
  /\ Goto(s, [pc |-> "ai", status |-> Evaluate(polls[s].answer)])
  /\ UNCHANGED <<shown, page, sentinelVars>>

\* The assessment came, failed or was not asked for; the report is written
\* under the time of now.
SnReport(s) ==
  /\ At(s, "ai") /\ writable
  /\ reports' = [status |-> polls[s].status, well |-> since[s]]
  /\ since' = [since EXCEPT ![s] = {}]
  /\ Goto(s, Idle)
  /\ UNCHANGED <<shown, page, ailing, writable>>

\* The error of a failed write is logged and the verdict is lost; nothing
\* catches that of the first check, which ends the process.
SnNotWritten(s) ==
  /\ At(s, "ai") /\ ~writable
  /\ reports' = IF reports.status = "none" THEN [status |-> "ended"] ELSE reports
  /\ since' = [since EXCEPT ![s] = {}]
  /\ Goto(s, Idle)
  /\ UNCHANGED <<shown, page, ailing, writable>>

SnStep(s) == SnAnswer(s) \/ SnEvaluate(s) \/ SnReport(s) \/ SnNotWritten(s)
-----------------------------------------------------------------------------
\* A report says healthy only if each endpoint was well at some time since
\* that check began: no failure is passed over, none is taken from another
\* check that runs at the same time.
SilenceIsNotHealth ==
  reports.status = "healthy" => reports.well = Endpoints

\* A problem that stays is reported in the end, and no check begun before it
\* takes the alarm back for good: also when reports were lost meanwhile, as
\* long as they can be written again and the process survived its first one.
AlarmRaised ==
  \A e \in Endpoints :
    <>[](page = "sentinel" /\ e \in ailing /\ writable /\ reports.status # "ended") =>
      <>[](page = "sentinel" => reports.status = "attention_required")
=============================================================================
