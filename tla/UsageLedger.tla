----------------------------- MODULE UsageLedger -----------------------------
(***************************************************************************)
(* The accounting of inference requests: the private ledger of launch      *)
(* sessions (sessions.rs, launch_requests) and the panel's ledger with its *)
(* daily rollup (analytics.rs, panel_requests and panel_usage_daily).      *)
(* Every command runs in one transaction on the database actor; the meters *)
(* live in the agent and die with it.                                      *)
(*                                                                         *)
(* Token counts are abstracted to one number, days to a counter.           *)
(***************************************************************************)
EXTENDS Integers, FiniteSets, FiniteSetsExt

CONSTANTS
  Sessions,        \* launch sessions
  Calls,           \* request identities; each is used once
  MaxDay,          \* bound on the days
  MaxBoot,         \* bound on the agent's restarts
  CallDays,        \* days panel_requests and launch_sessions are kept (90)
  RollupDays,      \* days panel_usage_daily is kept (365)
  LongContext      \* threshold of the long-context counters (272000)

ASSUME LedgerAssumption ==
  /\ {MaxDay, MaxBoot, CallDays, RollupDays, LongContext} \subseteq Nat /\ CallDays <= RollupDays
  /\ IsFiniteSet(Calls)

VARIABLES
  today,     \* the date
  boot,      \* which run of the agent this is
  sessions,  \* launch_sessions
  launch,    \* launch_requests
  panel,     \* panel_requests
  daily,     \* panel_usage_daily
  meters     \* per request: the agent's UsageMeter

ledgerVars == <<today, boot, sessions, launch, panel, daily, meters>>

Api == "api"
Keys == [day: 0 .. MaxDay, who: Sessions \union {Api}]
NoRow == [st |-> "none"]
Zero == [requests |-> 0, tokens |-> 0, unknown |-> 0, pending |-> 0, failed |-> 0, errors |-> 0, long |-> 0]

\* Counts of a response: unknown, small, long, or too large for the column.
Overflow == LongContext + 2
Counts == {-1, 1, LongContext + 1, Overflow}
Outcomes == {"succeeded", "failed", "interrupted"}

LedgerInit ==
  /\ today = 0 /\ boot = 0
  /\ sessions = [s \in Sessions |-> [st |-> "none", day |-> 0]]
  /\ launch = [c \in Calls |-> NoRow]
  /\ panel = [c \in Calls |-> NoRow]
  /\ daily = [k \in Keys |-> Zero]
  /\ meters = [c \in Calls |-> "none"]

-----------------------------------------------------------------------------
(* Launch sessions.                                                         *)

\* create, and the retention it applies first: the requests of a deleted
\* session go with it (ON DELETE CASCADE).
Expired(day, keep) == day + keep < today
Create(s) ==
  /\ sessions[s].st = "none"
  /\ LET old == {t \in Sessions : sessions[t].st # "none" /\ Expired(sessions[t].day, CallDays)}
     IN  /\ sessions' = [t \in Sessions |-> IF t = s THEN [st |-> "open", day |-> today]
                                            ELSE IF t \in old THEN [sessions[t] EXCEPT !.st = "deleted"]
                                            ELSE sessions[t]]
         /\ launch' = [c \in Calls |-> IF launch[c].st # "none" /\ launch[c].who \in old
                                       THEN NoRow ELSE launch[c]]
  /\ UNCHANGED <<today, boot, panel, daily, meters>>

\* finish_session
FinishSession(s) ==
  /\ sessions[s].st = "open"
  /\ sessions' = [sessions EXCEPT ![s].st = "finished"]
  /\ UNCHANGED <<today, boot, launch, panel, daily, meters>>

-----------------------------------------------------------------------------
(* Requests.                                                                *)

Pending(who) == [st |-> "pending", who |-> who, day |-> today, boot |-> boot,
                 tokens |-> -1, outcome |-> "pending", error |-> 0]

\* The upsert of begin into the rollup.
Opened(sums) == [sums EXCEPT !.requests = @ + 1, !.unknown = @ + 1, !.pending = @ + 1]

\* Begin: refused for a finished session; a row in each ledger and in the
\* rollup.  The handler may be gone when the answer arrives, and then no
\* meter exists to finish the request.
BeginUsage(c, who) ==
  /\ panel[c] = NoRow /\ meters[c] = "none"
  /\ who # Api => sessions[who].st = "open"
  /\ launch' = IF who = Api THEN launch ELSE [launch EXCEPT ![c] = Pending(who)]
  /\ panel' = [panel EXCEPT ![c] = Pending(who)]
  /\ daily' = [daily EXCEPT ![[day |-> today, who |-> who]] = Opened(@)]
  /\ \E held \in {"live", "gone"} : meters' = [meters EXCEPT ![c] = held]
  /\ UNCHANGED <<today, boot, sessions>>

Finished(row, tokens, outcome, error) ==
  IF row.st # "pending" THEN row
  ELSE [row EXCEPT !.st = "done", !.tokens = tokens, !.outcome = outcome, !.error = error]

Long(tokens) == IF tokens > LongContext THEN tokens ELSE 0
Flag(b) == IF b THEN 1 ELSE 0

\* The update of the rollup when a request ends.
Closed(sums, tokens, outcome, error) ==
  [sums EXCEPT !.tokens = @ + (IF tokens < 0 THEN 0 ELSE tokens),
               !.unknown = @ - Flag(tokens >= 0),
               !.pending = @ - 1,
               !.failed = @ + Flag(outcome # "succeeded"),
               !.errors = @ + error,
               !.long = @ + Long(tokens)]

\* Mutant: the rollup of the day on which the request ends.
CountedToday(row) == [day |-> today, who |-> row.who]

\* The rollup a request is counted in is that of the day it started.
CountedIn(row) == [day |-> row.day, who |-> row.who]

\* Drop of the meter and Record.  A count that does not fit the column
\* refuses the command; a full queue or an agent that stops loses it.
Record(c, tokens, outcome) ==
  /\ meters[c] = "live"
  /\ meters' = [meters EXCEPT ![c] = "gone"]
  /\ \E incomplete \in BOOLEAN :
       /\ outcome # "succeeded" => incomplete
       /\ IF tokens = Overflow THEN UNCHANGED <<launch, panel, daily>>
          ELSE LET row == panel[c]
                   error == Flag(incomplete)
               IN  /\ launch' = IF launch[c] = NoRow THEN launch
                                ELSE [launch EXCEPT ![c] = Finished(@, tokens, outcome, error)]
                   /\ panel' = IF row = NoRow THEN panel
                               ELSE [panel EXCEPT ![c] = Finished(@, tokens, outcome, error)]
                   /\ daily' = IF row.st # "pending" THEN daily
                               ELSE [daily EXCEPT ![CountedIn(row)] = Closed(@, tokens, outcome, error)]
  /\ UNCHANGED <<today, boot, sessions>>

RecordLost(c) ==
  /\ meters[c] = "live"
  /\ meters' = [meters EXCEPT ![c] = "gone"]
  /\ UNCHANGED <<today, boot, sessions, launch, panel, daily>>

-----------------------------------------------------------------------------
(* Restart and retention.                                                   *)

\* Mutant: the requests are closed, the rollup is not.
InterruptedRowsOnly(d) == d

\* interrupt_pending, in the rollup ...
InterruptedDaily(d) ==
  [k \in Keys |-> [d[k] EXCEPT !.failed = @ + d[k].pending, !.errors = @ + d[k].pending, !.pending = 0]]

\* Mutant: a restart leaves the requests as they are.
InterruptedNothing(table) == table

\* ... and in both tables of requests.
Interrupted(table) ==
  [c \in Calls |-> IF table[c].st = "none" THEN table[c]
                   ELSE Finished(table[c], -1, "interrupted", 1)]

\* The agent stops at any time; the next one opens the database.
Restart ==
  /\ boot < MaxBoot
  /\ boot' = boot + 1
  /\ meters' = [c \in Calls |-> IF meters[c] = "none" THEN "none" ELSE "gone"]
  /\ daily' = InterruptedDaily(daily)
  /\ panel' = Interrupted(panel)
  /\ launch' = Interrupted(launch)
  /\ UNCHANGED <<today, sessions>>

\* cleanup, once a minute
Cleanup ==
  /\ panel' = [c \in Calls |-> IF panel[c].st # "none" /\ Expired(panel[c].day, CallDays)
                               THEN NoRow ELSE panel[c]]
  /\ LET old == {s \in Sessions : sessions[s].st # "none" /\ Expired(sessions[s].day, CallDays)}
     IN  /\ sessions' = [s \in Sessions |-> IF s \in old THEN [sessions[s] EXCEPT !.st = "deleted"]
                                            ELSE sessions[s]]
         /\ launch' = [c \in Calls |-> IF launch[c].st # "none" /\ launch[c].who \in old
                                       THEN NoRow ELSE launch[c]]
  /\ daily' = [k \in Keys |-> IF Expired(k.day, RollupDays) THEN Zero ELSE daily[k]]
  /\ UNCHANGED <<today, boot, meters>>

NextDay ==
  /\ today < MaxDay /\ today' = today + 1
  /\ UNCHANGED <<boot, sessions, launch, panel, daily, meters>>

LedgerNext ==
  \/ \E s \in Sessions : Create(s) \/ FinishSession(s)
  \/ \E c \in Calls, who \in Sessions \union {Api} : BeginUsage(c, who)
  \/ \E c \in Calls, n \in Counts, o \in Outcomes : Record(c, n, o)
  \/ \E c \in Calls : RecordLost(c)
  \/ Restart \/ Cleanup \/ NextDay

LedgerSpec == LedgerInit /\ [][LedgerNext]_ledgerVars

-----------------------------------------------------------------------------
(* Properties.                                                              *)

\* What a request contributes to each column of the rollup.
Share(row) ==
  [requests |-> 1,
   tokens |-> IF row.tokens < 0 THEN 0 ELSE row.tokens,
   unknown |-> Flag(row.tokens < 0),
   pending |-> Flag(row.st = "pending"),
   failed |-> Flag(row.outcome \notin {"succeeded", "pending"}),
   errors |-> row.error,
   long |-> Long(row.tokens)]

\* SUM(value)
Total(rows, value) == MapThenSumSet(LAMBDA c : value[c], rows)

\* What SELECT ... GROUP BY over the rows would give, the query of
\* analytics::migrate.
Aggregate(rows) ==
  [column \in DOMAIN Zero |-> Total(rows, [c \in rows |-> Share(panel[c])[column]])]

\* The requests a row of the rollup counts.
CountedBy(k) == {c \in Calls : panel[c].st # "none" /\ CountedIn(panel[c]) = k}

\* The daily rollup, which begin, record and interrupt_pending maintain by
\* increments, equals the aggregate of the requests it summarises, for every
\* day whose requests are still kept: across requests that end on a later day,
\* lost and refused records, restarts and retention.
RollupMatchesRequests ==
  \A k \in Keys : ~Expired(k.day, CallDays) =>
    daily[k] = Aggregate(CountedBy(k))

\* "In-flight usage from the previous agent is marked interrupted with unknown
\* counts; it never remains pending indefinitely" (docs/reference/spark.md): a
\* pending request was begun by the running agent, in both ledgers, and they
\* tell the same story of a request as long as both hold it.
LedgersSettleTogether ==
  \A c \in Calls :
    /\ \A row \in {launch[c], panel[c]} : row.st = "pending" => row.boot = boot
    /\ launch[c].st # "none" /\ panel[c].st # "none" => launch[c] = panel[c]

\* What the two ledgers promise about the calls, together.
UsageIsAccounted == RollupMatchesRequests /\ LedgersSettleTogether
=============================================================================
