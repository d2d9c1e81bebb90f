---------------------------- MODULE BrowserLogin ----------------------------
(***************************************************************************)
(* Logging a browser in to the panel: the helper on the workstation        *)
(* (webauth.rs) and the agent (web.rs) hand each other the browser through *)
(* redirects.  The helper starts a login with an intent, the agent opens a *)
(* flow for it, the helper approves the flow with the stored token, and    *)
(* the browser exchanges the approval for a session.                       *)
(*                                                                         *)
(* Every address the browsers were redirected to can be opened again, in   *)
(* any of them: a reload, a second tab, a copied address.  Secrets are     *)
(* numbers, and a cookie is the number of the intent, the flow or the      *)
(* session it belongs to.  Time is an event: a deadline passes.            *)
(***************************************************************************)
EXTENDS Integers, FiniteSets

CONSTANTS
  Browsers,
  MaxStarts,       \* logins started at the helper
  MaxFlows,        \* flows opened at the agent
  PendingLogins,   \* flows the agent keeps: 128
  MaxSessions      \* sessions the agent keeps: 1024

ASSUME LoginAssumption == {MaxStarts, MaxFlows, PendingLogins, MaxSessions} \subseteq Nat

VARIABLES
  helper,      \* the helper's intent and flow; on until it is done or gone
  started,     \* logins started so far
  calls,       \* approvals the helper waits for: the request, and the answer
  addresses,   \* what a browser can open
  cookies,     \* per browser: the helper's intent, the agent's flow
  flows,       \* LoginFlow, by number
  opened,      \* flows opened so far
  logins,       \* the browser sessions
  token,       \* the helper's token is in force
  sessionsOf,  \* sessions ever made for a flow
  crossed      \* logins started while an approval was in flight

loginVars == <<helper, started, calls, addresses, cookies, flows, opened, logins,
               token, sessionsOf, crossed>>

NoLogin == [intent |-> 0, flow |-> 0]

LoginInit ==
  /\ helper = [on |-> TRUE, done |-> FALSE, intent |-> 0, flow |-> 0]
  /\ started = 0 /\ opened = 0
  /\ calls = {} /\ addresses = {} /\ flows = {} /\ logins = {}
  /\ cookies = [b \in Browsers |-> NoLogin]
  /\ token = TRUE
  /\ sessionsOf = [n \in 1 .. MaxFlows |-> 0]
  /\ crossed = {}

-----------------------------------------------------------------------------
(* The helper.                                                              *)

\* /auth/start: a new intent replaces the last.
Start(b) ==
  /\ helper.on /\ started < MaxStarts
  /\ started' = started + 1
  /\ helper' = [helper EXCEPT !.intent = started']
  /\ cookies' = [cookies EXCEPT ![b].intent = started']
  /\ addresses' = addresses \cup {[to |-> "begin", intent |-> started']}
  /\ crossed' = IF calls = {} THEN crossed ELSE crossed \cup {started'}
  /\ UNCHANGED <<calls, flows, opened, logins, token, sessionsOf>>

\* /auth/approve: the address names the browser's intent, which is the last;
\* the agent is then called.
ApproveRequest(b) ==
  /\ helper.on
  /\ \E a \in addresses :
       /\ a.to = "approve"
       /\ a.intent = cookies[b].intent /\ a.intent = helper.intent
       /\ calls' = calls \cup {[browser |-> b, flow |-> a.flow, intent |-> a.intent,
                                answer |-> "none"]}
  /\ UNCHANGED <<helper, started, addresses, cookies, flows, opened, logins, token,
                 sessionsOf, crossed>>

\* A refused approval that clears the intent as a granted one does.
ApproveRefusedClears(c) ==
  /\ helper' = [helper EXCEPT !.intent = 0]
  /\ UNCHANGED <<addresses, cookies>>

\* The agent refused, or its answer was lost.
ApproveRefused(c) == UNCHANGED <<helper, addresses, cookies>>

\* The intent is used up, the flow is the one to wait for, and the browser is
\* sent to the agent with the code.
ApproveGranted(c) ==
  /\ helper' = [helper EXCEPT !.intent = 0, !.flow = c.flow]
  /\ addresses' = addresses \cup {[to |-> "finish", flow |-> c.flow]}
  /\ cookies' = [cookies EXCEPT ![c.browser].intent = 0]

ApproveReply ==
  /\ helper.on
  /\ \E c \in calls :
       /\ \/ c.answer = "code" /\ ApproveGranted(c)
          \/ ApproveRefused(c)
       /\ calls' = calls \ {c}
  /\ UNCHANGED <<started, flows, opened, logins, token, sessionsOf, crossed>>

\* serve: every half second the helper asks whether its flow is complete, and
\* stops when it is.
HelperPolls ==
  /\ helper.on /\ token
  /\ \E f \in flows : f.n = helper.flow /\ f.approved # "no" /\ f.consumed /\ ~f.old
  /\ helper' = [helper EXCEPT !.on = FALSE, !.done = TRUE]
  /\ calls' = {}
  /\ UNCHANGED <<started, addresses, cookies, flows, opened, logins, token, sessionsOf,
                 crossed>>

\* Ten minutes, or Ctrl-C.
HelperExpires ==
  /\ helper.on
  /\ helper' = [helper EXCEPT !.on = FALSE]
  /\ calls' = {}
  /\ UNCHANGED <<started, addresses, cookies, flows, opened, logins, token, sessionsOf,
                 crossed>>

-----------------------------------------------------------------------------
(* The agent.                                                               *)

\* begin: old flows are dropped, and a full table refuses.
Begin(b) ==
  /\ \E a \in addresses :
       /\ a.to = "begin"
       /\ LET kept == {f \in flows : ~f.old} IN
            IF Cardinality(kept) >= PendingLogins
            THEN flows' = kept /\ UNCHANGED <<opened, addresses, cookies>>
            ELSE /\ opened < MaxFlows
                 /\ opened' = opened + 1
                 /\ flows' = kept \cup {[n |-> opened', intent |-> a.intent, browser |-> b,
                                         approved |-> "no", consumed |-> FALSE, old |-> FALSE]}
                 /\ cookies' = [cookies EXCEPT ![b].flow = opened']
                 /\ addresses' = addresses \cup
                      {[to |-> "approve", flow |-> opened', intent |-> a.intent]}
  /\ UNCHANGED <<helper, started, calls, logins, token, sessionsOf, crossed>>

\* approve, called by the helper with the token.
Approve ==
  /\ token
  /\ \E c \in calls, f \in flows :
       /\ c.answer = "none" /\ f.n = c.flow
       /\ ~f.old /\ ~f.consumed /\ f.approved = "no" /\ f.intent = c.intent
       /\ flows' = (flows \ {f}) \cup {[f EXCEPT !.approved = "fresh"]}
       /\ calls' = (calls \ {c}) \cup {[c EXCEPT !.answer = "code"]}
  /\ UNCHANGED <<helper, started, addresses, cookies, opened, logins, token, sessionsOf,
                 crossed>>

\* An exchange that looks at the flow's consumption only in flow_status.
ExchangeableAgain(f, b) ==
  /\ f.approved = "fresh" /\ ~f.old /\ cookies[b].flow = f.n /\ token

\* What finish requires of the flow, the browser and the token.
Exchangeable(f, b) ==
  /\ ~f.consumed
  /\ f.approved = "fresh" /\ ~f.old /\ cookies[b].flow = f.n /\ token

\* finish: the session is made unless the table is full of live ones.
Finish(b) ==
  /\ \E a \in addresses, f \in flows :
       /\ a.to = "finish" /\ a.flow = f.n
       /\ Exchangeable(f, b)
       /\ Cardinality(logins) < MaxSessions
       /\ logins' = logins \cup {[flow |-> f.n, browser |-> b, nth |-> sessionsOf[f.n]]}
       /\ flows' = (flows \ {f}) \cup {[f EXCEPT !.consumed = TRUE]}
       /\ sessionsOf' = [sessionsOf EXCEPT ![f.n] = @ + 1]
  /\ UNCHANGED <<helper, started, calls, addresses, cookies, opened, token, crossed>>

\* logout, and the session's eight hours or thirty idle minutes.
SessionEnds ==
  /\ \E s \in logins : logins' = logins \ {s}
  /\ UNCHANGED <<helper, started, calls, addresses, cookies, flows, opened, token,
                 sessionsOf, crossed>>

\* A minute passes since the approval, or ten since the flow was opened.
DeadlinePasses ==
  /\ \E f \in flows :
       \/ f.approved = "fresh" /\ flows' = (flows \ {f}) \cup {[f EXCEPT !.approved = "stale"]}
       \/ ~f.old /\ flows' = (flows \ {f}) \cup {[f EXCEPT !.old = TRUE]}
  /\ UNCHANGED <<helper, started, calls, addresses, cookies, opened, logins, token,
                 sessionsOf, crossed>>

\* The token is revoked; and the agent restarts with empty tables.
RevokeToken ==
  /\ token /\ token' = FALSE
  /\ UNCHANGED <<helper, started, calls, addresses, cookies, flows, opened, logins,
                 sessionsOf, crossed>>

PanelRestarts ==
  /\ flows # {} /\ flows' = {} /\ logins' = {}
  /\ UNCHANGED <<helper, started, calls, addresses, cookies, opened, token, sessionsOf,
                 crossed>>

LoginNext ==
  \/ \E b \in Browsers : Start(b) \/ ApproveRequest(b) \/ Begin(b) \/ Finish(b)
  \/ ApproveReply \/ HelperPolls \/ HelperExpires \/ Approve
  \/ SessionEnds \/ DeadlinePasses \/ RevokeToken \/ PanelRestarts

LoginSpec == LoginInit /\ [][LoginNext]_loginVars

-----------------------------------------------------------------------------
\* "A single-use, browser-bound handoff" (docs/reference/spark.md): whatever is
\* opened again, in whichever browser, one approval makes one session, for the
\* browser the flow was opened in, and the helper reports success only for a
\* flow that made one (finish, flow_status, serve).
HandoffIsSingleUse ==
  /\ \A n \in 1 .. MaxFlows : sessionsOf[n] <= 1
  /\ \A s \in logins : \A f \in flows : f.n = s.flow => f.browser = s.browser
  /\ helper.done => sessionsOf[helper.flow] = 1

\* The login that was started last stays approvable until its own approval is
\* granted: no refused, lost, expired or older login takes its intent away,
\* unless an older approval was in flight when it was started (/auth/start,
\* /auth/approve).
LastLoginIsApprovable ==
  helper.on /\ started > 0 /\ started \notin crossed /\ helper.intent = 0 =>
    \E a \in addresses : a.to = "finish" /\
      \E x \in addresses : x.to = "approve" /\ x.flow = a.flow /\ x.intent = started

\* What the login promises, together.
LoginIsSound == HandoffIsSingleUse /\ LastLoginIsApprovable
=============================================================================
