-------------------------- MODULE ApplianceProofs ---------------------------
(***************************************************************************)
(* The appliance: the releases that installs, upgrades and rollbacks put in*)
(* place, and the login of the browsers it serves.  For any releases, rows *)
(* of state, browsers and flows.                                           *)
(***************************************************************************)
EXTENDS Installer, BrowserLogin, TLAPS

-----------------------------------------------------------------------------
(* Browser logins.                                                          *)

Helper == [on: BOOLEAN, done: BOOLEAN, intent: Nat, flow: Nat]
Call == [browser: Browsers, flow: Nat, intent: Nat, answer: {"none", "code"}]
BeginAddress == [to: {"begin"}, intent: Nat \ {0}]
ApproveAddress == [to: {"approve"}, flow: Nat, intent: Nat \ {0}]
FinishAddress == [to: {"finish"}, flow: Nat]
Flow == [n: 1 .. MaxFlows, intent: Nat, browser: Browsers,
         approved: {"no", "fresh", "stale"}, consumed: BOOLEAN, old: BOOLEAN]

LoginTypeOK ==
  /\ helper \in Helper /\ started \in Nat /\ opened \in Nat
  /\ calls \subseteq Call
  /\ addresses \subseteq BeginAddress \union ApproveAddress \union FinishAddress
  /\ cookies \in [Browsers -> [intent: Nat, flow: Nat]]
  /\ flows \subseteq Flow
  /\ logins \subseteq [flow: 1 .. MaxFlows, browser: Browsers, nth: Nat]
  /\ sessionsOf \in [1 .. MaxFlows -> Nat]

\* A flow is known by its number, the numbers grow, and the cookie of a flow
\* is in the browser that opened it.
FlowsAreNumbered ==
  /\ \A f, g \in flows : f.n = g.n => f = g
  /\ \A f \in flows : f.n <= opened
  /\ \A s \in logins : s.flow <= opened
  /\ \A b \in Browsers : cookies[b].flow <= opened
  /\ \A b \in Browsers, f \in flows : cookies[b].flow = f.n => f.browser = b

\* A flow is consumed by its one session.
ConsumedOnce ==
  /\ \A f \in flows : sessionsOf[f.n] = (IF f.consumed THEN 1 ELSE 0)
  /\ \A n \in 1 .. MaxFlows : sessionsOf[n] <= 1 /\ (n > opened => sessionsOf[n] = 0)
  /\ \A s \in logins, f \in flows : f.n = s.flow => f.browser = s.browser

\* The helper is done with a flow that was consumed.
DoneIsFinal == helper.done => ~helper.on /\ helper.flow \in 1 .. MaxFlows /\ sessionsOf[helper.flow] = 1

\* Whose approval is in flight.
CallsAreRecent ==
  /\ helper.intent \in {0, started}
  /\ \A c \in calls :
       /\ [to |-> "approve", flow |-> c.flow, intent |-> c.intent] \in addresses
       /\ c.intent = started \/ started \in crossed

LoginInv ==
  /\ LoginTypeOK /\ FlowsAreNumbered /\ ConsumedOnce /\ DoneIsFinal /\ CallsAreRecent
  /\ LastLoginIsApprovable

-----------------------------------------------------------------------------
(* Nobody has logged in yet.                                                *)
LEMMA LoginInvInit == LoginInit => LoginInv
<1> SUFFICES ASSUME LoginInit PROVE LoginInv
  BY Zenon
<1>1. LoginTypeOK
  BY Zenon DEF LoginInit, LoginTypeOK, Helper, NoLogin
<1>2. FlowsAreNumbered /\ ConsumedOnce
  BY LoginAssumption, SMT, SMTT(30) DEF LoginInit, FlowsAreNumbered, ConsumedOnce, NoLogin
<1>3. DoneIsFinal /\ CallsAreRecent /\ LastLoginIsApprovable
  BY SMT, SMTT(30) DEF LoginInit, DoneIsFinal, CallsAreRecent, LastLoginIsApprovable
<1> QED
  BY <1>1, <1>2, <1>3, Zenon DEF LoginInv

(* A login is started (Start): the intent is the last, and an approval in   *)
(* flight is now an older one.                                              *)
LEMMA StartKeepsInv ==
  ASSUME LoginInv, NEW b \in Browsers, Start(b)
  PROVE  LoginInv'
<1> USE DEF LoginInv
<1>1. /\ helper.on /\ started' = started + 1 /\ started \in Nat /\ started' \in Nat \ {0}
      /\ UNCHANGED <<calls, flows, opened, logins, token, sessionsOf>>
      /\ crossed' = (IF calls = {} THEN crossed ELSE crossed \union {started'})
  BY SMT, SMTT(30) DEF Start, LoginTypeOK
<1>2. /\ helper' \in Helper /\ helper'.on = helper.on /\ helper'.done = helper.done
      /\ helper'.intent = started' /\ helper'.flow = helper.flow
  BY <1>1, Zenon DEF Start, LoginTypeOK, Helper
<1>3. /\ cookies' \in [Browsers -> [intent: Nat, flow: Nat]]
      /\ \A c \in Browsers : cookies'[c].flow = cookies[c].flow
  BY <1>1, Zenon DEF Start, LoginTypeOK
<1>4. /\ addresses' \subseteq BeginAddress \union ApproveAddress \union FinishAddress
      /\ addresses \subseteq addresses'
  <2>1. [to |-> "begin", intent |-> started'] \in BeginAddress
    BY <1>1, Zenon DEF BeginAddress
  <2> QED
    BY <2>1, Zenon DEF Start, LoginTypeOK
<1>5. LoginTypeOK'
  BY <1>1, <1>2, <1>3, <1>4, Zenon DEF LoginTypeOK
<1>6. FlowsAreNumbered' /\ ConsumedOnce'
  BY <1>1, <1>3, SMT, SMTT(30) DEF FlowsAreNumbered, ConsumedOnce
<1>7. DoneIsFinal'
  BY <1>1, <1>2, Zenon DEF DoneIsFinal
<1>8. CallsAreRecent'
  <2>1. helper'.intent \in {0, started'}
    BY <1>2, Zenon
  <2>2. \A c \in calls' :
          /\ [to |-> "approve", flow |-> c.flow, intent |-> c.intent] \in addresses'
          /\ started' \in crossed'
    BY <1>1, <1>4, Zenon DEF CallsAreRecent
  <2> QED
    BY <2>1, <2>2, Zenon DEF CallsAreRecent
<1>9. LastLoginIsApprovable'
  BY <1>1, <1>2, Zenon DEF LastLoginIsApprovable
<1> QED
  BY <1>5, <1>6, <1>7, <1>8, <1>9, Zenon

(* The helper asks the agent to approve the last login (ApproveRequest).    *)
LEMMA RequestKeepsInv ==
  ASSUME LoginInv, NEW b \in Browsers, ApproveRequest(b)
  PROVE  LoginInv'
<1> USE DEF LoginInv
<1>1. UNCHANGED <<helper, started, addresses, cookies, flows, opened, logins, token,
                  sessionsOf, crossed>>
  BY Zenon DEF ApproveRequest
<1>2. PICK a \in addresses :
        /\ a.to = "approve" /\ a.intent = helper.intent
        /\ calls' = calls \union {[browser |-> b, flow |-> a.flow, intent |-> a.intent,
                                   answer |-> "none"]}
  BY Zenon DEF ApproveRequest
<1>3. a \in ApproveAddress
  BY <1>2, Zenon DEF LoginTypeOK, BeginAddress, ApproveAddress, FinishAddress
<1>4. a = [to |-> "approve", flow |-> a.flow, intent |-> a.intent]
  BY <1>3, Zenon DEF ApproveAddress
<1>5. a.intent = started /\ a.flow \in Nat /\ a.intent \in Nat
  BY <1>2, <1>3, Zenon DEF ApproveAddress, CallsAreRecent
<1>6. LoginTypeOK'
  BY <1>1, <1>2, <1>5, SMT, SMTT(30) DEF LoginTypeOK, Call
<1>7. CallsAreRecent'
  BY <1>1, <1>2, <1>4, <1>5, SMT, SMTT(30) DEF CallsAreRecent
<1>8. FlowsAreNumbered' /\ ConsumedOnce' /\ DoneIsFinal' /\ LastLoginIsApprovable'
  BY <1>1, Zenon DEF FlowsAreNumbered, ConsumedOnce, DoneIsFinal, LastLoginIsApprovable
<1> QED
  BY <1>6, <1>7, <1>8, Zenon

(* The helper's answer (ApproveReply): a granted approval of the last login  *)
(* sends its browser to the agent, one of an older login crossed the last.  *)
LEMMA ReplyKeepsInv == LoginInv /\ ApproveReply => LoginInv'
<1> SUFFICES ASSUME LoginInv, ApproveReply PROVE LoginInv'
  BY Zenon
<1> USE DEF LoginInv
<1>1. helper.on /\ UNCHANGED <<started, flows, opened, logins, token, sessionsOf, crossed>>
  BY Zenon DEF ApproveReply
<1>2. PICK c \in calls :
        /\ \/ ApproveGranted(c)
           \/ ApproveRefused(c)
        /\ calls' = calls \ {c}
  BY Zenon  DEF ApproveReply
<1>3. CASE ApproveRefused(c)
  BY <1>1, <1>2, <1>3, ZenonT(40) DEF ApproveRefused, LoginTypeOK, FlowsAreNumbered, ConsumedOnce,
     DoneIsFinal, CallsAreRecent, LastLoginIsApprovable
<1>4. CASE ApproveGranted(c)
  <2>1. c.flow \in Nat /\ c.browser \in Browsers
    BY Zenon DEF LoginTypeOK, Call
  <2>2. /\ helper' \in Helper /\ helper'.on = helper.on /\ helper'.done = helper.done
        /\ helper'.intent = 0 /\ helper'.flow = c.flow
    BY <1>4, <2>1, Zenon DEF ApproveGranted, LoginTypeOK, Helper
  <2>3. /\ cookies' \in [Browsers -> [intent: Nat, flow: Nat]]
        /\ \A b \in Browsers : cookies'[b].flow = cookies[b].flow
    BY <1>4, <2>1, Zenon DEF ApproveGranted, LoginTypeOK
  <2>4. [to |-> "finish", flow |-> c.flow] \in FinishAddress
    BY <2>1, Zenon DEF FinishAddress
  <2>5. /\ addresses' \subseteq BeginAddress \union ApproveAddress \union FinishAddress
        /\ addresses \subseteq addresses'
        /\ [to |-> "finish", flow |-> c.flow] \in addresses'
    BY <1>4, <2>4, Zenon DEF ApproveGranted, LoginTypeOK
  <2>6. LoginTypeOK'
    BY <1>1, <1>2, <2>2, <2>3, <2>5, Zenon DEF LoginTypeOK
  <2>7. FlowsAreNumbered' /\ ConsumedOnce'
    BY <1>1, <2>3, SMT, SMTT(30) DEF FlowsAreNumbered, ConsumedOnce
  <2>8. DoneIsFinal'
    BY <1>1, <2>2, Zenon DEF DoneIsFinal
  <2>9. CallsAreRecent'
    BY <1>1, <1>2, <2>2, <2>5, Zenon DEF CallsAreRecent
  <2>10. LastLoginIsApprovable'
    <3> DEFINE a == [to |-> "finish", flow |-> c.flow]
               x == [to |-> "approve", flow |-> c.flow, intent |-> c.intent]
    <3>1. a \in addresses' /\ a.to = "finish" /\ a.flow = c.flow
      BY <2>5, Zenon
    <3>2. x \in addresses' /\ x.to = "approve" /\ x.flow = c.flow /\ x.intent = c.intent
      BY <2>5, Zenon DEF CallsAreRecent
    <3>3. c.intent = started \/ started \in crossed
      BY Zenon  DEF CallsAreRecent
    <3> HIDE DEF a, x
    <3> QED
      BY <1>1, <3>1, <3>2, <3>3, ZenonT(40) DEF LastLoginIsApprovable
  <2> QED
    BY <2>6, <2>7, <2>8, <2>9, <2>10, Zenon
<1> QED
  BY <1>2, <1>3, <1>4, Zenon

(* The helper stops, when its flow is complete or by itself (HelperPolls,   *)
(* HelperExpires).                                                          *)
LEMMA HelperEndKeepsInv == LoginInv /\ (HelperPolls \/ HelperExpires) => LoginInv'
<1> SUFFICES ASSUME LoginInv, HelperPolls \/ HelperExpires PROVE LoginInv'
  BY Zenon
<1> USE DEF LoginInv
<1>1. /\ calls' = {} /\ helper.on
      /\ UNCHANGED <<started, addresses, cookies, flows, opened, logins, token, sessionsOf,
                     crossed>>
  BY Zenon DEF HelperPolls, HelperExpires
<1>2. /\ helper' \in Helper /\ helper'.on = FALSE
      /\ helper'.intent = helper.intent /\ helper'.flow = helper.flow
  BY Zenon  DEF HelperPolls, HelperExpires, LoginTypeOK, Helper
<1>3. DoneIsFinal'
  <2>1. CASE HelperPolls
    <3>1. PICK f \in flows : f.n = helper.flow /\ f.consumed
      BY <2>1, Zenon DEF HelperPolls
    <3>2. f.n \in 1 .. MaxFlows /\ sessionsOf[f.n] = 1
      BY <3>1, Zenon DEF LoginTypeOK, Flow, ConsumedOnce
    <3> QED
      BY <1>1, <1>2, <3>1, <3>2, Zenon DEF DoneIsFinal
  <2>2. CASE HelperExpires
    <3>1. helper'.done = helper.done /\ ~helper.done
      BY <2>2, <1>1, Zenon DEF HelperExpires, LoginTypeOK, Helper, DoneIsFinal
    <3> QED
      BY <3>1, Zenon DEF DoneIsFinal
  <2> QED
    BY <2>1, <2>2, Zenon
<1>4. LoginTypeOK' /\ FlowsAreNumbered' /\ ConsumedOnce'
  BY <1>1, <1>2, Zenon DEF LoginTypeOK, FlowsAreNumbered, ConsumedOnce
<1>5. CallsAreRecent' /\ LastLoginIsApprovable'
  BY <1>1, <1>2, Zenon DEF CallsAreRecent, LastLoginIsApprovable
<1> QED
  BY <1>3, <1>4, <1>5, Zenon

(* The agent opens a flow with a new number (Begin).                        *)
LEMMA BeginFlowKeepsInv ==
  ASSUME LoginInv, NEW b \in Browsers, Begin(b)
  PROVE  LoginInv'
<1> USE DEF LoginInv
<1> DEFINE kept == {f \in flows : ~f.old}
<1>1. UNCHANGED <<helper, started, calls, logins, token, sessionsOf, crossed>>
  BY Zenon  DEF Begin
<1>2. CASE flows' = kept /\ UNCHANGED <<opened, addresses, cookies>>
  BY <1>1, <1>2, ZenonT(40) DEF LoginTypeOK, FlowsAreNumbered, ConsumedOnce, DoneIsFinal, CallsAreRecent,
     LastLoginIsApprovable
<1>3. ASSUME NEW a \in addresses, a.to = "begin", opened < MaxFlows, opened' = opened + 1,
             flows' = kept \union {[n |-> opened', intent |-> a.intent, browser |-> b,
                                    approved |-> "no", consumed |-> FALSE, old |-> FALSE]},
             cookies' = [cookies EXCEPT ![b].flow = opened'],
             addresses' = addresses \union
               {[to |-> "approve", flow |-> opened', intent |-> a.intent]}
      PROVE  LoginInv'
  <2> DEFINE new == [n |-> opened', intent |-> a.intent, browser |-> b,
                     approved |-> "no", consumed |-> FALSE, old |-> FALSE]
  <2>1. opened \in Nat /\ opened' \in 1 .. MaxFlows /\ opened' > opened
    BY <1>1, <1>3, LoginAssumption, SMT, SMTT(30) DEF LoginTypeOK
  <2>2. a.intent \in Nat \ {0}
    BY <1>3, Zenon DEF LoginTypeOK, BeginAddress, ApproveAddress, FinishAddress
  <2>3. /\ new \in Flow /\ new.n = opened' /\ new.browser = b /\ ~new.consumed
    BY <2>1, <2>2, Zenon DEF Flow
  <2>4. flows' \subseteq Flow /\ \A f \in flows' : f \in flows \/ f = new
    BY <1>3, <2>3, Zenon DEF LoginTypeOK
  <2>5. /\ cookies' \in [Browsers -> [intent: Nat, flow: Nat]]
        /\ cookies'[b].flow = opened'
        /\ \A c \in Browsers \ {b} : cookies'[c] = cookies[c]
    BY <1>3, <2>1, SMT, SMTT(30) DEF LoginTypeOK
  <2>6. [to |-> "approve", flow |-> opened', intent |-> a.intent] \in ApproveAddress
    BY <2>1, <2>2, SMT, SMTT(30) DEF ApproveAddress
  <2>7. /\ addresses' \subseteq BeginAddress \union ApproveAddress \union FinishAddress
        /\ addresses \subseteq addresses'
    BY <1>3, <2>6, Zenon DEF LoginTypeOK
  <2>8. LoginTypeOK'
    BY <1>1, <2>1, <2>4, <2>5, <2>7, Zenon DEF LoginTypeOK
  <2>9. /\ \A f \in flows : f.n \in Nat /\ f.n <= opened
        /\ \A s \in logins : s.flow \in Nat /\ s.flow <= opened
        /\ \A c \in Browsers : cookies[c].flow \in Nat /\ cookies[c].flow <= opened
    BY SMT, SMTT(30)  DEF LoginTypeOK, FlowsAreNumbered, Flow
  <2> HIDE DEF new
  <2>10. FlowsAreNumbered'
    <3>1. \A f, g \in flows' : f.n = g.n => f = g
      BY <2>1, <2>3, <2>4, <2>9, SMT, SMTT(30) DEF FlowsAreNumbered
    <3>2. \A f \in flows' : f.n <= opened'
      BY <2>1, <2>3, <2>4, <2>9, SMT, SMTT(30)
    <3>3. \A s \in logins' : s.flow <= opened'
      BY <1>1, <2>1, <2>9, SMT, SMTT(30)
    <3>4. \A c \in Browsers : cookies'[c].flow <= opened'
      BY <2>1, <2>5, <2>9, SMT, SMTT(30)
    <3>5. \A c \in Browsers, f \in flows' : cookies'[c].flow = f.n => f.browser = c
      BY <2>1, <2>3, <2>4, <2>5, <2>9, SMT, SMTT(30) DEF FlowsAreNumbered
    <3> QED
      BY <3>1, <3>2, <3>3, <3>4, <3>5, Zenon DEF FlowsAreNumbered
  <2>11. ConsumedOnce'
    <3>1. sessionsOf[opened'] = 0
      BY <2>1, Zenon DEF ConsumedOnce
    <3>2. \A f \in flows' : sessionsOf'[f.n] = (IF f.consumed THEN 1 ELSE 0)
      BY <1>1, <2>3, <2>4, <3>1, Zenon DEF ConsumedOnce
    <3>3. \A n \in 1 .. MaxFlows : sessionsOf'[n] <= 1 /\ (n > opened' => sessionsOf'[n] = 0)
      BY <1>1, <2>1, SMT, SMTT(30) DEF ConsumedOnce
    <3>4. \A s \in logins', f \in flows' : f.n = s.flow => f.browser = s.browser
      BY <1>1, <2>1, <2>3, <2>4, <2>9, SMT, SMTT(30) DEF ConsumedOnce
    <3> QED
      BY <3>2, <3>3, <3>4, Zenon DEF ConsumedOnce
  <2>12. DoneIsFinal' /\ CallsAreRecent' /\ LastLoginIsApprovable'
    BY <1>1, <2>7, Zenon DEF DoneIsFinal, CallsAreRecent, LastLoginIsApprovable
  <2> QED
    BY <2>8, <2>10, <2>11, <2>12, Zenon
<1> QED
  BY <1>2, <1>3, Zenon DEF Begin

(* An approval, and the passing of a deadline, change a flow in neither its *)
(* number nor its browser nor its consumption (Approve, DeadlinePasses).     *)
LEMMA FlowStepKeepsInv == LoginInv /\ (Approve \/ DeadlinePasses) => LoginInv'
<1> SUFFICES ASSUME LoginInv, Approve \/ DeadlinePasses PROVE LoginInv'
  BY Zenon
<1> USE DEF LoginInv
<1>1. UNCHANGED <<helper, started, addresses, cookies, opened, logins, token, sessionsOf, crossed>>
  BY Zenon DEF Approve, DeadlinePasses
<1>2. /\ calls' \subseteq Call
      /\ \A c \in calls' : \E d \in calls : c.flow = d.flow /\ c.intent = d.intent
  <2>1. CASE DeadlinePasses
    BY <2>1, Zenon DEF DeadlinePasses, LoginTypeOK
  <2>2. CASE Approve
    <3>1. PICK c \in calls : calls' = (calls \ {c}) \union {[c EXCEPT !.answer = "code"]}
      BY <2>2, Zenon DEF Approve
    <3>2. /\ [c EXCEPT !.answer = "code"] \in Call
          /\ [c EXCEPT !.answer = "code"].flow = c.flow
          /\ [c EXCEPT !.answer = "code"].intent = c.intent
      BY Zenon  DEF LoginTypeOK, Call
    <3> QED
      BY <3>1, <3>2, Zenon DEF LoginTypeOK
  <2> QED
    BY <2>1, <2>2, Zenon
<1>3. PICK f \in flows, g \in Flow :
        /\ flows' = (flows \ {f}) \union {g}
        /\ g.n = f.n /\ g.browser = f.browser /\ g.consumed = f.consumed
  <2>1. PICK f \in flows :
          \/ flows' = (flows \ {f}) \union {[f EXCEPT !.approved = "fresh"]}
          \/ flows' = (flows \ {f}) \union {[f EXCEPT !.approved = "stale"]}
          \/ flows' = (flows \ {f}) \union {[f EXCEPT !.old = TRUE]}
    BY Zenon DEF Approve, DeadlinePasses
  <2>2. \A g \in {[f EXCEPT !.approved = "fresh"], [f EXCEPT !.approved = "stale"],
                  [f EXCEPT !.old = TRUE]} :
          g \in Flow /\ g.n = f.n /\ g.browser = f.browser /\ g.consumed = f.consumed
    BY ZenonT(40)  DEF LoginTypeOK, Flow
  <2> QED
    BY <2>1, <2>2, Zenon
<1>4. LoginTypeOK'
  BY <1>1, <1>2, <1>3, Zenon DEF LoginTypeOK
<1>5. FlowsAreNumbered'
  BY <1>1, <1>3, SMT, SMTT(30) DEF FlowsAreNumbered
<1>6. ConsumedOnce'
  BY <1>1, <1>3, SMT, SMTT(30) DEF ConsumedOnce
<1>7. DoneIsFinal' /\ LastLoginIsApprovable'
  BY <1>1, Zenon DEF DoneIsFinal, LastLoginIsApprovable
<1>8. CallsAreRecent'
  BY <1>1, <1>2, Zenon DEF CallsAreRecent
<1> QED
  BY <1>4, <1>5, <1>6, <1>7, <1>8, Zenon

(* The exchange consumes the flow and makes its session, in the browser     *)
(* that holds its cookie (Finish).                                          *)
LEMMA FinishKeepsInv ==
  ASSUME LoginInv, NEW b \in Browsers, Finish(b)
  PROVE  LoginInv'
<1> USE DEF LoginInv
<1>1. UNCHANGED <<helper, started, calls, addresses, cookies, opened, token, crossed>>
  BY Zenon DEF Finish
<1>2. PICK f \in flows :
        /\ ~f.consumed /\ cookies[b].flow = f.n
        /\ logins' = logins \union {[flow |-> f.n, browser |-> b, nth |-> sessionsOf[f.n]]}
        /\ flows' = (flows \ {f}) \union {[f EXCEPT !.consumed = TRUE]}
        /\ sessionsOf' = [sessionsOf EXCEPT ![f.n] = @ + 1]
  BY Zenon  DEF Finish, Exchangeable
<1> DEFINE g == [f EXCEPT !.consumed = TRUE]
           s == [flow |-> f.n, browser |-> b, nth |-> sessionsOf[f.n]]
<1>3. g \in Flow /\ g.n = f.n /\ g.browser = f.browser /\ g.consumed /\ f.n \in 1 .. MaxFlows
  BY Zenon  DEF LoginTypeOK, Flow
<1>4. f.browser = b /\ sessionsOf[f.n] = 0 /\ f.n <= opened
  BY <1>2, Zenon DEF FlowsAreNumbered, ConsumedOnce
<1>5. /\ s \in [flow: 1 .. MaxFlows, browser: Browsers, nth: Nat]
      /\ s.flow = f.n /\ s.browser = b
  BY <1>3, Zenon DEF LoginTypeOK
<1>6. /\ sessionsOf' \in [1 .. MaxFlows -> Nat] /\ sessionsOf'[f.n] = 1
      /\ \A n \in 1 .. MaxFlows : n # f.n => sessionsOf'[n] = sessionsOf[n]
  BY <1>2, <1>3, <1>4, SMT, SMTT(30) DEF LoginTypeOK
<1> HIDE DEF g, s
<1>7. /\ \A h \in flows' : h = g \/ (h \in flows /\ h # f)
      /\ \A t \in logins' : t = s \/ t \in logins
      /\ flows' \subseteq Flow
      /\ logins' \subseteq [flow: 1 .. MaxFlows, browser: Browsers, nth: Nat]
  BY <1>2, <1>3, <1>5, Zenon DEF LoginTypeOK, g, s
<1>8. LoginTypeOK'
  BY <1>1, <1>6, <1>7, Zenon DEF LoginTypeOK
<1>9. FlowsAreNumbered'
  BY <1>1, <1>3, <1>4, <1>5, <1>7, SMT, SMTT(30) DEF FlowsAreNumbered
<1>10. ConsumedOnce'
  <2>1. \A h \in flows' : sessionsOf'[h.n] = (IF h.consumed THEN 1 ELSE 0)
    <3>1. \A h \in flows : h # f => h.n # f.n /\ h.n \in 1 .. MaxFlows
      BY Zenon DEF FlowsAreNumbered, LoginTypeOK, Flow
    <3> QED
      BY <1>3, <1>6, <1>7, <3>1, ZenonT(40) DEF ConsumedOnce
  <2>2. \A n \in 1 .. MaxFlows : sessionsOf'[n] <= 1 /\ (n > opened' => sessionsOf'[n] = 0)
    <3> SUFFICES ASSUME NEW n \in 1 .. MaxFlows
                 PROVE  sessionsOf'[n] <= 1 /\ (n > opened' => sessionsOf'[n] = 0)
      BY Zenon
    <3>1. CASE n = f.n
      BY <1>1, <1>4, <1>6, <3>1, SMT, SMTT(30) DEF LoginTypeOK
    <3>2. CASE n # f.n
      BY <1>1, <1>6, <3>2, Zenon DEF ConsumedOnce
    <3> QED
      BY <3>1, <3>2, Zenon
  <2>3. \A t \in logins', h \in flows' : h.n = t.flow => h.browser = t.browser
    BY <1>3, <1>4, <1>5, <1>7, SMT, SMTT(30) DEF ConsumedOnce, FlowsAreNumbered
  <2> QED
    BY <2>1, <2>2, <2>3, Zenon DEF ConsumedOnce
<1>11. DoneIsFinal'
  BY <1>1, <1>6, Zenon DEF DoneIsFinal
<1>12. CallsAreRecent' /\ LastLoginIsApprovable'
  BY <1>1, Zenon DEF CallsAreRecent, LastLoginIsApprovable
<1> QED
  BY <1>8, <1>9, <1>10, <1>11, <1>12, Zenon

(* Sessions end, the token is revoked, the agent restarts (SessionEnds,     *)
(* RevokeToken, PanelRestarts).                                             *)
LEMMA EndsKeepInv == LoginInv /\ (SessionEnds \/ RevokeToken \/ PanelRestarts) => LoginInv'
<1> SUFFICES ASSUME LoginInv, SessionEnds \/ RevokeToken \/ PanelRestarts PROVE LoginInv'
  BY Zenon
<1> USE DEF LoginInv
<1>1. /\ flows' \subseteq flows /\ logins' \subseteq logins
      /\ UNCHANGED <<helper, started, calls, addresses, cookies, opened, sessionsOf, crossed>>
  BY Zenon  DEF SessionEnds, RevokeToken, PanelRestarts
<1>2. LoginTypeOK' /\ FlowsAreNumbered' /\ ConsumedOnce'
  BY <1>1, Zenon DEF LoginTypeOK, FlowsAreNumbered, ConsumedOnce
<1>3. DoneIsFinal' /\ CallsAreRecent' /\ LastLoginIsApprovable'
  BY <1>1, Zenon DEF DoneIsFinal, CallsAreRecent, LastLoginIsApprovable
<1> QED
  BY <1>2, <1>3, Zenon

(* Every step of helper, browsers and agent keeps the invariant.            *)
LEMMA LoginInvInductive == LoginInv /\ [LoginNext]_loginVars => LoginInv'
<1> SUFFICES ASSUME LoginInv, [LoginNext]_loginVars PROVE LoginInv'
  BY Zenon
<1>1. CASE UNCHANGED loginVars
  BY <1>1, ZenonT(40) DEF loginVars, LoginInv, LoginTypeOK, FlowsAreNumbered, ConsumedOnce, DoneIsFinal,
     CallsAreRecent, LastLoginIsApprovable
<1> QED
  BY <1>1, StartKeepsInv, RequestKeepsInv, BeginFlowKeepsInv, FinishKeepsInv, ReplyKeepsInv,
     HelperEndKeepsInv, FlowStepKeepsInv, EndsKeepInv, Zenon DEF LoginNext

(* Whatever address is opened again in whichever browser: an approval makes *)
(* one session, in the browser of its flow; the helper reports success only *)
(* for a flow that made one; and the last login stays approvable (start,    *)
(* approve and serve of webauth.rs; begin, approve and finish of web.rs).   *)
THEOREM LoginAlwaysSound == LoginSpec => []LoginIsSound
<1>1. LoginInv => LoginIsSound
  BY Zenon DEF LoginInv, ConsumedOnce, DoneIsFinal, LoginIsSound, HandoffIsSingleUse
<1> QED
  BY <1>1, LoginInvInit, LoginInvInductive, PTL DEF LoginSpec

-----------------------------------------------------------------------------
(* Installs, upgrades and rollbacks.                                        *)

Links == [current : Names, previous : Names]
Policies == [config : Names \union {Torn}, catalogs : Names \union {Torn}]
Snapshots == [link : Links, policy : Policies, identity : 0 .. AllFiles, dirs : SUBSET Releases]
InstallPlaces ==
  {"release", "inspect", "backup", "purge", "validate", "stage", "config", "catalogs", "identity",
   "keys", "previous", "current", "executor", "agent", "protect", "unchanged", "unlink", "relink",
   "unprevious", "reprevious", "restore", "remove"}
RollbackPlaces ==
  {"catalogs", "current", "previous", "executor", "agent", "done", "undo", "undo2", "undo3"}
Operation ==
  [kind : {"install"} \union RollbackKinds, rel : Releases, snap : Snapshots,
   ids : SUBSET StateRows, at : InstallPlaces \union RollbackPlaces]

InstallerTypes ==
  /\ dirs \in SUBSET Releases /\ link \in Links /\ policy \in Policies
  /\ identity \in 0 .. AllFiles
  /\ units \in [executor : Names, agent : Names]
  /\ dbrows \in [StateRows -> {"stopped", "running", "deleted"}]
  /\ backups \in SUBSET StateRows
  /\ job = NoJob \/ job \in Operation
  /\ job # NoJob => report = NoReport

Unlinked(l) == l.current = NoRelease /\ l.previous = NoRelease
WholeIn(l, ds) == {l.current, l.previous} \subseteq ds \union {NoRelease}

\* A link that names a release comes with an identity.
IdentityInv == Unlinked(link) \/ identity = AllFiles

\* What an operation would restore was complete and still is.
SnapInv ==
  job # NoJob =>
    /\ job.snap.dirs \subseteq dirs /\ WholeIn(job.snap.link, job.snap.dirs)
    /\ Unlinked(job.snap.link) \/ job.snap.identity = AllFiles

\* How far an activation has come, by the step it is at.
InstallInv ==
  job # NoJob /\ job.kind = "install" =>
    /\ job.at \in InstallPlaces
    /\ job.at = "backup" => \A i \in job.ids : dbrows[i] # "deleted"
    /\ job.at = "purge" => job.ids \subseteq backups
    /\ job.at \in {"config", "catalogs", "identity", "keys", "previous", "current", "executor",
                   "agent", "protect"} => job.rel \in dirs
    /\ job.at \in {"identity", "keys", "previous", "current", "executor", "agent", "protect"} =>
         policy.catalogs = job.rel
    /\ job.at = "keys" => identity \in 1 .. AllFiles - 1
    /\ job.at \in {"previous", "current", "executor", "agent", "protect", "unlink", "relink",
                   "unprevious", "reprevious", "restore"} => Material
    /\ job.at \in {"current", "executor", "agent", "protect"} /\ job.snap.link.current # NoRelease =>
         link.previous = job.snap.link.current
    /\ job.at \in {"executor", "agent", "protect"} => link.current = job.rel
    /\ job.at \in {"agent", "protect"} => units.executor = job.rel
    /\ job.at = "protect" => units.agent = job.rel
    /\ job.at \in {"unprevious", "reprevious", "restore", "remove"} =>
         link.current = job.snap.link.current
    /\ job.at \in {"restore", "remove"} => link.previous = job.snap.link.previous

\* How far a rollback has come.
RollbackInv ==
  job # NoJob /\ job.kind \in RollbackKinds =>
    /\ job.at \in RollbackPlaces
    /\ Target \in job.snap.dirs /\ Material
    /\ job.kind = "rollback" => job.rel = Target
    /\ job.at \in {"current", "previous", "executor", "agent", "done"} => policy.catalogs = Target
    /\ job.at \in {"previous", "executor", "agent", "done"} => link.current = Target
    /\ job.at \in {"executor", "agent", "done"} => link.previous = job.snap.link.current
    /\ job.at \in {"agent", "done"} => units.executor = Target
    /\ job.at = "done" => units.agent = Target

InstallerInv ==
  /\ InstallerTypes /\ IdentityInv /\ SnapInv /\ InstallInv /\ RollbackInv
  /\ LinksAreComplete /\ ChangedReleaseRuns /\ QuarantinedIsBackedUp

(* The operation in progress has the fields of one, and nothing is reported *)
(* before it ends.                                                          *)
LEMMA JobFields ==
  ASSUME InstallerTypes, NEW kind, NEW step, At(kind, step), step # "idle"
  PROVE  /\ job \in Operation /\ job # NoJob /\ job.at = step /\ job.kind = kind
         /\ report = NoReport
  BY SMT, SMTT(30) DEF InstallerTypes, At, NoJob

(* A job that goes on to its next step keeps what it is about.              *)
LEMMA GotoFields ==
  ASSUME job \in Operation, NEW step \in InstallPlaces \union RollbackPlaces, Goto(step)
  PROVE  /\ job' \in Operation /\ job' # NoJob /\ job'.at = step
         /\ job'.kind = job.kind /\ job'.rel = job.rel /\ job'.snap = job.snap /\ job'.ids = job.ids
<1>1. /\ job' \in Operation /\ job'.at = step
      /\ job'.kind = job.kind /\ job'.rel = job.rel /\ job'.snap = job.snap /\ job'.ids = job.ids
  BY Zenon DEF Goto, Operation
<1>2. step # "idle"
  BY Zenon DEF InstallPlaces, RollbackPlaces
<1> QED
  BY <1>1, <1>2, SMT, SMTT(30) DEF NoJob

(* What the disk must be when no operation is in progress.                  *)
Quiet ==
  /\ dirs \in SUBSET Releases /\ link \in Links /\ policy \in Policies
  /\ identity \in 0 .. AllFiles
  /\ units \in [executor : Names, agent : Names]
  /\ IdentityInv /\ LinksAreComplete

(* The operation ends without a success to report.                          *)
LEMMA EndKeepsInv ==
  ASSUME InstallerInv, job' = NoJob, Quiet', UNCHANGED database,
         report'.st # "applied" \/ UNCHANGED <<report, job, link, policy, identity, units>>
  PROVE  InstallerInv'
<1>1. InstallerTypes'
  BY Zenon  DEF InstallerInv, InstallerTypes, Quiet, database
<1>2. (SnapInv /\ InstallInv /\ RollbackInv)'
  BY Zenon  DEF SnapInv, InstallInv, RollbackInv
<1>3. ChangedReleaseRuns'
  BY Zenon  DEF InstallerInv, ChangedReleaseRuns, Coherent, Material
<1>4. QuarantinedIsBackedUp'
  BY Zenon DEF InstallerInv, QuarantinedIsBackedUp, database
<1> QED
  BY <1>1, <1>2, <1>3, <1>4, Zenon DEF InstallerInv, Quiet

(* A job that fails on a disk at rest keeps the invariant.                  *)
LEMMA FailureKeepsInv ==
  ASSUME InstallerInv, job # NoJob, Answer("failed", FALSE), Quiet', UNCHANGED database
  PROVE  InstallerInv'
<1>1. job' = NoJob /\ report'.st = "failed"
  BY Zenon DEF Answer
<1> QED
  BY <1>1, EndKeepsInv, Zenon

(* Between two steps of a job the disk is at rest.                          *)
LEMMA QuietNow == InstallerInv => Quiet
  BY Zenon DEF InstallerInv, InstallerTypes, Quiet

(* A failure that undoes nothing leaves the disk as it is.                  *)
LEMMA GivesUp ==
  ASSUME InstallerInv, job # NoJob, Answer("failed", FALSE), UNCHANGED <<disk, units, database>>
  PROVE  InstallerInv'
<1>1. Quiet'
  BY QuietNow, Zenon DEF Quiet, disk, IdentityInv, LinksAreComplete, Unlinked
<1> QED
  BY <1>1, FailureKeepsInv, Zenon

(* The operation goes on: what has to be shown of its next state.           *)
LEMMA GoesOn ==
  ASSUME InstallerInv, job \in Operation, report = NoReport,
         NEW step \in InstallPlaces \union RollbackPlaces, Goto(step), UNCHANGED report,
         Quiet', UNCHANGED database, dirs \subseteq dirs', InstallInv', RollbackInv', job # NoJob
  PROVE  InstallerInv'
<1>1. job' \in Operation /\ job' # NoJob /\ job'.snap = job.snap
  BY GotoFields, Zenon
<1>2. InstallerTypes'
  BY <1>1, Zenon DEF InstallerInv, InstallerTypes, Quiet, database
<1>3. SnapInv'
  BY <1>1, Zenon DEF InstallerInv, SnapInv
<1>4. ChangedReleaseRuns'
  BY <1>1, Zenon DEF ChangedReleaseRuns
<1>5. QuarantinedIsBackedUp'
  BY Zenon DEF InstallerInv, QuarantinedIsBackedUp, database
<1> QED
  BY <1>1, <1>2, <1>3, <1>4, <1>5, Zenon DEF InstallerInv, Quiet

(* activate_from_files up to the release: what is purged was backed up.     *)
LEMMA QuarantineKeepsInv ==
  ASSUME InstallerInv,
         (\E r \in Releases : Activate(r)) \/ Inspect \/ BackupRows \/ Purge \/ Validate
  PROVE  InstallerInv'
<1>0. InstallerTypes /\ Quiet
  BY QuietNow, Zenon DEF InstallerInv
<1>1. ASSUME NEW r \in Releases, Activate(r) PROVE InstallerInv'
  <2>1. Snapshot \in Snapshots
    BY <1>0, Zenon DEF InstallerTypes, Snapshot, Snapshots
  <2>2. /\ job' = [kind |-> "install", rel |-> r, snap |-> Snapshot, ids |-> {},
                   at |-> IF link.current = NoRelease THEN "release" ELSE "inspect"]
        /\ report' = NoReport /\ UNCHANGED <<disk, units, database>>
    BY <1>1, Zenon DEF Activate
  <2>3. job' \in Operation /\ job' # NoJob
    BY <2>1, <2>2, Zenon DEF Operation, InstallPlaces, Names, NoJob
  <2>4. Quiet'
    BY <1>0, <2>2, Zenon DEF Quiet, disk, IdentityInv, LinksAreComplete, Unlinked
  <2>5. InstallerTypes'
    BY <1>0, <2>2, <2>3, Zenon DEF InstallerTypes, disk, database
  <2>6. InstallInv' /\ RollbackInv'
    BY <2>2, Zenon DEF InstallInv, RollbackInv, RollbackKinds, InstallPlaces
  <2>7. SnapInv'
    BY <1>0, <2>2, Zenon DEF SnapInv, Snapshot, WholeIn, Quiet, LinksAreComplete, IdentityInv, disk
  <2>8. ChangedReleaseRuns' /\ QuarantinedIsBackedUp'
    BY <2>2, <2>3, Zenon DEF InstallerInv, ChangedReleaseRuns, QuarantinedIsBackedUp, database
  <2> QED
    BY <2>4, <2>5, <2>6, <2>7, <2>8, Zenon DEF InstallerInv, Quiet
<1>2. CASE Inspect
  <2> DEFINE ids == {i \in StateRows : dbrows[i] # "deleted" /\ i \notin Readable[job.rel]}
  <2>1. /\ job \in Operation /\ job # NoJob /\ job.at = "inspect" /\ job.kind = "install"
        /\ report = NoReport
    BY <1>0, <1>2, JobFields, Zenon DEF Inspect
  <2>2. CASE Answer("failed", FALSE)
    BY <1>2, <2>1, <2>2, GivesUp, Zenon DEF Inspect
  <2>3. CASE /\ job' = [job EXCEPT !.ids = ids, !.at = IF ids = {} THEN "validate" ELSE "backup"]
             /\ UNCHANGED report
    <3>0. UNCHANGED <<disk, units, database>>
      BY <1>2, Zenon DEF Inspect
    <3>1. /\ job' \in Operation /\ job'.snap = job.snap /\ job'.kind = job.kind
          /\ job'.ids = ids /\ job'.at \in {"validate", "backup"}
      BY <2>1, <2>3, Zenon DEF Operation, InstallPlaces
    <3>2. job' # NoJob
      BY <3>1, SMT, SMTT(30) DEF NoJob
    <3>3. InstallerTypes'
      BY <1>0, <2>1, <2>3, <3>0, <3>1, Zenon DEF InstallerTypes, disk, database
    <3>4. Quiet'
      BY <1>0, <3>0, Zenon DEF Quiet, disk, IdentityInv, LinksAreComplete, Unlinked
    <3>5. SnapInv'
      BY <2>1, <3>0, <3>1, Zenon DEF InstallerInv, SnapInv, disk
    <3>6. InstallInv' /\ RollbackInv'
      BY <2>1, <3>0, <3>1, Zenon DEF InstallInv, RollbackInv, RollbackKinds, InstallPlaces, database
    <3>7. ChangedReleaseRuns' /\ QuarantinedIsBackedUp'
      BY <3>0, <3>2, Zenon DEF InstallerInv, ChangedReleaseRuns, QuarantinedIsBackedUp, database
    <3> QED
      BY <3>3, <3>4, <3>5, <3>6, <3>7, Zenon DEF InstallerInv, Quiet
  <2> QED
    BY <1>2, <2>2, <2>3, Zenon DEF Inspect
<1>3. CASE BackupRows
  <2>1. /\ job \in Operation /\ job # NoJob /\ job.at = "backup" /\ job.kind = "install"
        /\ report = NoReport
    BY <1>0, <1>3, JobFields, Zenon DEF BackupRows
  <2>2. CASE Answer("failed", FALSE) /\ UNCHANGED <<disk, units, database>>
    BY <2>1, <2>2, GivesUp, Zenon
  <2>3. CASE /\ Goto("purge") /\ UNCHANGED report
             /\ backups' = backups \union {i \in StateRows : dbrows[i] # "deleted"}
             /\ UNCHANGED <<disk, units, dbrows>>
    <3>1. /\ job' \in Operation /\ job' # NoJob /\ job'.snap = job.snap /\ job'.kind = job.kind
          /\ job'.ids = job.ids /\ job'.at = "purge"
      BY <2>1, <2>3, GotoFields, Zenon DEF InstallPlaces
    <3>2. InstallerTypes'
      BY <1>0, <2>1, <2>3, <3>1, Zenon DEF InstallerTypes, disk
    <3>3. Quiet'
      BY <1>0, <2>3, Zenon DEF Quiet, disk, IdentityInv, LinksAreComplete, Unlinked
    <3>4. SnapInv'
      BY <2>1, <2>3, <3>1, Zenon DEF InstallerInv, SnapInv, disk
    <3>5. job.ids \subseteq backups'
      BY <2>1, <2>3, Zenon DEF InstallerInv, InstallInv, Operation
    <3>6. InstallInv' /\ RollbackInv'
      BY <2>1, <3>1, <3>5, Zenon DEF InstallInv, RollbackInv, RollbackKinds, InstallPlaces
    <3>7. ChangedReleaseRuns' /\ QuarantinedIsBackedUp'
      BY <2>3, <3>1, Zenon DEF InstallerInv, ChangedReleaseRuns, QuarantinedIsBackedUp
    <3> QED
      BY <3>2, <3>3, <3>4, <3>6, <3>7, Zenon DEF InstallerInv, Quiet
  <2> QED
    BY <1>3, <2>2, <2>3, Zenon DEF BackupRows, Gives
<1>4. CASE Purge
  <2>1. /\ job \in Operation /\ job # NoJob /\ job.at = "purge" /\ job.kind = "install"
        /\ report = NoReport
    BY <1>0, <1>4, JobFields, Zenon DEF Purge
  <2>2. CASE Answer("failed", FALSE) /\ UNCHANGED <<disk, units, database>>
    BY <2>1, <2>2, GivesUp, Zenon
  <2>3. CASE /\ Goto("validate") /\ UNCHANGED report
             /\ dbrows' = [i \in StateRows |-> IF i \in job.ids THEN "deleted" ELSE dbrows[i]]
             /\ UNCHANGED <<disk, units, backups>>
    <3>1. /\ job' \in Operation /\ job' # NoJob /\ job'.snap = job.snap /\ job'.kind = job.kind
          /\ job'.at = "validate"
      BY <2>1, <2>3, GotoFields, Zenon DEF InstallPlaces
    <3>2. InstallerTypes'
      BY <1>0, <2>1, <2>3, <3>1, Zenon DEF InstallerTypes, disk
    <3>3. Quiet'
      BY <1>0, <2>3, Zenon DEF Quiet, disk, IdentityInv, LinksAreComplete, Unlinked
    <3>4. SnapInv'
      BY <2>1, <2>3, <3>1, Zenon DEF InstallerInv, SnapInv, disk
    <3>5. job.ids \subseteq backups
      BY <2>1, Zenon DEF InstallerInv, InstallInv
    <3>6. InstallInv' /\ RollbackInv'
      BY <2>1, <3>1, Zenon DEF InstallInv, RollbackInv, RollbackKinds, InstallPlaces
    <3>7. ChangedReleaseRuns' /\ QuarantinedIsBackedUp'
      BY <2>3, <3>1, <3>5, Zenon DEF InstallerInv, ChangedReleaseRuns, QuarantinedIsBackedUp
    <3> QED
      BY <3>2, <3>3, <3>4, <3>6, <3>7, Zenon DEF InstallerInv, Quiet
  <2> QED
    BY <1>4, <2>2, <2>3, Zenon DEF Purge, Gives
<1>5. CASE Validate
  <2>1. /\ job \in Operation /\ job # NoJob /\ job.at = "validate" /\ job.kind = "install"
        /\ report = NoReport
    BY <1>0, <1>5, JobFields, Zenon DEF Validate
  <2>2. CASE Answer("failed", FALSE) /\ UNCHANGED <<disk, units, database>>
    BY <2>1, <2>2, GivesUp, Zenon
  <2>3. CASE Goto("release") /\ UNCHANGED report /\ UNCHANGED <<disk, units, database>>
    <3>1. job'.kind = job.kind /\ job'.at = "release"
      BY <2>1, <2>3, GotoFields, Zenon DEF InstallPlaces
    <3>2. Quiet'
      BY <1>0, <2>3, Zenon DEF Quiet, disk, IdentityInv, LinksAreComplete, Unlinked
    <3>3. InstallInv' /\ RollbackInv'
      BY <2>1, <3>1, Zenon DEF InstallInv, RollbackInv, RollbackKinds, InstallPlaces
    <3> QED
      BY <2>1, <2>3, <3>2, <3>3, GoesOn, Zenon DEF InstallPlaces, disk
  <2> QED
    BY <1>5, <2>2, <2>3, Zenon DEF Validate, Gives
<1> QED
  BY <1>1, <1>2, <1>3, <1>4, <1>5, Zenon

(* The release directory, its files and the identity.                       *)
LEMMA FilesKeepInv ==
  ASSUME InstallerInv, CheckRelease \/ Stage \/ WritePolicy \/ EnsureIdentity \/ WriteKeys
  PROVE  InstallerInv'
<1>0. InstallerTypes /\ Quiet
  BY QuietNow, Zenon DEF InstallerInv
<1>1. CASE CheckRelease
  <2>1. /\ job \in Operation /\ job # NoJob /\ job.at = "release" /\ job.kind = "install"
        /\ report = NoReport
    BY <1>0, <1>1, JobFields, Zenon DEF CheckRelease
  <2>2. CASE Answer("failed", FALSE)
    BY <1>1, <2>1, <2>2, GivesUp, Zenon DEF CheckRelease
  <2>3. CASE Goto("unchanged") /\ UNCHANGED report
    <3>1. job'.kind = job.kind /\ job'.at = "unchanged"
      BY <2>1, <2>3, GotoFields, Zenon DEF InstallPlaces
    <3>2. Quiet' /\ UNCHANGED <<disk, database>>
      BY <1>0, <1>1, Zenon DEF CheckRelease, Quiet, disk, IdentityInv, LinksAreComplete, Unlinked
    <3>3. InstallInv' /\ RollbackInv'
      BY <2>1, <3>1, Zenon DEF InstallInv, RollbackInv, RollbackKinds, InstallPlaces
    <3> QED
      BY <2>1, <2>3, <3>2, <3>3, GoesOn, Zenon DEF InstallPlaces, disk
  <2>4. CASE job' = [job EXCEPT !.at = "stage", !.snap = Snapshot] /\ UNCHANGED report
    <3>0. UNCHANGED <<disk, units, database>>
      BY <1>1, Zenon DEF CheckRelease
    <3>1. Snapshot \in Snapshots
      BY <1>0, Zenon DEF InstallerTypes, Snapshot, Snapshots
    <3>2. /\ job' \in Operation /\ job'.snap = Snapshot /\ job'.kind = job.kind
          /\ job'.at = "stage"
      BY <2>1, <2>4, <3>1, Zenon DEF Operation, InstallPlaces
    <3>3. job' # NoJob
      BY <3>2, SMT, SMTT(30) DEF NoJob
    <3>4. InstallerTypes'
      BY <1>0, <2>1, <2>4, <3>0, <3>2, Zenon DEF InstallerTypes, disk, database
    <3>5. Quiet'
      BY <1>0, <3>0, Zenon DEF Quiet, disk, IdentityInv, LinksAreComplete, Unlinked
    <3>6. SnapInv'
      BY <1>0, <3>0, <3>2, SMT, SMTT(30)
         DEF SnapInv, Snapshot, WholeIn, Quiet, LinksAreComplete, IdentityInv, disk
    <3>7. InstallInv' /\ RollbackInv'
      BY <2>1, <3>2, Zenon DEF InstallInv, RollbackInv, RollbackKinds, InstallPlaces
    <3>8. ChangedReleaseRuns' /\ QuarantinedIsBackedUp'
      BY <3>0, <3>3, Zenon DEF InstallerInv, ChangedReleaseRuns, QuarantinedIsBackedUp, database
    <3> QED
      BY <3>4, <3>5, <3>6, <3>7, <3>8, Zenon DEF InstallerInv, Quiet
  <2> QED
    BY <1>1, <2>2, <2>3, <2>4, Zenon DEF CheckRelease
<1>2. CASE Stage
  <2>1. /\ job \in Operation /\ job # NoJob /\ job.at = "stage" /\ job.kind = "install"
        /\ report = NoReport
    BY <1>0, <1>2, JobFields, Zenon DEF Stage
  <2>2. CASE Answer("failed", FALSE) /\ UNCHANGED <<disk, units, database>>
    BY <2>1, <2>2, GivesUp, Zenon
  <2>3. CASE /\ Goto("config") /\ UNCHANGED report /\ dirs' = dirs \union {job.rel}
             /\ UNCHANGED <<link, policy, identity, units, database>>
    <3>1. job'.kind = job.kind /\ job'.at = "config" /\ job'.rel = job.rel
      BY <2>1, <2>3, GotoFields, Zenon DEF InstallPlaces
    <3>2. job.rel \in Releases
      BY <2>1, Zenon DEF Operation
    <3>3. Quiet'
      BY <1>0, <2>3, <3>2, Zenon DEF Quiet, IdentityInv, LinksAreComplete, Unlinked
    <3>4. InstallInv' /\ RollbackInv'
      BY <2>1, <2>3, <3>1, Zenon DEF InstallInv, RollbackInv, RollbackKinds, InstallPlaces
    <3> QED
      BY <2>1, <2>3, <3>3, <3>4, GoesOn, Zenon DEF InstallPlaces
  <2> QED
    BY <1>2, <2>2, <2>3, Zenon DEF Stage, Gives
<1>3. ASSUME NEW group \in {"config", "catalogs"}, NEW next \in {"catalogs", "identity"},
             group = "config" <=> next = "catalogs",
             At("install", group), WriteFiles(group, next),
             UNCHANGED <<dirs, link, identity, units, database>>
      PROVE  InstallerInv'
  <2>1. /\ job \in Operation /\ job # NoJob /\ job.at = group /\ job.kind = "install"
        /\ report = NoReport
    BY <1>0, <1>3, JobFields, Zenon
  <2>2. ASSUME policy' = [policy EXCEPT ![group] = Torn] PROVE Quiet'
    BY <1>0, <1>3, <2>2, Zenon DEF Quiet, IdentityInv, LinksAreComplete, Unlinked, Policies
  <2>3. CASE policy' = [policy EXCEPT ![group] = Torn] /\ Answer("failed", FALSE)
    BY <1>3, <2>1, <2>2, <2>3, FailureKeepsInv, Zenon
  <2>4. CASE policy' = [policy EXCEPT ![group] = Torn] /\ job' = NoJob /\ UNCHANGED report
    BY <1>3, <2>1, <2>2, <2>4, EndKeepsInv, Zenon DEF NoReport
  <2>5. CASE policy' = [policy EXCEPT ![group] = job.rel] /\ Goto(next) /\ UNCHANGED report
    <3>1. job'.kind = job.kind /\ job'.at = next /\ job'.rel = job.rel
      BY <2>1, <2>5, GotoFields, Zenon DEF InstallPlaces
    <3>2. job.rel \in dirs
      BY <2>1, Zenon DEF InstallerInv, InstallInv
    <3>3. policy' \in Policies /\ (group = "catalogs" => policy'.catalogs = job.rel)
      BY <1>0, <2>1, <2>5, Zenon DEF Quiet, Policies, Operation, Names
    <3>4. Quiet'
      BY <1>0, <1>3, <3>3, Zenon DEF Quiet, IdentityInv, LinksAreComplete, Unlinked
    <3>5. InstallInv' /\ RollbackInv'
      BY <1>3, <2>1, <3>1, <3>2, <3>3, Zenon DEF InstallInv, RollbackInv, RollbackKinds, InstallPlaces
    <3> QED
      BY <1>3, <2>1, <2>5, <3>4, <3>5, GoesOn, Zenon DEF InstallPlaces
  <2> QED
    BY <1>3, <2>3, <2>4, <2>5, Zenon DEF WriteFiles
<1>4. CASE WritePolicy
  BY <1>3, <1>4, Zenon DEF WritePolicy
<1>5. CASE EnsureIdentity
  <2>1. /\ job \in Operation /\ job # NoJob /\ job.at = "identity" /\ job.kind = "install"
        /\ report = NoReport
    BY <1>0, <1>5, JobFields, Zenon DEF EnsureIdentity
  <2>2. UNCHANGED <<dirs, link, policy, units, database>>
    BY <1>5, Zenon DEF EnsureIdentity
  <2>3. job.rel \in dirs /\ policy.catalogs = job.rel
    BY <2>1, Zenon DEF InstallerInv, InstallInv
  <2>4. CASE identity < CaCert /\ identity' = 1 /\ Goto("keys") /\ UNCHANGED report
    <3>1. job'.kind = job.kind /\ job'.at = "keys" /\ job'.rel = job.rel
      BY <2>1, <2>4, GotoFields, Zenon DEF InstallPlaces
    <3>2. Unlinked(link) /\ identity' \in 1 .. AllFiles - 1
      BY <1>0, <2>4, SMT, SMTT(30) DEF Quiet, IdentityInv, CaCert, AllFiles
    <3>3. Quiet'
      BY <1>0, <2>2, <2>4, <3>2, SMT, SMTT(30) DEF Quiet, IdentityInv, LinksAreComplete, Unlinked, AllFiles
    <3>4. InstallInv' /\ RollbackInv'
      BY <2>1, <2>2, <2>3, <3>1, <3>2, Zenon DEF InstallInv, RollbackInv, RollbackKinds, InstallPlaces
    <3> QED
      BY <2>1, <2>2, <2>4, <3>3, <3>4, GoesOn, Zenon DEF InstallPlaces
  <2>5. CASE Material /\ Goto("previous") /\ UNCHANGED <<identity, report>>
    <3>1. job'.kind = job.kind /\ job'.at = "previous" /\ job'.rel = job.rel
      BY <2>1, <2>5, GotoFields, Zenon DEF InstallPlaces
    <3>2. Quiet'
      BY <1>0, <2>2, <2>5, Zenon DEF Quiet, IdentityInv, LinksAreComplete, Unlinked
    <3>3. InstallInv' /\ RollbackInv'
      BY <2>1, <2>2, <2>3, <2>5, <3>1, Zenon
         DEF InstallInv, RollbackInv, RollbackKinds, InstallPlaces, Material
    <3> QED
      BY <2>1, <2>2, <2>5, <3>2, <3>3, GoesOn, Zenon DEF InstallPlaces
  <2>6. CASE Answer("failed", FALSE) /\ UNCHANGED identity
    BY <2>1, <2>2, <2>6, GivesUp, Zenon DEF disk
  <2> QED
    BY <1>5, <2>4, <2>5, <2>6, Zenon DEF EnsureIdentity
<1>6. CASE WriteKeys
  <2>1. /\ job \in Operation /\ job # NoJob /\ job.at = "keys" /\ job.kind = "install"
        /\ report = NoReport
    BY <1>0, <1>6, JobFields, Zenon DEF WriteKeys
  <2>2. UNCHANGED <<dirs, link, policy, units, database>>
    BY <1>6, Zenon DEF WriteKeys
  <2>3. /\ job.rel \in dirs /\ policy.catalogs = job.rel /\ identity \in 1 .. AllFiles - 1
        /\ Unlinked(link)
    BY <1>0, <2>1, SMT, SMTT(30) DEF InstallerInv, InstallInv, Quiet, IdentityInv, AllFiles
  <2>4. identity' \in {identity, identity + 1} => Quiet'
    BY <1>0, <2>2, <2>3, SMT, SMTT(30) DEF Quiet, IdentityInv, LinksAreComplete, Unlinked, AllFiles
  <2>5. CASE identity' \in {identity, identity + 1} /\ Answer("failed", FALSE)
    BY <2>1, <2>2, <2>4, <2>5, FailureKeepsInv, Zenon
  <2>6. CASE /\ identity' = identity + 1 /\ UNCHANGED report
             /\ Goto(IF identity + 1 = AllFiles THEN "previous" ELSE "keys")
    <3> DEFINE next == IF identity + 1 = AllFiles THEN "previous" ELSE "keys"
    <3>1. next \in {"previous", "keys"} /\ (next = "previous" <=> identity' = AllFiles)
      BY <2>6, Zenon
    <3> HIDE DEF next
    <3>2. Goto(next)
      BY <2>6, Zenon DEF next
    <3>3. job'.kind = job.kind /\ job'.at = next /\ job'.rel = job.rel
      BY <2>1, <3>1, <3>2, GotoFields, Zenon DEF InstallPlaces
    <3>4. identity' # AllFiles => identity' \in 1 .. AllFiles - 1
      BY <2>3, <2>6, SMT, SMTT(30) DEF AllFiles
    <3>5. InstallInv' /\ RollbackInv'
      BY <2>1, <2>2, <2>3, <3>1, <3>3, <3>4, Zenon
         DEF InstallInv, RollbackInv, RollbackKinds, InstallPlaces, Material
    <3> QED
      BY <2>1, <2>2, <2>4, <2>6, <3>1, <3>2, <3>5, GoesOn, Zenon DEF InstallPlaces
  <2> QED
    BY <1>6, <2>5, <2>6, Zenon DEF WriteKeys
<1> QED
  BY <1>1, <1>2, <1>4, <1>5, <1>6, Zenon

(* The links, the restarts and the checks after them.                       *)
LEMMA ActivationKeepsInv ==
  ASSUME InstallerInv, LinkPrevious \/ LinkCurrent \/ Integrate \/ Protect
  PROVE  InstallerInv'
<1>0. InstallerTypes /\ Quiet
  BY QuietNow, Zenon DEF InstallerInv
<1>1. CASE LinkPrevious
  <2>1. /\ job \in Operation /\ job # NoJob /\ job.at = "previous" /\ job.kind = "install"
        /\ report = NoReport
    BY <1>0, <1>1, JobFields, Zenon DEF LinkPrevious
  <2>2. CASE Answer("failed", FALSE) /\ UNCHANGED <<disk, units, database>>
    BY <2>1, <2>2, GivesUp, Zenon
  <2>3. CASE /\ Goto("current") /\ UNCHANGED report
             /\ link' = IF job.snap.link.current = NoRelease THEN link
                        ELSE [link EXCEPT !.previous = job.snap.link.current]
             /\ UNCHANGED <<dirs, policy, identity, units, database>>
    <3>1. /\ job'.kind = job.kind /\ job'.at = "current" /\ job'.rel = job.rel
          /\ job'.snap = job.snap
      BY <2>1, <2>3, GotoFields, Zenon DEF InstallPlaces
    <3>2. job.rel \in dirs /\ policy.catalogs = job.rel /\ identity = AllFiles
      BY <2>1, Zenon DEF InstallerInv, InstallInv, Material
    <3>3. job.snap.link.current \in dirs \union {NoRelease} /\ job.snap.link.current \in Names
      BY <1>0, <2>1, Zenon DEF InstallerInv, SnapInv, WholeIn, Operation, Snapshots, Links
    <3>4. /\ link' \in Links /\ {link'.current, link'.previous} \subseteq dirs \union {NoRelease}
          /\ job.snap.link.current # NoRelease => link'.previous = job.snap.link.current
      BY <1>0, <2>3, <3>3, Zenon DEF Quiet, Links, LinksAreComplete
    <3>5. Quiet'
      BY <1>0, <2>3, <3>2, <3>4, Zenon DEF Quiet, IdentityInv, LinksAreComplete
    <3>6. InstallInv' /\ RollbackInv'
      BY <2>1, <2>3, <3>1, <3>2, <3>4, Zenon
         DEF InstallInv, RollbackInv, RollbackKinds, InstallPlaces, Material
    <3> QED
      BY <2>1, <2>3, <3>5, <3>6, GoesOn, Zenon DEF InstallPlaces
  <2> QED
    BY <1>1, <2>2, <2>3, Zenon DEF LinkPrevious, Gives
<1>2. CASE LinkCurrent
  <2>1. /\ job \in Operation /\ job # NoJob /\ job.at = "current" /\ job.kind = "install"
        /\ report = NoReport
    BY <1>0, <1>2, JobFields, Zenon DEF LinkCurrent
  <2>2. CASE Answer("failed", FALSE) /\ UNCHANGED <<disk, units, database>>
    BY <2>1, <2>2, GivesUp, Zenon
  <2>3. CASE /\ Goto("executor") /\ UNCHANGED report
             /\ link' = [link EXCEPT !.current = job.rel]
             /\ UNCHANGED <<dirs, policy, identity, units, database>>
    <3>1. /\ job'.kind = job.kind /\ job'.at = "executor" /\ job'.rel = job.rel
          /\ job'.snap = job.snap
      BY <2>1, <2>3, GotoFields, Zenon DEF InstallPlaces
    <3>2. /\ job.rel \in dirs /\ policy.catalogs = job.rel /\ identity = AllFiles
          /\ job.snap.link.current # NoRelease => link.previous = job.snap.link.current
      BY <2>1, Zenon DEF InstallerInv, InstallInv, Material
    <3>3. link' \in Links /\ link'.current = job.rel /\ link'.previous = link.previous
      BY <1>0, <2>1, <2>3, Zenon DEF Quiet, Links, Operation, Names
    <3>4. Quiet'
      BY <1>0, <2>3, <3>2, <3>3, Zenon DEF Quiet, IdentityInv, LinksAreComplete
    <3>5. InstallInv' /\ RollbackInv'
      BY <2>1, <2>3, <3>1, <3>2, <3>3, Zenon
         DEF InstallInv, RollbackInv, RollbackKinds, InstallPlaces, Material
    <3> QED
      BY <2>1, <2>3, <3>4, <3>5, GoesOn, Zenon DEF InstallPlaces
  <2> QED
    BY <1>2, <2>2, <2>3, Zenon DEF LinkCurrent, Gives
<1>3. CASE Integrate
  <2>0. UNCHANGED <<disk, database, report>>
    BY <1>3, Zenon DEF Integrate, Restarts
  <2>1. PICK step \in {"executor", "agent"} :
          /\ job \in Operation /\ job # NoJob /\ job.at = step /\ job.kind = "install"
          /\ report = NoReport
    BY <1>0, <1>3, JobFields, Zenon DEF Integrate, Restarts
  <2>2. /\ job.rel \in dirs /\ policy.catalogs = job.rel /\ identity = AllFiles
        /\ job.snap.link.current # NoRelease => link.previous = job.snap.link.current
        /\ link.current = job.rel
        /\ job.at = "agent" => units.executor = job.rel
    BY <2>1, Zenon DEF InstallerInv, InstallInv, Material
  <2>3. PICK next \in {"agent", "protect", "unlink"} :
          /\ Goto(next) /\ units' \in [executor : Names, agent : Names]
          /\ next = "agent" => units'.executor = job.rel
          /\ next = "protect" => units'.executor = job.rel /\ units'.agent = job.rel
    <3>1. link.current \in Names /\ NoRelease \in Names
          /\ units \in [executor : Names, agent : Names]
      BY <1>0, Zenon DEF Quiet, Links, Names
    <3>2. CASE job.at = "executor"
      <4>1. \/ units' = [units EXCEPT !.executor = link.current] /\ Goto("agent")
            \/ units' \in {units, [units EXCEPT !.executor = NoRelease]} /\ Goto("unlink")
        BY <1>3, <3>2, Zenon DEF Integrate, Restarts, At
      <4> QED
        BY <2>2, <3>1, <4>1, Zenon
    <3>3. CASE job.at = "agent"
      <4>1. \/ units' = [units EXCEPT !.agent = link.current] /\ Goto("protect")
            \/ units' = [units EXCEPT !.agent = NoRelease] /\ Goto("unlink")
        BY <1>3, <3>3, Zenon DEF Integrate, Restarts, At
      <4> QED
        BY <2>2, <3>1, <3>3, <4>1, Zenon
    <3> QED
      BY <2>1, <3>2, <3>3, Zenon
  <2>4. /\ job'.kind = job.kind /\ job'.at = next /\ job'.rel = job.rel /\ job'.snap = job.snap
    BY <2>1, <2>3, GotoFields, Zenon DEF InstallPlaces
  <2>5. Quiet'
    BY <1>0, <2>0, <2>3, Zenon DEF Quiet, IdentityInv, LinksAreComplete, Unlinked, disk
  <2>6. InstallInv' /\ RollbackInv'
    BY <2>0, <2>1, <2>2, <2>3, <2>4, Zenon
       DEF InstallInv, RollbackInv, RollbackKinds, InstallPlaces, Material, disk
  <2> QED
    BY <2>0, <2>1, <2>3, <2>5, <2>6, GoesOn, Zenon DEF InstallPlaces, disk
<1>4. CASE Protect
  <2>0. UNCHANGED <<disk, units, database>>
    BY <1>4, Zenon DEF Protect
  <2>1. PICK step \in {"protect", "unchanged"} :
          /\ job \in Operation /\ job # NoJob /\ job.at = step /\ job.kind = "install"
          /\ report = NoReport
    BY <1>0, <1>4, JobFields, Zenon DEF Protect
  <2>2. Quiet'
    BY <1>0, <2>0, Zenon DEF Quiet, disk, IdentityInv, LinksAreComplete, Unlinked
  <2>3. CASE Answer("failed", FALSE)
    BY <2>0, <2>1, <2>3, GivesUp, Zenon
  <2>4. CASE Answer("applied", job.at = "protect")
    <3>1. /\ job' = NoJob /\ report'.changed = (job.at = "protect")
          /\ report'.rel = job.rel /\ report'.from = job.snap.link.current
      BY <2>4, Zenon DEF Answer
    <3>2. InstallerTypes'
      BY <1>0, <2>0, <3>1, Zenon DEF InstallerTypes, disk, database
    <3>3. SnapInv' /\ InstallInv' /\ RollbackInv'
      BY <3>1, Zenon DEF SnapInv, InstallInv, RollbackInv
    <3>4. CASE job.at = "protect"
      <4>1. /\ policy.catalogs = job.rel /\ identity = AllFiles /\ link.current = job.rel
            /\ job.snap.link.current # NoRelease => link.previous = job.snap.link.current
            /\ units.executor = job.rel /\ units.agent = job.rel
        BY <2>1, <3>4, Zenon DEF InstallerInv, InstallInv, Material
      <4>2. units = [executor |-> job.rel, agent |-> job.rel]
        BY <1>0, <4>1, Zenon DEF Quiet
      <4>3. ChangedReleaseRuns'
        BY <2>0, <3>1, <4>1, <4>2, Zenon DEF ChangedReleaseRuns, Coherent, Material, disk
      <4> QED
        BY <2>0, <2>2, <3>2, <3>3, <4>3, Zenon DEF InstallerInv, Quiet, QuarantinedIsBackedUp, database
    <3>5. CASE job.at # "protect"
      <4>1. ChangedReleaseRuns'
        BY <3>1, <3>5, Zenon DEF ChangedReleaseRuns
      <4> QED
        BY <2>0, <2>2, <3>2, <3>3, <4>1, Zenon DEF InstallerInv, Quiet, QuarantinedIsBackedUp, database
    <3> QED
      BY <3>4, <3>5, Zenon
  <2>5. CASE /\ link.previous \in dirs /\ link.previous # link.current
             /\ job' = [job EXCEPT !.kind = "refused", !.at = "catalogs", !.snap = Snapshot]
             /\ UNCHANGED report
    <3>1. Snapshot \in Snapshots
      BY <1>0, Zenon DEF InstallerTypes, Snapshot, Snapshots
    <3>2. job' \in Operation /\ job'.snap = Snapshot /\ job'.kind = "refused" /\ job'.at = "catalogs"
      BY <2>1, <2>5, <3>1, Zenon DEF Operation, InstallPlaces, RollbackKinds
    <3>3. job' # NoJob
      BY <3>2, SMT, SMTT(30) DEF NoJob
    <3>4. InstallerTypes'
      BY <1>0, <2>0, <2>1, <2>5, <3>2, Zenon DEF InstallerTypes, disk, database
    <3>5. SnapInv'
      BY <1>0, <2>0, <3>2, SMT, SMTT(30)
         DEF SnapInv, Snapshot, WholeIn, Quiet, LinksAreComplete, IdentityInv, disk
    <3>6. link.previous # NoRelease
      BY <1>0, <2>5, InstallerAssumption, Zenon DEF Quiet
    <3>7. identity = AllFiles
      BY <1>0, <3>6, Zenon DEF Quiet, IdentityInv, Unlinked
    <3>8. InstallInv' /\ RollbackInv'
      BY <2>0, <2>5, <3>2, <3>7, SMT, SMTT(30)
         DEF InstallInv, RollbackInv, RollbackKinds, RollbackPlaces, Material, Target, Snapshot, disk
    <3>9. ChangedReleaseRuns' /\ QuarantinedIsBackedUp'
      BY <2>0, <3>3, Zenon DEF InstallerInv, ChangedReleaseRuns, QuarantinedIsBackedUp, database
    <3> QED
      BY <2>2, <3>4, <3>5, <3>8, <3>9, Zenon DEF InstallerInv, Quiet
  <2> QED
    BY <1>4, <2>3, <2>4, <2>5, Zenon DEF Protect
<1> QED
  BY <1>1, <1>2, <1>3, <1>4, Zenon

(* TransactionSnapshot::restore brings back links, files and identity that  *)
(* belong together.                                                         *)
LEMMA UndoKeepsInv ==
  ASSUME InstallerInv, Unlink \/ Relink \/ RestoreFiles \/ RemoveRelease
  PROVE  InstallerInv'
<1>0. InstallerTypes /\ Quiet
  BY QuietNow, Zenon DEF InstallerInv
<1>1. PICK step \in {"unlink", "relink", "unprevious", "reprevious", "restore", "remove"} :
        /\ job \in Operation /\ job # NoJob /\ job.at = step /\ job.kind = "install"
        /\ report = NoReport
  BY <1>0, JobFields, Zenon DEF Unlink, Relink, RestoreFiles, RemoveRelease
<1>2. /\ job.snap \in Snapshots /\ job.snap.dirs \subseteq dirs
      /\ WholeIn(job.snap.link, job.snap.dirs)
      /\ Unlinked(job.snap.link) \/ job.snap.identity = AllFiles
      /\ {job.snap.link.current, job.snap.link.previous, NoRelease} \subseteq Names
  BY <1>1, Zenon DEF InstallerInv, SnapInv, Operation, Snapshots, Links, Names
<1>3. CASE step \in {"unlink", "relink", "unprevious", "reprevious"}
  <2>1. identity = AllFiles
    BY <1>1, <1>3, Zenon DEF InstallerInv, InstallInv, Material
  <2>2. PICK next \in {"relink", "unprevious", "reprevious", "restore"} :
          /\ Goto(next) /\ UNCHANGED <<dirs, policy, identity, units, database, report>>
          /\ link' \in Links
          /\ link'.current \in {NoRelease, link.current, job.snap.link.current}
          /\ link'.previous \in {NoRelease, link.previous, job.snap.link.previous}
          /\ next = "unprevious" => link'.current = job.snap.link.current
          /\ next \in {"reprevious", "restore"} => link'.current = link.current
          /\ next = "reprevious" => step = "unprevious"
          /\ next = "restore" => link'.previous = job.snap.link.previous /\ step = "reprevious"
    <3>1. link \in Links
      BY <1>0, Zenon DEF Quiet
    <3> QED
      BY <1>1, <1>2, <1>3, <3>1, Zenon DEF Unlink, Relink, RestoreFiles, RemoveRelease, At, Links
  <2>3. /\ job'.kind = job.kind /\ job'.at = next /\ job'.rel = job.rel /\ job'.snap = job.snap
    BY <1>1, <2>2, GotoFields, Zenon DEF InstallPlaces
  <2>4. next \in {"reprevious", "restore"} => link.current = job.snap.link.current
    BY <1>1, <2>2, Zenon DEF InstallerInv, InstallInv
  <2>5. Quiet'
    BY <1>0, <1>2, <2>1, <2>2, ZenonT(40) DEF Quiet, IdentityInv, LinksAreComplete, WholeIn
  <2>6. InstallInv' /\ RollbackInv'
    BY <1>1, <2>1, <2>2, <2>3, <2>4, Zenon
       DEF InstallInv, RollbackInv, RollbackKinds, InstallPlaces, Material
  <2> QED
    BY <1>1, <2>2, <2>5, <2>6, GoesOn, Zenon DEF InstallPlaces
<1>4. CASE step = "restore"
  <2>1. /\ policy' = job.snap.policy /\ identity' = job.snap.identity /\ Goto("remove")
        /\ UNCHANGED <<dirs, link, units, database, report>>
    BY <1>1, <1>4, Zenon DEF Unlink, Relink, RestoreFiles, RemoveRelease, At
  <2>2. link.current = job.snap.link.current /\ link.previous = job.snap.link.previous
    BY <1>1, <1>4, Zenon DEF InstallerInv, InstallInv
  <2>3. /\ job'.kind = job.kind /\ job'.at = "remove" /\ job'.rel = job.rel /\ job'.snap = job.snap
    BY <1>1, <2>1, GotoFields, Zenon DEF InstallPlaces
  <2>4. Quiet'
    BY <1>0, <1>2, <2>1, <2>2, Zenon DEF Quiet, IdentityInv, Unlinked, LinksAreComplete, Snapshots
  <2>5. InstallInv' /\ RollbackInv'
    BY <1>1, <2>1, <2>2, <2>3, Zenon DEF InstallInv, RollbackInv, RollbackKinds, InstallPlaces
  <2> QED
    BY <1>1, <2>1, <2>4, <2>5, GoesOn, Zenon DEF InstallPlaces
<1>5. CASE step = "remove"
  <2>1. /\ dirs' = job.snap.dirs /\ Answer("failed", FALSE)
        /\ UNCHANGED <<link, policy, identity, units, database>>
    BY <1>1, <1>5, Zenon DEF Unlink, Relink, RestoreFiles, RemoveRelease, At
  <2>2. link.current = job.snap.link.current /\ link.previous = job.snap.link.previous
    BY <1>1, <1>5, Zenon DEF InstallerInv, InstallInv
  <2>3. Quiet'
    BY <1>0, <1>2, <2>1, <2>2, ZenonT(40)
       DEF Quiet, IdentityInv, Unlinked, LinksAreComplete, WholeIn, Snapshots
  <2> QED
    BY <1>1, <2>1, <2>3, FailureKeepsInv, Zenon
<1> QED
  BY <1>3, <1>4, <1>5, Zenon

(* A rollback that starts finds two complete releases and an identity.      *)
LEMMA RollbackStarts ==
  ASSUME InstallerInv, Rollback
  PROVE  InstallerInv'
<1>0. InstallerTypes /\ Quiet
  BY QuietNow, Zenon DEF InstallerInv
<1>1. Snapshot \in Snapshots
  BY <1>0, Zenon DEF InstallerTypes, Snapshot, Snapshots
<1>2. /\ {link.current, link.previous} \subseteq dirs
      /\ job' = [kind |-> "rollback", rel |-> link.previous, snap |-> Snapshot, ids |-> {},
                 at |-> "catalogs"]
      /\ report' = NoReport /\ UNCHANGED <<disk, units, database>>
  BY Zenon  DEF Rollback
<1>3. job' \in Operation /\ job' # NoJob
  BY <1>0, <1>1, <1>2, Zenon DEF Operation, InstallPlaces, RollbackKinds, NoJob, Quiet
<1>4. Quiet'
  BY <1>0, <1>2, Zenon DEF Quiet, disk, IdentityInv, LinksAreComplete, Unlinked
<1>5. InstallerTypes'
  BY <1>0, <1>2, <1>3, Zenon DEF InstallerTypes, disk, database
<1>6. identity = AllFiles
  BY <1>0, <1>2, InstallerAssumption, Zenon DEF Quiet, IdentityInv, Unlinked
<1>7. InstallInv' /\ RollbackInv'
  BY <1>2, <1>6, Zenon
     DEF InstallInv, RollbackInv, RollbackKinds, RollbackPlaces, Target, Snapshot, Material, disk
<1>8. SnapInv'
  BY <1>0, <1>2, Zenon DEF SnapInv, Snapshot, WholeIn, Quiet, LinksAreComplete, IdentityInv, disk
<1>9. ChangedReleaseRuns' /\ QuarantinedIsBackedUp'
  BY <1>2, <1>3, Zenon DEF InstallerInv, ChangedReleaseRuns, QuarantinedIsBackedUp, database
<1> QED
  BY <1>4, <1>5, <1>7, <1>8, <1>9, Zenon DEF InstallerInv, Quiet

(* The steps of rollback_release, and what it undoes when the services do   *)
(* not come up.                                                             *)
LEMMA RollbackKeepsInv ==
  ASSUME InstallerInv, NEW kind \in RollbackKinds, RollbackStep(kind)
  PROVE  InstallerInv'
<1>0. InstallerTypes /\ Quiet
  BY QuietNow, Zenon DEF InstallerInv
<1>1. PICK step \in RollbackPlaces :
        /\ job \in Operation /\ job # NoJob /\ job.at = step /\ job.kind = kind
        /\ report = NoReport /\ At(kind, step)
  BY <1>0, JobFields, Zenon DEF RollbackStep, RollbackCatalogs, RollbackLinks, Restarts, RollbackUndo,
       RollbackDone, RollbackPlaces
<1>2. /\ Target \in dirs /\ Target \in Names /\ Target \in job.snap.dirs /\ identity = AllFiles
      /\ kind = "rollback" => job.rel = Target
      /\ step \in {"current", "previous", "executor", "agent", "done"} => policy.catalogs = Target
      /\ step \in {"previous", "executor", "agent", "done"} => link.current = Target
      /\ step \in {"executor", "agent", "done"} => link.previous = job.snap.link.current
      /\ step \in {"agent", "done"} => units.executor = Target
      /\ step = "done" => units.agent = Target
  BY <1>0, <1>1, Zenon DEF InstallerInv, RollbackInv, SnapInv, Material, Quiet, Names
<1>3. /\ {job.snap.link.current, job.snap.link.previous} \subseteq dirs \union {NoRelease}
      /\ {job.snap.link.current, job.snap.link.previous} \subseteq Names
      /\ Target = job.snap.link.previous
  BY <1>1, Zenon DEF InstallerInv, SnapInv, WholeIn, Operation, Snapshots, Links, Target
<1>4. kind # "install"
  BY Zenon  DEF RollbackKinds
<1>5. ASSUME NEW next \in RollbackPlaces, Goto(next), UNCHANGED <<dirs, identity, database, report>>,
             link' \in Links, policy' \in Policies, units' \in [executor : Names, agent : Names],
             {link'.current, link'.previous} \subseteq dirs \union {NoRelease},
             next \in {"current", "previous", "executor", "agent", "done"} =>
               policy'.catalogs = Target,
             next \in {"previous", "executor", "agent", "done"} => link'.current = Target,
             next \in {"executor", "agent", "done"} => link'.previous = job.snap.link.current,
             next \in {"agent", "done"} => units'.executor = Target,
             next = "done" => units'.agent = Target
      PROVE  InstallerInv'
  <2>1. job'.kind = kind /\ job'.at = next /\ job'.rel = job.rel /\ job'.snap = job.snap
    BY <1>1, <1>5, GotoFields, Zenon
  <2>2. Target' = Target
    BY <2>1, Zenon DEF Target
  <2>3. Quiet'
    BY <1>0, <1>2, <1>5, Zenon DEF Quiet, IdentityInv, LinksAreComplete
  <2>4. InstallInv'
    BY <1>4, <2>1, Zenon DEF InstallInv
  <2>5. RollbackInv'
    BY <1>2, <1>5, <2>1, <2>2, Zenon DEF RollbackInv, Material
  <2> QED
    BY <1>1, <1>5, <2>3, <2>4, <2>5, GoesOn, Zenon
<1>6. CASE RollbackCatalogs(kind)
  <2>1. UNCHANGED <<dirs, link, identity, units, database>> /\ step = "catalogs"
    BY <1>1, <1>6, Zenon DEF RollbackCatalogs, At
  <2>2. CASE policy' = [policy EXCEPT !.catalogs = Target] /\ Goto("current") /\ UNCHANGED report
    <3>1. policy' \in Policies /\ policy'.catalogs = Target
      BY <1>0, <1>2, <2>2, Zenon DEF Quiet, Policies
    <3> QED
      BY <1>0, <1>5, <2>1, <2>2, <3>1, Zenon DEF RollbackPlaces, Quiet, LinksAreComplete
  <2>3. ASSUME NEW c \in {Torn, link.current}, policy' = [policy EXCEPT !.catalogs = c],
               Answer("failed", FALSE)
        PROVE  InstallerInv'
    <3>1. policy' \in Policies
      BY <1>0, <2>3, Zenon DEF Quiet, Policies, Links
    <3>2. Quiet'
      BY <1>0, <2>1, <3>1, Zenon DEF Quiet, IdentityInv, LinksAreComplete, Unlinked
    <3> QED
      BY <1>1, <2>1, <2>3, <3>2, FailureKeepsInv, Zenon
  <2> QED
    BY <1>6, <2>2, <2>3, Zenon DEF RollbackCatalogs
<1>7. CASE RollbackLinks(kind)
  <2>1. CASE Answer("failed", FALSE) /\ UNCHANGED <<disk, units, database>>
    BY <1>1, <2>1, GivesUp, Zenon
  <2>2. CASE /\ step = "current" /\ Goto("previous") /\ UNCHANGED report
             /\ link' = [link EXCEPT !.current = Target]
             /\ UNCHANGED <<dirs, policy, identity, units, database>>
    <3>1. link' \in Links /\ link'.current = Target /\ link'.previous = link.previous
      BY <1>0, <1>2, <2>2, Zenon DEF Quiet, Links
    <3> QED
      BY <1>0, <1>2, <1>5, <2>2, <3>1, ZenonT(40) DEF RollbackPlaces, Quiet, LinksAreComplete
  <2>3. CASE /\ step = "previous" /\ Goto("executor") /\ UNCHANGED report
             /\ link' = [link EXCEPT !.previous = job.snap.link.current]
             /\ UNCHANGED <<dirs, policy, identity, units, database>>
    <3>1. /\ link' \in Links /\ link'.current = link.current
          /\ link'.previous = job.snap.link.current
      BY <1>0, <1>3, <2>3, Zenon DEF Quiet, Links
    <3> QED
      BY <1>0, <1>2, <1>3, <1>5, <2>3, <3>1, Zenon DEF RollbackPlaces, Quiet, LinksAreComplete
  <2> QED
    BY <1>1, <1>7, <2>1, <2>2, <2>3, Zenon DEF RollbackLinks, Gives, At
<1>8. CASE Restarts(kind, "undo", "done")
  <2>0. UNCHANGED <<disk, database, report>> /\ step \in {"executor", "agent"}
    BY <1>1, <1>8, Zenon DEF Restarts, At
  <2>1. link.current = Target /\ NoRelease \in Names /\ units \in [executor : Names, agent : Names]
    BY <1>0, <1>2, <2>0, Zenon DEF Quiet, Names
  <2>2. PICK next \in {"agent", "done", "undo"} :
          /\ Goto(next) /\ units' \in [executor : Names, agent : Names]
          /\ next = "agent" => units'.executor = Target
          /\ next = "done" => units'.executor = Target /\ units'.agent = Target
    <3>1. CASE step = "executor"
      <4>1. \/ units' = [units EXCEPT !.executor = Target] /\ Goto("agent")
            \/ units' \in {units, [units EXCEPT !.executor = NoRelease]} /\ Goto("undo")
        BY <1>1, <1>8, <2>1, <3>1, Zenon DEF Restarts, At
      <4> QED
        BY <1>2, <2>1, <4>1, Zenon
    <3>2. CASE step = "agent"
      <4>1. \/ units' = [units EXCEPT !.agent = Target] /\ Goto("done")
            \/ units' = [units EXCEPT !.agent = NoRelease] /\ Goto("undo")
        BY <1>1, <1>8, <2>1, <3>2, Zenon DEF Restarts, At
      <4> QED
        BY <1>2, <2>1, <3>2, <4>1, Zenon
    <3> QED
      BY <2>0, <3>1, <3>2, Zenon
  <2> QED
    BY <1>0, <1>2, <1>5, <2>0, <2>1, <2>2, Zenon DEF RollbackPlaces, Quiet, LinksAreComplete, disk
<1>9. CASE RollbackUndo(kind)
  <2>1. CASE /\ step = "undo" /\ Goto("undo2")
             /\ link' = [link EXCEPT !.current = job.snap.link.current]
             /\ UNCHANGED <<dirs, policy, identity, units, database, report>>
    <3>1. /\ link' \in Links /\ link'.current = job.snap.link.current
          /\ link'.previous = link.previous
      BY <1>0, <1>3, <2>1, Zenon DEF Quiet, Links
    <3> QED
      BY <1>0, <1>3, <1>5, <2>1, <3>1, Zenon DEF RollbackPlaces, Quiet, LinksAreComplete
  <2>2. CASE /\ step = "undo2" /\ Goto("undo3")
             /\ link' = [link EXCEPT !.previous = job.snap.link.previous]
             /\ UNCHANGED <<dirs, policy, identity, units, database, report>>
    <3>1. /\ link' \in Links /\ link'.current = link.current
          /\ link'.previous = job.snap.link.previous
      BY <1>0, <1>3, <2>2, Zenon DEF Quiet, Links
    <3> QED
      BY <1>0, <1>3, <1>5, <2>2, <3>1, Zenon DEF RollbackPlaces, Quiet, LinksAreComplete
  <2>3. ASSUME NEW c \in {Torn, link.current}, policy' = [policy EXCEPT !.catalogs = c],
               Answer("failed", FALSE), UNCHANGED <<dirs, link, identity, units, database>>
        PROVE  InstallerInv'
    <3>1. policy' \in Policies
      BY <1>0, <2>3, Zenon DEF Quiet, Policies, Links
    <3>2. Quiet'
      BY <1>0, <2>3, <3>1, Zenon DEF Quiet, IdentityInv, LinksAreComplete, Unlinked
    <3> QED
      BY <1>1, <2>3, <3>2, FailureKeepsInv, Zenon
  <2> QED
    BY <1>1, <1>9, <2>1, <2>2, <2>3, Zenon DEF RollbackUndo, At
<1>10. CASE RollbackDone(kind)
  <2>0. UNCHANGED <<disk, units, database>> /\ step = "done" /\ RollbackEnds(kind)
    BY <1>1, <1>10, Zenon DEF RollbackDone, At
  <2>1. CASE kind # "rollback"
    <3>1. Answer("failed", FALSE)
      BY <2>0, <2>1, Zenon DEF RollbackEnds
    <3> QED
      BY <1>1, <2>0, <3>1, GivesUp, Zenon
  <2>2. CASE kind = "rollback"
    <3>1. /\ job' = NoJob
          /\ report'.rel = Target /\ report'.from = job.snap.link.current
      BY <1>2, <2>0, <2>2, Zenon DEF RollbackEnds, Answer
    <3>2. InstallerTypes'
      BY <1>0, <2>0, <3>1, Zenon DEF InstallerTypes, disk, database
    <3>3. SnapInv' /\ InstallInv' /\ RollbackInv'
      BY <3>1, Zenon DEF SnapInv, InstallInv, RollbackInv
    <3>4. units = [executor |-> Target, agent |-> Target]
      BY <1>0, <1>2, <2>0, Zenon DEF Quiet
    <3>5. ChangedReleaseRuns'
      BY <1>2, <2>0, <3>1, <3>4, Zenon DEF ChangedReleaseRuns, Coherent, Material, disk
    <3>6. Quiet'
      BY <1>0, <2>0, Zenon DEF Quiet, disk, IdentityInv, LinksAreComplete, Unlinked
    <3> QED
      BY <2>0, <3>2, <3>3, <3>5, <3>6, Zenon DEF InstallerInv, Quiet, QuarantinedIsBackedUp, database
  <2> QED
    BY <2>1, <2>2, Zenon
<1> QED
  BY <1>6, <1>7, <1>8, <1>9, <1>10, Zenon DEF RollbackStep

(* Deaths, reboots and the running agent.                                   *)
LEMMA ApplianceKeepsInv ==
  ASSUME InstallerInv, InstallerDies \/ HostReboots \/ \E i \in StateRows : AgentMoves(i)
  PROVE  InstallerInv'
<1>0. InstallerTypes /\ Quiet
  BY QuietNow, Zenon DEF InstallerInv
<1>1. CASE InstallerDies
  <2>1. Quiet' /\ UNCHANGED database /\ job # NoJob /\ job' = NoJob /\ report' = report
    BY <1>0, <1>1, Zenon DEF InstallerDies, Quiet, disk, IdentityInv, LinksAreComplete, Unlinked
  <2>2. report.st # "applied"
    BY <1>0, <2>1, SMT, SMTT(30) DEF InstallerTypes, NoReport
  <2> QED
    BY <2>1, <2>2, EndKeepsInv, Zenon
<1>2. CASE HostReboots
  <2>0. UNCHANGED <<disk, database, report>> /\ job' = NoJob
    BY <1>2, Zenon DEF HostReboots
  <2>1. units' = [executor |-> link.current, agent |-> link.current]
    BY <1>0, <1>2, Zenon DEF HostReboots, Quiet
  <2>2. Quiet'
    BY <1>0, <2>0, <2>1, Zenon DEF Quiet, disk, IdentityInv, LinksAreComplete, Unlinked, Links
  <2>3. CASE report.st # "applied"
    BY <2>0, <2>2, <2>3, EndKeepsInv, Zenon
  <2>4. CASE report.st = "applied"
    <3>1. job = NoJob
      BY <1>0, <2>4, SMT, SMTT(30) DEF InstallerTypes, NoReport
    <3>2. InstallerTypes'
      BY <1>0, <2>0, <2>2, Zenon DEF InstallerTypes, Quiet, database
    <3>3. SnapInv' /\ InstallInv' /\ RollbackInv'
      BY <2>0, Zenon DEF SnapInv, InstallInv, RollbackInv
    <3>4. ChangedReleaseRuns'
      BY <2>0, <2>1, <3>1, Zenon DEF InstallerInv, ChangedReleaseRuns, Coherent, Material, disk
    <3> QED
      BY <2>0, <2>2, <3>2, <3>3, <3>4, Zenon DEF InstallerInv, Quiet, QuarantinedIsBackedUp, database
  <2> QED
    BY <2>3, <2>4, Zenon
<1>3. ASSUME NEW i \in StateRows, AgentMoves(i) PROVE InstallerInv'
  <2>1. /\ UNCHANGED <<disk, units, backups, job, report>> /\ dbrows[i] # "deleted"
        /\ dbrows' = [dbrows EXCEPT ![i] = IF @ = "running" THEN "stopped" ELSE "running"]
    BY <1>3, Zenon DEF AgentMoves
  <2>2. /\ dbrows' \in [StateRows -> {"stopped", "running", "deleted"}]
        /\ \A j \in StateRows : dbrows'[j] = "deleted" <=> dbrows[j] = "deleted"
    BY <1>0, <2>1, Zenon DEF InstallerTypes
  <2>3. InstallerTypes' /\ Quiet'
    BY <1>0, <2>1, <2>2, Zenon
       DEF InstallerTypes, Quiet, disk, IdentityInv, LinksAreComplete, Unlinked
  <2>4. SnapInv' /\ RollbackInv' /\ ChangedReleaseRuns'
    BY <2>1, Zenon DEF InstallerInv, SnapInv, RollbackInv, ChangedReleaseRuns, Coherent, Material,
         Target, disk
  <2>5. QuarantinedIsBackedUp'
    BY <2>1, <2>2, Zenon DEF InstallerInv, QuarantinedIsBackedUp
  <2>6. job # NoJob => job.ids \subseteq StateRows
    BY <1>0, Zenon DEF InstallerTypes, Operation
  <2>7. InstallInv'
    BY <2>1, <2>2, <2>6, Zenon DEF InstallerInv, InstallInv, Material, disk
  <2> QED
    BY <2>3, <2>4, <2>5, <2>7, Zenon DEF InstallerInv, Quiet
<1> QED
  BY <1>1, <1>2, <1>3, Zenon

(* Every step of a job, of the host and of the units keeps the invariant.   *)
LEMMA InstallerInvInductive == InstallerInv /\ [InstallerNext]_installerVars => InstallerInv'
<1> SUFFICES ASSUME InstallerInv, [InstallerNext]_installerVars PROVE InstallerInv'
  BY Zenon
<1>1. CASE UNCHANGED installerVars
  <2>1. /\ dirs' = dirs /\ link' = link /\ policy' = policy /\ identity' = identity
        /\ units' = units /\ dbrows' = dbrows /\ backups' = backups /\ job' = job
        /\ report' = report
    BY <1>1, Zenon DEF installerVars
  <2>2. InstallerTypes' /\ IdentityInv'
    BY <2>1, Zenon DEF InstallerInv, InstallerTypes, IdentityInv
  <2>3. Material' = Material /\ Target' = Target
    BY <2>1, Zenon DEF Material, Target
  <2>4. SnapInv' /\ QuarantinedIsBackedUp'
    BY <2>1, Zenon DEF InstallerInv, SnapInv, QuarantinedIsBackedUp
  <2>5. InstallInv'
    BY <2>1, <2>3, Zenon DEF InstallerInv, InstallInv
  <2>6. RollbackInv'
    BY <2>1, <2>3, Zenon DEF InstallerInv, RollbackInv
  <2>7. LinksAreComplete' /\ ChangedReleaseRuns'
    BY <2>1, <2>3, Zenon DEF InstallerInv, LinksAreComplete, ChangedReleaseRuns, Coherent
  <2> QED
    BY <2>2, <2>4, <2>5, <2>6, <2>7, Zenon DEF InstallerInv
<1> QED
  BY <1>1, QuarantineKeepsInv, FilesKeepInv, ActivationKeepsInv, UndoKeepsInv, RollbackStarts,
     RollbackKeepsInv, ApplianceKeepsInv, Zenon DEF InstallerNext

(* Through any number of installs, upgrades and rollbacks of any releases,  *)
(* with failures and deaths at every step: both links name complete         *)
(* releases, an operation that reports a change leaves links, catalogs,     *)
(* services and identity of one release behind and the way back to the one  *)
(* it replaced, and every row the quarantine deleted is in a backup.        *)
THEOREM InstallsAlwaysSound == InstallerSpec => []InstallsAreSound
<1>1. InstallerInit => InstallerInv
  <2> SUFFICES ASSUME InstallerInit PROVE InstallerInv
    BY Zenon
  <2>1. InstallerTypes
    BY SMT, SMTT(30) DEF InstallerInit, InstallerTypes, Links, Policies, Names, AllFiles
  <2>2. IdentityInv /\ SnapInv /\ InstallInv /\ RollbackInv
    BY Zenon  DEF InstallerInit, IdentityInv, Unlinked, SnapInv, InstallInv, RollbackInv
  <2>3. LinksAreComplete /\ ChangedReleaseRuns /\ QuarantinedIsBackedUp
    BY Zenon  DEF InstallerInit, LinksAreComplete, ChangedReleaseRuns, QuarantinedIsBackedUp, NoReport
  <2> QED
    BY <2>1, <2>2, <2>3, Zenon DEF InstallerInv
<1>2. InstallerInv => InstallsAreSound
  BY Zenon  DEF InstallerInv, InstallsAreSound
<1> QED
  BY <1>1, <1>2, InstallerInvInductive, PTL DEF InstallerSpec
=============================================================================
